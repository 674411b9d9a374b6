------------------------ MODULE StageJournal_proofs ------------------------
(***************************************************************************)
(* A cursor of StageJournal never misses a report: for any number of       *)
(* observers, any sizes and any budgets, what a read answers with is all   *)
(* that was published since.  The invariant behind it: the retained        *)
(* entries are the newest reports without a hole, and every cursor either  *)
(* is below the floor or has all it has not read among them.               *)
(***************************************************************************)
EXTENDS StageJournal, SequenceTheorems, WellFoundedInduction, TLAPS

-----------------------------------------------------------------------------
(* What the operators of ChangeHistory return, for every history.          *)

(* A history without batches takes no bytes. *)
LEMMA NoBytesOfNothing == Bytes(<<>>) = 0
<1>. DEFINE fld[s \in SUBSET {}] == IF s = {} THEN 0 ELSE 1
<1>1. DOMAIN <<>> = {}  OBVIOUS
<1>. QED  BY <1>1 DEF Bytes, FoldLeft, MapThenFoldSet

(* Every non-empty set of naturals below a bound has a largest element. *)
LEMMA LargestNatural ==
    ASSUME NEW n \in Nat, NEW S \in SUBSET (0..n), S # {}
    PROVE  \E m \in S : \A k \in S : k <= m
<1>. DEFINE LT == {p \in Nat \X Nat : p[1] < p[2]}
            T == {n - k : k \in S}
<1>1. T \subseteq Nat /\ T # {}
  <2>1. \A k \in S : n - k \in Nat  OBVIOUS
  <2>. QED  BY <2>1
<1>2. OpToRel(<, Nat) = LT  BY DEF OpToRel
<1>3. IsWellFoundedOn(LT, Nat)  BY <1>2, NatLessThanWellFounded
<1>. HIDE DEF LT
<1>4. PICK x \in T : \A y \in T : ~(<<y, x>> \in LT)  BY <1>1, <1>3, WFMin
<1>5. \A y, z \in Nat : y < z => <<y, z>> \in LT  BY DEF LT
<1>6. \A y \in T : x <= y
  <2>. TAKE y \in T
  <2>1. x \in Nat /\ y \in Nat /\ ~(y < x)  BY <1>1, <1>4, <1>5
  <2>. QED  BY <2>1
<1>7. PICK m \in S : x = n - m  OBVIOUS
<1>8. \A k \in S : k <= m
  <2>. HIDE DEF T
  <2>. TAKE k \in S
  <2>1. n - k \in T  BY DEF T
  <2>2. x <= n - k  BY <1>6, <2>1
  <2>3. n - m <= n - k /\ k \in Nat /\ m \in Nat  BY <1>7, <2>2
  <2>. QED  BY <2>3
<1>. QED  BY <1>8

(* Some suffix of a history fits any budget, the empty one at worst; the    *)
(* one chosen is within the limits, and a suffix.                           *)
LEMMA NewestFits ==
    ASSUME NEW E, NEW entries \in Seq(E), NEW batches \in Nat, NEW bytes \in Nat
    PROVE  LET kept == Newest(entries, batches, bytes)
           IN  kept \in Suffixes(entries) /\ Within(kept, batches, bytes)
<1>. DEFINE Fit == {s \in Suffixes(entries) : Within(s, batches, bytes)}
            Lengths == {Len(s) : s \in Fit}
<1>1. <<>> \in Fit
  <2>1. <<>> \in Suffixes(entries)  BY DEF Suffixes
  <2>2. Len(<<>>) = 0  OBVIOUS
  <2>. QED  BY <2>1, <2>2, NoBytesOfNothing DEF Within
<1>2. \A s \in Suffixes(entries) : Len(s) \in 0..Len(entries)
  <2>1. SUFFICES ASSUME NEW k \in 1..Len(entries)
                 PROVE  Len(SubSeq(entries, k, Len(entries))) \in 0..Len(entries)
    BY DEF Suffixes
  <2>. QED  OBVIOUS
<1>3. Len(entries) \in Nat /\ Lengths \in SUBSET (0..Len(entries)) /\ Lengths # {}
  <2>1. Len(entries) \in Nat  OBVIOUS
  <2>2. Lengths \in SUBSET (0..Len(entries))  BY <1>2
  <2>3. Len(<<>>) \in Lengths  BY <1>1
  <2>. QED  BY <2>1, <2>2, <2>3
<1>4. PICK m \in Lengths : \A k \in Lengths : k <= m  BY <1>3, LargestNatural
<1>5. PICK s \in Fit : Len(s) = m  OBVIOUS
<1>6. /\ s \in Suffixes(entries)
      /\ Within(s, batches, bytes)
      /\ \A t \in Suffixes(entries) : Within(t, batches, bytes) => Len(t) <= Len(s)
  BY <1>4, <1>5
<1>. QED  BY <1>6 DEF Newest

(* A suffix of a sequence is what is left after its first d elements. *)
LEMMA SuffixElements ==
    ASSUME NEW E, NEW entries \in Seq(E), NEW kept \in Suffixes(entries)
    PROVE  /\ kept \in Seq(E)
           /\ Len(kept) <= Len(entries)
           /\ \A i \in 1..Len(kept) : kept[i] = entries[Len(entries) - Len(kept) + i]
<1>1. CASE kept = <<>>  BY <1>1
<1>2. CASE \E k \in 1..Len(entries) : kept = SubSeq(entries, k, Len(entries))
  <2>1. PICK k \in 1..Len(entries) : kept = SubSeq(entries, k, Len(entries))  BY <1>2
  <2>2. Len(kept) = Len(entries) - k + 1  BY <2>1
  <2>3. \A i \in 1..Len(kept) : kept[i] = entries[k + i - 1]  BY <2>1, <2>2
  <2>4. kept \in Seq(E)  BY <2>1
  <2>. QED  BY <2>2, <2>3, <2>4
<1>. QED  BY <1>1, <1>2 DEF Suffixes

-----------------------------------------------------------------------------

Entry == [rev : Nat, bytes : Nat]
History == [entries : Seq(Entry), budget : Budgets, floor : Nat]

(* The entries of h are the reports up to revision n, without a hole.       *)
NewestOf(h, n) ==
    /\ Len(h.entries) <= n
    /\ h.floor <= n - Len(h.entries)
    /\ \A i \in 1..Len(h.entries) : h.entries[i].rev = n - Len(h.entries) + i

(* A cursor at revision c finds all it has not read in h, or knows it lost. *)
Covers(h, n, c) == c >= h.floor => n - c <= Len(h.entries)

CursorsCovered ==
    \A o \in Observers : cursor[o].stage = "this" =>
        /\ enabled
        /\ cursor[o].revision <= revision
        /\ Covers(reports, revision, cursor[o].revision)

EvidenceTypes ==
    /\ revision \in Nat
    /\ enabled \in BOOLEAN
    /\ reports \in History
    /\ cursor \in [Observers -> [stage : {"none", "this", "other"}, revision : Nat]]

IInv ==
    /\ EvidenceTypes
    /\ NewestOf(reports, revision)
    /\ ~enabled => reports.entries = <<>>
    /\ CursorsCovered

-----------------------------------------------------------------------------
(* Evicting keeps a newest suffix, and what it takes from a cursor it says. *)
LEMMA EvictKeepsNewest ==
    ASSUME NEW h \in History, NEW kept \in Suffixes(h.entries), NEW n \in Nat,
           NewestOf(h, n),
           NEW g, g = EvictDownTo(h, kept)
    PROVE  /\ g \in History
           /\ g.budget = h.budget
           /\ g.entries = kept
           /\ NewestOf(g, n)
           /\ \A c \in Nat : Covers(h, n, c) => Covers(g, n, c)
<1>. DEFINE d == Len(h.entries) - Len(kept)
            f == IF d = 0 THEN h.floor ELSE Larger(h.floor, h.entries[d].rev)
<1>1. /\ h.entries \in Seq(Entry) /\ h.floor \in Nat
      /\ h = [entries |-> h.entries, budget |-> h.budget, floor |-> h.floor]
  BY DEF History
<1>2. /\ kept \in Seq(Entry)
      /\ Len(kept) <= Len(h.entries)
      /\ \A i \in 1..Len(kept) : kept[i] = h.entries[Len(h.entries) - Len(kept) + i]
  BY <1>1, SuffixElements
<1>3. Len(kept) \in Nat /\ Len(h.entries) \in Nat /\ d \in Nat  BY <1>1, <1>2
<1>4. g.entries = kept /\ g.budget = h.budget /\ g.floor = f
  BY <1>1 DEF EvictDownTo
<1>5. d # 0 => h.entries[d] \in Entry /\ h.entries[d].rev = n - Len(kept)
  <2>. SUFFICES ASSUME d # 0  PROVE  h.entries[d] \in Entry /\ h.entries[d].rev = n - Len(kept)
    OBVIOUS
  <2>1. d \in 1..Len(h.entries)  BY <1>2, <1>3
  <2>2. h.entries[d] \in Entry  BY <1>1, <2>1
  <2>3. h.entries[d].rev = n - Len(h.entries) + d  BY <2>1 DEF NewestOf
  <2>. QED  BY <1>3, <2>2, <2>3
<1>6. f \in Nat /\ h.floor <= f /\ f <= n - Len(kept) /\ (d # 0 => n - Len(kept) <= f)
  <2>1. CASE d = 0  BY <1>1, <1>3, <2>1 DEF NewestOf
  <2>2. CASE d # 0
    <3>1. f = Larger(h.floor, n - Len(kept))  BY <1>5, <2>2
    <3>2. n - Len(kept) \in Nat  BY <1>3, <1>5, <2>2 DEF Entry
    <3>3. h.floor <= n - Len(kept)  BY <1>1, <1>2, <1>3 DEF NewestOf
    <3>. QED  BY <1>1, <1>3, <3>1, <3>2, <3>3, <2>2 DEF Larger
  <2>. QED  BY <2>1, <2>2
<1>7. g \in History  BY <1>1, <1>2, <1>6 DEF EvictDownTo, History
<1>8. NewestOf(g, n)
  <2>1. Len(kept) <= n  BY <1>2, <1>3 DEF NewestOf
  <2>2. ASSUME NEW i \in 1..Len(kept)
        PROVE  kept[i].rev = n - Len(kept) + i
    <3>1. d + i \in 1..Len(h.entries)  BY <1>2, <1>3
    <3>2. kept[i] = h.entries[d + i]  BY <1>2
    <3>3. n - Len(h.entries) + (d + i) = n - Len(kept) + i
      <4>1. \A a, b, k \in Nat : n - a + ((a - b) + k) = n - b + k  OBVIOUS
      <4>2. i \in Nat  OBVIOUS
      <4>. QED  BY <1>3, <4>1, <4>2
    <3>. QED  BY <3>1, <3>2, <3>3 DEF NewestOf
  <2>. QED  BY <1>4, <1>6, <2>1, <2>2 DEF NewestOf
<1>9. ASSUME NEW c \in Nat, Covers(h, n, c)  PROVE  Covers(g, n, c)
  <2>. SUFFICES ASSUME c >= f  PROVE  n - c <= Len(kept)
    BY <1>4 DEF Covers
  <2>1. CASE d = 0
    <3>1. n - c <= Len(h.entries)  BY <1>9, <2>1 DEF Covers
    <3>. QED  BY <1>3, <2>1, <3>1
  <2>2. CASE d # 0  BY <1>3, <1>6, <2>2
  <2>. QED  BY <2>1, <2>2
<1>. QED  BY <1>4, <1>7, <1>8, <1>9

LEMMA NothingIsASuffix ==
    ASSUME NEW h \in History
    PROVE  <<>> \in Suffixes(h.entries) /\ Len(<<>>) = 0
BY DEF Suffixes

(* A batch that is not retained takes all evidence with it, and says so.    *)
LEMMA DiscardIsAnnounced ==
    ASSUME NEW h \in History, NEW n \in Nat,
           NewestOf(h, n),
           NEW g, g = Discard(h, n + 1)
    PROVE  /\ g \in History
           /\ NewestOf(g, n + 1)
           /\ \A c \in Nat : Covers(g, n + 1, c)
<1>. DEFINE e == Clear(h)
<1>1. e \in History /\ e.entries = <<>> /\ NewestOf(e, n)
  <2>. HIDE DEF e
  <2>1. e = EvictDownTo(h, <<>>)  BY DEF e, Clear
  <2>. QED  BY <2>1, NothingIsASuffix, EvictKeepsNewest
<1>. HIDE DEF e
<1>2. e.floor \in Nat /\ e.floor <= n /\ Larger(e.floor, n + 1) = n + 1
  BY <1>1 DEF History, NewestOf, Larger
<1>3. g = [e EXCEPT !.floor = n + 1]  BY <1>2 DEF Discard, e
<1>4. g \in History /\ g.entries = <<>> /\ g.floor = n + 1  BY <1>1, <1>3 DEF History
<1>5. NewestOf(g, n + 1)
  <2>1. Len(g.entries) = 0  BY <1>4, NothingIsASuffix
  <2>2. 1..0 = {} /\ 0 <= n + 1 /\ n + 1 <= (n + 1) - 0  OBVIOUS
  <2>. QED  BY <1>4, <2>1, <2>2 DEF NewestOf
<1>6. \A c \in Nat : Covers(g, n + 1, c)  BY <1>4, NothingIsASuffix DEF Covers
<1>. QED  BY <1>4, <1>5, <1>6

(* A new budget keeps a newest suffix. *)
LEMMA SetBudgetKeepsNewest ==
    ASSUME NEW h \in History, NEW n \in Nat, NewestOf(h, n),
           NEW budget \in Budgets,
           NEW g, g = SetBudget(h, budget)
    PROVE  /\ g \in History
           /\ NewestOf(g, n)
           /\ h.entries = <<>> => g.entries = <<>>
           /\ \A c \in Nat : Covers(h, n, c) => Covers(g, n, c)
<1>. DEFINE b == [h EXCEPT !.budget = budget]
            kept == Newest(b.entries, budget.batches, budget.bytes)
<1>1. /\ b \in History /\ b.entries = h.entries /\ b.floor = h.floor /\ b.budget = budget
      /\ b.entries \in Seq(Entry)
  BY DEF History
<1>2. NewestOf(b, n) /\ \A c \in Nat : Covers(h, n, c) => Covers(b, n, c)
  BY <1>1 DEF NewestOf, Covers
<1>3. budget.batches \in Nat /\ budget.bytes \in Nat  BY BudgetsAssumption
<1>4. g = EvictDownTo(b, kept)  BY <1>1 DEF SetBudget, Trim
<1>. HIDE DEF b
<1>5. kept \in Suffixes(b.entries)  BY <1>1, <1>3, NewestFits
<1>. HIDE DEF kept
<1>6. /\ g \in History /\ g.entries = kept /\ NewestOf(g, n)
      /\ \A c \in Nat : Covers(b, n, c) => Covers(g, n, c)
  BY <1>1, <1>2, <1>4, <1>5, EvictKeepsNewest
<1>7. h.entries = <<>> => g.entries = <<>>
  <2>1. kept \in Seq(Entry) /\ Len(kept) <= Len(b.entries)  BY <1>1, <1>5, SuffixElements
  <2>. QED  BY <1>1, <1>6, <2>1
<1>. QED  BY <1>2, <1>6, <1>7

(* Recording report n + 1 extends the newest reports by it, or gives up all *)
(* of them; no cursor that was covered is left with a hole.                 *)
LEMMA RecordKeepsNewest ==
    ASSUME NEW h \in History, NEW n \in Nat,
           NewestOf(h, n),
           NEW entry \in Entry, entry.rev = n + 1,
           NEW g, g = Record(h, entry)
    PROVE  /\ g \in History
           /\ NewestOf(g, n + 1)
           /\ \A c \in Nat : c <= n /\ Covers(h, n, c) => Covers(g, n + 1, c)
<1>1. h.budget \in Budgets /\ h.budget.batches \in Nat /\ h.budget.bytes \in Nat
  BY BudgetsAssumption DEF History
<1>2. CASE TooLarge(h, entry.bytes)
  <2>1. g = Discard(h, n + 1)  BY <1>2 DEF Record
  <2>. QED  BY <2>1, DiscardIsAnnounced
<1>3. CASE ~TooLarge(h, entry.bytes)
  <2>. DEFINE kept == Newest(h.entries, h.budget.batches - 1, h.budget.bytes - entry.bytes)
              room == EvictDownTo(h, kept)
  <2>1. h.budget.batches - 1 \in Nat /\ h.budget.bytes - entry.bytes \in Nat
    BY <1>1, <1>3 DEF TooLarge, Entry
  <2>2. h.entries \in Seq(Entry)  BY DEF History
  <2>3. kept \in Suffixes(h.entries)  BY <2>1, <2>2, NewestFits
  <2>4. g = [room EXCEPT !.entries = Append(@, entry)]  BY <1>3 DEF Record
  <2>. HIDE DEF kept
  <2>5. /\ room \in History /\ room.entries = kept
        /\ NewestOf(room, n)
        /\ \A c \in Nat : Covers(h, n, c) => Covers(room, n, c)
    BY <2>3, EvictKeepsNewest
  <2>. HIDE DEF room
  <2>6. /\ room.entries \in Seq(Entry) /\ room.floor \in Nat
        /\ g.entries = Append(room.entries, entry) /\ g.floor = room.floor
        /\ g \in History
    <3>1. /\ room.entries \in Seq(Entry) /\ room.floor \in Nat
          /\ room = [entries |-> room.entries, budget |-> room.budget, floor |-> room.floor]
      BY <2>5 DEF History
    <3>2. g = [entries |-> Append(room.entries, entry), budget |-> room.budget,
               floor |-> room.floor]
      BY <2>4, <3>1
    <3>3. Append(room.entries, entry) \in Seq(Entry)  BY <3>1
    <3>. QED  BY <2>5, <3>1, <3>2, <3>3 DEF History
  <2>7. /\ Len(g.entries) = Len(room.entries) + 1
        /\ Len(room.entries) \in Nat
        /\ \A i \in 1..Len(room.entries) : g.entries[i] = room.entries[i]
        /\ g.entries[Len(room.entries) + 1] = entry
    BY <2>6
  <2>9. NewestOf(g, n + 1)
    <3>. DEFINE k == n + 1
    <3>0. k \in Nat /\ k = n + 1  OBVIOUS
    <3>. HIDE DEF k
    <3>1. Len(g.entries) <= k /\ g.floor <= k - Len(g.entries)
      BY <2>5, <2>6, <2>7, <3>0 DEF NewestOf
    <3>2. ASSUME NEW i \in 1..Len(g.entries)
          PROVE  g.entries[i].rev = k - Len(g.entries) + i
      <4>. DEFINE m == Len(room.entries)
      <4>a. m \in Nat /\ m <= n /\ Len(g.entries) = m + 1 /\ i \in 1..(m + 1)
        BY <2>5, <2>7 DEF NewestOf
      <4>. HIDE DEF m
      <4>0. k - Len(g.entries) + i = n - m + i  BY <3>0, <4>a
      <4>1. CASE i \in 1..m
        <5>1. n - m + i \in 1..n  BY <4>a, <4>1
        <5>2. g.entries[i].rev = n - m + i
          BY <2>5, <2>7, <4>1 DEF NewestOf, m
        <5>. QED  BY <4>0, <5>1, <5>2
      <4>2. CASE i = m + 1
        <5>1. n - m + i = n + 1  BY <4>a, <4>2
        <5>2. g.entries[i] = entry  BY <2>7, <4>2 DEF m
        <5>. QED  BY <4>0, <5>1, <5>2
      <4>. QED  BY <4>a, <4>1, <4>2
    <3>3. NewestOf(g, k)  BY <3>1, <3>2 DEF NewestOf
    <3>. QED  BY <3>3 DEF k
  <2>10. ASSUME NEW c \in Nat, c <= n, Covers(h, n, c)  PROVE  Covers(g, n + 1, c)
    <3>1. Covers(room, n, c)  BY <2>5, <2>10
    <3>. QED  BY <2>6, <2>7, <3>1 DEF Covers
  <2>. QED  BY <2>6, <2>9, <2>10
<1>. QED  BY <1>2, <1>3

LEMMA RecordWithKeepsNewest ==
    ASSUME NEW h \in History, NEW n \in Nat,
           NewestOf(h, n),
           NEW entry \in Entry, entry.rev = n + 1, NEW estimated,
           NEW g, g = RecordWith(h, estimated, entry)
    PROVE  /\ g \in History
           /\ NewestOf(g, n + 1)
           /\ \A c \in Nat : c <= n /\ Covers(h, n, c) => Covers(g, n + 1, c)
<1>1. CASE TooLarge(h, estimated)
  <2>1. g = Discard(h, n + 1)  BY <1>1 DEF RecordWith
  <2>. QED  BY <2>1, DiscardIsAnnounced
<1>2. CASE ~TooLarge(h, estimated)
  <2>1. g = Record(h, entry)  BY <1>2 DEF RecordWith
  <2>. QED  BY <2>1, RecordKeepsNewest
<1>. QED  BY <1>1, <1>2

-----------------------------------------------------------------------------
LEMMA InitIInv == Init => IInv
<1>. SUFFICES ASSUME Init  PROVE IInv
  OBVIOUS
<1>1. EvidenceTypes
  <2>1. reports \in History  BY BudgetsAssumption DEF Init, EmptyHistory, History
  <2>2. NoCursor \in [stage : {"none", "this", "other"}, revision : Nat]  BY DEF NoCursor
  <2>. QED  BY <2>1, <2>2 DEF Init, EvidenceTypes
<1>2. CursorsCovered
  BY DEF Init, NoCursor, CursorsCovered
<1>3. NewestOf(reports, revision)
  <2>1. Len(reports.entries) = 0 /\ 1..0 = {} /\ reports.floor = 0 /\ revision = 0
    BY DEF Init, EmptyHistory
  <2>. QED  BY <2>1 DEF NewestOf
<1>4. reports.entries = <<>>  BY DEF Init, EmptyHistory
<1>. QED  BY <1>1, <1>2, <1>3, <1>4 DEF IInv

(* The actions that leave the evidence alone and move cursors only to where *)
(* they are covered.                                                        *)
LEMMA CursorStep ==
    ASSUME IInv, UNCHANGED <<revision, reports>>,
           enabled' \in BOOLEAN, enabled => enabled',
           cursor' \in [Observers -> [stage : {"none", "this", "other"}, revision : Nat]],
           CursorsCovered'
    PROVE  IInv'
BY DEF IInv, EvidenceTypes, NewestOf

LEMMA EvidenceStep ==
    ASSUME IInv, UNCHANGED <<revision, enabled, cursor>>,
           reports' \in History,
           NewestOf(reports', revision),
           reports.entries = <<>> => reports'.entries = <<>>,
           \A c \in Nat : Covers(reports, revision, c) => Covers(reports', revision, c)
    PROVE  IInv'
<1>1. CursorsCovered'  BY DEF IInv, EvidenceTypes, CursorsCovered, Covers
<1>. QED  BY <1>1 DEF IInv, EvidenceTypes, NewestOf

LEMMA PublishStep ==
    ASSUME IInv, NEW bytes \in Sizes, NEW estimated \in Sizes,
           Publish(bytes, estimated)
    PROVE  IInv'
<1>. DEFINE entry == [rev |-> revision + 1, bytes |-> bytes]
<1>1. /\ revision \in Nat /\ revision' = revision + 1 /\ revision' \in Nat
      /\ enabled' = enabled /\ cursor' = cursor
      /\ reports' = IF enabled THEN RecordWith(reports, estimated, entry) ELSE reports
      /\ reports \in History
  BY DEF IInv, EvidenceTypes, Publish
<1>2. entry \in Entry /\ entry.rev = revision + 1
  BY <1>1, SizesAssumption DEF Entry
<1>4. CASE enabled
  <2>1. /\ reports' \in History
        /\ NewestOf(reports', revision')
        /\ \A c \in Nat : c <= revision /\ Covers(reports, revision, c)
                            => Covers(reports', revision', c)
    <3>. HIDE DEF entry
    <3>1. reports' = RecordWith(reports, estimated, entry)  BY <1>1, <1>4
    <3>. QED  BY <1>1, <1>2, <3>1, RecordWithKeepsNewest DEF IInv
  <2>2. CursorsCovered'
    <3>. SUFFICES ASSUME NEW o \in Observers, cursor[o].stage = "this"
                  PROVE  cursor[o].revision <= revision' /\ Covers(reports', revision', cursor[o].revision)
      BY <1>1, <1>4 DEF CursorsCovered
    <3>1. /\ cursor[o].revision \in Nat /\ cursor[o].revision <= revision
          /\ Covers(reports, revision, cursor[o].revision)
      BY DEF IInv, EvidenceTypes, CursorsCovered
    <3>. QED  BY <1>1, <2>1, <3>1
  <2>. QED  BY <1>1, <1>4, <2>1, <2>2 DEF IInv, EvidenceTypes
<1>5. CASE ~enabled
  <2>1. reports' = reports /\ reports.entries = <<>>  BY <1>1, <1>5 DEF IInv
  <2>2. NewestOf(reports', revision')
    <3>1. Len(reports'.entries) = 0 /\ 1..0 = {}  BY <2>1
    <3>2. reports'.floor <= revision /\ reports'.floor \in Nat
      BY <2>1, <3>1 DEF IInv, EvidenceTypes, NewestOf, History
    <3>3. revision' - 0 = revision + 1 /\ 0 <= revision'  BY <1>1
    <3>4. reports'.floor <= revision' - 0  BY <1>1, <3>2, <3>3
    <3>. QED  BY <3>1, <3>3, <3>4 DEF NewestOf
  <2>3. CursorsCovered'  BY <1>1, <1>5 DEF IInv, CursorsCovered
  <2>. QED  BY <1>1, <1>5, <2>1, <2>2, <2>3 DEF IInv, EvidenceTypes
<1>. QED  BY <1>4, <1>5 DEF IInv, EvidenceTypes

LEMMA NextIInv == IInv /\ [Next]_vars => IInv'
<1>. SUFFICES ASSUME IInv, [Next]_vars  PROVE IInv'
  OBVIOUS
<1>0. CursorsCovered /\ EvidenceTypes  BY DEF IInv
<1>1. ASSUME NEW o \in Observers, TakeCursor(o)  PROVE IInv'
  <2>1. CursorsCovered'
    <3>1. Covers(reports, revision, revision)
      BY <1>0 DEF Covers, EvidenceTypes, History
    <3>. QED  BY <1>0, <1>1, <3>1 DEF TakeCursor, CursorsCovered, EvidenceTypes
  <2>. QED  BY <1>0, <1>1, <2>1, CursorStep DEF TakeCursor, EvidenceTypes
<1>2. ASSUME NEW o \in Observers, TakeForeignCursor(o)  PROVE IInv'
  <2>1. CursorsCovered'  BY <1>0, <1>2 DEF TakeForeignCursor, CursorsCovered, EvidenceTypes
  <2>. QED  BY <1>0, <1>2, <2>1, CursorStep, BoundsAssumption DEF TakeForeignCursor, EvidenceTypes
<1>3. ASSUME NEW o \in Observers, Read(o)  PROVE IInv'
  <2>1. CursorsCovered'
    <3>1. Covers(reports, revision, revision)
      BY <1>0 DEF Covers, EvidenceTypes, History
    <3>. QED  BY <1>0, <1>3, <3>1 DEF Read, CursorsCovered, EvidenceTypes
  <2>. QED  BY <1>0, <1>3, <2>1, CursorStep DEF Read, EvidenceTypes
<1>4. ASSUME NEW o \in Observers, NEW other \in Observers, CloneCursor(o, other)  PROVE IInv'
  <2>1. CursorsCovered'  BY <1>0, <1>4 DEF CloneCursor, CursorsCovered, EvidenceTypes
  <2>. QED  BY <1>0, <1>4, <2>1, CursorStep DEF CloneCursor, EvidenceTypes
<1>5. CASE PublishSome  BY <1>5, PublishStep DEF PublishSome
<1>6. CASE ChangeBudget
  <2>1. PICK budget \in Budgets : reports' = SetBudget(reports, budget)
    BY <1>6 DEF ChangeBudget
  <2>2. /\ reports' \in History
        /\ NewestOf(reports', revision)
        /\ reports.entries = <<>> => reports'.entries = <<>>
        /\ \A c \in Nat : Covers(reports, revision, c) => Covers(reports', revision, c)
    BY <2>1, SetBudgetKeepsNewest DEF IInv, EvidenceTypes
  <2>. QED  BY <1>6, <2>2, EvidenceStep DEF ChangeBudget
<1>7. ASSUME NEW s \in Subscribers, Subscribe(s) \/ Unsubscribe(s)  PROVE IInv'
  BY <1>7 DEF Subscribe, Unsubscribe, IInv, EvidenceTypes, NewestOf, CursorsCovered, Covers
<1>8. CASE UNCHANGED vars
  BY <1>8 DEF vars, IInv, EvidenceTypes, NewestOf, CursorsCovered, Covers
<1>. QED  BY <1>1, <1>2, <1>3, <1>4, <1>5, <1>6, <1>7, <1>8 DEF Next

(* What IInv says of the next read of any observer. *)
LEMMA IInvReplies == IInv => RepliesComplete
<1>. SUFFICES ASSUME IInv, NEW o \in Observers, Reply(cursor[o]).outcome = "Changes"
              PROVE  Reply(cursor[o]).changes = [i \in 1..(revision - cursor[o].revision) |->
                                                       cursor[o].revision + i]
  BY DEF RepliesComplete
<1>. DEFINE c == cursor[o].revision
            kept == Len(reports.entries)
            n == revision - c
<1>1. cursor[o].stage = "this" /\ ~(c < reports.floor)  BY DEF Reply
<1>2. /\ c \in Nat /\ c <= revision /\ revision \in Nat /\ kept \in Nat
      /\ reports.floor \in Nat /\ Covers(reports, revision, c)
  BY <1>1 DEF IInv, EvidenceTypes, CursorsCovered, History
<1>3. n \in Nat /\ n <= kept  BY <1>1, <1>2 DEF Covers
<1>4. Reply(cursor[o]).changes = LastRetained(n)  BY <1>1 DEF Reply
<1>5. LastRetained(n) = [i \in 1..n |-> reports.entries[(kept - n) + i].rev]
  <2>1. (IF kept > n THEN kept - n ELSE 0) = kept - n /\ kept - (kept - n) = n  BY <1>2, <1>3
  <2>. QED  BY <2>1 DEF LastRetained
<1>6. ASSUME NEW i \in 1..n
      PROVE  reports.entries[(kept - n) + i].rev = c + i
  <2>1. (kept - n) + i \in 1..kept
    <3>1. \A k, m \in Nat : \A j \in 1..m : m <= k => (k - m) + j \in 1..k  OBVIOUS
    <3>. QED  BY <1>2, <1>3, <3>1
  <2>2. revision - kept + ((kept - n) + i) = c + i  BY <1>2
  <2>. QED  BY <2>1, <2>2 DEF IInv, NewestOf
<1>. QED  BY <1>4, <1>5, <1>6

(* A read below the floor has lost the report of the floor's revision: no   *)
(* later one than the retained ones was ever evicted.                       *)
LEMMA IInvExpiry == IInv => ExpiryMeansLoss
<1>. SUFFICES ASSUME IInv, NEW o \in Observers, Reply(cursor[o]).outcome = "Expired"
              PROVE  \E r \in (cursor[o].revision + 1)..revision :
                        \A i \in DOMAIN reports.entries : reports.entries[i].rev # r
  BY DEF ExpiryMeansLoss
<1>. DEFINE c == cursor[o].revision
            kept == Len(reports.entries)
<1>1. cursor[o].stage = "this" /\ c < reports.floor  BY DEF Reply
<1>2. /\ c \in Nat /\ revision \in Nat /\ kept \in Nat /\ reports.floor \in Nat
      /\ kept <= revision /\ reports.floor <= revision - kept
      /\ DOMAIN reports.entries = 1..kept
  BY DEF IInv, EvidenceTypes, NewestOf, History
<1>3. reports.floor \in (c + 1)..revision  BY <1>1, <1>2
<1>4. ASSUME NEW i \in 1..kept  PROVE reports.entries[i].rev # reports.floor
  <2>1. reports.entries[i].rev = revision - kept + i  BY DEF IInv, NewestOf
  <2>2. \A n, k, f \in Nat : f <= n - k => n - k + i # f  OBVIOUS
  <2>. QED  BY <1>2, <2>1, <2>2
<1>. QED  BY <1>2, <1>3, <1>4

-----------------------------------------------------------------------------
(* What is gone stays gone: no operation on a history lowers its floor.     *)
LEMMA EvictRaisesFloor ==
    ASSUME NEW h \in History, NEW kept \in Suffixes(h.entries),
           NEW g, g = EvictDownTo(h, kept)
    PROVE  g.floor \in Nat /\ h.floor <= g.floor
<1>. DEFINE d == Len(h.entries) - Len(kept)
<1>1. h.entries \in Seq(Entry) /\ h.floor \in Nat  BY DEF History
<1>2. kept \in Seq(Entry) /\ Len(kept) <= Len(h.entries)  BY <1>1, SuffixElements
<1>3. d \in Nat /\ d <= Len(h.entries)  BY <1>1, <1>2
<1>4. d # 0 => h.entries[d].rev \in Nat
  <2>1. d # 0 => d \in 1..Len(h.entries)  BY <1>1, <1>3
  <2>2. d # 0 => h.entries[d] \in Entry  BY <1>1, <2>1
  <2>. QED  BY <2>2 DEF Entry
<1>5. g.floor = IF d = 0 THEN h.floor ELSE Larger(h.floor, h.entries[d].rev)
  BY <1>1 DEF EvictDownTo, History
<1>. QED  BY <1>1, <1>4, <1>5 DEF Larger

LEMMA DiscardRaisesFloor ==
    ASSUME NEW h \in History, NEW rev \in Nat, NEW g, g = Discard(h, rev)
    PROVE  h.floor <= g.floor
<1>. DEFINE e == EvictDownTo(h, <<>>)
<1>1. e.floor \in Nat /\ h.floor <= e.floor  BY NothingIsASuffix, EvictRaisesFloor
<1>2. g.floor = Larger(e.floor, rev)  BY DEF Discard, Clear, EvictDownTo, History
<1>3. h.floor \in Nat  BY DEF History
<1>. HIDE DEF e
<1>. QED  BY <1>1, <1>2, <1>3 DEF Larger

LEMMA SetBudgetRaisesFloor ==
    ASSUME NEW h \in History, NEW budget \in Budgets, NEW g, g = SetBudget(h, budget)
    PROVE  h.floor <= g.floor
<1>. DEFINE b == [h EXCEPT !.budget = budget]
            kept == Newest(b.entries, budget.batches, budget.bytes)
<1>1. b \in History /\ b.floor = h.floor /\ b.budget = budget /\ b.entries \in Seq(Entry)
  BY DEF History
<1>2. budget.batches \in Nat /\ budget.bytes \in Nat  BY BudgetsAssumption
<1>3. g = EvictDownTo(b, kept)  BY <1>1 DEF SetBudget, Trim
<1>. HIDE DEF b
<1>4. kept \in Suffixes(b.entries)  BY <1>1, <1>2, NewestFits
<1>. QED  BY <1>1, <1>3, <1>4, EvictRaisesFloor

LEMMA RecordRaisesFloor ==
    ASSUME NEW h \in History, NEW entry \in Entry, NEW estimated,
           NEW g, g = RecordWith(h, estimated, entry)
    PROVE  h.floor <= g.floor
<1>0. entry.rev \in Nat /\ entry.bytes \in Nat  BY DEF Entry
<1>1. CASE TooLarge(h, estimated) \/ TooLarge(h, entry.bytes)
  <2>1. g = Discard(h, entry.rev)  BY <1>1 DEF RecordWith, Record
  <2>. QED  BY <1>0, <2>1, DiscardRaisesFloor
<1>2. CASE ~(TooLarge(h, estimated) \/ TooLarge(h, entry.bytes))
  <2>. DEFINE kept == Newest(h.entries, h.budget.batches - 1, h.budget.bytes - entry.bytes)
              room == EvictDownTo(h, kept)
  <2>1. h.budget.batches - 1 \in Nat /\ h.budget.bytes - entry.bytes \in Nat
    BY <1>0, <1>2, BudgetsAssumption DEF TooLarge, History
  <2>2. h.entries \in Seq(Entry)  BY DEF History
  <2>3. kept \in Suffixes(h.entries)  BY <2>1, <2>2, NewestFits
  <2>4. g = [room EXCEPT !.entries = Append(@, entry)]  BY <1>2 DEF RecordWith, Record
  <2>5. g.floor = room.floor  BY <2>4 DEF EvictDownTo, History
  <2>. HIDE DEF kept
  <2>. QED  BY <2>3, <2>5, EvictRaisesFloor
<1>. QED  BY <1>1, <1>2

LEMMA NextRaisesFloor ==
    ASSUME IInv, [Next]_vars
    PROVE  reports.floor <= reports'.floor
<1>1. reports \in History /\ revision + 1 \in Nat  BY DEF IInv, EvidenceTypes
<1>2. CASE UNCHANGED reports  BY <1>1, <1>2 DEF History
<1>3. CASE PublishSome
  <2>1. PICK bytes \in Sizes, estimated \in Sizes : Publish(bytes, estimated)
    BY <1>3 DEF PublishSome
  <2>2. [rev |-> revision + 1, bytes |-> bytes] \in Entry  BY <1>1, SizesAssumption DEF Entry
  <2>3. CASE enabled  BY <1>1, <2>1, <2>2, <2>3, RecordRaisesFloor DEF Publish
  <2>4. CASE ~enabled  BY <1>2, <2>1, <2>4 DEF Publish
  <2>. QED  BY <2>3, <2>4
<1>4. CASE ChangeBudget  BY <1>1, <1>4, SetBudgetRaisesFloor DEF ChangeBudget
<1>. QED  BY <1>2, <1>3, <1>4 DEF Next, vars, TakeCursor, TakeForeignCursor, Read, CloneCursor,
                                  Subscribe, Unsubscribe

LEMMA NextKeepsExpired ==
    ASSUME IInv, [Next]_vars, NEW o \in Observers,
           Reply(cursor[o]).outcome = "Expired", cursor' = cursor
    PROVE  Reply(cursor[o])'.outcome = "Expired"
<1>1. cursor[o].stage = "this" /\ cursor[o].revision < reports.floor  BY DEF Reply
<1>2. reports.floor <= reports'.floor  BY NextRaisesFloor
<1>3. /\ cursor[o].revision \in Nat /\ reports.floor \in Nat /\ reports'.floor \in Nat
  BY NextIInv DEF IInv, EvidenceTypes, History
<1>4. cursor[o].revision < reports'.floor  BY <1>1, <1>2, <1>3
<1>. QED  BY <1>1, <1>4 DEF Reply

-----------------------------------------------------------------------------
(* The cursor contract of stage notices: in every reachable state a read    *)
(* answers with exactly the reports published since the cursor's revision,  *)
(* or says that they are gone.                                              *)
THEOREM CursorsMissNothing == Spec => []RepliesComplete
<1>1. Init => IInv  BY InitIInv
<1>2. IInv /\ [Next]_vars => IInv'  BY NextIInv
<1>3. IInv => RepliesComplete  BY IInvReplies
<1>. QED  BY <1>1, <1>2, <1>3, PTL DEF Spec

(* A reader is only told Expired when a report it has not read is gone.     *)
THEOREM NoFalseAlarm == Spec => []ExpiryMeansLoss
<1>1. Init => IInv  BY InitIInv
<1>2. IInv /\ [Next]_vars => IInv'  BY NextIInv
<1>3. IInv => ExpiryMeansLoss  BY IInvExpiry
<1>. QED  BY <1>1, <1>2, <1>3, PTL DEF Spec

(* No step of anyone makes an expired cursor good again but its own read.   *)
THEOREM ExpiredUntilRead == Spec => ExpiryIsForGood
<1>1. Init => IInv  BY InitIInv
<1>2. IInv /\ [Next]_vars => IInv'  BY NextIInv
<1>3. IInv /\ [Next]_vars
        => [\A o \in Observers :
               (Reply(cursor[o]).outcome = "Expired" /\ cursor' = cursor)
                   => Reply(cursor[o])'.outcome = "Expired"]_vars
  BY NextKeepsExpired
<1>. QED  BY <1>1, <1>2, <1>3, PTL DEF Spec, ExpiryIsForGood

-----------------------------------------------------------------------------
(***************************************************************************)
(* The other half of StageJournal: whoever else subscribes or leaves, a     *)
(* callback hears each report once, in order, and a token names only the    *)
(* callback it was returned for.                                            *)
(***************************************************************************)

Callback == [id : Nat, subscriber : Subscribers]
Heard == [since : Nat, revisions : Seq(Nat)]

(* The reports published from revision `since` on. *)
From(since) == [i \in 1..(revision - since) |-> since + i]

SubscriptionTypes ==
    /\ callbacks \in Seq(Callback)
    /\ nextSubscription \in Nat
    /\ token \in [Subscribers -> Nat \cup {NoToken}]
    /\ heard \in [Subscribers -> Heard]

IdsAreOld ==
    /\ \A i \in DOMAIN callbacks : callbacks[i].id < nextSubscription
    /\ \A s \in Subscribers : token[s] # NoToken => token[s] < nextSubscription

HeardAll ==
    \A s \in Subscribers :
        /\ heard[s].since <= revision
        /\ Called(s) => heard[s].revisions = From(heard[s].since)

SInv == SubscriptionTypes /\ IdsAreOld /\ TokensNameTheirCallback /\ HeardAll

-----------------------------------------------------------------------------
(* Removing a callback leaves the others, and adds none. *)
LEMMA FirstOfMany ==
    ASSUME NEW S \in SUBSET Nat, S # {}
    PROVE  Min(S) \in S
<1>. DEFINE LT == {p \in Nat \X Nat : p[1] < p[2]}
<1>1. IsWellFoundedOn(LT, Nat)
  <2>1. OpToRel(<, Nat) = LT  BY DEF OpToRel
  <2>. QED  BY <2>1, NatLessThanWellFounded
<1>. HIDE DEF LT
<1>2. PICK x \in S : \A y \in S : ~(<<y, x>> \in LT)  BY <1>1, WFMin
<1>3. \A y \in S : x <= y
  <2>. TAKE y \in S
  <2>1. x \in Nat /\ y \in Nat /\ ~(y < x)  BY <1>2 DEF LT
  <2>. QED  BY <2>1
<1>. QED  BY <1>2, <1>3 DEF Min

LEMMA RemoveAtKeepsOthers ==
    ASSUME NEW C, NEW seq \in Seq(C), NEW i \in 1..Len(seq)
    PROVE  /\ RemoveAt(seq, i) \in Seq(C)
           /\ \A j \in DOMAIN RemoveAt(seq, i) :
                \E k \in DOMAIN seq : RemoveAt(seq, i)[j] = seq[k]
<1>. DEFINE front == SubSeq(seq, 1, i - 1)
            back == SubSeq(seq, i + 1, Len(seq))
<1>1. /\ front \in Seq(C) /\ Len(front) = i - 1
      /\ \A j \in 1..(i - 1) : front[j] = seq[j]
  OBVIOUS
<1>2. /\ back \in Seq(C) /\ Len(back) = Len(seq) - i
      /\ \A j \in 1..(Len(seq) - i) : back[j] = seq[i + j]
  OBVIOUS
<1>3. RemoveAt(seq, i) = front \o back  BY DEF RemoveAt
<1>. HIDE DEF front, back
<1>4. RemoveAt(seq, i) \in Seq(C) /\ DOMAIN RemoveAt(seq, i) = 1..(Len(seq) - 1)
  BY <1>1, <1>2, <1>3
<1>5. ASSUME NEW j \in 1..(Len(seq) - 1)
      PROVE  \E k \in 1..Len(seq) : RemoveAt(seq, i)[j] = seq[k]
  <2>1. CASE j <= i - 1
    <3>1. RemoveAt(seq, i)[j] = seq[j]  BY <1>1, <1>2, <1>3, <2>1
    <3>. QED  BY <3>1
  <2>2. CASE j > i - 1
    <3>1. j - (i - 1) \in 1..(Len(seq) - i) /\ i + (j - (i - 1)) = j + 1  BY <2>2
    <3>2. RemoveAt(seq, i)[j] = back[j - (i - 1)]  BY <1>1, <1>2, <1>3, <2>2
    <3>3. RemoveAt(seq, i)[j] = seq[j + 1] /\ j + 1 \in 1..Len(seq)  BY <1>2, <3>1, <3>2
    <3>. QED  BY <3>3
  <2>. QED  BY <2>1, <2>2
<1>. QED  BY <1>4, <1>5

LEMMA UnsubscribeKeepsOthers ==
    ASSUME SInv, NEW s \in Subscribers, Unsubscribe(s)
    PROVE  /\ callbacks' \in Seq(Callback)
           /\ \A j \in DOMAIN callbacks' :
                \E k \in DOMAIN callbacks : callbacks'[j] = callbacks[k]
<1>. DEFINE Mine == {i \in 1..Len(callbacks) : callbacks[i].id = token[s]}
<1>1. callbacks \in Seq(Callback)  BY DEF SInv, SubscriptionTypes
<1>2. callbacks' = IF Mine # {} THEN RemoveAt(callbacks, Min(Mine)) ELSE callbacks
  BY DEF Unsubscribe, RemoveFirstMatch, SelectInSeq
<1>3. CASE Mine # {}
  <2>1. Min(Mine) \in 1..Len(callbacks)  BY <1>3, FirstOfMany
  <2>. HIDE DEF Mine
  <2>. QED  BY <1>1, <1>2, <1>3, <2>1, RemoveAtKeepsOthers
<1>4. CASE Mine = {}  BY <1>1, <1>2, <1>4
<1>. QED  BY <1>3, <1>4

-----------------------------------------------------------------------------
LEMMA InitSInv == Init => SInv
<1>. SUFFICES ASSUME Init  PROVE SInv
  OBVIOUS
<1>1. SubscriptionTypes  BY DEF Init, SubscriptionTypes, Heard
<1>2. DOMAIN callbacks = {} /\ \A s \in Subscribers : token[s] = NoToken  BY DEF Init
<1>3. HeardAll
  <2>1. \A s \in Subscribers : heard[s].since = 0 /\ revision = 0  BY DEF Init
  <2>. QED  BY <1>2, <2>1 DEF HeardAll, Called
<1>. QED  BY <1>1, <1>2, <1>3 DEF SInv, IdsAreOld, TokensNameTheirCallback

(* The steps of observers and of the budget leave subscriptions alone. *)
LEMMA OthersKeepSInv ==
    ASSUME SInv, UNCHANGED <<revision, callbacks, nextSubscription, token, heard>>
    PROVE  SInv'
BY DEF SInv, SubscriptionTypes, IdsAreOld, TokensNameTheirCallback, HeardAll, Called, From

LEMMA PublishSInv ==
    ASSUME IInv, SInv, NEW bytes \in Sizes, NEW estimated \in Sizes, Publish(bytes, estimated)
    PROVE  SInv'
<1>1. /\ revision \in Nat /\ revision' = revision + 1
      /\ UNCHANGED <<callbacks, nextSubscription, token>>
      /\ heard' = [s \in Subscribers |->
                     IF Called(s) THEN [heard[s] EXCEPT !.revisions = Append(@, revision + 1)]
                     ELSE heard[s]]
  BY DEF IInv, EvidenceTypes, Publish
<1>2. \A s \in Subscribers : heard[s] \in Heard  BY DEF SInv, SubscriptionTypes
<1>3. ASSUME NEW s \in Subscribers
      PROVE  /\ heard'[s] \in Heard
             /\ heard'[s].since = heard[s].since
             /\ Called(s) => heard'[s].revisions = Append(heard[s].revisions, revision + 1)
  <2>1. heard[s] \in Heard /\ heard[s].revisions \in Seq(Nat)  BY <1>2 DEF Heard
  <2>2. Append(heard[s].revisions, revision + 1) \in Seq(Nat)  BY <1>1, <2>1
  <2>. QED  BY <1>1, <2>1, <2>2 DEF Heard
<1>4. SubscriptionTypes'
  <2>1. heard' \in [Subscribers -> Heard]  BY <1>1, <1>3
  <2>. QED  BY <1>1, <2>1 DEF SInv, SubscriptionTypes
<1>5. HeardAll'
  <2>0. \A s \in Subscribers : Called(s)' = Called(s)  BY <1>1 DEF Called
  <2>. SUFFICES ASSUME NEW s \in Subscribers
                PROVE  /\ heard[s].since <= revision + 1
                       /\ Called(s) => heard'[s].revisions
                                = [i \in 1..((revision + 1) - heard[s].since) |-> heard[s].since + i]
    BY <1>1, <1>3, <2>0 DEF HeardAll, From
  <2>1. heard[s].since \in Nat /\ heard[s].since <= revision
    BY <1>2 DEF Heard, SInv, HeardAll
  <2>2. ASSUME Called(s)
        PROVE  heard'[s].revisions
                  = [i \in 1..((revision + 1) - heard[s].since) |-> heard[s].since + i]
    <3>1. heard[s].revisions = [i \in 1..(revision - heard[s].since) |-> heard[s].since + i]
      BY <2>2 DEF SInv, HeardAll, From
    <3>2. \A a, n \in Nat :
             Append([i \in 1..n |-> a + i], a + n + 1) = [i \in 1..(n + 1) |-> a + i]
      OBVIOUS
    <3>. DEFINE a == heard[s].since
                n == revision - a
    <3>3. n \in Nat /\ a \in Nat /\ revision + 1 = a + n + 1 /\ (revision + 1) - a = n + 1
      BY <1>1, <2>1
    <3>4. heard'[s].revisions = Append([i \in 1..n |-> a + i], a + n + 1)
      BY <1>3, <2>2, <3>1, <3>3
    <3>. HIDE DEF n, a
    <3>5. heard'[s].revisions = [i \in 1..(n + 1) |-> a + i]  BY <3>2, <3>3, <3>4
    <3>. QED  BY <3>3, <3>5 DEF a
  <2>. QED  BY <1>1, <2>1, <2>2
<1>. QED  BY <1>1, <1>4, <1>5 DEF SInv, IdsAreOld, TokensNameTheirCallback

LEMMA SubscribeSInv ==
    ASSUME IInv, SInv, NEW s \in Subscribers, Subscribe(s)
    PROVE  SInv'
<1>. DEFINE added == [id |-> nextSubscription, subscriber |-> s]
<1>1. /\ callbacks \in Seq(Callback) /\ nextSubscription \in Nat /\ revision \in Nat
      /\ token \in [Subscribers -> Nat \cup {NoToken}] /\ heard \in [Subscribers -> Heard]
  BY DEF SInv, SubscriptionTypes, IInv, EvidenceTypes
<1>2. /\ callbacks' = Append(callbacks, added)
      /\ nextSubscription' = nextSubscription + 1
      /\ token' = [token EXCEPT ![s] = nextSubscription]
      /\ heard' = [heard EXCEPT ![s] = [since |-> revision, revisions |-> <<>>]]
      /\ revision' = revision
  BY DEF Subscribe, NewId
<1>3. added \in Callback  BY <1>1 DEF Callback
<1>4. /\ callbacks' \in Seq(Callback)
      /\ \A i \in DOMAIN callbacks' : \/ i \in DOMAIN callbacks /\ callbacks'[i] = callbacks[i]
                                     \/ callbacks'[i] = added
  <2>. HIDE DEF added
  <2>. QED  BY <1>1, <1>2, <1>3
<1>5. SubscriptionTypes'  BY <1>1, <1>2, <1>4 DEF SubscriptionTypes, Heard
<1>6. \A i \in DOMAIN callbacks : callbacks[i] \in Callback  BY <1>1
<1>7. IdsAreOld'
  <2>1. \A i \in DOMAIN callbacks' : callbacks'[i].id < nextSubscription + 1
    BY <1>1, <1>4, <1>6 DEF SInv, IdsAreOld, Callback
  <2>2. \A r \in Subscribers : token'[r] # NoToken => token'[r] < nextSubscription + 1
    BY <1>1, <1>2 DEF SInv, IdsAreOld
  <2>. QED  BY <1>2, <2>1, <2>2 DEF IdsAreOld
<1>8. TokensNameTheirCallback'
  <2>. SUFFICES ASSUME NEW r \in Subscribers, NEW i \in DOMAIN callbacks',
                       callbacks'[i].id = token'[r]
                PROVE  callbacks'[i].subscriber = r
    BY DEF TokensNameTheirCallback
  <2>1. CASE callbacks'[i] = added
    <3>1. token'[r] = nextSubscription  BY <2>1
    <3>2. r = s
      BY <1>1, <1>2, <3>1 DEF SInv, IdsAreOld, NoToken
    <3>. QED  BY <2>1, <3>2
  <2>2. CASE i \in DOMAIN callbacks /\ callbacks'[i] = callbacks[i]
    <3>1. callbacks[i].id < nextSubscription /\ callbacks[i].id \in Nat
      BY <1>6, <2>2 DEF SInv, IdsAreOld, Callback
    <3>2. r # s  BY <1>1, <1>2, <2>2, <3>1
    <3>3. token'[r] = token[r]  BY <1>1, <1>2, <3>2
    <3>. QED  BY <2>2, <3>3 DEF SInv, TokensNameTheirCallback
  <2>. QED  BY <1>4, <2>1, <2>2
<1>9. HeardAll'
  <2>. SUFFICES ASSUME NEW r \in Subscribers
                PROVE  /\ heard'[r].since <= revision
                       /\ Called(r)' => heard'[r].revisions
                                = [i \in 1..(revision - heard'[r].since) |-> heard'[r].since + i]
    BY <1>2 DEF HeardAll, From
  <2>1. CASE r = s
    <3>1. heard'[r] = [since |-> revision, revisions |-> <<>>]  BY <1>1, <1>2, <2>1
    <3>2. 1..(revision - revision) = {}  BY <1>1
    <3>. QED  BY <1>1, <3>1, <3>2
  <2>2. CASE r # s
    <3>1. heard'[r] = heard[r]  BY <1>1, <1>2, <2>2
    <3>2. Called(r)' => Called(r)  BY <1>4, <2>2 DEF Called
    <3>. QED  BY <3>1, <3>2 DEF SInv, HeardAll, From
  <2>. QED  BY <2>1, <2>2
<1>. QED  BY <1>5, <1>7, <1>8, <1>9 DEF SInv

LEMMA UnsubscribeSInv ==
    ASSUME SInv, NEW s \in Subscribers, Unsubscribe(s)
    PROVE  SInv'
<1>1. /\ callbacks' \in Seq(Callback)
      /\ \A j \in DOMAIN callbacks' : \E k \in DOMAIN callbacks : callbacks'[j] = callbacks[k]
  BY UnsubscribeKeepsOthers
<1>2. /\ UNCHANGED <<revision, nextSubscription, heard>>
      /\ token' \in [Subscribers -> Nat \cup {NoToken}]
      /\ \A r \in Subscribers : token'[r] \in {token[r], NoToken}
  BY DEF Unsubscribe, SInv, SubscriptionTypes
<1>3. SubscriptionTypes'  BY <1>1, <1>2 DEF SInv, SubscriptionTypes
<1>4. IdsAreOld'  BY <1>1, <1>2 DEF SInv, IdsAreOld
<1>5. TokensNameTheirCallback'
  <2>. SUFFICES ASSUME NEW r \in Subscribers, NEW i \in DOMAIN callbacks',
                       callbacks'[i].id = token'[r]
                PROVE  callbacks'[i].subscriber = r
    BY DEF TokensNameTheirCallback
  <2>1. PICK k \in DOMAIN callbacks : callbacks'[i] = callbacks[k]  BY <1>1
  <2>2. callbacks[k] \in Callback  BY DEF SInv, SubscriptionTypes
  <2>3. token'[r] = token[r]  BY <1>2, <2>1, <2>2 DEF NoToken, Callback
  <2>. QED  BY <2>1, <2>3 DEF SInv, TokensNameTheirCallback
<1>6. HeardAll'
  <2>1. \A r \in Subscribers : Called(r)' => Called(r)  BY <1>1 DEF Called
  <2>. QED  BY <1>2, <2>1 DEF SInv, HeardAll, From
<1>. QED  BY <1>3, <1>4, <1>5, <1>6 DEF SInv

LEMMA NextSInv == IInv /\ SInv /\ [Next]_vars => SInv'
<1>. SUFFICES ASSUME IInv, SInv, [Next]_vars  PROVE SInv'
  OBVIOUS
<1>1. ASSUME NEW o \in Observers, TakeCursor(o) \/ TakeForeignCursor(o) \/ Read(o)  PROVE SInv'
  BY <1>1, OthersKeepSInv DEF TakeCursor, TakeForeignCursor, Read
<1>2. ASSUME NEW o \in Observers, NEW other \in Observers, CloneCursor(o, other)  PROVE SInv'
  BY <1>2, OthersKeepSInv DEF CloneCursor
<1>3. CASE PublishSome  BY <1>3, PublishSInv DEF PublishSome
<1>4. CASE ChangeBudget  BY <1>4, OthersKeepSInv DEF ChangeBudget
<1>5. ASSUME NEW s \in Subscribers, Subscribe(s)  PROVE SInv'  BY <1>5, SubscribeSInv
<1>6. ASSUME NEW s \in Subscribers, Unsubscribe(s)  PROVE SInv'  BY <1>6, UnsubscribeSInv
<1>7. CASE UNCHANGED vars  BY <1>7, OthersKeepSInv DEF vars
<1>. QED  BY <1>1, <1>2, <1>3, <1>4, <1>5, <1>6, <1>7 DEF Next

LEMMA BothHold == Spec => [](IInv /\ SInv)
<1>1. Init => IInv /\ SInv  BY InitIInv, InitSInv
<1>2. IInv /\ SInv /\ [Next]_vars => (IInv /\ SInv)'  BY NextIInv, NextSInv
<1>. QED  BY <1>1, <1>2, PTL DEF Spec

(* The journal, its readers and its subscribers keep their types. *)
THEOREM JournalKeepsTypes == Spec => []TypeOK
<1>1. IInv /\ SInv => TypeOK
  BY DEF IInv, EvidenceTypes, History, Entry, SInv, SubscriptionTypes, Callback, Heard, TypeOK
<1>. QED  BY <1>1, BothHold, PTL

(* A registered callback has been called once for each report since it was  *)
(* registered, in order, however many others come and go.                   *)
THEOREM SubscribersMissNothing == Spec => []SubscribersHearEveryReport
<1>1. SInv => SubscribersHearEveryReport
  BY DEF SInv, HeardAll, Called, From, SubscribersHearEveryReport
<1>. QED  BY <1>1, BothHold, PTL

(* Unsubscribing with any token, also one used before, removes no callback  *)
(* of anyone else.                                                          *)
THEOREM TokensNameOneCallback == Spec => []TokensNameTheirCallback
<1>1. SInv => TokensNameTheirCallback  BY DEF SInv
<1>. QED  BY <1>1, BothHold, PTL
=============================================================================
