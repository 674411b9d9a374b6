------------------------- MODULE SourceSync_proofs -------------------------
(***************************************************************************)
(* Synchronizing brings a stage of SourceSync up to date, for any paths,   *)
(* any budgets and any number of edits, whether a sublayer is bound or not, *)
(* as long as the host inserts no other layer for one it removed.          *)
(*                                                                         *)
(* The invariant behind it: what the stage composed and the layer no longer *)
(* says is among the slots it is to recompose, but for what the layer's     *)
(* evidence tells it of.  Edits keep that, since the evidence of a layer is *)
(* its last batches without a hole: one that reaches back to what the stage *)
(* saw names all that changed since.                                       *)
(***************************************************************************)
EXTENDS SourceSync, SequenceTheorems, WellFoundedInduction, TLAPS

-----------------------------------------------------------------------------
(* What the operators of ChangeHistory return, for every history.          *)

(* A history without batches takes no bytes. *)
LEMMA NoBytesOfNothing == Bytes(<<>>) = 0
<1>. DEFINE fld[s \in SUBSET {}] == IF s = {} THEN 0 ELSE 1
<1>1. DOMAIN <<>> = {}  OBVIOUS
<1>. QED  BY <1>1 DEF Bytes, FoldLeft, MapThenFoldSet

(* Every non-empty set of naturals below a bound has a largest element. *)
LEMMA LargestNatural ==
    ASSUME NEW n \in Nat, NEW S \in SUBSET (0..n), S # {}
    PROVE  \E m \in S : \A k \in S : k <= m
<1>. DEFINE LT == {p \in Nat \X Nat : p[1] < p[2]}
            T == {n - k : k \in S}
<1>1. T \subseteq Nat /\ T # {}
  <2>1. \A k \in S : n - k \in Nat  OBVIOUS
  <2>. QED  BY <2>1
<1>2. OpToRel(<, Nat) = LT  BY DEF OpToRel
<1>3. IsWellFoundedOn(LT, Nat)  BY <1>2, NatLessThanWellFounded
<1>. HIDE DEF LT
<1>4. PICK x \in T : \A y \in T : ~(<<y, x>> \in LT)  BY <1>1, <1>3, WFMin
<1>5. \A y, z \in Nat : y < z => <<y, z>> \in LT  BY DEF LT
<1>6. \A y \in T : x <= y
  <2>. TAKE y \in T
  <2>1. x \in Nat /\ y \in Nat /\ ~(y < x)  BY <1>1, <1>4, <1>5
  <2>. QED  BY <2>1
<1>7. PICK m \in S : x = n - m  OBVIOUS
<1>8. \A k \in S : k <= m
  <2>. HIDE DEF T
  <2>. TAKE k \in S
  <2>1. n - k \in T  BY DEF T
  <2>2. x <= n - k  BY <1>6, <2>1
  <2>3. n - m <= n - k /\ k \in Nat /\ m \in Nat  BY <1>7, <2>2
  <2>. QED  BY <2>3
<1>. QED  BY <1>8

(* Some suffix of a history fits any budget, the empty one at worst; the    *)
(* one chosen is within the limits, and a suffix.                           *)
LEMMA NewestFits ==
    ASSUME NEW E, NEW entries \in Seq(E), NEW batches \in Nat, NEW bytes \in Nat
    PROVE  LET kept == Newest(entries, batches, bytes)
           IN  kept \in Suffixes(entries) /\ Within(kept, batches, bytes)
<1>. DEFINE Fit == {s \in Suffixes(entries) : Within(s, batches, bytes)}
            Lengths == {Len(s) : s \in Fit}
<1>1. <<>> \in Fit
  <2>1. <<>> \in Suffixes(entries)  BY DEF Suffixes
  <2>2. Len(<<>>) = 0  OBVIOUS
  <2>. QED  BY <2>1, <2>2, NoBytesOfNothing DEF Within
<1>2. \A s \in Suffixes(entries) : Len(s) \in 0..Len(entries)
  <2>1. SUFFICES ASSUME NEW k \in 1..Len(entries)
                 PROVE  Len(SubSeq(entries, k, Len(entries))) \in 0..Len(entries)
    BY DEF Suffixes
  <2>. QED  OBVIOUS
<1>3. Len(entries) \in Nat /\ Lengths \in SUBSET (0..Len(entries)) /\ Lengths # {}
  <2>1. Len(entries) \in Nat  OBVIOUS
  <2>2. Lengths \in SUBSET (0..Len(entries))  BY <1>2
  <2>3. Len(<<>>) \in Lengths  BY <1>1
  <2>. QED  BY <2>1, <2>2, <2>3
<1>4. PICK m \in Lengths : \A k \in Lengths : k <= m  BY <1>3, LargestNatural
<1>5. PICK s \in Fit : Len(s) = m  OBVIOUS
<1>6. /\ s \in Suffixes(entries)
      /\ Within(s, batches, bytes)
      /\ \A t \in Suffixes(entries) : Within(t, batches, bytes) => Len(t) <= Len(s)
  BY <1>4, <1>5
<1>. QED  BY <1>6 DEF Newest

(* A suffix of a sequence is what is left after its first d elements. *)
LEMMA SuffixElements ==
    ASSUME NEW E, NEW entries \in Seq(E), NEW kept \in Suffixes(entries)
    PROVE  /\ kept \in Seq(E)
           /\ Len(kept) <= Len(entries)
           /\ \A i \in 1..Len(kept) : kept[i] = entries[Len(entries) - Len(kept) + i]
<1>1. CASE kept = <<>>  BY <1>1
<1>2. CASE \E k \in 1..Len(entries) : kept = SubSeq(entries, k, Len(entries))
  <2>1. PICK k \in 1..Len(entries) : kept = SubSeq(entries, k, Len(entries))  BY <1>2
  <2>2. Len(kept) = Len(entries) - k + 1  BY <2>1
  <2>3. \A i \in 1..Len(kept) : kept[i] = entries[k + i - 1]  BY <2>1, <2>2
  <2>4. kept \in Seq(E)  BY <2>1
  <2>. QED  BY <2>2, <2>3, <2>4
<1>. QED  BY <1>1, <1>2 DEF Suffixes

-----------------------------------------------------------------------------

Support == (SUBSET Paths) \cup {Unknown}
Batch == [rev : Nat, bytes : Nat, paths : Support, layerStack : BOOLEAN]
Evidence == [entries : Seq(Batch), budget : Budgets, floor : Nat]
Values == [Slots -> {0, 1}]
Layers == [content : Values, generation : Nat, structure : Nat, evidence : Evidence]

(* What a batch says has changed. *)
Touched(paths, layerStack) ==
    IF layerStack THEN {Bound} ELSE IF paths = Unknown THEN Slots ELSE Specs(paths)

Told(l, generation) == UNION {Touched(e.paths, e.layerStack) : e \in Since(l, generation)}

(* The entries are the last ones up to revision n, without a hole.          *)
UpTo(entries, n) == \A i \in 1..Len(entries) : entries[i].rev = n - Len(entries) + i

LayerInv(l) ==
    /\ l \in Layers
    /\ l.structure <= l.generation
    /\ UpTo(l.evidence.entries, l.generation)
    /\ \A e \in Range(l.evidence.entries) : e.layerStack => e.paths = Unknown

-----------------------------------------------------------------------------
(* The evidence.                                                           *)
First(entries, g) == entries # <<>> /\ entries[1].rev <= g + 1
After(entries, g) == {e \in Range(entries) : e.rev > g}

LEMMA BudgetsAreNatural == \A b \in Budgets : b.batches \in Nat /\ b.bytes \in Nat
BY BudgetsAssumption

LEMMA RangeElements ==
    ASSUME NEW E, NEW s \in Seq(E)
    PROVE  Range(s) = {s[i] : i \in 1..Len(s)} /\ Range(s) \subseteq E
BY DEF Range

(* Evicting down to a suffix keeps the types and changes nothing but the    *)
(* entries and the floor.                                                  *)
LEMMA EvictKeepsTypes ==
    ASSUME NEW h \in Evidence, NEW kept \in Suffixes(h.entries)
    PROVE  /\ EvictDownTo(h, kept) \in Evidence
           /\ EvictDownTo(h, kept).entries = kept
           /\ EvictDownTo(h, kept).budget = h.budget
<1>. DEFINE d == Len(h.entries) - Len(kept)
            f == IF d = 0 THEN h.floor ELSE Larger(h.floor, h.entries[d].rev)
            g == EvictDownTo(h, kept)
<1>1. h.entries \in Seq(Batch) /\ h.floor \in Nat  BY DEF Evidence
<1>2. kept \in Seq(Batch) /\ Len(kept) <= Len(h.entries)  BY <1>1, SuffixElements
<1>3. Len(kept) \in Nat /\ Len(h.entries) \in Nat /\ d \in 0..Len(h.entries)  BY <1>1, <1>2
<1>4. f \in Nat
  <2>1. CASE d = 0  BY <1>1, <2>1
  <2>2. CASE d # 0
    <3>1. d \in 1..Len(h.entries)  BY <1>3, <2>2
    <3>2. h.entries[d] \in Batch  BY <1>1, <3>1
    <3>3. h.entries[d].rev \in Nat  BY <3>2 DEF Batch
    <3>. QED  BY <1>1, <2>2, <3>3 DEF Larger
  <2>. QED  BY <2>1, <2>2
<1>5. g = [h EXCEPT !.entries = kept, !.floor = f]  BY DEF EvictDownTo
<1>. QED  BY <1>2, <1>4, <1>5 DEF Evidence

LEMMA ClearEmpties ==
    ASSUME NEW h \in Evidence
    PROVE  Clear(h) \in Evidence /\ Clear(h).entries = <<>> /\ Clear(h).budget = h.budget
<1>1. <<>> \in Suffixes(h.entries)  BY DEF Suffixes
<1>. QED  BY <1>1, EvictKeepsTypes DEF Clear

LEMMA SetBudgetKeepsSuffix ==
    ASSUME NEW h \in Evidence, NEW budget \in Budgets
    PROVE  SetBudget(h, budget) \in Evidence /\ SetBudget(h, budget).entries \in Suffixes(h.entries)
<1>. DEFINE b == [h EXCEPT !.budget = budget]
            kept == Newest(b.entries, budget.batches, budget.bytes)
<1>1. b \in Evidence /\ b.entries = h.entries /\ b.budget = budget /\ h.entries \in Seq(Batch)
  BY DEF Evidence
<1>2. kept \in Suffixes(b.entries)  BY <1>1, BudgetsAreNatural, NewestFits
<1>3. SetBudget(h, budget) = EvictDownTo(b, kept)  BY <1>1 DEF SetBudget, Trim
<1>. HIDE DEF b, kept
<1>. QED  BY <1>1, <1>2, <1>3, EvictKeepsTypes

(* A batch recorded is added to the newest there is room for, or nothing is *)
(* left.                                                                   *)
LEMMA RecordAppends ==
    ASSUME NEW h \in Evidence, NEW e \in Batch
    PROVE  /\ Record(h, e) \in Evidence
           /\ \/ Record(h, e).entries = <<>>
              \/ \E kept \in Suffixes(h.entries) : Record(h, e).entries = Append(kept, e)
<1>. DEFINE c == Clear(h)
            kept == Newest(h.entries, h.budget.batches - 1, h.budget.bytes - e.bytes)
            room == EvictDownTo(h, kept)
<1>0. h.entries \in Seq(Batch) /\ h.budget \in Budgets /\ e.rev \in Nat /\ e.bytes \in Nat
  BY DEF Evidence, Batch
<1>1. CASE TooLarge(h, e.bytes)
  <2>1. c \in Evidence /\ c.entries = <<>>  BY ClearEmpties
  <2>2. Record(h, e) = [c EXCEPT !.floor = Larger(@, e.rev)]  BY <1>1 DEF Record, Discard
  <2>. HIDE DEF c
  <2>3. Larger(c.floor, e.rev) \in Nat  BY <1>0, <2>1 DEF Larger, Evidence
  <2>. QED  BY <2>1, <2>2, <2>3 DEF Evidence
<1>2. CASE ~TooLarge(h, e.bytes)
  <2>1. h.budget.batches - 1 \in Nat /\ h.budget.bytes - e.bytes \in Nat
    <3>1. h.budget.batches # 0 /\ ~(e.bytes > h.budget.bytes)  BY <1>2 DEF TooLarge
    <3>2. h.budget.batches \in Nat /\ h.budget.bytes \in Nat  BY <1>0, BudgetsAreNatural
    <3>. QED  BY <1>0, <3>1, <3>2
  <2>2. kept \in Suffixes(h.entries)  BY <1>0, <2>1, NewestFits
  <2>3. Record(h, e) = [room EXCEPT !.entries = Append(@, e)]  BY <1>2 DEF Record
  <2>. HIDE DEF kept
  <2>4. room \in Evidence /\ room.entries = kept  BY <2>2, EvictKeepsTypes
  <2>. HIDE DEF room
  <2>5. kept \in Seq(Batch)  BY <1>0, <2>2, SuffixElements
  <2>6. Append(kept, e) \in Seq(Batch)  BY <2>5
  <2>7. Record(h, e) \in Evidence /\ Record(h, e).entries = Append(kept, e)
    BY <2>3, <2>4, <2>6 DEF Evidence
  <2>. QED  BY <2>2, <2>7
<1>. QED  BY <1>1, <1>2

(* A suffix that reaches back to g has all there is since g.                *)
LEMMA SuffixTells ==
    ASSUME NEW entries \in Seq(Batch), NEW n \in Nat, UpTo(entries, n),
           NEW kept \in Suffixes(entries)
    PROVE  /\ kept \in Seq(Batch) /\ UpTo(kept, n)
           /\ Range(kept) \subseteq Range(entries)
           /\ \A g \in Nat : First(kept, g) => /\ First(entries, g)
                                               /\ After(entries, g) \subseteq After(kept, g)
<1>. DEFINE d == Len(entries) - Len(kept)
<1>1. /\ kept \in Seq(Batch)
      /\ Len(kept) <= Len(entries)
      /\ \A i \in 1..Len(kept) : kept[i] = entries[d + i]
  BY SuffixElements
<1>2. Len(kept) \in Nat /\ Len(entries) \in Nat /\ d \in Nat  BY <1>1
<1>3. \A i \in 1..Len(kept) : d + i \in 1..Len(entries)  BY <1>1, <1>2
<1>4. ASSUME NEW i \in 1..Len(kept)
      PROVE  kept[i].rev = n - Len(kept) + i
  <2>1. entries[d + i].rev = n - Len(entries) + (d + i)  BY <1>3 DEF UpTo
  <2>. QED  BY <1>1, <1>2, <2>1
<1>5. UpTo(kept, n)  BY <1>4 DEF UpTo
<1>6. Range(kept) \subseteq Range(entries)
  <2>1. Range(kept) = {kept[i] : i \in 1..Len(kept)}  BY <1>1, RangeElements
  <2>2. Range(entries) = {entries[i] : i \in 1..Len(entries)}  BY RangeElements
  <2>. QED  BY <1>1, <1>3, <2>1, <2>2
<1>7. ASSUME NEW g \in Nat, First(kept, g)
      PROVE  First(entries, g) /\ After(entries, g) \subseteq After(kept, g)
  <2>1. Len(kept) >= 1 /\ n - Len(kept) + 1 <= g + 1
    <3>1. Len(kept) >= 1  BY <1>1, <1>2, <1>7 DEF First
    <3>2. kept[1].rev = n - Len(kept) + 1  BY <1>2, <1>4, <3>1
    <3>. QED  BY <1>7, <3>1, <3>2 DEF First
  <2>2. First(entries, g)
    <3>1. Len(entries) >= 1 /\ entries[1].rev = n - Len(entries) + 1
      BY <1>1, <1>2, <2>1 DEF UpTo
    <3>2. entries # <<>>  BY <3>1
    <3>3. n - Len(entries) + 1 <= g + 1  BY <1>1, <1>2, <2>1
    <3>. QED  BY <3>1, <3>2, <3>3 DEF First
  <2>3. ASSUME NEW e \in After(entries, g)
        PROVE  e \in After(kept, g)
    <3>1. PICK i \in 1..Len(entries) : e = entries[i]  BY RangeElements DEF After
    <3>2. e.rev > g /\ e.rev = n - Len(entries) + i  BY <3>1 DEF After, UpTo
    <3>3. i - d \in 1..Len(kept)  BY <1>2, <2>1, <3>2
    <3>4. kept[i - d] = entries[d + (i - d)] /\ d + (i - d) = i  BY <1>1, <1>2, <3>3
    <3>5. e \in Range(kept)  BY <1>1, <3>1, <3>3, <3>4, RangeElements
    <3>. QED  BY <3>2, <3>5 DEF After
  <2>. QED  BY <2>2, <2>3
<1>. QED  BY <1>1, <1>5, <1>6, <1>7

(* With the next batch appended, likewise; and the batch itself.            *)
LEMMA AppendTells ==
    ASSUME NEW kept \in Seq(Batch), NEW n \in Nat, UpTo(kept, n),
           NEW e \in Batch, e.rev = n + 1
    PROVE  /\ UpTo(Append(kept, e), n + 1)
           /\ Range(Append(kept, e)) = Range(kept) \cup {e}
           /\ \A g \in 0..n : First(Append(kept, e), g) =>
                /\ g = n \/ First(kept, g)
                /\ After(Append(kept, e), g) = After(kept, g) \cup {e}
<1>. DEFINE more == Append(kept, e)
<1>1. more \in Seq(Batch) /\ Len(more) = Len(kept) + 1 /\ Len(kept) \in Nat  OBVIOUS
<1>2. \A i \in 1..Len(kept) : more[i] = kept[i]  OBVIOUS
<1>3. more[Len(kept) + 1] = e  OBVIOUS
<1>4. Range(more) = Range(kept) \cup {e}
  <2>1. Range(more) = {more[i] : i \in 1..Len(more)}  BY <1>1, RangeElements
  <2>2. Range(kept) = {kept[i] : i \in 1..Len(kept)}  BY RangeElements
  <2>3. 1..Len(more) = (1..Len(kept)) \cup {Len(kept) + 1}  BY <1>1
  <2>. HIDE DEF more
  <2>. QED  BY <1>2, <1>3, <2>1, <2>2, <2>3
<1>5. UpTo(more, n + 1)
  <2>1. ASSUME NEW i \in 1..Len(more)  PROVE  more[i].rev = n + 1 - Len(more) + i
    <3>1. CASE i = Len(kept) + 1  BY <1>1, <1>3, <3>1
    <3>2. CASE i \in 1..Len(kept)
      <4>1. kept[i].rev = n - Len(kept) + i  BY <3>2 DEF UpTo
      <4>. QED  BY <1>1, <1>2, <3>2, <4>1
    <3>. QED  BY <1>1, <3>1, <3>2
  <2>. QED  BY <2>1 DEF UpTo
<1>6. ASSUME NEW g \in 0..n, First(more, g)
      PROVE  (g = n \/ First(kept, g)) /\ After(more, g) = After(kept, g) \cup {e}
  <2>1. After(more, g) = After(kept, g) \cup {e}  BY <1>4 DEF After
  <2>2. CASE Len(kept) = 0
    <3>1. more[1] = e  BY <1>3, <2>2
    <3>2. n + 1 <= g + 1  BY <1>6, <3>1 DEF First
    <3>. QED  BY <2>1, <3>2
  <2>3. CASE Len(kept) # 0
    <3>1. more[1] = kept[1] /\ kept # <<>>  BY <1>1, <1>2, <2>3
    <3>. QED  BY <1>6, <2>1, <3>1 DEF First
  <2>. QED  BY <2>2, <2>3
<1>. QED  BY <1>4, <1>5, <1>6
-----------------------------------------------------------------------------
(* The stage. *)
Nothing == [s \in Slots |-> -1]

Seen == [generation : Nat, structure : Nat]

Stages ==
    [seen : Seen \cup {None}, opinions : SUBSET Paths, specs : SUBSET Paths,
     rebuild : BOOLEAN, restack : BOOLEAN, composed : Values \cup {Nothing}]

StageInv(st) ==
    /\ st \in Stages
    /\ st.restack => st.rebuild /\ st.seen # None
    /\ st.seen = None /\ ~st.rebuild => st.composed = Nothing /\ Idle(st)
    /\ st.seen # None /\ ~st.rebuild => st.composed # Nothing

(* The slots the stage is to recompose, and those it holds as they no      *)
(* longer are.                                                             *)
Marked(st) ==
    IF ~st.rebuild THEN Opinions(st.opinions) \cup Specs(st.specs)
    ELSE IF st.restack /\ st.opinions = {} /\ st.specs = {} /\ st.composed[Bound] # -1
    THEN {Bound} ELSE Slots

Stale(st, l) == {s \in Slots : st.composed[s] # Content(l)[s]}

Behind(seen, g) == seen.generation <= g.generation /\ seen.structure <= g.structure

(* What is stale is marked, or is an opinion and the structure has moved    *)
(* no further, or is named by the evidence if that reaches back.            *)
Traced(st, l) ==
    /\ Behind(st.seen, l)
    /\ st.seen # None =>
        /\ st.seen.structure = l.structure => Stale(st, l) \subseteq Marked(st) \cup Opinions(Paths)
        /\ st.seen.generation = l.generation \/ ReachesBack(l, st.seen.generation)
            => Stale(st, l) \subseteq Marked(st) \cup Told(l, st.seen.generation)

(* The layer under the stage's id, or the one just removed from under it. *)
Home == IF layer # None THEN layer ELSE IF removed THEN aside ELSE None

SyncInv ==
    /\ layer # None => LayerInv(layer)
    /\ aside # None => LayerInv(aside)
    /\ removed \in BOOLEAN
    /\ removed => layer = None /\ aside # None
    /\ released \in Seen \cup {None}
    /\ released # None => layer = None /\ ~removed /\ released.structure <= released.generation
    /\ layer = None => removed \/ released # None
    /\ StageInv(stage)
    /\ Home # None => Traced(stage, Home)
    /\ Home = None => Behind(stage.seen, released)

-----------------------------------------------------------------------------
(* Slots and layers.                                                       *)
LEMMA SlotSets ==
    ASSUME NEW paths \in SUBSET Paths
    PROVE  /\ Opinions(paths) \subseteq Specs(paths)
           /\ Specs(paths) \subseteq Slots
           /\ Opinions(paths) \subseteq Opinions(Paths)
           /\ Opinions(Paths) \cap Specs(paths) \subseteq Opinions(paths)
           /\ Bound \in Slots
           /\ paths # Unknown
<1>1. paths # Unknown  BY PathsAssumption DEF Unknown
<1>. QED  BY <1>1 DEF Opinions, Specs, Slots

LEMMA LayerTypes ==
    ASSUME NEW l, LayerInv(l)
    PROVE  /\ l # None
           /\ l.content \in Values /\ Content(l) = l.content
           /\ l.generation \in Nat /\ l.structure \in Nat
           /\ l.evidence \in Evidence /\ l.evidence.entries \in Seq(Batch)
           /\ Generations(l) \in Seen /\ Generations(l) # None
           /\ Generations(l).generation = l.generation
           /\ Generations(l).structure = l.structure
<1>1. /\ l.content \in Values /\ l.generation \in Nat /\ l.structure \in Nat
      /\ l.evidence \in Evidence
  BY DEF LayerInv, Layers
<1>2. None.generation = -1  BY DEF None
<1>3. l # None  BY <1>1, <1>2
<1>4. Generations(l) # None  BY <1>1, <1>2 DEF Generations
<1>. QED  BY <1>1, <1>3, <1>4 DEF Content, Generations, Seen, Evidence

(* No batch is newer than the layer. *)
LEMMA NothingSinceNow ==
    ASSUME NEW l, LayerInv(l)
    PROVE  /\ Told(l, l.generation) = {}
           /\ \A e \in Range(l.evidence.entries) : e \in Batch /\ e.rev <= l.generation
<1>1. ASSUME NEW e \in Range(l.evidence.entries)  PROVE  e \in Batch /\ e.rev <= l.generation
  <2>1. PICK i \in 1..Len(l.evidence.entries) : e = l.evidence.entries[i]
    BY LayerTypes, RangeElements
  <2>2. e.rev = l.generation - Len(l.evidence.entries) + i  BY <2>1 DEF LayerInv, UpTo
  <2>3. Len(l.evidence.entries) \in Nat /\ l.generation \in Nat  BY LayerTypes
  <2>4. e \in Batch  BY LayerTypes, RangeElements
  <2>. QED  BY <2>2, <2>3, <2>4
<1>2. \A e \in Range(l.evidence.entries) : e.rev \in Nat  BY <1>1 DEF Batch
<1>3. l.generation \in Nat  BY LayerTypes
<1>4. Since(l, l.generation) = {}  BY <1>1, <1>2, <1>3 DEF Since
<1>. QED  BY <1>1, <1>4 DEF Told

(* An edit recorded: the layer stays consistent, and if its evidence        *)
(* reaches back to g it did before, and tells of what it told and the edit. *)
LEMMA RecordedTells ==
    ASSUME NEW l, LayerInv(l), NEW c \in Values, NEW structural \in BOOLEAN,
           NEW paths \in Support, NEW layerStack \in BOOLEAN, layerStack => paths = Unknown,
           NEW m, m = Recorded(l, c, structural, paths, layerStack)
    PROVE  /\ LayerInv(m)
           /\ m.content = c
           /\ m.generation = l.generation + 1
           /\ structural => m.structure = l.structure + 1
           /\ ~structural => m.structure = l.structure
           /\ \A g \in 0..l.generation : ReachesBack(m, g) =>
                /\ g = l.generation \/ ReachesBack(l, g)
                /\ Told(l, g) \cup Touched(paths, layerStack) \subseteq Told(m, g)
<1>. DEFINE e == [rev |-> l.generation + 1, bytes |-> 1, paths |-> paths, layerStack |-> layerStack]
            old == l.evidence.entries
            h == Record(l.evidence, e)
<1>1. /\ l \in Layers /\ l.evidence \in Evidence /\ old \in Seq(Batch) /\ l.generation \in Nat
      /\ l.structure \in Nat /\ l.structure <= l.generation
      /\ UpTo(old, l.generation)
  BY LayerTypes DEF LayerInv
<1>2. e \in Batch /\ e.rev = l.generation + 1  BY <1>1 DEF Batch
<1>3. /\ h \in Evidence
      /\ h.entries = <<>> \/ \E kept \in Suffixes(old) : h.entries = Append(kept, e)
  BY <1>1, <1>2, RecordAppends
<1>. DEFINE s == IF structural THEN l.structure + 1 ELSE l.structure
<1>. HIDE DEF h
<1>s. s \in Nat /\ s <= l.generation + 1  BY <1>1
<1>4. m = [content |-> c, generation |-> l.generation + 1, structure |-> s, evidence |-> h]
  <2>. HIDE DEF s
  <2>1. l = [content |-> l.content, generation |-> l.generation, structure |-> l.structure,
             evidence |-> l.evidence]
    BY <1>1 DEF Layers
  <2>2. m = [l EXCEPT !.content = c, !.generation = l.generation + 1, !.structure = s,
                      !.evidence = h]
    BY <2>1 DEF Recorded, h, e, s
  <2>. QED  BY <2>1, <2>2
<1>n. m \in Layers  BY <1>1, <1>3, <1>4, <1>s DEF Layers
<1>5. m.structure <= m.generation  BY <1>4, <1>s
<1>. HIDE DEF e, old
<1>6. CASE h.entries = <<>>
  <2>1. UpTo(h.entries, m.generation) /\ Range(h.entries) = {}
    <3>1. Len(<<>>) = 0 /\ 1..0 = {} /\ Range(<<>>) = {}  BY DEF Range
    <3>. QED  BY <1>6, <3>1 DEF UpTo
  <2>2. \A g \in 0..l.generation : ~ReachesBack(m, g)  BY <1>4, <1>6 DEF ReachesBack
  <2>. QED  BY <1>4, <1>5, <1>n, <2>1, <2>2 DEF LayerInv
<1>7. CASE \E kept \in Suffixes(old) : h.entries = Append(kept, e)
  <2>1. PICK kept \in Suffixes(old) : h.entries = Append(kept, e)  BY <1>7
  <2>2. /\ kept \in Seq(Batch) /\ UpTo(kept, l.generation)
        /\ Range(kept) \subseteq Range(old)
        /\ \A g \in Nat : First(kept, g) => First(old, g) /\ After(old, g) \subseteq After(kept, g)
    BY <1>1, SuffixTells
  <2>3. /\ UpTo(h.entries, l.generation + 1)
        /\ Range(h.entries) = Range(kept) \cup {e}
        /\ \A g \in 0..l.generation : First(h.entries, g) =>
             /\ g = l.generation \/ First(kept, g)
             /\ After(h.entries, g) = After(kept, g) \cup {e}
    BY <1>1, <1>2, <2>1, <2>2, AppendTells
  <2>4. \A x \in Range(h.entries) : x.layerStack => x.paths = Unknown
    <3>1. \A x \in Range(old) : x.layerStack => x.paths = Unknown  BY DEF LayerInv, old
    <3>2. e.layerStack => e.paths = Unknown  BY DEF e
    <3>. QED  BY <2>2, <2>3, <3>1, <3>2
  <2>5. LayerInv(m)  BY <1>4, <1>5, <1>n, <2>3, <2>4 DEF LayerInv
  <2>6. ASSUME NEW g \in 0..l.generation, ReachesBack(m, g)
        PROVE  /\ g = l.generation \/ ReachesBack(l, g)
               /\ Told(l, g) \cup Touched(paths, layerStack) \subseteq Told(m, g)
    <3>1. First(h.entries, g)  BY <1>4, <2>6 DEF ReachesBack, First
    <3>2. Since(l, g) = After(old, g) /\ Since(m, g) = After(h.entries, g)
      BY <1>4 DEF Since, After, old
    <3>3. g \in Nat  BY <1>1
    <3>4. g = l.generation => After(old, g) = {}
      <4>1. \A x \in Range(old) : x \in Batch /\ x.rev <= l.generation
        BY NothingSinceNow DEF old
      <4>2. \A x \in Batch : x.rev \in Nat  BY DEF Batch
      <4>. QED  BY <1>1, <4>1, <4>2 DEF After
    <3>5. After(old, g) \cup {e} \subseteq After(h.entries, g)
      BY <2>2, <2>3, <3>1, <3>3, <3>4
    <3>6. g = l.generation \/ ReachesBack(l, g)
      BY <2>2, <2>3, <3>1, <3>3 DEF ReachesBack, First, old
    <3>7. e.paths = paths /\ e.layerStack = layerStack  BY DEF e
    <3>. QED  BY <3>2, <3>5, <3>6, <3>7 DEF Told
  <2>. QED  BY <1>4, <2>5, <2>6
<1>. QED  BY <1>3, <1>6, <1>7
-----------------------------------------------------------------------------
(* Edits keep a stage traced.                                              *)
LEMMA EditKeepsTraced ==
    ASSUME NEW l, LayerInv(l), NEW c \in Values, NEW structural \in BOOLEAN,
           NEW paths \in Support, NEW layerStack \in BOOLEAN, layerStack => paths = Unknown,
           \A s \in Slots : c[s] # l.content[s] =>
               s \in Touched(paths, layerStack) /\ (structural \/ s \in Opinions(Paths)),
           NEW m, m = Recorded(l, c, structural, paths, layerStack),
           NEW st \in Stages, Traced(st, l)
    PROVE  Traced(st, m)
<1>1. /\ LayerInv(m) /\ m.content = c /\ m.generation = l.generation + 1
      /\ structural => m.structure = l.structure + 1
      /\ ~structural => m.structure = l.structure
      /\ \A g \in 0..l.generation : ReachesBack(m, g) =>
           /\ g = l.generation \/ ReachesBack(l, g)
           /\ Told(l, g) \cup Touched(paths, layerStack) \subseteq Told(m, g)
  BY RecordedTells
<1>2. /\ l.generation \in Nat /\ l.structure \in Nat
      /\ Content(l) = l.content /\ Content(m) = c
  BY <1>1, LayerTypes
<1>3. Stale(st, m) \subseteq Stale(st, l) \cup {s \in Slots : c[s] # l.content[s]}
  BY <1>2 DEF Stale
<1>4. CASE st.seen = None
  <2>1. st.seen.generation = -1 /\ st.seen.structure = -1  BY <1>4 DEF None
  <2>2. Behind(st.seen, m)  BY <1>1, <1>2, <2>1 DEF Behind
  <2>. QED  BY <1>4, <2>2 DEF Traced
<1>5. CASE st.seen # None
  <2>1. st.seen.generation \in Nat /\ st.seen.structure \in Nat
    BY <1>5 DEF Stages, Seen
  <2>2. st.seen.generation <= l.generation /\ st.seen.structure <= l.structure
    BY DEF Traced, Behind
  <2>3. Behind(st.seen, m)  BY <1>1, <1>2, <2>1, <2>2 DEF Behind
  <2>4. ASSUME st.seen.structure = m.structure
        PROVE  Stale(st, m) \subseteq Marked(st) \cup Opinions(Paths)
    <3>1. ~structural /\ st.seen.structure = l.structure  BY <1>1, <1>2, <2>1, <2>2, <2>4
    <3>2. Stale(st, l) \subseteq Marked(st) \cup Opinions(Paths)  BY <1>5, <3>1 DEF Traced
    <3>. QED  BY <1>3, <3>1, <3>2
  <2>5. ASSUME st.seen.generation = m.generation \/ ReachesBack(m, st.seen.generation)
        PROVE  Stale(st, m) \subseteq Marked(st) \cup Told(m, st.seen.generation)
    <3>1. st.seen.generation \in 0..l.generation /\ ReachesBack(m, st.seen.generation)
      BY <1>1, <1>2, <2>1, <2>2, <2>5
    <3>2. /\ st.seen.generation = l.generation \/ ReachesBack(l, st.seen.generation)
          /\ Told(l, st.seen.generation) \cup Touched(paths, layerStack)
                \subseteq Told(m, st.seen.generation)
      BY <1>1, <3>1
    <3>3. Stale(st, l) \subseteq Marked(st) \cup Told(l, st.seen.generation)
      BY <1>5, <3>2 DEF Traced
    <3>. QED  BY <1>3, <3>2, <3>3
  <2>. QED  BY <2>3, <2>4, <2>5 DEF Traced
<1>. QED  BY <1>4, <1>5

LEMMA WrittenValues ==
    ASSUME NEW l, LayerInv(l), NEW slots \in SUBSET Slots, NEW c \in Written(l, slots)
    PROVE  c \in Values /\ \A s \in Slots : c[s] # l.content[s] => s \in slots
<1>1. l.content \in Values  BY LayerTypes
<1>2. CASE c = l.content  BY <1>1, <1>2
<1>3. CASE c = [s \in Slots |-> IF s \in slots THEN 1 - l.content[s] ELSE l.content[s]]
  <2>1. \A s \in Slots : l.content[s] \in {0, 1}  BY <1>1 DEF Values
  <2>2. \A s \in Slots : c[s] \in {0, 1}  BY <1>3, <2>1
  <2>3. c \in Values  BY <1>3, <2>2 DEF Values
  <2>4. \A s \in Slots : c[s] # l.content[s] => s \in slots  BY <1>3
  <2>. QED  BY <2>3, <2>4
<1>. QED  BY <1>2, <1>3 DEF Written

LEMMA EditOfKeeps ==
    ASSUME NEW l, LayerInv(l), NEW paths \in SUBSET Paths, NEW structural \in BOOLEAN,
           NEW m \in EditOf(l, paths, structural)
    PROVE  /\ LayerInv(m)
           /\ m.generation = l.generation + 1
           /\ structural => m.structure = l.structure + 1
           /\ ~structural => m.structure = l.structure
           /\ \A s \in Slots : m.content[s] # l.content[s]
                => s \in IF structural THEN Specs(paths) ELSE Opinions(paths)
           /\ \A st \in Stages : Traced(st, l) => Traced(st, m)
<1>. DEFINE slots == IF structural THEN Specs(paths) ELSE Opinions(paths)
<1>1. slots \in SUBSET Slots /\ slots \subseteq Specs(paths)
      /\ (structural \/ slots \subseteq Opinions(Paths)) /\ paths # Unknown
  BY SlotSets
<1>. HIDE DEF slots
<1>2. PICK c \in Written(l, slots) : m = Recorded(l, c, structural, paths, FALSE)
  BY DEF EditOf, slots
<1>3. c \in Values /\ \A s \in Slots : c[s] # l.content[s] => s \in slots
  BY <1>1, WrittenValues
<1>4. Touched(paths, FALSE) = Specs(paths)  BY <1>1 DEF Touched
<1>5. paths \in Support  BY DEF Support
<1>6. \A s \in Slots : c[s] # l.content[s] =>
          s \in Touched(paths, FALSE) /\ (structural \/ s \in Opinions(Paths))
  BY <1>1, <1>3, <1>4
<1>7. /\ LayerInv(m) /\ m.content = c /\ m.generation = l.generation + 1
      /\ structural => m.structure = l.structure + 1
      /\ ~structural => m.structure = l.structure
  <2>1. PICK b \in BOOLEAN : ~b /\ m = Recorded(l, c, structural, paths, b)
    <3>1. FALSE \in BOOLEAN /\ ~FALSE  OBVIOUS
    <3>. QED  BY <1>2, <3>1, Zenon
  <2>2. b => paths = Unknown  BY <2>1
  <2>. QED  BY <1>3, <1>5, <2>1, <2>2, RecordedTells
<1>8. ASSUME NEW st \in Stages, Traced(st, l)  PROVE  Traced(st, m)
  BY <1>2, <1>3, <1>5, <1>6, <1>8, EditKeepsTraced
<1>. QED  BY <1>3, <1>7, <1>8 DEF slots

-----------------------------------------------------------------------------
(* What keeps a stage traced. *)
LEMMA MoreMarked ==
    ASSUME NEW l, NEW st, Traced(st, l),
           NEW more, more.seen = st.seen, more.composed = st.composed, Marked(st) \subseteq Marked(more)
    PROVE  Traced(more, l)
<1>1. Stale(more, l) = Stale(st, l)  BY DEF Stale
<1>. QED  BY <1>1 DEF Traced

(* A stage that has seen the layer and marked all that is stale is traced.  *)
LEMMA CoveredIsTraced ==
    ASSUME NEW l, LayerInv(l), NEW st, st.seen = Generations(l), Stale(st, l) \subseteq Marked(st)
    PROVE  Traced(st, l)
<1>1. st.seen.generation = l.generation /\ st.seen.structure = l.structure
      /\ l.generation \in Nat /\ l.structure \in Nat
  BY LayerTypes
<1>. QED  BY <1>1 DEF Traced, Behind

LEMMA ContentTypes ==
    ASSUME NEW l, l # None => LayerInv(l)
    PROVE  /\ Content(l) \in Values \cup {Nothing}
           /\ l = None => Content(l) = Nothing /\ Generations(l) = None
           /\ l # None => Content(l) \in Values /\ Content(l) # Nothing
           /\ Generations(l) \in Seen \cup {None}
           /\ Generations(l) = None => l = None
<1>1. ASSUME l = None  PROVE  Content(l) = Nothing /\ Generations(l) = None
  BY <1>1 DEF Content, Nothing, Generations, None
<1>2. ASSUME l # None
      PROVE  Content(l) \in Values /\ Content(l) # Nothing /\ Generations(l) \in Seen
             /\ Generations(l) # None
  <2>1. Content(l) \in Values /\ Generations(l) \in Seen /\ Generations(l) # None
    BY <1>2, LayerTypes
  <2>2. Bound \in Slots  BY DEF Slots
  <2>3. Content(l)[Bound] \in {0, 1} /\ Nothing[Bound] = -1
    BY <2>1, <2>2 DEF Values, Nothing
  <2>. QED  BY <2>1, <2>3
<1>. QED  BY <1>1, <1>2

LEMMA WholeIsCurrent ==
    ASSUME NEW l, l # None => LayerInv(l)
    PROVE  /\ StageInv(ComposedWhole(l))
           /\ ComposedWhole(l).composed = Content(l)
           /\ ComposedWhole(l).seen = Generations(l)
           /\ l # None => Traced(ComposedWhole(l), l)
<1>. DEFINE w == ComposedWhole(l)
<1>1. /\ w \in Stages /\ w.seen = Generations(l) /\ w.composed = Content(l)
      /\ ~w.rebuild /\ ~w.restack /\ w.opinions = {} /\ w.specs = {}
  BY ContentTypes DEF ComposedWhole, Stages
<1>. HIDE DEF w
<1>2. StageInv(w)  BY <1>1, ContentTypes DEF StageInv, Idle
<1>3. l # None => Traced(w, l)
  <2>1. Stale(w, l) = {}  BY <1>1 DEF Stale
  <2>. QED  BY <1>1, <2>1, CoveredIsTraced
<1>. QED  BY <1>1, <1>2, <1>3 DEF w
-----------------------------------------------------------------------------
(* Recomposing.                                                            *)
LEMMA LayerStackTells ==
    ASSUME NEW l, NEW g, ChangedLayerStackOnly(l, g)
    PROVE  ReachesBack(l, g) /\ Told(l, g) \subseteq {Bound}
BY DEF ChangedLayerStackOnly, Told, Touched

(* A reading of all that is stale leaves nothing stale. *)
LEMMA ReadingIsCurrent ==
    ASSUME NEW l, l # None => LayerInv(l), NEW st \in Stages, NEW slots, Stale(st, l) \subseteq slots
    PROVE  [s \in Slots |-> IF s \in slots THEN Content(l)[s] ELSE st.composed[s]] = Content(l)
<1>. DEFINE new == [s \in Slots |-> IF s \in slots THEN Content(l)[s] ELSE st.composed[s]]
<1>1. \A s \in Slots : new[s] = Content(l)[s]  BY DEF Stale
<1>2. Content(l) = [s \in Slots |-> Content(l)[s]]  BY ContentTypes DEF Values, Nothing
<1>. QED  BY <1>1, <1>2

LEMMA StageFields ==
    ASSUME NEW st \in Stages
    PROVE  /\ st = [seen |-> st.seen, opinions |-> st.opinions, specs |-> st.specs,
                    rebuild |-> st.rebuild, restack |-> st.restack, composed |-> st.composed]
           /\ st.composed = [s \in Slots |-> st.composed[s]]
<1>1. st = [seen |-> st.seen, opinions |-> st.opinions, specs |-> st.specs,
            rebuild |-> st.rebuild, restack |-> st.restack, composed |-> st.composed]
  BY DEF Stages
<1>2. st.composed \in Values \cup {Nothing}  BY DEF Stages
<1>3. st.composed = [s \in Slots |-> st.composed[s]]  BY <1>2 DEF Values, Nothing
<1>. QED  BY <1>1, <1>3

(* Bound sublayers read anew leave the stage as a full rebuild would. *)
LEMMA RestackedIsWhole ==
    ASSUME NEW l, l # None => LayerInv(l), NEW st, StageInv(st), l # None => Traced(st, l),
           st.rebuild, Restacks(st, l)
    PROVE  Restacked(st, l) = ComposedWhole(l)
<1>. DEFINE slots == IF st.composed[Bound] = -1 THEN Slots ELSE {Bound}
<1>1. st \in Stages /\ st.restack /\ st.opinions = {} /\ st.specs = {} /\ st.seen # None
  BY DEF Restacks, StageInv
<1>2. l # None  BY <1>1, ContentTypes DEF Restacks
<1>3. Traced(st, l) /\ LayerInv(l)  BY <1>2
<1>4. Marked(st) = slots /\ Bound \in slots
  <2>1. Bound \in Slots  BY DEF Slots
  <2>. QED  BY <1>1, <2>1 DEF Marked
<1>5. Stale(st, l) \subseteq slots
  <2>1. CASE st.seen = Generations(l)
    <3>1. st.seen.generation = l.generation  BY <1>3, <2>1, LayerTypes
    <3>2. Told(l, st.seen.generation) = {}  BY <1>3, <3>1, NothingSinceNow
    <3>. QED  BY <1>1, <1>3, <1>4, <3>1, <3>2 DEF Traced
  <2>2. CASE ChangedLayerStackOnly(l, st.seen.generation)
    <3>1. /\ ReachesBack(l, st.seen.generation)
          /\ Told(l, st.seen.generation) \subseteq {Bound}
      BY <2>2, LayerStackTells
    <3>. HIDE DEF slots
    <3>. QED  BY <1>1, <1>3, <1>4, <3>1 DEF Traced
  <2>. QED  BY <1>1, <2>1, <2>2 DEF Restacks
<1>. HIDE DEF slots
<1>6. [s \in Slots |-> IF s \in slots THEN Content(l)[s] ELSE st.composed[s]] = Content(l)
  BY <1>1, <1>5, ReadingIsCurrent
<1>7. Restacked(st, l) = [[st EXCEPT !.composed = Content(l)]
                             EXCEPT !.seen = Generations(l), !.rebuild = FALSE, !.restack = FALSE]
  BY <1>1, <1>6, StageFields DEF Restacked, Reading, slots
<1>. QED  BY <1>1, <1>7, StageFields DEF ComposedWhole

(* So do the prims whose specs changed, when nothing else is to be read. *)
LEMMA ControlsIsWhole ==
    ASSUME NEW l, l # None => LayerInv(l), NEW st, StageInv(st), l # None => Traced(st, l),
           ~st.rebuild, NEW paths \in SUBSET Paths, paths # {},
           st.opinions \cup st.specs = paths
    PROVE  Controls(st, l, paths) = ComposedWhole(l)
<1>. SUFFICES ASSUME st.seen = Generations(l)  PROVE  Controls(st, l, paths) = ComposedWhole(l)
  BY DEF Controls
<1>1. st \in Stages /\ ~st.restack /\ st.restack \in BOOLEAN /\ st.rebuild \in BOOLEAN
  BY DEF StageInv, Stages
<1>2. st.seen # None  BY DEF StageInv, Idle
<1>3. l # None  BY <1>2, ContentTypes
<1>4. Traced(st, l) /\ LayerInv(l)  BY <1>3
<1>5. Stale(st, l) \subseteq Specs(paths)
  <2>1. st.seen.generation = l.generation  BY <1>4, LayerTypes
  <2>2. Told(l, st.seen.generation) = {}  BY <1>4, <2>1, NothingSinceNow
  <2>3. Stale(st, l) \subseteq Opinions(st.opinions) \cup Specs(st.specs)
    BY <1>2, <1>4, <2>1, <2>2 DEF Traced, Marked
  <2>4. Opinions(st.opinions) \cup Specs(st.specs) \subseteq Specs(paths)
    BY DEF Opinions, Specs
  <2>. QED  BY <2>3, <2>4
<1>6. [s \in Slots |-> IF s \in Specs(paths) THEN Content(l)[s] ELSE st.composed[s]] = Content(l)
  BY <1>1, <1>5, ReadingIsCurrent
<1>7. Controls(st, l, paths)
        = [[st EXCEPT !.composed = Content(l)] EXCEPT !.opinions = {}, !.specs = {}]
  BY <1>1, <1>6, StageFields DEF Controls, Reading
<1>. QED  BY <1>1, <1>7, StageFields DEF ComposedWhole

(* Recomposing ends in a full rebuild's state, or reads some opinions and   *)
(* nothing else.                                                           *)
LEMMA RecomposedCases ==
    ASSUME NEW l, l # None => LayerInv(l), NEW st, StageInv(st), l # None => Traced(st, l)
    PROVE  \/ Recomposed(st, l) = ComposedWhole(l)
           \/ /\ ~st.rebuild /\ st.specs = {} /\ ~Diverges(st, l)
              /\ Recomposed(st, l) = [Reading(st, l, Opinions(st.opinions)) EXCEPT !.opinions = {}]
<1>0. st.specs \in SUBSET Paths /\ st.opinions \in SUBSET Paths  BY DEF StageInv, Stages
<1>1. CASE st.rebuild  BY <1>1, RestackedIsWhole DEF Recomposed
<1>2. CASE ~st.rebuild /\ st.specs # {} /\ st.opinions # {}  BY <1>2 DEF Recomposed
<1>3. CASE ~st.rebuild /\ st.specs # {} /\ st.opinions = {}
  <2>1. Controls(st, l, st.specs) = ComposedWhole(l)  BY <1>0, <1>3, ControlsIsWhole
  <2>. QED  BY <1>3, <2>1 DEF Recomposed
<1>4. CASE ~st.rebuild /\ st.specs = {} /\ Diverges(st, l)
  <2>1. st.opinions # {}  BY <1>4 DEF Diverges
  <2>2. Controls(st, l, st.opinions) = ComposedWhole(l)  BY <1>0, <1>4, <2>1, ControlsIsWhole
  <2>. QED  BY <1>4, <2>2 DEF Recomposed
<1>5. CASE ~st.rebuild /\ st.specs = {} /\ ~Diverges(st, l)  BY <1>5 DEF Recomposed
<1>. QED  BY <1>1, <1>2, <1>3, <1>4, <1>5

(* However it ends, the stage stays traced; and what was all marked, of a   *)
(* layer as last seen, is then as the layer says.                          *)
LEMMA RecomposedKeeps ==
    ASSUME NEW l, l # None => LayerInv(l), NEW st, StageInv(st), l # None => Traced(st, l)
    PROVE  /\ StageInv(Recomposed(st, l))
           /\ l # None => Traced(Recomposed(st, l), l)
           /\ l = None => Recomposed(st, l).seen = None \/ Recomposed(st, l) = st
           /\ st.seen = Generations(l) /\ Stale(st, l) \subseteq Marked(st)
                => Recomposed(st, l).composed = Content(l)
<1>. DEFINE r == Recomposed(st, l)
            slots == Opinions(st.opinions)
            new == [s \in Slots |-> IF s \in slots THEN Content(l)[s] ELSE st.composed[s]]
<1>1. CASE r = ComposedWhole(l)  BY <1>1, WholeIsCurrent, ContentTypes
<1>2. CASE /\ ~st.rebuild /\ st.specs = {} /\ ~Diverges(st, l)
           /\ r = [Reading(st, l, slots) EXCEPT !.opinions = {}]
  <2>1. st \in Stages /\ st.opinions \in SUBSET Paths /\ ~st.restack /\ st.restack \in BOOLEAN
        /\ st.composed \in Values \cup {Nothing}
    BY <1>2 DEF StageInv, Stages
  <2>2. r = [seen |-> st.seen, opinions |-> {}, specs |-> st.specs, rebuild |-> st.rebuild,
             restack |-> st.restack, composed |-> new]
    <3>. HIDE DEF slots
    <3>. QED  BY <1>2, <2>1, StageFields DEF Reading
  <2>3. Marked(st) = slots  BY <1>2 DEF Marked, Specs
  <2>4. Marked(r) = {}
    <3>1. Opinions({}) = {} /\ Specs({}) = {}  BY DEF Opinions, Specs
    <3>2. r.opinions = {} /\ r.specs = {} /\ ~r.rebuild  BY <1>2, <2>2
    <3>. HIDE DEF r
    <3>. QED  BY <3>1, <3>2 DEF Marked
  <2>5. CASE st.opinions = {}
    <3>1. slots = {}  BY <2>5 DEF Opinions
    <3>2. new = st.composed  BY <2>1, <3>1, StageFields
    <3>. HIDE DEF slots, new
    <3>3. r = st  BY <2>1, <2>2, <2>5, <3>2, StageFields
    <3>4. Stale(st, l) = {} => st.composed = Content(l)
      <4>1. st.composed = [s \in Slots |-> st.composed[s]]  BY <2>1, StageFields
      <4>2. Content(l) = [s \in Slots |-> Content(l)[s]]
        BY ContentTypes DEF Values, Nothing
      <4>. QED  BY <4>1, <4>2 DEF Stale
    <3>. QED  BY <2>3, <3>1, <3>3, <3>4
  <2>6. CASE st.opinions # {}
    <3>1. st.seen # None /\ st.composed \in Values
      BY <1>2, <2>1, <2>6 DEF StageInv, Idle
    <3>2. l # None
      <4>1. PICK p \in st.opinions : st.composed[<<"spec", p>>] = Content(l)[<<"spec", p>>]
        BY <1>2, <2>6 DEF Diverges
      <4>2. <<"spec", p>> \in Slots  BY <2>1 DEF Slots, Specs
      <4>3. st.composed[<<"spec", p>>] \in {0, 1}  BY <3>1, <4>2 DEF Values
      <4>4. l = None => Content(l)[<<"spec", p>>] = -1  BY <4>2 DEF Content
      <4>. QED  BY <4>1, <4>3, <4>4
    <3>3. LayerInv(l) /\ Traced(st, l) /\ Content(l) \in Values  BY <3>2, ContentTypes
    <3>4. new \in Values  BY <3>1, <3>3 DEF Values
    <3>. HIDE DEF new
    <3>5. r \in Stages /\ r.seen = st.seen /\ r.composed = new
          /\ ~r.rebuild /\ ~r.restack
      BY <1>2, <2>1, <2>2, <3>4 DEF Stages
    <3>6. new # Nothing
      <4>1. Bound \in Slots  BY DEF Slots
      <4>2. new[Bound] \in {0, 1} /\ Nothing[Bound] = -1
        BY <3>4, <4>1 DEF Values, Nothing
      <4>. QED  BY <4>2
    <3>7. StageInv(r)  BY <3>1, <3>5, <3>6 DEF StageInv
    <3>8. Stale(r, l) \subseteq Stale(st, l) \ slots  BY <3>5 DEF Stale, new
    <3>9. Traced(r, l)
      <4>1. Behind(r.seen, l)  BY <3>3, <3>5 DEF Traced
      <4>2. ASSUME r.seen.structure = l.structure
            PROVE  Stale(r, l) \subseteq Marked(r) \cup Opinions(Paths)
        <5>1. Stale(st, l) \subseteq slots \cup Opinions(Paths)
          BY <2>3, <3>1, <3>3, <3>5, <4>2 DEF Traced
        <5>. QED  BY <3>8, <5>1
      <4>3. ASSUME r.seen.generation = l.generation \/ ReachesBack(l, r.seen.generation)
            PROVE  Stale(r, l) \subseteq Marked(r) \cup Told(l, r.seen.generation)
        <5>1. Stale(st, l) \subseteq slots \cup Told(l, st.seen.generation)
          BY <2>3, <3>1, <3>3, <3>5, <4>3 DEF Traced
        <5>. QED  BY <3>5, <3>8, <5>1
      <4>. QED  BY <4>1, <4>2, <4>3 DEF Traced
    <3>10. Stale(st, l) \subseteq Marked(st) => r.composed = Content(l)
      BY <2>1, <2>3, <3>5, ReadingIsCurrent DEF new
    <3>. QED  BY <3>2, <3>7, <3>9, <3>10
  <2>. QED  BY <2>5, <2>6
<1>3. \/ r = ComposedWhole(l)
      \/ /\ ~st.rebuild /\ st.specs = {} /\ ~Diverges(st, l)
         /\ r = [Reading(st, l, slots) EXCEPT !.opinions = {}]
  BY RecomposedCases
<1>. QED  BY <1>1, <1>2, <1>3

-----------------------------------------------------------------------------
(* Notices.                                                                *)
LEMMA ChangedPathsTell ==
    ASSUME NEW l, LayerInv(l), NEW g \in Nat, ChangedPaths(l, g) # Unknown
    PROVE  /\ ChangedPaths(l, g) \subseteq Paths
           /\ g = l.generation \/ ReachesBack(l, g)
           /\ Told(l, g) \subseteq Specs(ChangedPaths(l, g))
<1>1. CASE g = l.generation
  <2>1. ChangedPaths(l, g) = {}  BY <1>1 DEF ChangedPaths
  <2>2. Told(l, g) = {}  BY <1>1, NothingSinceNow
  <2>. QED  BY <1>1, <2>1, <2>2
<1>2. CASE g # l.generation
  <2>. DEFINE paths == {e.paths : e \in Since(l, g)}
  <2>1. ReachesBack(l, g) /\ Unknown \notin paths /\ ChangedPaths(l, g) = UNION paths
    BY <1>2 DEF ChangedPaths
  <2>2. \A e \in Since(l, g) : e.paths \in SUBSET Paths /\ e.paths # Unknown /\ ~e.layerStack
    <3>. TAKE e \in Since(l, g)
    <3>1. e \in Range(l.evidence.entries)  BY DEF Since
    <3>2. e \in Batch  BY <3>1, NothingSinceNow
    <3>3. e.layerStack => e.paths = Unknown  BY <3>1 DEF LayerInv
    <3>4. e.paths \in (SUBSET Paths) \cup {Unknown}  BY <3>2 DEF Batch, Support
    <3>5. e.paths # Unknown  BY <2>1
    <3>6. e.paths \in SUBSET Paths  BY <3>4, <3>5
    <3>7. ~e.layerStack  BY <3>3, <3>5
    <3>. QED  BY <3>5, <3>6, <3>7
  <2>3. \A e \in Since(l, g) : Touched(e.paths, e.layerStack) = Specs(e.paths)
    BY <2>2 DEF Touched
  <2>4. UNION paths \subseteq Paths  BY <2>2
  <2>5. Told(l, g) \subseteq Specs(UNION paths)  BY <2>3 DEF Told, Specs
  <2>. QED  BY <2>1, <2>4, <2>5
<1>. QED  BY <1>1, <1>2

(* To rebuild all, or the bound sublayers if that is all there is to do.    *)
LEMMA RebuildMarks ==
    ASSUME NEW st, StageInv(st),
           NEW n, n \in {StructuralChange(st), LayerStackChange(st)}
    PROVE  /\ n \in Stages /\ n.rebuild /\ n.seen = st.seen /\ n.composed = st.composed
           /\ n = StructuralChange(st) => ~n.restack
           /\ n.restack => ~st.rebuild /\ Idle(st)
           /\ Marked(n) # Slots => Marked(n) = {Bound} /\ ~st.rebuild /\ Idle(st) /\ st.seen # None
<1>1. st \in Stages /\ Idle(st) \in BOOLEAN  BY DEF StageInv, Idle
<1>2. /\ n \in Stages /\ n.rebuild /\ n.seen = st.seen /\ n.composed = st.composed
      /\ n = StructuralChange(st) => ~n.restack
      /\ n.restack => Idle(st)
  <2>1. CASE n = [st EXCEPT !.rebuild = TRUE, !.restack = FALSE]  BY <1>1, <2>1 DEF Stages
  <2>2. CASE n = [st EXCEPT !.rebuild = TRUE, !.restack = Idle(st)]
    <3>1. n \in Stages /\ n.rebuild /\ n.seen = st.seen /\ n.composed = st.composed
      BY <1>1, <2>2 DEF Stages
    <3>2. n.restack = Idle(st)  BY <1>1, <2>2 DEF Stages
    <3>3. n = StructuralChange(st) => n.restack = FALSE
      BY <1>1 DEF StructuralChange, Stages
    <3>. QED  BY <3>1, <3>2, <3>3
  <2>. QED  BY <2>1, <2>2 DEF StructuralChange, LayerStackChange
<1>3. n.restack => ~st.rebuild /\ Idle(st)  BY <1>2 DEF Idle
<1>4. ASSUME Marked(n) # Slots
      PROVE  Marked(n) = {Bound} /\ ~st.rebuild /\ Idle(st) /\ st.seen # None
  <2>1. Marked(n) = {Bound} /\ n.restack /\ n.composed[Bound] # -1
    BY <1>2, <1>4 DEF Marked
  <2>2. ~st.rebuild /\ Idle(st)  BY <1>3, <2>1
  <2>3. Bound \in Slots  BY DEF Slots
  <2>4. st.composed # Nothing  BY <1>2, <2>1, <2>3 DEF Nothing
  <2>. QED  BY <2>1, <2>2, <2>4 DEF StageInv
<1>. QED  BY <1>2, <1>3, <1>4

(* To recompose more. *)
LEMMA QueueMarks ==
    ASSUME NEW st \in Stages, NEW P \in SUBSET Paths, NEW Q \in SUBSET Paths,
           NEW n \in Stages,
           n.opinions = st.opinions \cup P, n.specs = st.specs \cup Q,
           n.composed = st.composed, n.rebuild = st.rebuild, n.restack => st.restack
    PROVE  Marked(st) \cup Opinions(P) \cup Specs(Q) \subseteq Marked(n)
<1>1. CASE ~st.rebuild
  <2>1. /\ Marked(st) = Opinions(st.opinions) \cup Specs(st.specs)
        /\ Marked(n) = Opinions(st.opinions \cup P) \cup Specs(st.specs \cup Q)
    BY <1>1 DEF Marked
  <2>. QED  BY <2>1 DEF Opinions, Specs
<1>2. CASE st.rebuild
  <2>1. st.opinions \in SUBSET Paths /\ st.specs \in SUBSET Paths  BY DEF Stages
  <2>2. Marked(st) \subseteq Slots /\ Opinions(P) \subseteq Slots /\ Specs(Q) \subseteq Slots
    <3>1. Marked(st) \in {{Bound}, Slots}  BY <1>2 DEF Marked
    <3>2. Bound \in Slots  BY DEF Slots
    <3>. QED  BY <3>1, <3>2, SlotSets
  <2>3. CASE Marked(n) = Slots  BY <2>2, <2>3
  <2>4. CASE Marked(n) # Slots
    <3>1. /\ Marked(n) = {Bound} /\ n.restack /\ n.opinions = {} /\ n.specs = {}
          /\ n.composed[Bound] # -1
      BY <1>2, <2>4 DEF Marked
    <3>2. P = {} /\ Q = {} /\ st.opinions = {} /\ st.specs = {}  BY <3>1
    <3>3. Marked(st) = {Bound}  BY <1>2, <3>1, <3>2 DEF Marked
    <3>4. Opinions({}) = {} /\ Specs({}) = {}  BY DEF Opinions, Specs
    <3>. QED  BY <3>1, <3>2, <3>3, <3>4
  <2>. QED  BY <2>3, <2>4
<1>. QED  BY <1>1, <1>2

(* What a notice of a change marks covers what is stale. *)
LEMMA HeardCovers ==
    ASSUME NEW l, LayerInv(l), NEW st, StageInv(st), Traced(st, l), st.seen # None,
           NEW h, h = HeardChange(st, l)
    PROVE  /\ h \in Stages /\ h.composed = st.composed
           /\ h.restack => h.rebuild
           /\ ~h.rebuild => ~st.rebuild
           /\ Stale(st, l) \subseteq Marked(h)
<1>. DEFINE g == st.seen.generation
            paths == ChangedPaths(l, g)
            same == st.seen.structure = l.structure
<1>1. /\ st \in Stages /\ st.opinions \in SUBSET Paths /\ st.specs \in SUBSET Paths
      /\ g \in Nat
      /\ st.restack => st.rebuild
  BY DEF StageInv, Stages, Seen
<1>2. paths # Unknown => /\ paths \in SUBSET Paths
                         /\ Stale(st, l) \subseteq Marked(st) \cup Specs(paths)
  <2>. SUFFICES ASSUME paths # Unknown
                PROVE  paths \in SUBSET Paths /\ Stale(st, l) \subseteq Marked(st) \cup Specs(paths)
    OBVIOUS
  <2>1. /\ paths \subseteq Paths
        /\ g = l.generation \/ ReachesBack(l, g)
        /\ Told(l, g) \subseteq Specs(paths)
    BY <1>1, ChangedPathsTell
  <2>2. Stale(st, l) \subseteq Marked(st) \cup Told(l, g)  BY <2>1 DEF Traced
  <2>. QED  BY <2>1, <2>2
<1>3. same => Stale(st, l) \subseteq Marked(st) \cup Opinions(Paths)  BY DEF Traced
<1>. HIDE DEF paths
<1>4. \/ paths # Unknown /\ same /\ h = [st EXCEPT !.opinions = @ \cup paths]
      \/ paths # Unknown /\ ~same /\ h = [st EXCEPT !.specs = @ \cup paths]
      \/ paths = Unknown /\ same /\ h = [st EXCEPT !.opinions = Paths]
      \/ /\ paths = Unknown /\ ~same
         /\ h = IF ChangedLayerStackOnly(l, g) THEN LayerStackChange(st) ELSE StructuralChange(st)
  BY DEF HeardChange, paths
<1>. HIDE DEF same, g
<1>5. CASE paths # Unknown /\ same /\ h = [st EXCEPT !.opinions = @ \cup paths]
  <2>1. /\ h \in Stages /\ h.composed = st.composed /\ h.rebuild = st.rebuild
        /\ h.restack = st.restack /\ h.specs = st.specs \cup {}
        /\ h.opinions = st.opinions \cup paths
    BY <1>1, <1>2, <1>5 DEF Stages
  <2>2. Marked(st) \cup Opinions(paths) \subseteq Marked(h)  BY <1>1, <1>2, <1>5, <2>1, QueueMarks
  <2>3. Opinions(Paths) \cap Specs(paths) \subseteq Opinions(paths)  BY <1>2, <1>5, SlotSets
  <2>4. Stale(st, l) \subseteq Marked(h)  BY <1>2, <1>3, <1>5, <2>2, <2>3
  <2>9. (h.restack => h.rebuild) /\ (~h.rebuild => ~st.rebuild)  BY <1>1, <2>1
  <2>. QED  BY <2>1, <2>9, <2>4
<1>6. CASE paths # Unknown /\ ~same /\ h = [st EXCEPT !.specs = @ \cup paths]
  <2>1. /\ h \in Stages /\ h.composed = st.composed /\ h.rebuild = st.rebuild
        /\ h.restack = st.restack /\ h.specs = st.specs \cup paths
        /\ h.opinions = st.opinions \cup {}
    BY <1>1, <1>2, <1>6 DEF Stages
  <2>2. Marked(st) \cup Specs(paths) \subseteq Marked(h)  BY <1>1, <1>2, <1>6, <2>1, QueueMarks
  <2>3. Stale(st, l) \subseteq Marked(h)  BY <1>2, <1>6, <2>2
  <2>9. (h.restack => h.rebuild) /\ (~h.rebuild => ~st.rebuild)  BY <1>1, <2>1
  <2>. QED  BY <2>1, <2>9, <2>3
<1>7. CASE paths = Unknown /\ same /\ h = [st EXCEPT !.opinions = Paths]
  <2>1. /\ h \in Stages /\ h.composed = st.composed /\ h.rebuild = st.rebuild
        /\ h.restack = st.restack /\ h.specs = st.specs \cup {}
        /\ h.opinions = st.opinions \cup Paths
    BY <1>1, <1>7 DEF Stages
  <2>2. Marked(st) \cup Opinions(Paths) \subseteq Marked(h)  BY <1>1, <2>1, QueueMarks
  <2>3. Stale(st, l) \subseteq Marked(h)  BY <1>3, <1>7, <2>2
  <2>9. (h.restack => h.rebuild) /\ (~h.rebuild => ~st.rebuild)  BY <1>1, <2>1
  <2>. QED  BY <2>1, <2>9, <2>3
<1>8. CASE /\ paths = Unknown /\ ~same
           /\ h = IF ChangedLayerStackOnly(l, g) THEN LayerStackChange(st) ELSE StructuralChange(st)
  <2>1. h \in {StructuralChange(st), LayerStackChange(st)}  BY <1>8
  <2>2. /\ h \in Stages /\ h.rebuild /\ h.composed = st.composed
        /\ h = StructuralChange(st) => ~h.restack
        /\ h.restack => ~st.rebuild /\ Idle(st)
        /\ Marked(h) # Slots => Marked(h) = {Bound} /\ ~st.rebuild /\ Idle(st)
    BY <2>1, RebuildMarks
  <2>3. CASE Marked(h) = Slots  BY <2>2, <2>3 DEF Stale
  <2>4. CASE Marked(h) # Slots
    <3>1. ~(h = StructuralChange(st))  BY <2>2, <2>4 DEF Marked
    <3>2. ChangedLayerStackOnly(l, g)  BY <1>8, <3>1
    <3>3. ReachesBack(l, g) /\ Told(l, g) \subseteq {Bound}  BY <3>2, LayerStackTells
    <3>4. Stale(st, l) \subseteq Marked(st) \cup Told(l, g)  BY <3>3 DEF Traced, g
    <3>5. Marked(st) = {}  BY <2>2, <2>4 DEF Marked, Idle, Opinions, Specs
    <3>. QED  BY <2>2, <2>4, <3>3, <3>4, <3>5
  <2>. QED  BY <2>3, <2>4
<1>. QED  BY <1>4, <1>5, <1>6, <1>7, <1>8

(* A stage that looked has marked all that is stale. *)
LEMMA NotifiedCovers ==
    ASSUME NEW l, l # None => LayerInv(l), NEW st, StageInv(st), l # None => Traced(st, l)
    PROVE  /\ StageInv(Notified(st, l))
           /\ Notified(st, l).seen = Generations(l)
           /\ Stale(Notified(st, l), l) \subseteq Marked(Notified(st, l))
<1>. DEFINE heard == IF st.seen # None /\ l # None THEN HeardChange(st, l)
                     ELSE IF l # None /\ BoundSublayer THEN LayerStackChange(st)
                     ELSE StructuralChange(st)
            n == Notified(st, l)
<1>0. st \in Stages  BY DEF StageInv
<1>1. CASE st.seen = Generations(l)
  <2>1. n = st  BY <1>1 DEF Notified
  <2>2. CASE l = None
    <3>1. st.seen = None  BY <1>1, <2>2, ContentTypes
    <3>2. CASE st.rebuild
      <4>1. ~st.restack  BY <3>1 DEF StageInv
      <4>2. Marked(st) = Slots  BY <3>2, <4>1 DEF Marked
      <4>. QED  BY <1>1, <2>1, <4>2 DEF Stale
    <3>3. CASE ~st.rebuild
      <4>1. st.composed = Content(l)  BY <2>2, <3>1, <3>3, ContentTypes DEF StageInv
      <4>2. Stale(st, l) = {}  BY <4>1 DEF Stale
      <4>. QED  BY <1>1, <2>1, <4>2
    <3>. QED  BY <3>2, <3>3
  <2>3. CASE l # None
    <3>1. st.seen # None /\ st.seen.generation = l.generation /\ Told(l, st.seen.generation) = {}
      BY <1>1, <2>3, LayerTypes, NothingSinceNow
    <3>2. Stale(st, l) \subseteq Marked(st) \cup Told(l, st.seen.generation)
      BY <2>3, <3>1 DEF Traced
    <3>. QED  BY <1>1, <2>1, <3>1, <3>2
  <2>. QED  BY <2>2, <2>3
<1>2. CASE st.seen # Generations(l)
  <2>1. n = [heard EXCEPT !.seen = Generations(l)]  BY <1>2 DEF Notified
  <2>2. /\ heard \in Stages /\ heard.composed = st.composed
        /\ heard.restack => heard.rebuild
        /\ ~heard.rebuild => st.seen # None /\ l # None /\ ~st.rebuild
        /\ l = None => ~heard.restack
        /\ Stale(st, l) \subseteq Marked(heard)
    <3>1. CASE st.seen # None /\ l # None
      <4>1. heard = HeardChange(st, l)  BY <3>1
      <4>. HIDE DEF heard
      <4>2. /\ heard \in Stages /\ heard.composed = st.composed
            /\ heard.restack => heard.rebuild
            /\ ~heard.rebuild => ~st.rebuild
            /\ Stale(st, l) \subseteq Marked(heard)
        BY <3>1, <4>1, HeardCovers
      <4>. QED  BY <3>1, <4>2
    <3>2. CASE ~(st.seen # None /\ l # None)
      <4>1. heard \in {StructuralChange(st), LayerStackChange(st)}
            /\ (l = None => heard = StructuralChange(st))
        BY <3>2
      <4>. HIDE DEF heard
      <4>2. /\ heard \in Stages /\ heard.rebuild /\ heard.composed = st.composed
            /\ heard = StructuralChange(st) => ~heard.restack
            /\ Marked(heard) # Slots => st.seen # None /\ heard # StructuralChange(st)
        <5>1. /\ heard \in Stages /\ heard.rebuild /\ heard.composed = st.composed
              /\ heard = StructuralChange(st) => ~heard.restack
              /\ Marked(heard) # Slots => st.seen # None
          BY <4>1, RebuildMarks
        <5>2. Marked(heard) # Slots => heard.restack  BY <5>1 DEF Marked
        <5>. QED  BY <5>1, <5>2
      <4>3. Marked(heard) = Slots  BY <3>2, <4>1, <4>2
      <4>4. Stale(st, l) \subseteq Slots  BY DEF Stale
      <4>. QED  BY <4>1, <4>2, <4>3, <4>4
    <3>. QED  BY <3>1, <3>2
  <2>. HIDE DEF heard
  <2>3. Generations(l) \in Seen \cup {None} /\ (Generations(l) = None => l = None)
    BY ContentTypes
  <2>4. /\ n \in Stages /\ n.seen = Generations(l) /\ n.composed = st.composed
        /\ n.opinions = heard.opinions /\ n.specs = heard.specs
        /\ n.rebuild = heard.rebuild /\ n.restack = heard.restack
    BY <2>1, <2>2, <2>3 DEF Stages
  <2>. HIDE DEF n
  <2>5. Marked(n) = Marked(heard)  BY <2>2, <2>4 DEF Marked
  <2>6. Stale(n, l) = Stale(st, l)  BY <2>4 DEF Stale
  <2>7. StageInv(n)
    <3>1. n.restack => n.rebuild /\ n.seen # None
      <4>1. n.restack => heard.rebuild /\ l # None  BY <2>2, <2>4
      <4>. QED  BY <2>3, <2>4, <4>1
    <3>2. ~n.rebuild => l # None /\ st.composed # Nothing
      <4>1. ~n.rebuild => st.seen # None /\ l # None /\ ~st.rebuild  BY <2>2, <2>4
      <4>. QED  BY <4>1 DEF StageInv
    <3>. QED  BY <2>3, <2>4, <3>1, <3>2 DEF StageInv
  <2>8. StageInv(n) /\ n.seen = Generations(l) /\ Stale(n, l) \subseteq Marked(n)
    BY <2>2, <2>4, <2>5, <2>6, <2>7
  <2>. QED  BY <2>8 DEF n
<1>. QED  BY <1>1, <1>2

-----------------------------------------------------------------------------
(* The stage's own transactions.                                           *)
LEMMA AppliedValuesKeeps ==
    ASSUME NEW l, LayerInv(l), NEW st, StageInv(st), Traced(st, l),
           NEW p \in Paths, NEW m \in EditOf(l, {p}, FALSE)
    PROVE  StageInv(AppliedValues(st, p, m)) /\ Traced(AppliedValues(st, p, m), m)
<1>. DEFINE b == [st EXCEPT !.opinions = @ \cup {p}, !.restack = FALSE]
            marked == Saw(b, m)
<1>1. /\ LayerInv(m) /\ m.generation = l.generation + 1
      /\ m.structure = l.structure
      /\ \A s \in Slots : m.content[s] # l.content[s] => s \in Opinions({p})
      /\ Traced(st, m)
  <2>1. {p} \in SUBSET Paths /\ FALSE \in BOOLEAN /\ st \in Stages  BY DEF StageInv
  <2>2. PICK f \in BOOLEAN : ~f /\ m \in EditOf(l, {p}, f)  BY <2>1, Zenon
  <2>3. /\ LayerInv(m) /\ m.generation = l.generation + 1
        /\ ~f => m.structure = l.structure
        /\ \A s \in Slots : m.content[s] # l.content[s]
             => s \in IF f THEN Specs({p}) ELSE Opinions({p})
        /\ \A x \in Stages : Traced(x, l) => Traced(x, m)
    BY <2>1, <2>2, EditOfKeeps
  <2>. QED  BY <2>1, <2>2, <2>3
<1>2. /\ st \in Stages /\ b \in Stages /\ ~b.restack
      /\ b.seen = st.seen /\ b.composed = st.composed /\ b.rebuild = st.rebuild
      /\ b.opinions = st.opinions \cup {p} /\ b.specs = st.specs \cup {}
  BY DEF StageInv, Stages
<1>. HIDE DEF b
<1>3. Marked(st) \cup Opinions({p}) \subseteq Marked(b)
  <2>1. {p} \in SUBSET Paths /\ {} \in SUBSET Paths /\ (b.restack => st.restack)  BY <1>2
  <2>. QED  BY <1>2, <2>1, QueueMarks
<1>4. AppliedValues(st, p, m) = Recomposed(marked, m)  BY DEF AppliedValues, b
<1>5. m # None /\ Content(m) = m.content /\ Content(m) \in Values
      /\ Generations(m) \in Seen /\ Generations(m) # None
      /\ Generations(m).generation = m.generation
  BY <1>1, LayerTypes
<1>6. CASE st.seen = None
  <2>1. marked = b  BY <1>2, <1>6 DEF Saw
  <2>2. b.seen # Generations(m)  BY <1>2, <1>5, <1>6
  <2>3. Recomposed(b, m) = ComposedWhole(m)
    <3>1. CASE b.rebuild
      <4>1. ~Restacks(b, m)  BY <1>2 DEF Restacks
      <4>. QED  BY <3>1, <4>1 DEF Recomposed
    <3>2. CASE ~b.rebuild
      <4>1. st.composed = Nothing /\ b.specs = {}  BY <1>2, <1>6, <3>2 DEF StageInv, Idle
      <4>2. <<"spec", p>> \in Slots  BY DEF Slots, Specs
      <4>3. Content(m)[<<"spec", p>>] \in {0, 1} /\ b.composed[<<"spec", p>>] = -1
        BY <1>2, <1>5, <4>1, <4>2 DEF Values, Nothing
      <4>4. Diverges(b, m)  BY <1>2, <4>3 DEF Diverges
      <4>5. Controls(b, m, b.opinions) = ComposedWhole(m)  BY <2>2 DEF Controls
      <4>. QED  BY <3>2, <4>1, <4>4, <4>5 DEF Recomposed
    <3>. QED  BY <3>1, <3>2
  <2>. QED  BY <1>1, <1>4, <1>5, <2>1, <2>3, WholeIsCurrent
<1>7. CASE st.seen # None
  <2>1. StageInv(b)
    <3>1. ~b.rebuild => b.composed # Nothing  BY <1>2, <1>7 DEF StageInv
    <3>. QED  BY <1>2, <1>7, <3>1 DEF StageInv
  <2>2. Traced(b, m)
    <3>1. Marked(st) \subseteq Marked(b)  BY <1>3
    <3>. QED  BY <1>1, <1>2, <3>1, MoreMarked
  <2>3. CASE marked = b
    <3>. HIDE DEF marked
    <3>. QED  BY <1>1, <1>4, <1>5, <2>1, <2>2, <2>3, RecomposedKeeps
  <2>4. CASE marked # b
    <3>1. /\ st.seen.generation + 1 = m.generation
          /\ marked = [b EXCEPT !.seen = Generations(m)]
      BY <1>2, <2>4 DEF Saw
    <3>2. st.seen.generation = l.generation
      <4>1. st.seen.generation \in Nat  BY <1>2, <1>7 DEF Stages, Seen
      <4>2. l.generation \in Nat  BY LayerTypes
      <4>. QED  BY <1>1, <3>1, <4>1, <4>2
    <3>. HIDE DEF marked
    <3>3. /\ marked \in Stages /\ marked.seen = Generations(m) /\ marked.composed = b.composed
          /\ marked.opinions = b.opinions /\ marked.specs = b.specs
          /\ marked.rebuild = b.rebuild /\ marked.restack = b.restack
      BY <1>2, <1>5, <3>1 DEF Stages
    <3>4. Marked(marked) = Marked(b)  BY <3>3 DEF Marked
    <3>5. Stale(st, l) \subseteq Marked(st)
      <4>1. Told(l, st.seen.generation) = {}  BY <3>2, NothingSinceNow
      <4>. QED  BY <1>7, <3>2, <4>1 DEF Traced
    <3>6. Stale(marked, m) \subseteq Stale(st, l) \cup Opinions({p})
      <4>1. Content(l) = l.content  BY LayerTypes
      <4>. QED  BY <1>1, <1>2, <1>5, <3>3, <4>1 DEF Stale
    <3>7. Stale(marked, m) \subseteq Marked(marked)  BY <1>3, <3>4, <3>5, <3>6
    <3>8. StageInv(marked)
      <4>1. ~marked.restack  BY <1>2, <3>3
      <4>2. ~marked.rebuild => marked.composed # Nothing
        <5>1. ~b.rebuild => b.composed # Nothing  BY <1>2, <1>7, <2>1 DEF StageInv
        <5>. QED  BY <3>3, <5>1
      <4>. QED  BY <1>5, <3>3, <4>1, <4>2 DEF StageInv
    <3>9. Traced(marked, m)  BY <1>1, <3>3, <3>7, CoveredIsTraced
    <3>. QED  BY <1>1, <1>4, <1>5, <3>8, <3>9, RecomposedKeeps
  <2>. QED  BY <2>3, <2>4
<1>. QED  BY <1>6, <1>7

LEMMA AppliedStructureKeeps ==
    ASSUME NEW l, LayerInv(l), NEW st, StageInv(st), Traced(st, l),
           NEW p \in Paths, NEW m \in EditOf(l, {p}, TRUE)
    PROVE  StageInv(AppliedStructure(st, l, m)) /\ Traced(AppliedStructure(st, l, m), m)
<1>. DEFINE g == st.seen.generation
            paths == ChangedPaths(m, g)
            queued == [st EXCEPT !.specs = @ \cup paths, !.seen = Generations(m), !.restack = FALSE]
            known == st.seen = Generations(l) /\ st.opinions = {} /\ ~st.rebuild
            rebuilt == StructuralChange(st)
<1>1. LayerInv(m) /\ Traced(st, m) /\ st \in Stages
  <2>1. {p} \in SUBSET Paths /\ TRUE \in BOOLEAN /\ st \in Stages  BY DEF StageInv
  <2>. QED  BY <2>1, EditOfKeeps
<1>2. m # None /\ Generations(m) \in Seen /\ Generations(m) # None
  BY <1>1, LayerTypes
<1>3. AppliedStructure(st, l, m)
        = IF known /\ paths # Unknown THEN Recomposed(queued, m) ELSE Recomposed(rebuilt, m)
  BY DEF AppliedStructure
<1>4. Recomposed(rebuilt, m) = ComposedWhole(m)
  <2>1. rebuilt.rebuild /\ ~rebuilt.restack
    BY <1>1 DEF StructuralChange, Stages
  <2>. HIDE DEF rebuilt
  <2>2. ~Restacks(rebuilt, m)  BY <2>1 DEF Restacks
  <2>. QED  BY <2>1, <2>2 DEF Recomposed
<1>5. ASSUME known, paths # Unknown
      PROVE  StageInv(queued) /\ Traced(queued, m)
  <2>1. g \in Nat /\ st.seen # None  BY <1>5, LayerTypes
  <2>2. /\ paths \subseteq Paths
        /\ g = m.generation \/ ReachesBack(m, g)
        /\ Told(m, g) \subseteq Specs(paths)
    BY <1>1, <1>5, <2>1, ChangedPathsTell
  <2>3. Stale(st, m) \subseteq Marked(st) \cup Specs(paths)
    BY <1>1, <2>1, <2>2 DEF Traced
  <2>. HIDE DEF paths
  <2>4. /\ queued \in Stages /\ queued.seen = Generations(m) /\ queued.composed = st.composed
        /\ queued.specs = st.specs \cup paths /\ queued.opinions = st.opinions \cup {}
        /\ ~queued.restack /\ queued.rebuild = st.rebuild
    BY <1>1, <1>2, <2>2 DEF Stages
  <2>. HIDE DEF queued
  <2>5. Marked(st) \cup Specs(paths) \subseteq Marked(queued)
    <3>1. {} \in SUBSET Paths /\ (queued.restack => st.restack)  BY <2>4
    <3>. QED  BY <1>1, <2>2, <2>4, <3>1, QueueMarks
  <2>6. Stale(queued, m) \subseteq Marked(queued)
    <3>1. Stale(queued, m) = Stale(st, m)  BY <2>4 DEF Stale
    <3>. QED  BY <2>3, <2>5, <3>1
  <2>7. st.composed # Nothing  BY <1>5, <2>1 DEF StageInv
  <2>8. StageInv(queued)  BY <1>2, <2>4, <2>7 DEF StageInv
  <2>9. Traced(queued, m)  BY <1>1, <2>4, <2>6, CoveredIsTraced
  <2>. QED  BY <2>8, <2>9
<1>6. CASE known /\ paths # Unknown
  <2>1. StageInv(queued) /\ Traced(queued, m)  BY <1>5, <1>6
  <2>2. AppliedStructure(st, l, m) = Recomposed(queued, m)  BY <1>3, <1>6
  <2>. HIDE DEF queued
  <2>. QED  BY <1>1, <1>2, <2>1, <2>2, RecomposedKeeps
<1>7. CASE ~(known /\ paths # Unknown)
  <2>1. AppliedStructure(st, l, m) = ComposedWhole(m)  BY <1>3, <1>4, <1>7
  <2>. QED  BY <1>1, <1>2, <2>1, WholeIsCurrent
<1>. QED  BY <1>6, <1>7

-----------------------------------------------------------------------------
(* Layers replaced, and evidence given up.                                 *)
LEMMA NewLayerIsConsistent ==
    ASSUME NEW c \in Values, NEW generation \in Nat
    PROVE  LayerInv(NewLayer(c, generation))
<1>. DEFINE e == [EmptyHistory(InitialBudget) EXCEPT !.floor = generation]
            l == NewLayer(c, generation)
<1>1. <<>> \in Seq(Batch) /\ Len(<<>>) = 0 /\ 1..0 = {} /\ Range(<<>>) = {}
  BY DEF Range
<1>2. e = [entries |-> <<>>, budget |-> InitialBudget, floor |-> generation]
  BY DEF EmptyHistory
<1>3. e \in Evidence  BY <1>1, <1>2, BudgetsAssumption DEF Evidence
<1>4. l = [content |-> c, generation |-> generation, structure |-> generation, evidence |-> e]
  BY DEF NewLayer
<1>5. l \in Layers  BY <1>3, <1>4 DEF Layers
<1>6. l.evidence.entries = <<>> /\ l.structure = l.generation /\ l.generation = generation
  BY <1>2, <1>4
<1>. HIDE DEF l
<1>7. LayerInv(l)  BY <1>1, <1>5, <1>6 DEF LayerInv, UpTo
<1>. QED  BY <1>7 DEF l

LEMMA ContinuedIsAhead ==
    ASSUME NEW l, LayerInv(l), NEW previous \in Seen, previous.structure <= previous.generation,
           NEW m, m = Continued(l, previous)
    PROVE  /\ LayerInv(m)
           /\ \A st : StageInv(st) /\ Behind(st.seen, previous) => Traced(st, m)
<1>. DEFINE e == Clear(l.evidence)
            g == Larger(l.generation, previous.generation) + 1
            s == Larger(l.structure, previous.structure) + 1
<1>1. /\ l \in Layers /\ l.generation \in Nat /\ l.structure \in Nat
      /\ l.structure <= l.generation
      /\ previous.generation \in Nat /\ previous.structure \in Nat
      /\ l.evidence \in Evidence
  BY LayerTypes DEF LayerInv, Seen
<1>2. g \in Nat /\ s \in Nat /\ s <= g /\ previous.generation < g /\ previous.structure < s
  BY <1>1 DEF Larger
<1>3. e \in Evidence /\ e.entries = <<>>  BY <1>1, ClearEmpties
<1>. HIDE DEF e, g, s
<1>4. m = [content |-> l.content, generation |-> g, structure |-> s, evidence |-> e]
  <2>1. l = [content |-> l.content, generation |-> l.generation, structure |-> l.structure,
             evidence |-> l.evidence]
    BY <1>1 DEF Layers
  <2>2. m = [l EXCEPT !.generation = g, !.structure = s, !.evidence = e]
    BY <2>1 DEF Continued, e, g, s
  <2>. QED  BY <2>1, <2>2
<1>5. m \in Layers  BY <1>1, <1>2, <1>3, <1>4 DEF Layers
<1>6. LayerInv(m)
  <2>1. Len(<<>>) = 0 /\ 1..0 = {} /\ Range(<<>>) = {}  BY DEF Range
  <2>2. m.evidence.entries = <<>> /\ m.structure <= m.generation  BY <1>2, <1>3, <1>4
  <2>. QED  BY <1>5, <2>1, <2>2 DEF LayerInv, UpTo
<1>7. ASSUME NEW st, StageInv(st), Behind(st.seen, previous)
      PROVE  Traced(st, m)
  <2>1. st.seen \in Seen \cup {None}  BY <1>7 DEF StageInv, Stages
  <2>2. st.seen.generation \in Int /\ st.seen.structure \in Int  BY <2>1 DEF Seen, None
  <2>3. st.seen.generation < m.generation /\ st.seen.structure < m.structure
    BY <1>1, <1>2, <1>4, <1>7, <2>2 DEF Behind
  <2>4. ~ReachesBack(m, st.seen.generation)  BY <1>3, <1>4 DEF ReachesBack
  <2>. QED  BY <1>2, <1>4, <2>2, <2>3, <2>4 DEF Traced, Behind
<1>. QED  BY <1>6, <1>7

LEMMA LessEvidenceKeeps ==
    ASSUME NEW l, LayerInv(l), NEW e \in Evidence, e.entries \in Suffixes(l.evidence.entries),
           NEW m, m = [l EXCEPT !.evidence = e]
    PROVE  /\ LayerInv(m)
           /\ \A st : StageInv(st) /\ Traced(st, l) => Traced(st, m)
<1>. DEFINE old == l.evidence.entries
            kept == e.entries
<1>1. /\ l \in Layers /\ l.generation \in Nat /\ old \in Seq(Batch) /\ UpTo(old, l.generation)
      /\ Content(l) = l.content
  BY LayerTypes DEF LayerInv
<1>2. /\ m \in Layers /\ m.evidence = e /\ m.content = l.content
      /\ m.generation = l.generation /\ m.structure = l.structure
  BY <1>1 DEF Layers
<1>3. /\ kept \in Seq(Batch) /\ UpTo(kept, l.generation)
      /\ Range(kept) \subseteq Range(old)
      /\ \A g \in Nat : First(kept, g) => First(old, g) /\ After(old, g) \subseteq After(kept, g)
  BY <1>1, SuffixTells
<1>4. LayerInv(m)  BY <1>2, <1>3 DEF LayerInv
<1>5. ASSUME NEW st, StageInv(st), Traced(st, l)
      PROVE  Traced(st, m)
  <2>1. Content(m) = Content(l)  BY <1>1, <1>2, <1>4, LayerTypes
  <2>2. Stale(st, m) = Stale(st, l)  BY <2>1 DEF Stale
  <2>3. Behind(st.seen, m)  BY <1>2, <1>5 DEF Traced, Behind
  <2>4. ASSUME st.seen # None
        PROVE  /\ st.seen.structure = m.structure
                    => Stale(st, m) \subseteq Marked(st) \cup Opinions(Paths)
               /\ st.seen.generation = m.generation \/ ReachesBack(m, st.seen.generation)
                    => Stale(st, m) \subseteq Marked(st) \cup Told(m, st.seen.generation)
    <3>. DEFINE g == st.seen.generation
    <3>1. g \in Nat  BY <1>5, <2>4 DEF StageInv, Stages, Seen
    <3>2. st.seen.structure = m.structure
            => Stale(st, m) \subseteq Marked(st) \cup Opinions(Paths)
      BY <1>2, <1>5, <2>2, <2>4 DEF Traced
    <3>3. CASE g = m.generation
      <4>1. Told(l, g) = {}  BY <1>2, <3>3, NothingSinceNow
      <4>2. Stale(st, l) \subseteq Marked(st)  BY <1>2, <1>5, <2>4, <3>3, <4>1 DEF Traced
      <4>. QED  BY <2>2, <3>2, <4>2
    <3>4. CASE ReachesBack(m, g)
      <4>1. First(kept, g)  BY <1>2, <3>4 DEF ReachesBack, First
      <4>2. First(old, g) /\ After(old, g) \subseteq After(kept, g)  BY <1>3, <3>1, <4>1
      <4>3. ReachesBack(l, g)  BY <4>2 DEF ReachesBack, First
      <4>4. Told(l, g) \subseteq Told(m, g)  BY <1>2, <4>2 DEF Told, Since, After
      <4>5. Stale(st, l) \subseteq Marked(st) \cup Told(l, g)  BY <1>5, <2>4, <4>3 DEF Traced
      <4>. QED  BY <2>2, <3>2, <4>4, <4>5
    <3>. QED  BY <3>2, <3>3, <3>4
  <2>. QED  BY <2>3, <2>4 DEF Traced
<1>. QED  BY <1>4, <1>5
-----------------------------------------------------------------------------
(* The steps.                                                              *)
LEMMA HomeIs ==
    ASSUME SyncInv
    PROVE  /\ layer # None => LayerInv(layer) /\ Traced(stage, layer) /\ Home = layer
                              /\ released = None /\ ~removed
           /\ layer = None /\ removed => LayerInv(aside) /\ Traced(stage, aside) /\ Home = aside
                                         /\ released = None
           /\ layer = None /\ ~removed => Home = None /\ released \in Seen
                                          /\ released.structure <= released.generation
                                          /\ Behind(stage.seen, released)
BY DEF SyncInv, Home

LEMMA InitSync == Init => SyncInv
<1>. SUFFICES ASSUME Init PROVE SyncInv  OBVIOUS
<1>1. [s \in Slots |-> 0] \in Values  BY DEF Values
<1>2. LayerInv(layer)  BY <1>1, NewLayerIsConsistent DEF Init
<1>3. layer # None  BY <1>2, LayerTypes
<1>4. StageInv(stage) /\ Traced(stage, layer)  BY <1>2, <1>3, WholeIsCurrent DEF Init
<1>. QED  BY <1>2, <1>3, <1>4 DEF Init, SyncInv, Home

(* A step that leaves a consistent layer under the id, with the stage traced *)
(* to it, and nothing outside the store changed. *)
LEMMA LayerStep ==
    ASSUME SyncInv, layer # None, UNCHANGED <<released, aside, removed>>,
           LayerInv(layer'), StageInv(stage'), Traced(stage', layer')
    PROVE  SyncInv'
<1>1. layer' # None  BY LayerTypes
<1>2. Home' = layer'  BY <1>1 DEF Home
<1>. QED  BY <1>1, <1>2, HomeIs DEF SyncInv

(* A stage that knows of no layer is behind every one. *)
LEMMA BlindIsTraced ==
    ASSUME NEW st, st.seen = None
    PROVE  /\ \A x : LayerInv(x) => Traced(st, x)
           /\ \A g \in Seen : Behind(st.seen, g)
<1>1. ASSUME NEW x, LayerInv(x)  PROVE  Traced(st, x)
  <2>1. x.generation \in Nat /\ x.structure \in Nat  BY <1>1, LayerTypes
  <2>2. Behind(None, x)  BY <2>1 DEF Behind, None
  <2>. QED  BY <2>2 DEF Traced
<1>2. \A g \in Seen : Behind(st.seen, g)  BY DEF Behind, Seen, None
<1>. QED  BY <1>1, <1>2

LEMMA NotifySync == SyncInv /\ NotifyChangedLayers => SyncInv'
<1>. SUFFICES ASSUME SyncInv, NotifyChangedLayers  PROVE  SyncInv'  OBVIOUS
<1>1. /\ StageInv(stage') /\ stage'.seen = Generations(layer)
      /\ Stale(stage', layer) \subseteq Marked(stage')
  BY HomeIs, NotifiedCovers DEF SyncInv, NotifyChangedLayers
<1>2. CASE layer # None
  <2>1. LayerInv(layer)  BY <1>2, HomeIs
  <2>2. Traced(stage', layer)  BY <1>1, <2>1, CoveredIsTraced
  <2>. QED  BY <1>1, <1>2, <2>1, <2>2, LayerStep DEF NotifyChangedLayers
<1>3. CASE layer = None
  <2>1. stage'.seen = None  BY <1>1, <1>3, ContentTypes
  <2>2. Home' = Home  BY DEF Home, NotifyChangedLayers
  <2>. QED  BY <1>1, <1>3, <2>1, <2>2, HomeIs, BlindIsTraced DEF SyncInv, NotifyChangedLayers
<1>. QED  BY <1>2, <1>3

LEMMA RecomposeSync == SyncInv /\ RecomposeChanges => SyncInv'
<1>. SUFFICES ASSUME SyncInv, RecomposeChanges  PROVE  SyncInv'  OBVIOUS
<1>1. /\ StageInv(stage')
      /\ layer # None => Traced(stage', layer)
      /\ layer = None => stage'.seen = None \/ stage' = stage
  BY HomeIs, RecomposedKeeps DEF SyncInv, RecomposeChanges
<1>2. CASE layer # None
  BY <1>1, <1>2, HomeIs, LayerStep DEF RecomposeChanges
<1>3. CASE layer = None
  <2>1. Home' = Home  BY DEF Home, RecomposeChanges
  <2>. QED  BY <1>1, <1>3, <2>1, HomeIs, BlindIsTraced DEF SyncInv, RecomposeChanges
<1>. QED  BY <1>2, <1>3

LEMMA EditSync ==
    ASSUME SyncInv, layer # None, UNCHANGED <<released, aside, removed, stage>>,
           NEW c \in Values, NEW structural \in BOOLEAN,
           NEW paths \in Support, NEW layerStack \in BOOLEAN, layerStack => paths = Unknown,
           \A s \in Slots : c[s] # layer.content[s] =>
               s \in Touched(paths, layerStack) /\ (structural \/ s \in Opinions(Paths)),
           layer' = Recorded(layer, c, structural, paths, layerStack)
    PROVE  SyncInv'
<1>1. LayerInv(layer) /\ Traced(stage, layer) /\ stage \in Stages /\ StageInv(stage)
  BY HomeIs DEF SyncInv, StageInv
<1>2. LayerInv(layer')  BY <1>1, RecordedTells
<1>3. Traced(stage, layer')  BY <1>1, EditKeepsTraced
<1>. QED  BY <1>1, <1>2, <1>3, LayerStep

LEMMA TransactionSync ==
    ASSUME SyncInv, NEW p \in Paths, ApplyValues(p) \/ ApplyStructure(p)
    PROVE  SyncInv'
<1>1. layer # None  BY DEF ApplyValues, ApplyStructure, MayEdit
<1>2. LayerInv(layer) /\ Traced(stage, layer) /\ StageInv(stage)
  BY <1>1, HomeIs DEF SyncInv
<1>3. CASE ApplyValues(p)
  <2>1. StageInv(stage') /\ Traced(stage', layer')
    BY <1>2, <1>3, AppliedValuesKeeps DEF ApplyValues
  <2>2. LayerInv(layer')
    <3>1. {p} \in SUBSET Paths /\ FALSE \in BOOLEAN  OBVIOUS
    <3>2. PICK f \in BOOLEAN : ~f /\ layer' \in EditOf(layer, {p}, f)
      BY <1>3, <3>1, Zenon DEF ApplyValues
    <3>. QED  BY <1>2, <3>1, <3>2, EditOfKeeps
  <2>. QED  BY <1>1, <1>3, <2>1, <2>2, LayerStep DEF ApplyValues
<1>4. CASE ApplyStructure(p)
  <2>1. StageInv(stage') /\ Traced(stage', layer')
    BY <1>2, <1>4, AppliedStructureKeeps DEF ApplyStructure
  <2>2. LayerInv(layer')
    <3>1. {p} \in SUBSET Paths /\ TRUE \in BOOLEAN  OBVIOUS
    <3>. QED  BY <1>2, <1>4, <3>1, EditOfKeeps DEF ApplyStructure
  <2>. QED  BY <1>1, <1>4, <2>1, <2>2, LayerStep DEF ApplyStructure
<1>. QED  BY <1>3, <1>4

LEMMA BehindSync ==
    ASSUME SyncInv, NEW paths \in SUBSET Paths, EditBehind(paths)
    PROVE  SyncInv'
<1>1. layer # None  BY DEF EditBehind, MayEdit
<1>2. LayerInv(layer) /\ Traced(stage, layer) /\ StageInv(stage) /\ stage \in Stages
  BY <1>1, HomeIs DEF SyncInv, StageInv
<1>3. PICK structural \in BOOLEAN : layer' \in EditOf(layer, paths, structural)
  BY DEF EditBehind
<1>4. LayerInv(layer') /\ Traced(stage, layer')  BY <1>2, <1>3, EditOfKeeps
<1>. QED  BY <1>1, <1>2, <1>4, LayerStep DEF EditBehind

LEMMA TouchSync == SyncInv /\ (Touch \/ BindSublayer) => SyncInv'
<1>. SUFFICES ASSUME SyncInv, Touch \/ BindSublayer  PROVE  SyncInv'  OBVIOUS
<1>1. layer # None  BY DEF Touch, BindSublayer, MayEdit
<1>2. LayerInv(layer) /\ Unknown \in Support  BY <1>1, HomeIs DEF Support
<1>3. PICK t \in BOOLEAN : t  OBVIOUS
<1>4. CASE Touch
  <2>1. PICK c \in Written(layer, Slots) : layer' = Recorded(layer, c, TRUE, Unknown, FALSE)
    BY <1>4 DEF Touch
  <2>2. c \in Values  BY <1>2, <2>1, WrittenValues
  <2>3. PICK f \in BOOLEAN : ~f /\ layer' = Recorded(layer, c, TRUE, Unknown, f)
    <3>1. FALSE \in BOOLEAN  OBVIOUS
    <3>. QED  BY <2>1, <3>1, Zenon
  <2>4. PICK u \in BOOLEAN : u /\ layer' = Recorded(layer, c, u, Unknown, f)
    <3>1. TRUE \in BOOLEAN  OBVIOUS
    <3>. QED  BY <2>3, <3>1, Zenon
  <2>5. Touched(Unknown, f) = Slots  BY <2>3 DEF Touched
  <2>6. UNCHANGED <<released, aside, removed, stage>>  BY <1>4 DEF Touch
  <2>. QED  BY <1>1, <1>2, <2>2, <2>3, <2>4, <2>5, <2>6, EditSync
<1>5. CASE BindSublayer
  <2>0. {Bound} \in SUBSET Slots  BY DEF Slots
  <2>1. PICK c \in Written(layer, {Bound}) : layer' = Recorded(layer, c, TRUE, Unknown, TRUE)
    BY <1>5 DEF BindSublayer
  <2>2. c \in Values /\ \A s \in Slots : c[s] # layer.content[s] => s \in {Bound}
    BY <1>2, <2>0, <2>1, WrittenValues
  <2>3. PICK u \in BOOLEAN : u /\ layer' = Recorded(layer, c, u, Unknown, u)
    <3>1. TRUE \in BOOLEAN  OBVIOUS
    <3>. QED  BY <2>1, <3>1, Zenon
  <2>4. Touched(Unknown, u) = {Bound}  BY <2>3 DEF Touched
  <2>5. UNCHANGED <<released, aside, removed, stage>>  BY <1>5 DEF BindSublayer
  <2>. QED  BY <1>1, <1>2, <2>2, <2>3, <2>4, <2>5, EditSync
<1>. QED  BY <1>4, <1>5

LEMMA EvidenceSync ==
    ASSUME SyncInv, ForgetChangeHistory \/ \E budget \in Budgets : SetChangeHistoryBudget(budget)
    PROVE  SyncInv'
<1>1. layer # None /\ UNCHANGED <<released, aside, removed, stage>>
  BY DEF ForgetChangeHistory, SetChangeHistoryBudget
<1>2. LayerInv(layer) /\ Traced(stage, layer) /\ StageInv(stage)  BY <1>1, HomeIs DEF SyncInv
<1>3. layer.evidence \in Evidence  BY <1>2, LayerTypes
<1>4. PICK e \in Evidence : /\ e.entries \in Suffixes(layer.evidence.entries)
                            /\ layer' = [layer EXCEPT !.evidence = e]
  <2>1. CASE ForgetChangeHistory
    <3>1. Clear(layer.evidence) \in Evidence /\ Clear(layer.evidence).entries = <<>>
      BY <1>3, ClearEmpties
    <3>2. <<>> \in Suffixes(layer.evidence.entries)  BY DEF Suffixes
    <3>3. layer' = [layer EXCEPT !.evidence = Clear(layer.evidence)]
      BY <2>1 DEF ForgetChangeHistory
    <3>. QED  BY <3>1, <3>2, <3>3
  <2>2. CASE \E budget \in Budgets : SetChangeHistoryBudget(budget)
    <3>1. PICK budget \in Budgets : SetChangeHistoryBudget(budget)  BY <2>2
    <3>2. layer' = [layer EXCEPT !.evidence = SetBudget(layer.evidence, budget)]
      BY <3>1 DEF SetChangeHistoryBudget
    <3>. QED  BY <1>3, <3>2, SetBudgetKeepsSuffix
  <2>. QED  BY <2>1, <2>2
<1>5. LayerInv(layer') /\ Traced(stage, layer')  BY <1>2, <1>4, LessEvidenceKeeps
<1>. QED  BY <1>1, <1>2, <1>5, LayerStep

LEMMA AsideSync ==
    ASSUME ReplacesRemoved = FALSE, SyncInv, BuildLayer \/ CloneLayer
    PROVE  SyncInv'
<1>1. ~removed /\ ~removed' /\ UNCHANGED <<layer, released, stage>>
  BY DEF BuildLayer, CloneLayer, MaySetAside
<1>2. LayerInv(aside')
  <2>1. CASE BuildLayer
    <3>1. [s \in Slots |-> 1] \in Values  BY DEF Values
    <3>. QED  BY <2>1, <3>1, NewLayerIsConsistent DEF BuildLayer
  <2>2. CASE CloneLayer  BY <2>2, HomeIs DEF CloneLayer
  <2>. QED  BY <2>1, <2>2
<1>3. Home' = Home  BY <1>1 DEF Home
<1>4. removed' \in BOOLEAN  BY DEF BuildLayer, CloneLayer
<1>. QED  BY <1>1, <1>2, <1>3, <1>4 DEF SyncInv

LEMMA EditAsideSync ==
    ASSUME SyncInv, NEW p \in Paths, EditAside(p)
    PROVE  SyncInv'
<1>1. aside # None /\ UNCHANGED <<layer, released, removed, stage>>  BY DEF EditAside, MayEdit
<1>2. LayerInv(aside) /\ stage \in Stages  BY <1>1 DEF SyncInv, StageInv
<1>3. LayerInv(aside') /\ (Traced(stage, aside) => Traced(stage, aside'))
  <2>1. {p} \in SUBSET Paths /\ FALSE \in BOOLEAN  OBVIOUS
  <2>2. PICK f \in BOOLEAN : ~f /\ aside' \in EditOf(aside, {p}, f)
    BY <2>1, Zenon DEF EditAside
  <2>. QED  BY <1>2, <2>1, <2>2, EditOfKeeps
<1>4. aside' # None  BY <1>3, LayerTypes
<1>5. CASE layer # None \/ ~removed
  <2>1. Home' = Home  BY <1>1, <1>5 DEF Home
  <2>. QED  BY <1>1, <1>3, <1>4, <2>1 DEF SyncInv
<1>6. CASE layer = None /\ removed
  <2>1. Home' = aside' /\ Traced(stage, aside)  BY <1>1, <1>6, HomeIs DEF Home
  <2>. QED  BY <1>1, <1>3, <1>4, <1>6, <2>1 DEF SyncInv
<1>. QED  BY <1>5, <1>6

LEMMA InsertSync == SyncInv /\ InsertLayer => SyncInv'
<1>. SUFFICES ASSUME SyncInv, InsertLayer  PROVE  SyncInv'  OBVIOUS
<1>. DEFINE previous == IF layer # None THEN Generations(layer) ELSE released
<1>1. /\ aside # None /\ LayerInv(aside) /\ StageInv(stage)
      /\ layer' = IF previous = None THEN aside ELSE Continued(aside, previous)
      /\ aside' = None /\ removed' = FALSE /\ stage' = stage
      /\ released' = IF layer # None THEN released ELSE None
  BY DEF SyncInv, InsertLayer
<1>2. LayerInv(layer') /\ Traced(stage, layer')
  <2>1. CASE layer # None
    <3>1. /\ previous = Generations(layer) /\ previous # None /\ previous \in Seen
          /\ previous.structure <= previous.generation
          /\ Behind(stage.seen, previous)
      <4>1. LayerInv(layer) /\ Traced(stage, layer)  BY <2>1, HomeIs
      <4>2. previous = Generations(layer)  BY <2>1
      <4>. HIDE DEF previous
      <4>3. /\ previous # None /\ previous \in Seen
            /\ previous.generation = layer.generation /\ previous.structure = layer.structure
        BY <4>1, <4>2, LayerTypes
      <4>. QED  BY <4>1, <4>2, <4>3 DEF LayerInv, Traced, Behind
    <3>. HIDE DEF previous
    <3>2. layer' = Continued(aside, previous)  BY <1>1, <3>1
    <3>. QED  BY <1>1, <3>1, <3>2, ContinuedIsAhead
  <2>2. CASE layer = None /\ removed
    <3>1. previous = None /\ Traced(stage, aside)  BY <2>2, HomeIs
    <3>. HIDE DEF previous
    <3>. QED  BY <1>1, <3>1
  <2>3. CASE layer = None /\ ~removed
    <3>1. /\ previous = released /\ released \in Seen
          /\ released.structure <= released.generation /\ Behind(stage.seen, released)
      BY <2>3, HomeIs
    <3>2. released # None  BY <3>1 DEF Seen, None
    <3>. HIDE DEF previous
    <3>3. layer' = Continued(aside, released)  BY <1>1, <3>1, <3>2
    <3>. QED  BY <1>1, <3>1, <3>3, ContinuedIsAhead
  <2>4. removed \in BOOLEAN  BY DEF SyncInv
  <2>. QED  BY <2>1, <2>2, <2>3, <2>4
<1>3. layer' # None  BY <1>2, LayerTypes
<1>4. Home' = layer'  BY <1>3 DEF Home
<1>5. released' = None  BY <1>1, HomeIs
<1>. HIDE DEF previous
<1>. QED  BY <1>1, <1>2, <1>3, <1>4, <1>5 DEF SyncInv

LEMMA RemoveSync == SyncInv /\ RemoveLayer => SyncInv'
<1>. SUFFICES ASSUME SyncInv, RemoveLayer  PROVE  SyncInv'  OBVIOUS
<1>1. /\ layer # None /\ aside' = layer /\ removed' = TRUE /\ layer' = None
      /\ UNCHANGED <<released, stage>>
  BY DEF RemoveLayer
<1>2. LayerInv(layer) /\ Traced(stage, layer) /\ released = None  BY <1>1, HomeIs
<1>3. Home' = layer  BY <1>1 DEF Home
<1>4. StageInv(stage)  BY DEF SyncInv
<1>. QED  BY <1>1, <1>2, <1>3, <1>4 DEF SyncInv

LEMMA ReleaseSync == SyncInv /\ ReleaseLayers => SyncInv'
<1>. SUFFICES ASSUME SyncInv, ReleaseLayers  PROVE  SyncInv'  OBVIOUS
<1>1. /\ layer # None /\ released' = Generations(layer) /\ layer' = None
      /\ UNCHANGED <<aside, removed, stage>>
  BY DEF ReleaseLayers
<1>2. LayerInv(layer) /\ Traced(stage, layer) /\ ~removed  BY <1>1, HomeIs
<1>3. /\ released' \in Seen /\ released' # None
      /\ released'.generation = layer.generation /\ released'.structure = layer.structure
  BY <1>1, <1>2, LayerTypes
<1>4. Home' = None  BY <1>1, <1>2 DEF Home
<1>5. released'.structure <= released'.generation  BY <1>2, <1>3 DEF LayerInv
<1>6. Behind(stage.seen, released')  BY <1>2, <1>3 DEF Traced, Behind
<1>. QED  BY <1>1, <1>2, <1>3, <1>4, <1>5, <1>6 DEF SyncInv

LEMMA NextSync ==
    ASSUME ReplacesRemoved = FALSE, SyncInv, [Next]_vars
    PROVE  SyncInv'
<1>1. CASE NotifyChangedLayers  BY <1>1, NotifySync
<1>2. CASE RecomposeChanges  BY <1>2, RecomposeSync
<1>3. CASE \E p \in Paths : ApplyValues(p)  BY <1>3, TransactionSync
<1>4. CASE \E p \in Paths : ApplyStructure(p)  BY <1>4, TransactionSync
<1>5. CASE \E paths \in (SUBSET Paths) \ {{}} : EditBehind(paths)
  <2>1. PICK paths \in (SUBSET Paths) \ {{}} : EditBehind(paths)  BY <1>5
  <2>2. paths \in SUBSET Paths  BY <2>1
  <2>. QED  BY <2>1, <2>2, BehindSync
<1>6. CASE Touch \/ BindSublayer  BY <1>6, TouchSync
<1>7. CASE ForgetChangeHistory \/ \E budget \in Budgets : SetChangeHistoryBudget(budget)
  BY <1>7, EvidenceSync
<1>8. CASE BuildLayer \/ CloneLayer  BY <1>8, AsideSync
<1>9. CASE \E p \in Paths : EditAside(p)  BY <1>9, EditAsideSync
<1>10. CASE InsertLayer  BY <1>10, InsertSync
<1>11. CASE RemoveLayer  BY <1>11, RemoveSync
<1>12. CASE ReleaseLayers  BY <1>12, ReleaseSync
<1>13. CASE UNCHANGED vars  BY <1>13 DEF vars, SyncInv, Home
<1>. QED  BY <1>1, <1>2, <1>3, <1>4, <1>5, <1>6, <1>7, <1>8, <1>9, <1>10, <1>11, <1>12, <1>13
          DEF Next

-----------------------------------------------------------------------------
LEMMA SyncInvTypes == SyncInv => TypeOK
<1>. SUFFICES ASSUME SyncInv  PROVE  TypeOK  OBVIOUS
<1>1. ASSUME NEW l, LayerInv(l)  PROVE  LayerOK(l)
  <2>1. /\ l.content \in Values /\ l.generation \in Nat /\ l.structure \in Nat
        /\ l.evidence.entries \in Seq(Batch)
    BY <1>1, LayerTypes
  <2>2. DOMAIN l.evidence.entries = 1..Len(l.evidence.entries)  BY <2>1
  <2>. QED  BY <1>1, <2>1, <2>2 DEF LayerOK, LayerInv, UpTo, Values
<1>2. \A l \in {layer, aside} \ {None} : LayerOK(l)  BY <1>1 DEF SyncInv
<1>3. stage.opinions \cup stage.specs \subseteq Paths /\ (stage.restack => stage.rebuild)
  BY DEF SyncInv, StageInv, Stages
<1>. QED  BY <1>2, <1>3 DEF SyncInv, TypeOK

LEMMA SyncInvIsCurrent == SyncInv => SynchronizeIsCurrent
<1>. SUFFICES ASSUME SyncInv  PROVE  SynchronizeIsCurrent  OBVIOUS
<1>. DEFINE n == Notified(stage, layer)
<1>1. /\ layer # None => LayerInv(layer) /\ Traced(stage, layer)
      /\ StageInv(stage)
  BY HomeIs DEF SyncInv
<1>2. StageInv(n) /\ n.seen = Generations(layer) /\ Stale(n, layer) \subseteq Marked(n)
  BY <1>1, NotifiedCovers
<1>. HIDE DEF n
<1>3. layer # None => Traced(n, layer)  BY <1>1, <1>2, CoveredIsTraced
<1>4. Recomposed(n, layer).composed = Content(layer)  BY <1>1, <1>2, <1>3, RecomposedKeeps
<1>. QED  BY <1>4 DEF SynchronizeIsCurrent, Synchronized, n

(* The layers are consistent, and the stage is to recompose only what there *)
(* is, whatever is edited, replaced, removed or released.                  *)
THEOREM SyncKeepsTypes ==
    ASSUME ReplacesRemoved = FALSE
    PROVE  Spec => []TypeOK
<1>1. SyncInv /\ [Next]_vars => SyncInv'  BY NextSync
<1>. QED  BY InitSync, <1>1, SyncInvTypes, PTL DEF Spec

(* Synchronizing brings the stage to what the layer says, whatever was      *)
(* edited, replaced, removed and released since it last looked             *)
(* (LiveStage::synchronize), unless the host inserts another layer for one  *)
(* it removed.                                                             *)
THEOREM SynchronizingIsEnough ==
    ASSUME ReplacesRemoved = FALSE
    PROVE  Spec => []SynchronizeIsCurrent
<1>1. SyncInv /\ [Next]_vars => SyncInv'  BY NextSync
<1>. QED  BY InitSync, <1>1, SyncInvIsCurrent, PTL DEF Spec
=============================================================================
