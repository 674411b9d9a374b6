------------------------ MODULE UndoHistory_proofs ------------------------
(***************************************************************************)
(* Theorems of UndoHistory, for any paths, values, transactions and limit,  *)
(* whoever else edits and whatever is refused: the order and the bound of   *)
(* the two stacks, what they hold, what a refusal leaves, and that the      *)
(* specs of the layer stay a tree.  And for a host that makes every edit    *)
(* itself and takes no mark: that no step is ever stale, and that undo and  *)
(* redo move along a line of whole layers.  And for everyone else: that the *)
(* history takes back only what a transaction or the history put there.     *)
(* And for a host that does take marks: that unwinding to one, while nobody *)
(* else edited, brings back the layer it was taken on.                      *)
(***************************************************************************)
EXTENDS UndoLine, LayerEdits_proofs

-----------------------------------------------------------------------------
(* Inverse transactions: whole parts, and none of them empty.               *)
Inverses == GrownEdits \ {<<>>}

(* One after the other they are one, each added to those before.            *)
Flattens(flat, inverses) ==
    /\ \A i \in 1..Len(inverses) : flat[i] \in Inverses
    /\ flat[1] = inverses[1]
    /\ \A i \in 2..Len(inverses) : flat[i] = flat[i - 1] \o inverses[i]
    /\ FlattenSeq(inverses) = flat[Len(inverses)]

LEMMA FlatIs ==
    ASSUME NEW inverses \in Seq(Inverses), inverses # <<>>
    PROVE  \E flat : Flattens(flat, inverses)
<1>. DEFINE n == Len(inverses)
            m == n - 1
            Is(g) == g = [i \in 1..n |-> IF i = 1 THEN inverses[i]
                                         ELSE g[i - 1] \o inverses[i]]
            flat == CHOOSE g : Is(g)
            F == [i \in 1..m |-> [x \in Inverses |-> x \o inverses[i + 1]]]
<1>1. n \in Nat /\ n >= 1 /\ m \in Nat /\ \A i \in 1..n : inverses[i] \in Inverses
  OBVIOUS
<1>2. \A x, y \in Inverses : x \o y \in Inverses
  <2>. SUFFICES ASSUME NEW x \in Inverses, NEW y \in Inverses  PROVE x \o y \in Inverses
    OBVIOUS
  <2>0. x \in GrownEdits /\ y \in GrownEdits /\ x # <<>>  BY DEF Inverses
  <2>1. x \in Seq(RawEdits) /\ y \in Seq(RawEdits) /\ Len(x) \in Nat /\ Len(x) > 0
        /\ Len(y) \in Nat
    BY <2>0, GrownEditsJoin
  <2>2. x \o y \in GrownEdits /\ Len(x \o y) = Len(x) + Len(y)
    BY <2>0, <2>1, ConcatProperties, GrownEditsJoin
  <2>3. x \o y # <<>>
    <3>1. Len(<<>>) = 0  OBVIOUS
    <3>. QED  BY <2>1, <2>2, <3>1
  <2>. QED  BY <2>2, <2>3 DEF Inverses
<1>3. F \in Moves(m, Inverses)
  <2>1. \A i \in 1..m : i + 1 \in 1..n  BY <1>1
  <2>. HIDE DEF n, m
  <2>. QED  BY <1>1, <1>2, <2>1 DEF Moves
<1>4. PICK at : IsTrace(at, m, Inverses, inverses[1], F)
  <2>1. inverses[1] \in Inverses  BY <1>1
  <2>. HIDE DEF F, m
  <2>. QED  BY <1>1, <1>3, <2>1, TraceExists
<1>5. at \in [0..m -> Inverses] /\ at[0] = inverses[1]
      /\ \A i \in 1..m : at[i] = F[i][at[i - 1]]
  <2>. HIDE DEF F
  <2>. QED  BY <1>4 DEF IsTrace
<1>6. \A i \in 1..m : at[i] = at[i - 1] \o inverses[i + 1]
  <2>. TAKE i \in 1..m
  <2>1. at[i - 1] \in Inverses /\ at[i] = F[i][at[i - 1]]
    <3>. HIDE DEF F
    <3>1. i - 1 \in 0..m  BY <1>1
    <3>. QED  BY <1>5, <3>1
  <2>. QED  BY <2>1
<1>. HIDE DEF F
<1>. DEFINE g == [i \in 1..n |-> at[i - 1]]
<1>7. Is(g)
  <2>1. ASSUME NEW i \in 1..n
        PROVE  at[i - 1] = IF i = 1 THEN inverses[i] ELSE g[i - 1] \o inverses[i]
    <3>1. CASE i = 1  BY <1>5, <3>1
    <3>2. CASE i # 1
      <4>1. i - 1 \in 1..m /\ i - 1 \in 1..n /\ i - 1 + 1 = i  BY <1>1, <3>2
      <4>2. at[i - 1] = at[i - 1 - 1] \o inverses[i - 1 + 1]  BY <1>6, <4>1
      <4>3. g[i - 1] = at[i - 1 - 1]  BY <4>1
      <4>. QED  BY <3>2, <4>1, <4>2, <4>3
    <3>. QED  BY <3>1, <3>2
  <2>. QED  BY <2>1
<1>8. \A i \in 1..n : flat[i] = IF i = 1 THEN inverses[i] ELSE flat[i - 1] \o inverses[i]
  <2>1. Is(flat)  BY <1>7
  <2>. HIDE DEF flat
  <2>. QED  BY <2>1
<1>9. FlattenSeq(inverses) = flat[n]
  <2>1. Len(inverses) # 0  BY <1>1
  <2>. QED  BY <2>1, Zenon DEF FlattenSeq, n
<1>. HIDE DEF flat
<1>15. \A i \in 1..n : i # 1 => flat[i] = flat[i - 1] \o inverses[i]
  <2>. HIDE DEF n
  <2>. QED  BY <1>8
<1>. DEFINE h == [i \in 0..m |-> flat[i + 1]]
<1>10. h[0] \in Inverses
  <2>1. 0 \in 0..m /\ 0 + 1 = 1 /\ 1 \in 1..n  BY <1>1
  <2>. QED  BY <1>1, <1>8, <2>1
<1>11. Stays(h, Inverses, m)
  <2>. SUFFICES ASSUME NEW i \in 1..m, h[i - 1] \in Inverses  PROVE h[i] \in Inverses
    BY DEF Stays
  <2>1. i \in 0..m /\ i - 1 \in 0..m /\ i - 1 + 1 = i /\ i + 1 \in 1..n /\ i + 1 # 1
        /\ i + 1 - 1 = i
    BY <1>1
  <2>2. h[i - 1] = flat[i] /\ h[i] = flat[i + 1]  BY <2>1
  <2>4. flat[i + 1] = flat[i] \o inverses[i + 1]
    <3>1. PICK k \in Int : k = i + 1  BY <2>1
    <3>2. k \in 1..n /\ k # 1 /\ k - 1 = i  BY <2>1, <3>1
    <3>. HIDE DEF n, m, h
    <3>3. flat[k] = flat[k - 1] \o inverses[k]  BY <1>15, <3>2
    <3>4. flat[k - 1] = flat[i]  BY <3>2
    <3>5. flat[k] = flat[i] \o inverses[k]  BY Zenon, <3>3, <3>4
    <3>. QED  BY Zenon, <3>1, <3>5
  <2>. HIDE DEF h
  <2>. QED  BY <1>1, <1>2, <2>1, <2>2, <2>4
<1>12. \A i \in 0..m : h[i] \in Inverses
  <2>. HIDE DEF h, m
  <2>. QED  BY <1>1, <1>10, <1>11, TraceStays
<1>13. ASSUME NEW i \in 1..n  PROVE flat[i] \in Inverses
  <2>1. i - 1 \in 0..m /\ i - 1 + 1 = i  BY <1>1
  <2>2. h[i - 1] = flat[i]  BY <2>1
  <2>. HIDE DEF h, m
  <2>. QED  BY <1>12, <2>1, <2>2
<1>14. flat[1] = inverses[1]
  <2>1. 1 \in 1..n  BY <1>1
  <2>. QED  BY <1>8, <2>1
<1>16. \A i \in 2..n : flat[i] = flat[i - 1] \o inverses[i]
  <2>1. \A i \in 2..n : i \in 1..n /\ i # 1  BY <1>1
  <2>. HIDE DEF n
  <2>. QED  BY <1>15, <2>1
<1>17. Flattens(flat, inverses)  BY <1>9, <1>13, <1>14, <1>16 DEF Flattens
<1>. QED  BY <1>17

LEMMA FlatInverses ==
    ASSUME NEW inverses \in Seq(Inverses)
    PROVE  /\ inverses = <<>> => FlattenSeq(inverses) = <<>>
           /\ inverses # <<>> => FlattenSeq(inverses) \in Inverses
<1>1. CASE inverses = <<>>  BY <1>1 DEF FlattenSeq
<1>2. CASE inverses # <<>>
  <2>1. PICK flat : Flattens(flat, inverses)  BY <1>2, FlatIs
  <2>2. Len(inverses) \in 1..Len(inverses)  BY <1>2
  <2>. QED  BY <1>2, <2>1, <2>2 DEF Flattens
<1>. QED  BY <1>1, <1>2

-----------------------------------------------------------------------------
(* What the steps' transactions say is of no account here: T is whatever    *)
(* they are.                                                                *)
Step(T) == [id : Nat, txn : T]

StackTypes ==
    /\ \E T : undo \in Seq(Step(T)) /\ redo \in Seq(Step(T))
    /\ \E G : group \in Seq(G)
    /\ levels \in Seq(Nat)
    /\ nextId \in Nat

(* Below on the undo stack, then from the top of the redo stack down, steps *)
(* are in the order they were recorded, all before the next id.             *)
InOrder ==
    /\ \A i, j \in DOMAIN undo : i < j => undo[i].id < undo[j].id
    /\ \A i, j \in DOMAIN redo : i < j => redo[j].id < redo[i].id
    /\ \A i \in DOMAIN undo, j \in DOMAIN redo : undo[i].id < redo[j].id
    /\ \A i \in DOMAIN undo : undo[i].id < nextId
    /\ \A j \in DOMAIN redo : redo[j].id < nextId

(* Levels begin within what the group recorded, the outer ones first, the   *)
(* outermost with nothing recorded.                                         *)
Nested(inverses, starts) ==
    /\ starts # <<>> => starts[1] = 0
    /\ \A i \in DOMAIN starts : starts[i] <= Len(inverses)
    /\ \A i, j \in DOMAIN starts : i <= j => starts[i] <= starts[j]

(* A group that recorded something is open and has cleared the redo stack.  *)
GroupOpen ==
    /\ group # <<>> => Open /\ redo = <<>>
    /\ Nested(group, levels)

HInv == StackTypes /\ InOrder /\ GroupOpen /\ BoundKept

stacks == <<undo, redo, group, levels, nextId>>

-----------------------------------------------------------------------------
LEMMA SameStacks ==
    ASSUME HInv, UNCHANGED stacks
    PROVE  HInv'
BY DEF HInv, stacks, StackTypes, InOrder, GroupOpen, Open, BoundKept

LEMMA SameHistory ==
    ASSUME HInv, UNCHANGED history
    PROVE  HInv'
BY SameStacks DEF history, stacks

(* The last place of a sequence one longer, or one it had.                  *)
LEMMA LastOrBefore ==
    ASSUME NEW k \in Nat, NEW i \in 1..(k + 1)
    PROVE  i \in 1..k \/ i = k + 1
OBVIOUS

(* How groups nest. *)
LEMMA NothingNested == \A inverses : Nested(inverses, <<>>)
BY DEF Nested

LEMMA RecordNests ==
    ASSUME NEW G, NEW inverses \in Seq(G), NEW starts \in Seq(Nat),
           Nested(inverses, starts), NEW inverse
    PROVE  Nested(Append(inverses, inverse), starts)
<1>1. Len(Append(inverses, inverse)) = Len(inverses) + 1 /\ Len(inverses) \in Nat
  <2>1. inverses \in Seq(G \cup {inverse})  BY WiderSeq
  <2>. QED  BY <2>1
<1>2. \A i \in DOMAIN starts : starts[i] \in Nat  OBVIOUS
<1>. QED  BY <1>1, <1>2 DEF Nested

LEMMA BeginNests ==
    ASSUME NEW G, NEW inverses \in Seq(G), NEW starts \in Seq(Nat),
           Nested(inverses, starts), starts = <<>> => inverses = <<>>
    PROVE  Nested(inverses, Append(starts, Len(inverses)))
<1>. DEFINE l == Append(starts, Len(inverses))
            n == Len(starts)
<1>1. n \in Nat /\ Len(inverses) \in Nat /\ DOMAIN starts = 1..n  OBVIOUS
<1>2. /\ DOMAIN l = 1..(n + 1) /\ l[n + 1] = Len(inverses)
      /\ \A i \in 1..n : l[i] = starts[i]
  BY <1>1
<1>. HIDE DEF l
<1>3. \A i \in 1..(n + 1) : l[i] <= Len(inverses)
  <2>. SUFFICES ASSUME NEW i \in 1..(n + 1)  PROVE l[i] <= Len(inverses)
    OBVIOUS
  <2>1. CASE i \in 1..n  BY <1>1, <1>2, <2>1 DEF Nested
  <2>2. CASE i = n + 1  BY <1>1, <1>2, <2>2
  <2>. QED  BY <1>1, <2>1, <2>2, LastOrBefore
<1>4. \A i, j \in 1..(n + 1) : i <= j => l[i] <= l[j]
  <2>. SUFFICES ASSUME NEW i \in 1..(n + 1), NEW j \in 1..(n + 1), i <= j
                PROVE  l[i] <= l[j]
    OBVIOUS
  <2>1. CASE j \in 1..n
    <3>1. i \in 1..n  BY <1>1, <2>1
    <3>. QED  BY <1>1, <1>2, <2>1, <3>1 DEF Nested
  <2>2. CASE j = n + 1  BY <1>2, <1>3, <2>2
  <2>. QED  BY <1>1, <2>1, <2>2, LastOrBefore
<1>5. l[1] = 0
  <2>1. CASE starts = <<>>  BY <1>1, <1>2, <2>1
  <2>2. CASE starts # <<>>
    <3>1. 1 \in 1..n  BY <1>1, <2>2
    <3>. QED  BY <1>2, <2>2, <3>1 DEF Nested
  <2>. QED  BY <2>1, <2>2
<1>6. Nested(inverses, l)  BY <1>2, <1>3, <1>4, <1>5 DEF Nested
<1>. QED  BY <1>6 DEF l

(* Closing the innermost level keeps what was recorded before it in order.  *)
LEMMA NotEmptyHasLen ==
    ASSUME NEW S, NEW s \in Seq(S), s # <<>>
    PROVE  Len(s) \in Nat /\ Len(s) >= 1 /\ DOMAIN s = 1..Len(s)
<1>1. Len(s) \in Nat /\ DOMAIN s = 1..Len(s)  OBVIOUS
<1>2. Len(s) # 0  BY EmptySeq
<1>. QED  BY <1>1, <1>2

LEMMA CloseNests ==
    ASSUME NEW G, NEW inverses \in Seq(G), NEW starts \in Seq(Nat), starts # <<>>,
           Nested(inverses, starts)
    PROVE  /\ Last(starts) \in 0..Len(inverses)
           /\ Front(starts) \in Seq(Nat)
           /\ Len(starts) > 1 <=> Front(starts) # <<>>
           /\ Front(starts) = <<>> => Last(starts) = 0
           /\ Nested(inverses, Front(starts))
           /\ \A kept : Len(kept) = Last(starts) => Nested(kept, Front(starts))
<1>. DEFINE n == Len(starts)
            f == Front(starts)
<1>1. n \in Nat /\ n >= 1 /\ Len(inverses) \in Nat /\ DOMAIN starts = 1..n
  <2>1. Len(inverses) \in Nat  OBVIOUS
  <2>2. starts \in Seq(Nat) /\ starts # <<>>  OBVIOUS
  <2>3. n \in Nat /\ n >= 1 /\ DOMAIN starts = 1..n  BY Zenon, <2>2, NotEmptyHasLen
  <2>. QED  BY <2>1, <2>3
<1>2. f \in Seq(Nat) /\ Len(f) = n - 1 /\ \A i \in 1..(n - 1) : f[i] = starts[i]
  BY <1>1, FrontElements
<1>3. DOMAIN f = 1..(n - 1)  BY <1>2
<1>4. \A i \in 1..(n - 1) : i \in 1..n /\ i <= n /\ n \in 1..n  BY <1>1
<1>5. Last(starts) = starts[n] /\ starts[n] \in 0..Len(inverses)
  BY <1>1 DEF Last, Nested
<1>6. n > 1 <=> f # <<>>  BY <1>1, <1>2
<1>7. ~(n > 1) => starts[n] = 0  BY <1>1 DEF Nested
<1>8. f # <<>> => f[1] = 0
  <2>. SUFFICES ASSUME n > 1  PROVE f[1] = 0
    BY <1>6
  <2>1. 1 \in 1..(n - 1)  BY <1>1
  <2>. QED  BY <1>2, <2>1 DEF Nested
<1>. HIDE DEF f, n
<1>9. \A i, j \in DOMAIN f : i <= j => f[i] <= f[j]
  BY <1>1, <1>2, <1>3, <1>4 DEF Nested
<1>10. \A i \in DOMAIN f : f[i] <= Len(inverses) /\ f[i] <= starts[n]
  BY <1>1, <1>2, <1>3, <1>4 DEF Nested
<1>11. Nested(inverses, f)  BY <1>8, <1>9, <1>10 DEF Nested
<1>12. \A kept : Len(kept) = starts[n] => Nested(kept, f)
  BY <1>8, <1>9, <1>10 DEF Nested
<1>. QED  BY <1>2, <1>5, <1>6, <1>7, <1>11, <1>12 DEF f, n

LEMMA InitHInv == Init => HInv
<1>. SUFFICES ASSUME Init  PROVE HInv
  OBVIOUS
<1>1. /\ undo = <<>> /\ redo = <<>> /\ group = <<>> /\ levels = <<>> /\ nextId = 0
  BY DEF Init
<1>2. <<>> \in Seq(Step({})) /\ <<>> \in Seq({}) /\ <<>> \in Seq(Nat) /\ DOMAIN <<>> = {}
      /\ Len(<<>>) = 0
  OBVIOUS
<1>3. StackTypes  BY <1>1, <1>2 DEF StackTypes
<1>4. InOrder /\ GroupOpen  BY <1>1, <1>2, NothingNested DEF InOrder, GroupOpen, Open
<1>5. BoundKept  BY <1>1, <1>2, LimitAssumption DEF BoundKept
<1>. QED  BY <1>3, <1>4, <1>5 DEF HInv

(* A new step goes on top while nothing is left to redo; over the limit the *)
(* oldest goes.                                                             *)
LEMMA PushStep ==
    ASSUME HInv, NEW txn, redo' = <<>>, Push(txn),
           \E G : group' \in Seq(G), levels' \in Seq(Nat),
           group' # <<>> => levels' # <<>>, Nested(group', levels')
    PROVE  HInv'
<1>. DEFINE new == [id |-> nextId, txn |-> txn]
            pushed == Append(undo, new)
<1>1. PICK T : undo \in Seq(Step(T))  BY DEF HInv, StackTypes
<1>. DEFINE R == Step(T \cup {txn})
<1>2. nextId \in Nat /\ nextId' = nextId + 1 /\ nextId' \in Nat  BY DEF HInv, StackTypes, Push
<1>3. undo \in Seq(R) /\ new \in R
  <2>1. Step(T) \subseteq R /\ new \in R  BY <1>2 DEF Step
  <2>. HIDE DEF R, new
  <2>. QED  BY <1>1, <2>1, WiderSeq
<1>4. undo' = pushed \/ (undo' = Tail(pushed))
  BY DEF Push
<1>5. /\ pushed \in Seq(R) /\ Len(pushed) = Len(undo) + 1 /\ pushed[Len(undo) + 1] = new
      /\ \A i \in 1..Len(undo) : pushed[i] = undo[i]
  <2>. HIDE DEF R, new
  <2>. QED  BY <1>3
<1>6. \A i, j \in 1..(Len(undo) + 1) : i < j => pushed[i].id < pushed[j].id
  <2>1. \A i, j \in 1..Len(undo) : i < j => undo[i].id < undo[j].id
    BY <1>1 DEF HInv, InOrder
  <2>2. \A i \in 1..Len(undo) : undo[i].id < nextId  BY <1>1 DEF HInv, InOrder
  <2>3. new.id = nextId /\ Len(undo) \in Nat  BY <1>1
  <2>. HIDE DEF pushed, new
  <2>. TAKE i, j \in 1..(Len(undo) + 1)
  <2>. HAVE i < j
  <2>4. i \in 1..Len(undo)  BY <2>3
  <2>5. CASE j \in 1..Len(undo)  BY <1>5, <2>1, <2>4, <2>5
  <2>6. CASE j = Len(undo) + 1  BY <1>5, <2>2, <2>3, <2>4, <2>6
  <2>. QED  BY <2>3, <2>5, <2>6
<1>7. \A i \in 1..(Len(undo) + 1) : pushed[i].id < nextId + 1
  <2>1. \A i \in 1..Len(undo) : undo[i].id < nextId /\ undo[i].id \in Nat
    <3>1. \A i \in 1..Len(undo) : undo[i] \in Step(T)  BY <1>1
    <3>. QED  BY <1>1, <3>1 DEF HInv, InOrder, Step
  <2>2. new.id = nextId /\ Len(undo) \in Nat  BY <1>1
  <2>. HIDE DEF pushed, new
  <2>. TAKE i \in 1..(Len(undo) + 1)
  <2>3. CASE i \in 1..Len(undo)  BY <1>2, <1>5, <2>1, <2>3
  <2>4. CASE i = Len(undo) + 1  BY <1>2, <1>5, <2>2, <2>4
  <2>. QED  BY <2>2, <2>3, <2>4, LastOrBefore
<1>8. /\ undo' \in Seq(R)
      /\ \A i, j \in DOMAIN undo' : i < j => undo'[i].id < undo'[j].id
      /\ \A i \in DOMAIN undo' : undo'[i].id < nextId + 1
  <2>0. Len(undo) \in Nat  BY <1>1
  <2>. HIDE DEF pushed, R
  <2>1. CASE undo' = pushed  BY <1>5, <1>6, <1>7, <2>0, <2>1
  <2>2. CASE undo' = Tail(pushed)
    <3>1. /\ undo' \in Seq(R) /\ Len(undo') = Len(undo)
          /\ \A i \in 1..Len(undo) : undo'[i] = pushed[i + 1]
      BY <1>5, <2>0, <2>2
    <3>2. \A i \in 1..Len(undo) : i + 1 \in 1..(Len(undo) + 1)  BY <2>0
    <3>3. \A i, j \in 1..Len(undo) : i < j => i + 1 < j + 1  BY <2>0
    <3>4. DOMAIN undo' = 1..Len(undo)  BY <3>1
    <3>. QED  BY <1>6, <1>7, <3>1, <3>2, <3>3, <3>4
  <2>. QED  BY <1>4, <2>1, <2>2
<1>9. StackTypes'
  <2>1. <<>> \in Seq(R)  OBVIOUS
  <2>. QED  BY <1>2, <1>8, <2>1 DEF StackTypes
<1>10. InOrder'
  <2>1. DOMAIN redo' = {}  OBVIOUS
  <2>. QED  BY <1>2, <1>8, <2>1 DEF InOrder
<1>11. BoundKept'
  <2>. SUFFICES ASSUME Limit # None  PROVE Len(undo') + Len(redo') <= Limit
    BY DEF BoundKept
  <2>1. Limit \in Nat /\ Len(undo) \in Nat /\ Len(redo) \in Nat /\ Len(redo') = 0
    BY <1>1, LimitAssumption DEF HInv, StackTypes
  <2>2. Len(undo) + Len(redo) <= Limit  BY DEF HInv, BoundKept
  <2>. HIDE DEF R, new
  <2>3. CASE Len(pushed) + Len(redo') > Limit
    <3>1. undo' = Tail(pushed)  BY <2>3 DEF Push, new
    <3>2. Len(undo') = Len(undo)
      <4>. HIDE DEF pushed
      <4>1. pushed \in Seq(R) /\ pushed # <<>>  BY <1>5, <2>1
      <4>2. Len(Tail(pushed)) = Len(pushed) - 1  BY <4>1, HeadTailProperties
      <4>. QED  BY <1>5, <2>1, <3>1, <4>2
    <3>. QED  BY <2>1, <2>2, <3>2
  <2>4. CASE ~(Len(pushed) + Len(redo') > Limit)
    <3>1. undo' = pushed  BY <2>4 DEF Push, new
    <3>. QED  BY <1>5, <2>1, <2>4, <3>1
  <2>. QED  BY <2>3, <2>4
<1>12. GroupOpen'  BY DEF GroupOpen, Open
<1>. QED  BY <1>9, <1>10, <1>11, <1>12 DEF HInv

(* One step goes from the end of one stack to the end of the other: the     *)
(* order of the two read as one does not change.                            *)
LEMMA UndoStep ==
    ASSUME HInv, ~Open, undo # <<>>, NEW inverse,
           undo' = Front(undo), redo' = Append(redo, Turned(Last(undo), inverse)),
           UNCHANGED <<group, levels, nextId>>
    PROVE  HInv'
<1>1. PICK T : undo \in Seq(Step(T)) /\ redo \in Seq(Step(T))  BY DEF HInv, StackTypes
<1>. DEFINE R == Step(T \cup {inverse})
            n == Len(undo)
            m == Len(redo)
            moved == Turned(Last(undo), inverse)
<1>2. n \in Nat /\ n >= 1 /\ m \in Nat /\ undo[n] \in Step(T)
  <2>1. n \in Nat /\ n # 0 /\ m \in Nat  BY <1>1
  <2>. QED  BY <1>1, <2>1
<1>3. moved.id = undo[n].id /\ moved \in R
  BY <1>2 DEF Turned, Last, Step
<1>4. undo \in Seq(R) /\ redo \in Seq(R)
  <2>1. Step(T) \subseteq R  BY DEF Step
  <2>. HIDE DEF R
  <2>. QED  BY <1>1, <2>1, WiderSeq
<1>. HIDE DEF R, moved
<1>5. /\ undo' \in Seq(R) /\ DOMAIN undo' = 1..(n - 1) /\ Len(undo') = n - 1
      /\ \A i \in 1..(n - 1) : undo'[i] = undo[i]
  BY <1>2, <1>4, FrontElements
<1>6. /\ redo' \in Seq(R) /\ DOMAIN redo' = 1..(m + 1) /\ Len(redo') = m + 1
      /\ redo'[m + 1].id = undo[n].id
      /\ \A j \in 1..m : redo'[j] = redo[j]
  BY <1>2, <1>3, <1>4 DEF moved
<1>7. /\ \A i, j \in 1..n : i < j => undo[i].id < undo[j].id
      /\ \A i, j \in 1..m : i < j => redo[j].id < redo[i].id
      /\ \A i \in 1..n, j \in 1..m : undo[i].id < redo[j].id
      /\ \A i \in 1..n : undo[i].id < nextId
      /\ \A j \in 1..m : redo[j].id < nextId
  BY <1>1 DEF HInv, InOrder
<1>. HIDE DEF n, m
<1>8. InOrder'
  <2>1. \A i, j \in DOMAIN undo' : i < j => undo'[i].id < undo'[j].id
    BY <1>2, <1>5, <1>7
  <2>2. \A i, j \in DOMAIN redo' : i < j => redo'[j].id < redo'[i].id
    <3>. SUFFICES ASSUME NEW i \in 1..(m + 1), NEW j \in 1..(m + 1), i < j
                  PROVE  redo'[j].id < redo'[i].id
      BY <1>6
    <3>1. i \in 1..m /\ n \in 1..n  BY <1>2
    <3>2. CASE j \in 1..m  BY <1>6, <1>7, <3>1, <3>2
    <3>3. CASE j = m + 1
      <4>1. redo'[i].id = redo[i].id /\ redo'[j].id = undo[n].id  BY <1>6, <3>1, <3>3
      <4>2. undo[n].id < redo[i].id  BY <1>7, <3>1
      <4>. QED  BY <4>1, <4>2
    <3>. QED  BY <1>2, <3>2, <3>3, LastOrBefore
  <2>3. \A i \in DOMAIN undo', j \in DOMAIN redo' : undo'[i].id < redo'[j].id
    <3>. SUFFICES ASSUME NEW i \in 1..(n - 1), NEW j \in 1..(m + 1)
                  PROVE  undo'[i].id < redo'[j].id
      BY <1>5, <1>6
    <3>1. i \in 1..n /\ n \in 1..n /\ i < n  BY <1>2
    <3>2. CASE j \in 1..m  BY <1>5, <1>6, <1>7, <3>1, <3>2
    <3>3. CASE j = m + 1
      <4>1. undo'[i].id = undo[i].id /\ redo'[j].id = undo[n].id  BY <1>5, <1>6, <3>3
      <4>2. undo[i].id < undo[n].id  BY <1>7, <3>1
      <4>. QED  BY <4>1, <4>2
    <3>. QED  BY <1>2, <3>2, <3>3, LastOrBefore
  <2>4. \A i \in DOMAIN undo' : undo'[i].id < nextId'  BY <1>2, <1>5, <1>7
  <2>5. \A j \in DOMAIN redo' : redo'[j].id < nextId'
    <3>1. n \in 1..n  BY <1>2
    <3>. QED  BY <1>2, <1>6, <1>7, <3>1
  <2>. QED  BY <2>1, <2>2, <2>3, <2>4, <2>5 DEF InOrder
<1>9. StackTypes'
  <2>1. nextId' \in Nat /\ levels' \in Seq(Nat) /\ \E G : group' \in Seq(G)
    BY DEF HInv, StackTypes
  <2>. QED  BY <1>5, <1>6, <2>1 DEF StackTypes, R
<1>10. BoundKept'
  <2>1. Len(undo') + Len(redo') = n + m  BY <1>2, <1>5, <1>6
  <2>. QED  BY <2>1 DEF HInv, BoundKept, n, m
<1>11. GroupOpen'  BY DEF HInv, GroupOpen, Open
<1>. QED  BY <1>8, <1>9, <1>10, <1>11 DEF HInv

LEMMA RedoStep ==
    ASSUME HInv, ~Open, redo # <<>>, NEW inverse,
           redo' = Front(redo), undo' = Append(undo, Turned(Last(redo), inverse)),
           UNCHANGED <<group, levels, nextId>>
    PROVE  HInv'
<1>1. PICK T : undo \in Seq(Step(T)) /\ redo \in Seq(Step(T))  BY DEF HInv, StackTypes
<1>. DEFINE R == Step(T \cup {inverse})
            n == Len(undo)
            m == Len(redo)
            moved == Turned(Last(redo), inverse)
<1>2. n \in Nat /\ m >= 1 /\ m \in Nat /\ redo[m] \in Step(T)
  <2>1. n \in Nat /\ m # 0 /\ m \in Nat  BY <1>1
  <2>. QED  BY <1>1, <2>1
<1>3. moved.id = redo[m].id /\ moved \in R
  BY <1>2 DEF Turned, Last, Step
<1>4. undo \in Seq(R) /\ redo \in Seq(R)
  <2>1. Step(T) \subseteq R  BY DEF Step
  <2>. HIDE DEF R
  <2>. QED  BY <1>1, <2>1, WiderSeq
<1>. HIDE DEF R, moved
<1>5. /\ redo' \in Seq(R) /\ DOMAIN redo' = 1..(m - 1) /\ Len(redo') = m - 1
      /\ \A i \in 1..(m - 1) : redo'[i] = redo[i]
  BY <1>2, <1>4, FrontElements
<1>6. /\ undo' \in Seq(R) /\ DOMAIN undo' = 1..(n + 1) /\ Len(undo') = n + 1
      /\ undo'[n + 1].id = redo[m].id
      /\ \A j \in 1..n : undo'[j] = undo[j]
  BY <1>2, <1>3, <1>4 DEF moved
<1>7. /\ \A i, j \in 1..n : i < j => undo[i].id < undo[j].id
      /\ \A i, j \in 1..m : i < j => redo[j].id < redo[i].id
      /\ \A i \in 1..n, j \in 1..m : undo[i].id < redo[j].id
      /\ \A i \in 1..n : undo[i].id < nextId
      /\ \A j \in 1..m : redo[j].id < nextId
  BY <1>1 DEF HInv, InOrder
<1>. HIDE DEF n, m
<1>8. InOrder'
  <2>1. \A i, j \in DOMAIN redo' : i < j => redo'[j].id < redo'[i].id
    BY <1>2, <1>5, <1>7
  <2>2. \A i, j \in DOMAIN undo' : i < j => undo'[i].id < undo'[j].id
    <3>. SUFFICES ASSUME NEW i \in 1..(n + 1), NEW j \in 1..(n + 1), i < j
                  PROVE  undo'[i].id < undo'[j].id
      BY <1>6
    <3>1. i \in 1..n /\ m \in 1..m  BY <1>2
    <3>2. CASE j \in 1..n  BY <1>6, <1>7, <3>1, <3>2
    <3>3. CASE j = n + 1
      <4>1. undo'[i].id = undo[i].id /\ undo'[j].id = redo[m].id  BY <1>6, <3>1, <3>3
      <4>2. undo[i].id < redo[m].id  BY <1>7, <3>1
      <4>. QED  BY <4>1, <4>2
    <3>. QED  BY <1>2, <3>2, <3>3, LastOrBefore
  <2>3. \A i \in DOMAIN undo', j \in DOMAIN redo' : undo'[i].id < redo'[j].id
    <3>. SUFFICES ASSUME NEW i \in 1..(n + 1), NEW j \in 1..(m - 1)
                  PROVE  undo'[i].id < redo'[j].id
      BY <1>5, <1>6
    <3>1. j \in 1..m /\ m \in 1..m /\ j < m  BY <1>2
    <3>2. CASE i \in 1..n  BY <1>5, <1>6, <1>7, <3>1, <3>2
    <3>3. CASE i = n + 1
      <4>1. undo'[i].id = redo[m].id /\ redo'[j].id = redo[j].id  BY <1>5, <1>6, <3>3
      <4>2. redo[m].id < redo[j].id  BY <1>7, <3>1
      <4>. QED  BY <4>1, <4>2
    <3>. QED  BY <1>2, <3>2, <3>3, LastOrBefore
  <2>4. \A j \in DOMAIN redo' : redo'[j].id < nextId'  BY <1>2, <1>5, <1>7
  <2>5. \A i \in DOMAIN undo' : undo'[i].id < nextId'
    <3>1. m \in 1..m  BY <1>2
    <3>. QED  BY <1>2, <1>6, <1>7, <3>1
  <2>. QED  BY <2>1, <2>2, <2>3, <2>4, <2>5 DEF InOrder
<1>9. StackTypes'
  <2>1. nextId' \in Nat /\ levels' \in Seq(Nat) /\ \E G : group' \in Seq(G)
    BY DEF HInv, StackTypes
  <2>. QED  BY <1>5, <1>6, <2>1 DEF StackTypes, R
<1>10. BoundKept'
  <2>1. Len(undo') + Len(redo') = n + m  BY <1>2, <1>5, <1>6
  <2>. QED  BY <2>1 DEF HInv, BoundKept, n, m
<1>11. GroupOpen'  BY DEF HInv, GroupOpen, Open
<1>. QED  BY <1>8, <1>9, <1>10, <1>11 DEF HInv

(* Unwinding keeps a lower part of the undo stack. *)
LEMMA UnwindStep ==
    ASSUME HInv, NEW k \in 0..Len(undo), undo' = SubSeq(undo, 1, k),
           UNCHANGED <<redo, group, levels, nextId>>
    PROVE  HInv'
<1>1. PICK T : undo \in Seq(Step(T)) /\ redo \in Seq(Step(T))  BY DEF HInv, StackTypes
<1>2. Len(undo) \in Nat /\ k \in Nat /\ k <= Len(undo) /\ Len(redo) \in Nat  BY <1>1
<1>3. /\ undo' \in Seq(Step(T)) /\ Len(undo') = k
      /\ \A i \in 1..k : undo'[i] = undo[i]
  <2>1. \A i \in 1..k : undo[i] \in Step(T)  BY <1>1, <1>2
  <2>2. k - 1 + 1 = k /\ (~(1 <= k) => k = 0) /\ 1 \in Int /\ k \in Int
        /\ \A i \in 1..k : 1 + i - 1 = i
    BY <1>2
  <2>. QED  BY <2>1, <2>2, SubSeqProperties
<1>4. DOMAIN undo' = 1..k /\ DOMAIN undo = 1..Len(undo) /\ 1..k \subseteq 1..Len(undo)
  BY <1>1, <1>2, <1>3
<1>5. InOrder'  BY <1>3, <1>4 DEF HInv, InOrder
<1>6. StackTypes'  BY <1>1, <1>3 DEF HInv, StackTypes
<1>7. BoundKept'
  <2>. SUFFICES ASSUME Limit # None  PROVE k + Len(redo) <= Limit
    BY <1>3 DEF BoundKept
  <2>1. Len(undo) + Len(redo) <= Limit /\ Limit \in Nat
    BY LimitAssumption DEF HInv, BoundKept
  <2>. QED  BY <1>2, <2>1
<1>8. GroupOpen'  BY DEF HInv, GroupOpen, Open
<1>. QED  BY <1>5, <1>6, <1>7, <1>8 DEF HInv

(* Groups come and go without a step being moved. *)
LEMMA GroupStep ==
    ASSUME HInv, UNCHANGED <<undo, redo, nextId>>,
           \E G : group' \in Seq(G), levels' \in Seq(Nat),
           group' # <<>> => levels' # <<>> /\ redo = <<>>, Nested(group', levels')
    PROVE  HInv'
<1>1. StackTypes'  BY DEF HInv, StackTypes
<1>2. InOrder' /\ BoundKept'  BY DEF HInv, InOrder, BoundKept
<1>3. GroupOpen'  BY DEF GroupOpen, Open
<1>. QED  BY <1>1, <1>2, <1>3 DEF HInv

LEMMA ResetStep ==
    ASSUME HInv, Reset
    PROVE  HInv'
<1>1. /\ undo' = <<>> /\ redo' = <<>> /\ group' = <<>> /\ levels' = <<>>
      /\ nextId' = nextId
  BY DEF Reset
<1>2. <<>> \in Seq(Step({})) /\ <<>> \in Seq({}) /\ <<>> \in Seq(Nat) /\ DOMAIN <<>> = {}
      /\ Len(<<>>) = 0
  OBVIOUS
<1>3. StackTypes'  BY <1>1, <1>2 DEF HInv, StackTypes
<1>4. InOrder' /\ GroupOpen'  BY <1>1, <1>2, NothingNested DEF InOrder, GroupOpen, Open
<1>5. BoundKept'  BY <1>1, <1>2, LimitAssumption DEF BoundKept
<1>. QED  BY <1>3, <1>4, <1>5 DEF HInv

LEMMA RecordStep ==
    ASSUME HInv, NEW inverse, Record(inverse)
    PROVE  HInv'
<1>1. CASE inverse = <<>>
  <2>1. UNCHANGED stacks  BY <1>1 DEF Record, stacks
  <2>. QED  BY <2>1, SameStacks
<1>2. CASE inverse # <<>> /\ Open
  <2>1. PICK G : group \in Seq(G)  BY DEF HInv, StackTypes
  <2>2. redo' = <<>> /\ group' = Append(group, inverse) /\ UNCHANGED <<undo, nextId, levels>>
    BY <1>2 DEF Record
  <2>3. group' \in Seq(G \cup {inverse}) /\ Nested(group', levels)
    <3>1. group \in Seq(G \cup {inverse})  BY <2>1, WiderSeq
    <3>2. Nested(group', levels)
      BY <2>1, <2>2, RecordNests DEF HInv, StackTypes, GroupOpen
    <3>. QED  BY <2>2, <3>1, <3>2
  <2>4. StackTypes'
    <3>1. PICK T : undo \in Seq(Step(T))  BY DEF HInv, StackTypes
    <3>2. <<>> \in Seq(Step(T))  OBVIOUS
    <3>. QED  BY <2>2, <2>3, <3>1, <3>2 DEF HInv, StackTypes
  <2>5. InOrder'
    <3>1. DOMAIN <<>> = {}  OBVIOUS
    <3>. QED  BY <2>2, <3>1 DEF HInv, InOrder
  <2>6. BoundKept'
    <3>. SUFFICES ASSUME Limit # None  PROVE Len(undo) + 0 <= Limit
      BY <2>2 DEF BoundKept
    <3>1. Len(undo) + Len(redo) <= Limit /\ Limit \in Nat
      BY LimitAssumption DEF HInv, BoundKept
    <3>2. Len(undo) \in Nat /\ Len(redo) \in Nat  BY DEF HInv, StackTypes
    <3>. QED  BY <3>1, <3>2
  <2>7. GroupOpen'  BY <1>2, <2>2, <2>3 DEF HInv, GroupOpen, Open
  <2>. QED  BY <2>4, <2>5, <2>6, <2>7 DEF HInv
<1>3. CASE inverse # <<>> /\ ~Open
  <2>1. redo' = <<>> /\ Push(inverse) /\ UNCHANGED <<group, levels>>  BY <1>3 DEF Record
  <2>2. group = <<>> /\ levels = <<>>  BY <1>3 DEF HInv, GroupOpen, Open
  <2>. QED  BY <2>1, <2>2, NothingNested, PushStep DEF HInv, StackTypes
<1>. QED  BY <1>1, <1>2, <1>3

LEMMA BeginGroupStep ==
    ASSUME HInv, BeginGroup
    PROVE  HInv'
<1>1. UNCHANGED <<undo, redo, nextId, group>> /\ levels' = Append(levels, Len(group))
  BY DEF BeginGroup
<1>2. PICK G : group \in Seq(G)  BY DEF HInv, StackTypes
<1>3. levels \in Seq(Nat) /\ Len(group) \in Nat  BY <1>2 DEF HInv, StackTypes
<1>4. levels' \in Seq(Nat) /\ levels' # <<>>  BY <1>1, <1>3
<1>5. Nested(group', levels')  BY <1>1, <1>2, <1>3, BeginNests DEF HInv, GroupOpen, Open
<1>6. group # <<>> => redo = <<>>  BY DEF HInv, GroupOpen
<1>. QED  BY <1>1, <1>2, <1>4, <1>5, <1>6, GroupStep

LEMMA EndGroupStep ==
    ASSUME HInv, EndGroup
    PROVE  HInv'
<1>1. CASE ~Open  BY <1>1, SameHistory DEF EndGroup, Refused
<1>2. CASE Open
  <2>1. levels' = Front(levels)  BY <1>2 DEF EndGroup
  <2>2. PICK G : group \in Seq(G)  BY DEF HInv, StackTypes
  <2>3. /\ levels' \in Seq(Nat) /\ (Len(levels) > 1 <=> levels' # <<>>)
        /\ Nested(group, levels')
    BY <1>2, <2>1, <2>2, CloseNests DEF HInv, StackTypes, GroupOpen, Open
  <2>4. CASE Len(levels) > 1
    <3>1. UNCHANGED <<undo, redo, nextId, group>>  BY <1>2, <2>4 DEF EndGroup
    <3>2. group # <<>> => redo = <<>>  BY DEF HInv, GroupOpen
    <3>. QED  BY <2>2, <2>3, <2>4, <3>1, <3>2, GroupStep
  <2>5. CASE ~(Len(levels) > 1)
    <3>1. /\ group' = <<>> /\ redo' = redo /\ levels' = <<>>
          /\ IF group = <<>> THEN UNCHANGED <<undo, nextId>> ELSE Push(Combine(group))
      BY <1>2, <2>3, <2>5 DEF EndGroup
    <3>2. <<>> \in Seq({}) /\ <<>> \in Seq(Nat)  OBVIOUS
    <3>3. CASE group = <<>>  BY <3>1, <3>2, <3>3, NothingNested, GroupStep
    <3>4. CASE group # <<>>
      <4>1. redo' = <<>>  BY <3>1, <3>4 DEF HInv, GroupOpen
      <4>2. Push(Combine(group))  BY <3>1, <3>4
      <4>. QED  BY <3>1, <3>2, <4>1, <4>2, NothingNested, PushStep
    <3>. QED  BY <3>3, <3>4
  <2>. QED  BY <2>4, <2>5
<1>. QED  BY <1>1, <1>2

LEMMA AbandonGroupStep ==
    ASSUME HInv, AbandonGroup
    PROVE  HInv'
<1>1. CASE ~Open  BY <1>1, SameHistory DEF AbandonGroup, Refused
<1>2. CASE Open
  <2>1. UNCHANGED <<undo, redo, nextId>>  BY <1>2 DEF AbandonGroup
  <2>2. \/ UNCHANGED <<group, levels>>
        \/ group' = SubSeq(group, 1, Last(levels)) /\ levels' = Front(levels)
    BY <1>2 DEF AbandonGroup
  <2>3. CASE UNCHANGED <<group, levels>>
    BY <2>1, <2>3, SameStacks DEF stacks
  <2>4. CASE group' = SubSeq(group, 1, Last(levels)) /\ levels' = Front(levels)
    <3>1. PICK G : group \in Seq(G)  BY DEF HInv, StackTypes
    <3>. DEFINE start == Last(levels)
    <3>2. /\ start \in 0..Len(group)
          /\ levels' \in Seq(Nat)
          /\ levels' = <<>> => start = 0
          /\ \A kept : Len(kept) = start => Nested(kept, levels')
      BY <1>2, <2>4, <3>1, CloseNests DEF HInv, StackTypes, GroupOpen, Open
    <3>. HIDE DEF start
    <3>3. group' \in Seq(G) /\ Len(group') = start
      <4>1. start \in Nat /\ start <= Len(group) /\ Len(group) \in Nat  BY <3>1, <3>2
      <4>2. \A i \in 1..start : group[i] \in G  BY <3>1, <4>1
      <4>3. start - 1 + 1 = start /\ (~(1 <= start) => start = 0)
            /\ 1 \in Int /\ start \in Int
        BY <4>1
      <4>. QED  BY <2>4, <4>2, <4>3, SubSeqProperties DEF start
    <3>4. Nested(group', levels')  BY <3>2, <3>3
    <3>5. group' # <<>> => levels' # <<>> /\ redo = <<>>
      <4>. SUFFICES ASSUME group' # <<>>  PROVE levels' # <<>> /\ redo = <<>>
        OBVIOUS
      <4>1. start # 0  BY <3>3
      <4>2. group # <<>>  BY <3>1, <3>2, <4>1
      <4>. QED  BY <3>2, <4>1, <4>2 DEF HInv, GroupOpen
    <3>. QED  BY <2>1, <3>2, <3>3, <3>4, <3>5, GroupStep
  <2>. QED  BY <2>2, <2>3, <2>4
<1>. QED  BY <1>1, <1>2

-----------------------------------------------------------------------------
LEMMA EditStep ==
    ASSUME HInv, NEW txn \in Transactions, Edit(txn)
    PROVE  HInv'
<1>1. CASE Apply(layer, txn).refused = "no"
  <2>1. Record(Apply(layer, txn).inverse)  BY <1>1 DEF Edit
  <2>. QED  BY <2>1, RecordStep
<1>2. CASE Apply(layer, txn).refused # "no"
  <2>1. UNCHANGED history  BY <1>2 DEF Edit
  <2>. QED  BY <2>1, SameHistory
<1>. QED  BY <1>1, <1>2

LEMMA UndoKeepsHInv == HInv /\ Undo => HInv'
<1>. SUFFICES ASSUME HInv, Undo  PROVE HInv'
  OBVIOUS
<1>1. CASE Open \/ undo = <<>>
  <2>1. UNCHANGED history  BY <1>1 DEF Undo, Refused
  <2>. QED  BY <2>1, SameHistory
<1>2. CASE ~(Open \/ undo = <<>>)
  <2>. DEFINE applied == Apply(layer, Last(undo).txn)
  <2>1. UNCHANGED <<group, levels, nextId>>  BY <1>2 DEF Undo
  <2>2. CASE applied.refused # "no"
    <3>1. UNCHANGED stacks  BY <1>2, <2>1, <2>2 DEF Undo, stacks
    <3>. QED  BY <3>1, SameStacks
  <2>3. CASE applied.refused = "no"
    <3>1. undo' = Front(undo) /\ redo' = Append(redo, Turned(Last(undo), applied.inverse))
      BY <1>2, <2>3 DEF Undo
    <3>. QED  BY <1>2, <2>1, <3>1, UndoStep
  <2>. QED  BY <2>2, <2>3
<1>. QED  BY <1>1, <1>2

LEMMA RedoKeepsHInv == HInv /\ Redo => HInv'
<1>. SUFFICES ASSUME HInv, Redo  PROVE HInv'
  OBVIOUS
<1>1. CASE Open \/ redo = <<>>
  <2>1. UNCHANGED history  BY <1>1 DEF Redo, Refused
  <2>. QED  BY <2>1, SameHistory
<1>2. CASE ~(Open \/ redo = <<>>)
  <2>. DEFINE applied == Apply(layer, Last(redo).txn)
  <2>1. UNCHANGED <<group, levels, nextId>>  BY <1>2 DEF Redo
  <2>2. CASE applied.refused # "no"
    <3>1. UNCHANGED stacks  BY <1>2, <2>1, <2>2 DEF Redo, stacks
    <3>. QED  BY <3>1, SameStacks
  <2>3. CASE applied.refused = "no"
    <3>1. redo' = Front(redo) /\ undo' = Append(undo, Turned(Last(redo), applied.inverse))
      BY <1>2, <2>3 DEF Redo
    <3>. QED  BY <1>2, <2>1, <3>1, RedoStep
  <2>. QED  BY <2>2, <2>3
<1>. QED  BY <1>1, <1>2

(* A mark that is not gone names a place on the undo stack: one step only   *)
(* has the id of its top.                                                   *)
LEMMA KeptIsThere ==
    ASSUME HInv, NEW mark, ~Gone(mark)
    PROVE  Kept(mark) \in 0..Len(undo)
<1>1. PICK T : undo \in Seq(Step(T))  BY DEF HInv, StackTypes
<1>2. Len(undo) \in Nat /\ DOMAIN undo = 1..Len(undo)  BY <1>1
<1>3. CASE mark.top = None  BY <1>2, <1>3 DEF Kept
<1>4. CASE mark.top # None
  <2>. DEFINE Tops == {i \in DOMAIN undo : undo[i].id = mark.top}
  <2>1. PICK i \in DOMAIN undo : undo[i].id = mark.top  BY <1>4 DEF Gone
  <2>2. \A j \in Tops : j = i
    <3>. TAKE j \in Tops
    <3>1. j \in DOMAIN undo /\ undo[j].id = undo[i].id  BY <2>1
    <3>2. ~(i < j) /\ ~(j < i)
      <4>1. undo[i].id \in Nat
        <5>1. undo[i] \in Step(T)  BY <1>1
        <5>. QED  BY <5>1 DEF Step
      <4>. QED  BY <3>1, <4>1 DEF HInv, InOrder
    <3>. QED  BY <1>2, <3>1, <3>2
  <2>3. Tops = {i}  BY <2>1, <2>2
  <2>4. Max(Tops) = i
    <3>. HIDE DEF Tops
    <3>1. i <= i  BY <1>2
    <3>. QED  BY <2>3, <3>1 DEF Max
  <2>. QED  BY <1>2, <1>4, <2>4 DEF Kept
<1>. QED  BY <1>3, <1>4

LEMMA UnwindKeepsHInv ==
    ASSUME HInv, NEW mark, UnwindTo(mark)
    PROVE  HInv'
<1>1. CASE Open \/ Gone(mark)
  <2>1. UNCHANGED history  BY <1>1 DEF UnwindTo, Refused
  <2>. QED  BY <2>1, SameHistory
<1>2. CASE ~(Open \/ Gone(mark))
  <2>1. UNCHANGED <<redo, group, levels, nextId>>  BY <1>2 DEF UnwindTo
  <2>2. undo' = undo \/ undo' = SubSeq(undo, 1, Kept(mark))  BY <1>2 DEF UnwindTo
  <2>3. CASE undo' = undo  BY <2>1, <2>3, SameStacks DEF stacks
  <2>4. CASE undo' = SubSeq(undo, 1, Kept(mark))
    BY <1>2, <2>1, <2>4, KeptIsThere, UnwindStep
  <2>. QED  BY <2>2, <2>3, <2>4
<1>. QED  BY <1>1, <1>2

LEMMA NextHInv == HInv /\ [Next]_vars => HInv'
<1>. SUFFICES ASSUME HInv, [Next]_vars  PROVE HInv'
  OBVIOUS
<1>1. ASSUME NEW txn \in Transactions, Edit(txn)  PROVE HInv'  BY <1>1, EditStep
<1>2. ASSUME NEW txn \in Outside, OutsideEdit(txn)  PROVE HInv'
  BY <1>2, SameHistory DEF OutsideEdit
<1>3. CASE BeginGroup  BY <1>3, BeginGroupStep
<1>4. CASE EndGroup  BY <1>4, EndGroupStep
<1>5. CASE AbandonGroup  BY <1>5, AbandonGroupStep
<1>6. CASE Undo  BY <1>6, UndoKeepsHInv
<1>7. CASE Redo  BY <1>7, RedoKeepsHInv
<1>8. CASE Reset  BY <1>8, ResetStep
<1>9. CASE TakeMark  BY <1>9, SameHistory DEF TakeMark
<1>10. CASE Unwind  BY <1>10, UnwindKeepsHInv DEF Unwind
<1>11. CASE UNCHANGED vars  BY <1>11, SameHistory DEF vars
<1>. QED  BY <1>1, <1>2, <1>3, <1>4, <1>5, <1>6, <1>7, <1>8, <1>9, <1>10, <1>11 DEF Next

LEMMA HInvHolds == Spec => []HInv
<1>. QED  BY InitHInv, NextHInv, PTL DEF Spec

(* A sequence of ids read from its end. *)
LEMMA ReverseElements ==
    ASSUME NEW r \in Seq(Nat)
    PROVE  /\ Reverse(r) \in Seq(Nat) /\ Len(Reverse(r)) = Len(r)
           /\ \A i \in 1..Len(r) : Reverse(r)[i] = r[Len(r) - i + 1]
<1>. DEFINE k == Len(r)
<1>1. k \in Nat /\ \A i \in 1..k : r[i] \in Nat  OBVIOUS
<1>2. Reverse(r) = [i \in 1..k |-> r[k - i + 1]]  BY DEF Reverse
<1>. HIDE DEF k
<1>3. \A i \in 1..k : k - i + 1 \in 1..k  BY <1>1
<1>4. \A i \in 1..k : r[k - i + 1] \in Nat  BY <1>1, <1>3
<1>5. Reverse(r) \in Seq(Nat) /\ Len(Reverse(r)) = k  BY <1>1, <1>2, <1>4
<1>6. \A i \in 1..k : Reverse(r)[i] = r[k - i + 1]  BY <1>2
<1>. QED  BY <1>5, <1>6 DEF k

(* What the order of each stack says of the two read as one.                *)
LEMMA OrderIsUnique == HInv => StepsAreUnique
<1>. SUFFICES ASSUME HInv  PROVE StepsAreUnique
  OBVIOUS
<1>1. PICK T : undo \in Seq(Step(T)) /\ redo \in Seq(Step(T))  BY DEF HInv, StackTypes
<1>. DEFINE n == Len(undo)
            m == Len(redo)
            up == Ids(undo)
            down == Reverse(Ids(redo))
            ids == up \o down
<1>2. n \in Nat /\ m \in Nat /\ DOMAIN undo = 1..n /\ DOMAIN redo = 1..m  BY <1>1
<1>3. up \in Seq(Nat) /\ Len(up) = n /\ \A i \in 1..n : up[i] = undo[i].id
  <2>1. \A i \in 1..n : undo[i].id \in Nat
    <3>1. \A i \in 1..n : undo[i] \in Step(T)  BY <1>1
    <3>. QED  BY <3>1 DEF Step
  <2>2. up = [i \in 1..n |-> undo[i].id]  BY <1>2 DEF Ids
  <2>. HIDE DEF up, n
  <2>. QED  BY <1>2, <2>1, <2>2
<1>4. down \in Seq(Nat) /\ Len(down) = m /\ \A i \in 1..m : down[i] = redo[m - i + 1].id
  <2>1. \A i \in 1..m : redo[i].id \in Nat
    <3>1. \A i \in 1..m : redo[i] \in Step(T)  BY <1>1
    <3>. QED  BY <3>1 DEF Step
  <2>2. Ids(redo) = [i \in 1..m |-> redo[i].id]  BY <1>2 DEF Ids
  <2>. DEFINE r == Ids(redo)
  <2>3. r \in Seq(Nat) /\ Len(r) = m /\ \A i \in 1..m : r[i] = redo[i].id
    <3>. HIDE DEF r, m
    <3>. QED  BY <1>2, <2>1, <2>2 DEF r
  <2>. HIDE DEF r, m
  <2>4. down = Reverse(r)  BY DEF r
  <2>. HIDE DEF down
  <2>5. /\ down \in Seq(Nat) /\ Len(down) = m
        /\ \A i \in 1..m : down[i] = r[m - i + 1]
    BY <2>3, <2>4, ReverseElements
  <2>6. \A i \in 1..m : m - i + 1 \in 1..m  BY <1>2
  <2>. QED  BY <2>3, <2>5, <2>6
<1>5. /\ \A i, j \in 1..n : i < j => undo[i].id < undo[j].id
      /\ \A i, j \in 1..m : i < j => redo[j].id < redo[i].id
      /\ \A i \in 1..n, j \in 1..m : undo[i].id < redo[j].id
  BY <1>1 DEF HInv, InOrder
<1>. HIDE DEF n, m, up, down
<1>6. /\ DOMAIN ids = 1..(n + m)
      /\ \A i \in 1..n : ids[i] = undo[i].id
      /\ \A i \in (n + 1)..(n + m) : ids[i] = redo[m - (i - n) + 1].id
  <2>1. ids \in Seq(Nat) /\ Len(ids) = n + m  BY <1>2, <1>3, <1>4
  <2>2. \A i \in 1..n : ids[i] = up[i]  BY <1>2, <1>3, <1>4, SMTT(40)
  <2>3. \A i \in (n + 1)..(n + m) : ids[i] = down[i - n] /\ i - n \in 1..m
    BY <1>2, <1>3, <1>4, SMTT(40)
  <2>4. \A i \in 1..n : ids[i] = undo[i].id  BY <1>3, <2>2
  <2>5. \A i \in (n + 1)..(n + m) : ids[i] = redo[m - (i - n) + 1].id  BY <1>4, <2>3
  <2>6. DOMAIN ids = 1..(n + m)  BY <2>1
  <2>. QED  BY <2>4, <2>5, <2>6
<1>. HIDE DEF ids
<1>7. ASSUME NEW i \in 1..(n + m), NEW j \in 1..(n + m), i < j  PROVE ids[i] < ids[j]
  <2>1. CASE i \in 1..n /\ j \in 1..n  BY <1>5, <1>6, <1>7, <2>1
  <2>2. CASE i \in 1..n /\ j \in (n + 1)..(n + m)
    <3>1. m - (j - n) + 1 \in 1..m  BY <1>2, <2>2
    <3>2. ids[i] = undo[i].id /\ ids[j] = redo[m - (j - n) + 1].id  BY <1>6, <2>2
    <3>. QED  BY <1>5, <2>2, <3>1, <3>2
  <2>3. CASE i \in (n + 1)..(n + m) /\ j \in (n + 1)..(n + m)
    <3>1. m - (i - n) + 1 \in 1..m /\ m - (j - n) + 1 \in 1..m
          /\ m - (j - n) + 1 < m - (i - n) + 1
      BY <1>2, <1>7, <2>3
    <3>2. ids[i] = redo[m - (i - n) + 1].id /\ ids[j] = redo[m - (j - n) + 1].id
      BY <1>6, <2>3
    <3>. QED  BY <1>5, <3>1, <3>2
  <2>. QED  BY <1>2, <1>7, <2>1, <2>2, <2>3
<1>. QED  BY <1>6, <1>7 DEF StepsAreUnique, ids, up, down

(* The two stacks together keep within the limit, whatever is recorded,     *)
(* grouped, undone, redone, unwound or refused.                             *)
THEOREM LimitKept == Spec => []BoundKept
<1>1. HInv => BoundKept  BY DEF HInv
<1>. QED  BY <1>1, HInvHolds, PTL

(* Each recorded step is on one stack, in one place, and the stacks keep    *)
(* the order of recording: a mark's top names at most one step.             *)
THEOREM StepsKeepTheirOrder == Spec => []StepsAreUnique
<1>. QED  BY OrderIsUnique, HInvHolds, PTL

-----------------------------------------------------------------------------
(* What the stacks hold, and how many of it.                                *)

Reasons == {"no", "stale", "rejected", "empty", "group_open", "no_group", "mark_gone"}

HoldsInverses ==
    /\ undo \in Seq(Step(Inverses)) /\ redo \in Seq(Step(Inverses))
    /\ group \in Seq(Inverses)
    /\ levels \in Seq(Nat)

(* A group that recorded something is owed an id.                           *)
Counted ==
    /\ nextId \in Nat /\ dropped \in Nat /\ recorded \in Nat
    /\ dropped <= nextId /\ nextId <= recorded
    /\ group # <<>> => nextId < recorded

(* What the layer is as well: its specs form a tree.                        *)
Trees == {l \in Layers : Tree(l)}

TInv == layer \in Trees /\ HoldsInverses /\ Counted /\ refused \in Reasons

RefusalKept == refused' # "no" => SameButOrder(layer, layer') /\ UNCHANGED history

LEMMA InitTInv == Init => TInv
<1>. SUFFICES ASSUME Init  PROVE TInv
  OBVIOUS
<1>1. layer \in Trees
  <2>1. DOMAIN EmptyLayer = {}  BY DEF EmptyLayer
  <2>2. {} \in FiniteWays  BY FS_EmptySet DEF FiniteWays
  <2>3. EmptyLayer \in [{} -> Specs]  BY <2>1 DEF EmptyLayer
  <2>4. EmptyLayer \in Layers  BY <2>2, <2>3, IsALayer
  <2>. QED  BY <2>4, EmptyIsATree DEF Init, Trees
<1>2. HoldsInverses
  <2>1. undo = <<>> /\ redo = <<>> /\ group = <<>> /\ levels = <<>>  BY DEF Init
  <2>. QED  BY <2>1 DEF HoldsInverses
<1>3. Counted  BY DEF Init, Counted
<1>4. refused \in Reasons  BY DEF Init, Reasons
<1>. QED  BY <1>1, <1>2, <1>3, <1>4 DEF TInv

(* The transactions of hosts and histories.                                 *)
Txns == Seq(Edits) \cup GrownEdits

LEMMA TxnIs ==
    ASSUME NEW l \in Trees, NEW txn \in Txns
    PROVE  /\ Apply(l, txn).refused \in Refusals /\ Apply(l, txn).layer \in Trees
           /\ Apply(l, txn).refused # "no" => SameButOrder(l, Apply(l, txn).layer)
           /\ Apply(l, txn).refused = "no" => Apply(l, txn).inverse \in GrownEdits
<1>1. l \in Layers /\ Tree(l)  BY DEF Trees
<1>2. txn \in Seq(Edits) \/ txn \in GrownEdits  BY DEF Txns
<1>3. txn \in Seq(AllEdits)
  <2>1. Edits \subseteq AllEdits /\ RawEdits \subseteq AllEdits  BY DEF AllEdits
  <2>. QED  BY <1>2, <2>1, WiderSeq DEF GrownEdits
<1>4. Apply(l, txn).refused \in Refusals  BY <1>1, <1>3, ApplyIs
<1>5. Apply(l, txn).layer \in Layers  BY <1>1, <1>3, ApplyIs
<1>6. Apply(l, txn).refused # "no" => SameButOrder(l, Apply(l, txn).layer)
  BY <1>1, <1>3, ApplyIs
<1>7. /\ Tree(Apply(l, txn).layer)
      /\ Apply(l, txn).refused = "no" => Apply(l, txn).inverse \in GrownEdits
  BY <1>1, <1>2, ApplyGrows
<1>. QED  BY <1>4, <1>5, <1>6, <1>7 DEF Trees

LEMMA AppliedIs ==
    ASSUME layer \in Trees, NEW txn \in Txns, Writes(Apply(layer, txn))
    PROVE  /\ layer' \in Trees /\ refused' \in Reasons
           /\ refused' # "no" => SameButOrder(layer, layer')
<1>1. layer' = Apply(layer, txn).layer /\ refused' = Apply(layer, txn).refused
  BY DEF Writes
<1>2. /\ Apply(layer, txn).refused \in Refusals /\ Apply(layer, txn).layer \in Trees
      /\ Apply(layer, txn).refused # "no" => SameButOrder(layer, Apply(layer, txn).layer)
  BY TxnIs
<1>. QED  BY <1>1, <1>2 DEF Refusals, Reasons

LEMMA RefusedIs ==
    ASSUME layer \in Trees, NEW why \in Reasons, Refused(why)
    PROVE  /\ layer' \in Trees /\ refused' \in Reasons
           /\ SameButOrder(layer, layer') /\ UNCHANGED history
BY SameIsReflexive DEF Refused

LEMMA PartIs ==
    ASSUME NEW S, NEW seq \in Seq(S), NEW a \in Nat \ {0}, NEW b \in 0..Len(seq)
    PROVE  SubSeq(seq, a, b) \in Seq(S)
<1>1. a \in Int /\ b \in Int /\ \A i \in a..b : seq[i] \in S  OBVIOUS
<1>. QED  BY <1>1, SubSeqProperties

(* Several inverses as one, newest first.                                   *)
LEMMA CombineIs ==
    ASSUME NEW inverses \in Seq(Inverses)
    PROVE  /\ Combine(inverses) \in GrownEdits
           /\ inverses # <<>> => Combine(inverses) \in Inverses
<1>1. /\ Reverse(inverses) \in Seq(Inverses) /\ Len(Reverse(inverses)) = Len(inverses)
  BY ReverseIs
<1>2. inverses # <<>> => Reverse(inverses) # <<>>
  <2>1. Len(<<>>) = 0 /\ (inverses # <<>> => Len(inverses) > 0)  OBVIOUS
  <2>. QED  BY <1>1, <2>1
<1>3. /\ Reverse(inverses) = <<>> => FlattenSeq(Reverse(inverses)) = <<>>
      /\ Reverse(inverses) # <<>> => FlattenSeq(Reverse(inverses)) \in Inverses
  BY <1>1, FlatInverses
<1>4. <<>> \in GrownEdits  BY GrownEditsJoin
<1>. QED  BY <1>2, <1>3, <1>4 DEF Combine, Inverses

LEMMA InverseIsEdits ==
    /\ \A txn \in GrownEdits : txn \in Txns
    /\ \A txn \in Inverses : /\ txn \in GrownEdits /\ txn # <<>> /\ txn \in Txns
                            /\ txn \in Seq(RawEdits) /\ txn \in Seq(AllEdits)
<1>1. RawEdits \subseteq AllEdits  BY DEF AllEdits
<1>2. \A txn \in Seq(RawEdits) : txn \in Seq(AllEdits)  BY <1>1, WiderSeq
<1>. QED  BY <1>2, GrownEditsJoin DEF Inverses, Txns

LEMMA HostEdits == \A txn \in Transactions \cup Outside : txn \in Txns
BY TransactionsAssumption DEF Txns

LEMMA PushTypes ==
    ASSUME undo \in Seq(Step(Inverses)), nextId \in Nat, dropped \in Nat,
           dropped <= nextId, NEW inverse \in Inverses, Push(inverse)
    PROVE  /\ undo' \in Seq(Step(Inverses))
           /\ nextId' = nextId + 1 /\ dropped' \in Nat /\ dropped' <= nextId'
<1>. DEFINE step == [id |-> nextId, txn |-> inverse]
            pushed == Append(undo, step)
<1>1. step \in Step(Inverses)  BY DEF Step
<1>2. pushed \in Seq(Step(Inverses)) /\ pushed # <<>>
  <2>. DEFINE S == Step(Inverses)
  <2>1. undo \in Seq(S) /\ step \in S  BY <1>1
  <2>. HIDE DEF step, S
  <2>2. Append(undo, step) \in Seq(S) /\ Len(Append(undo, step)) > 0  BY <2>1
  <2>3. Append(undo, step) # <<>>  BY <2>2
  <2>. QED  BY <2>2, <2>3 DEF S
<1>3. /\ nextId' = nextId + 1
      /\ undo' = Tail(pushed) \/ undo' = pushed
      /\ dropped' = dropped \/ dropped' = dropped + 1
  BY DEF Push
<1>. HIDE DEF pushed
<1>4. Tail(pushed) \in Seq(Step(Inverses))  BY <1>2
<1>. QED  BY <1>2, <1>3, <1>4

(* The actions.                                                             *)

LEMMA RecordTypes ==
    ASSUME HoldsInverses, Counted, GroupOpen, recorded' = recorded + 1,
           NEW inverse \in GrownEdits, Record(inverse)
    PROVE  HoldsInverses' /\ Counted'
<1>1. CASE inverse = <<>>
  <2>1. UNCHANGED <<undo, redo, group, levels, nextId, dropped>>
    BY <1>1 DEF Record
  <2>. QED  BY <2>1 DEF HoldsInverses, Counted
<1>2. CASE inverse # <<>> /\ Open
  <2>1. /\ redo' = <<>> /\ group' = Append(group, inverse)
        /\ UNCHANGED <<undo, levels, nextId, dropped>>
    BY <1>2 DEF Record
  <2>2. inverse \in Inverses  BY <1>2 DEF Inverses
  <2>3. group' \in Seq(Inverses)  BY <2>1, <2>2 DEF HoldsInverses
  <2>. QED  BY <2>1, <2>3 DEF HoldsInverses, Counted
<1>3. CASE inverse # <<>> /\ ~Open
  <2>1. redo' = <<>> /\ Push(inverse) /\ UNCHANGED <<group, levels>>
    BY <1>3 DEF Record
  <2>2. inverse \in Inverses /\ group = <<>>  BY <1>3 DEF Inverses, GroupOpen
  <2>3. /\ undo' \in Seq(Step(Inverses))
        /\ nextId' = nextId + 1 /\ dropped' \in Nat /\ dropped' <= nextId'
    BY <2>1, <2>2, PushTypes DEF HoldsInverses, Counted
  <2>. QED  BY <2>1, <2>2, <2>3 DEF HoldsInverses, Counted
<1>. QED  BY <1>1, <1>2, <1>3

LEMMA EditTypes ==
    ASSUME TInv, HInv, NEW txn \in Transactions, Edit(txn)
    PROVE  TInv' /\ RefusalKept
<1>. DEFINE applied == Apply(layer, txn)
<1>1. layer \in Trees /\ txn \in Txns  BY HostEdits DEF TInv
<1>2. Writes(applied) /\ recorded' = recorded + 1 /\ refused' = applied.refused
  BY DEF Edit, Writes
<1>3. /\ layer' \in Trees /\ refused' \in Reasons
      /\ refused' # "no" => SameButOrder(layer, layer')
  BY <1>1, <1>2, AppliedIs
<1>4. CASE applied.refused = "no"
  <2>1. Record(applied.inverse)  BY <1>4 DEF Edit
  <2>2. applied.inverse \in GrownEdits  BY <1>1, <1>4, TxnIs
  <2>3. HoldsInverses' /\ Counted'
    BY <1>2, <2>1, <2>2, RecordTypes DEF TInv, HInv
  <2>. QED  BY <1>2, <1>3, <1>4, <2>3 DEF TInv, RefusalKept
<1>5. CASE applied.refused # "no"
  <2>1. UNCHANGED history  BY <1>5 DEF Edit
  <2>2. HoldsInverses' /\ Counted'
    BY <1>2, <2>1 DEF TInv, HoldsInverses, Counted, history
  <2>. QED  BY <1>3, <2>1, <2>2 DEF TInv, RefusalKept
<1>. QED  BY <1>4, <1>5

LEMMA OutsideEditTypes ==
    ASSUME TInv, NEW txn \in Outside, OutsideEdit(txn)
    PROVE  TInv' /\ RefusalKept
<1>1. layer \in Trees /\ txn \in Txns  BY HostEdits DEF TInv
<1>2. layer' = Apply(layer, txn).layer /\ refused' = "no" /\ UNCHANGED <<history, recorded>>
  BY DEF OutsideEdit
<1>3. layer' \in Trees  BY <1>1, <1>2, TxnIs
<1>4. HoldsInverses' /\ Counted'
  BY <1>2 DEF TInv, HoldsInverses, Counted, history
<1>. QED  BY <1>2, <1>3, <1>4 DEF TInv, RefusalKept, Reasons

LEMMA BeginGroupTypes ==
    ASSUME TInv, BeginGroup
    PROVE  TInv' /\ RefusalKept
<1>1. /\ levels' = Append(levels, Len(group)) /\ refused' = "no"
      /\ UNCHANGED <<layer, undo, redo, group, nextId, dropped, recorded>>
  BY DEF BeginGroup
<1>2. levels' \in Seq(Nat)  BY <1>1 DEF TInv, HoldsInverses
<1>. QED  BY <1>1, <1>2 DEF TInv, HoldsInverses, Counted, RefusalKept, Reasons

LEMMA EndGroupTypes ==
    ASSUME TInv, HInv, EndGroup
    PROVE  TInv' /\ RefusalKept
<1>1. CASE ~Open
  <2>1. Refused("no_group") /\ UNCHANGED recorded  BY <1>1 DEF EndGroup
  <2>2. /\ layer' \in Trees /\ refused' \in Reasons
        /\ SameButOrder(layer, layer') /\ UNCHANGED history
    BY <2>1, RefusedIs DEF TInv, Reasons
  <2>. QED  BY <2>1, <2>2 DEF TInv, HoldsInverses, Counted, RefusalKept, history
<1>2. CASE Open
  <2>1. refused' = "no" /\ levels' = Front(levels) /\ UNCHANGED <<layer, recorded>>
    BY <1>2 DEF EndGroup
  <2>2. levels' \in Seq(Nat)
    <3>1. Len(levels) >= 1 /\ levels \in Seq(Nat)  BY <1>2 DEF Open, TInv, HoldsInverses
    <3>. QED  BY <2>1, <3>1, FrontElements
  <2>3. CASE Len(levels) > 1
    <3>1. UNCHANGED <<undo, redo, group, nextId, dropped>>  BY <1>2, <2>3 DEF EndGroup
    <3>. QED  BY <2>1, <2>2, <3>1 DEF TInv, HoldsInverses, Counted, RefusalKept, Reasons
  <2>4. CASE ~(Len(levels) > 1)
    <3>1. group' = <<>> /\ UNCHANGED redo  BY <1>2, <2>4 DEF EndGroup
    <3>2. /\ undo' \in Seq(Step(Inverses))
          /\ nextId' \in Nat /\ nextId' <= recorded
          /\ dropped' \in Nat /\ dropped' <= nextId'
      <4>1. CASE group = <<>>
        <5>1. UNCHANGED <<undo, nextId, dropped>>  BY <1>2, <2>4, <4>1 DEF EndGroup
        <5>. QED  BY <5>1 DEF TInv, HoldsInverses, Counted
      <4>2. CASE group # <<>>
        <5>1. Push(Combine(group))  BY <1>2, <2>4, <4>2 DEF EndGroup
        <5>2. Combine(group) \in Inverses  BY <4>2, CombineIs DEF TInv, HoldsInverses
        <5>3. /\ undo' \in Seq(Step(Inverses))
              /\ nextId' = nextId + 1 /\ dropped' \in Nat /\ dropped' <= nextId'
          BY <5>1, <5>2, PushTypes DEF TInv, HoldsInverses, Counted
        <5>. QED  BY <4>2, <5>3 DEF TInv, Counted
      <4>. QED  BY <4>1, <4>2
    <3>3. HoldsInverses'  BY <2>2, <3>1, <3>2 DEF TInv, HoldsInverses
    <3>4. Counted'  BY <2>1, <3>1, <3>2 DEF TInv, Counted
    <3>. QED  BY <2>1, <3>3, <3>4 DEF TInv, RefusalKept, Reasons
  <2>. QED  BY <2>3, <2>4
<1>. QED  BY <1>1, <1>2

LEMMA AbandonGroupTypes ==
    ASSUME TInv, HInv, AbandonGroup
    PROVE  TInv' /\ RefusalKept
<1>1. CASE ~Open
  <2>1. Refused("no_group") /\ UNCHANGED recorded  BY <1>1 DEF AbandonGroup
  <2>2. /\ layer' \in Trees /\ refused' \in Reasons
        /\ SameButOrder(layer, layer') /\ UNCHANGED history
    BY <2>1, RefusedIs DEF TInv, Reasons
  <2>. QED  BY <2>1, <2>2 DEF TInv, HoldsInverses, Counted, RefusalKept, history
<1>2. CASE Open
  <2>. DEFINE start == Last(levels)
              inner == SubSeq(group, start + 1, Len(group))
              applied == Apply(layer, Combine(inner))
  <2>1. /\ Writes(applied) /\ refused' = applied.refused
        /\ UNCHANGED <<undo, redo, nextId, dropped, epoch, recorded>>
    BY <1>2 DEF AbandonGroup, Writes
  <2>2. /\ applied.refused # "no" => UNCHANGED <<group, levels>>
        /\ applied.refused = "no" =>
             group' = SubSeq(group, 1, start) /\ levels' = Front(levels)
    BY <1>2 DEF AbandonGroup
  <2>3. group \in Seq(Inverses) /\ levels \in Seq(Nat) /\ Len(group) \in Nat
    BY DEF TInv, HoldsInverses
  <2>4. start \in 0..Len(group) /\ Front(levels) \in Seq(Nat)
    BY <1>2, <2>3, CloseNests DEF HInv, GroupOpen, Open
  <2>. HIDE DEF start
  <2>5. inner \in Seq(Inverses)  BY <2>3, <2>4, PartIs
  <2>6. Combine(inner) \in Txns
    <3>. HIDE DEF inner
    <3>. QED  BY <2>5, CombineIs, InverseIsEdits
  <2>7. /\ layer' \in Trees /\ refused' \in Reasons
        /\ refused' # "no" => SameButOrder(layer, layer')
    <3>. HIDE DEF inner
    <3>. QED  BY <2>1, <2>6, AppliedIs DEF TInv
  <2>. HIDE DEF applied
  <2>8. HoldsInverses' /\ Counted'
    <3>1. SubSeq(group, 1, start) \in Seq(Inverses)  BY <2>3, <2>4, PartIs
    <3>2. group' \in Seq(Inverses) /\ levels' \in Seq(Nat)  BY <2>2, <2>3, <2>4, <3>1
    <3>3. group' # <<>> => group # <<>>
      <4>1. group = <<>> => start = 0 /\ SubSeq(group, 1, 0) = <<>>
        BY <2>3, <2>4
      <4>. QED  BY <2>2, <4>1
    <3>. QED  BY <2>1, <3>2, <3>3 DEF TInv, HoldsInverses, Counted
  <2>9. refused' # "no" => UNCHANGED history  BY <2>1, <2>2 DEF history
  <2>. QED  BY <2>7, <2>8, <2>9 DEF TInv, RefusalKept
<1>. QED  BY <1>1, <1>2

(* A step that goes to the other stack keeps its id, and takes the inverse  *)
(* of what was applied.                                                     *)
LEMMA TurnedIs ==
    ASSUME NEW l \in Trees, NEW step \in Step(Inverses),
           Apply(l, step.txn).refused = "no"
    PROVE  Turned(step, Apply(l, step.txn).inverse) \in Step(Inverses)
<1>. DEFINE inverse == Apply(l, step.txn).inverse
<1>1. step.id \in Nat /\ step.txn \in Inverses  BY DEF Step
<1>2. /\ step.txn \in Seq(RawEdits) /\ step.txn # <<>>
      /\ step.txn \in Txns /\ step.txn \in Seq(AllEdits)
  BY <1>1, InverseIsEdits
<1>3. inverse \in GrownEdits  BY <1>2, TxnIs
<1>4. Len(inverse) = Len(step.txn)  BY <1>2, ApplyIs DEF Trees
<1>. HIDE DEF inverse
<1>5. Len(<<>>) = 0 /\ Len(step.txn) > 0  BY <1>2
<1>6. inverse \in Inverses  BY <1>3, <1>4, <1>5 DEF Inverses
<1>7. Turned(step, inverse) = [id |-> step.id, txn |-> inverse]  BY DEF Turned, Step
<1>8. Turned(step, inverse) \in Step(Inverses)  BY <1>1, <1>6, <1>7 DEF Step
<1>. QED  BY <1>8 DEF inverse

LEMMA UndoTypes ==
    ASSUME TInv, Undo
    PROVE  TInv' /\ RefusalKept
<1>1. CASE Open \/ undo = <<>>
  <2>1. PICK why \in {"group_open", "empty"} : Refused(why)  BY <1>1 DEF Undo
  <2>2. UNCHANGED recorded  BY DEF Undo
  <2>3. /\ layer' \in Trees /\ refused' \in Reasons
        /\ SameButOrder(layer, layer') /\ UNCHANGED history
    BY <2>1, RefusedIs DEF TInv, Reasons
  <2>. QED  BY <2>2, <2>3 DEF TInv, HoldsInverses, Counted, RefusalKept, history
<1>2. CASE ~(Open \/ undo = <<>>)
  <2>. DEFINE step == Last(undo)
              applied == Apply(layer, step.txn)
  <2>1. /\ Writes(applied) /\ refused' = applied.refused
        /\ UNCHANGED <<group, levels, nextId, dropped, epoch, recorded>>
    BY <1>2 DEF Undo, Writes
  <2>2. /\ applied.refused # "no" => UNCHANGED <<undo, redo>>
        /\ applied.refused = "no" =>
             undo' = Front(undo) /\ redo' = Append(redo, Turned(step, applied.inverse))
    BY <1>2 DEF Undo
  <2>3. undo \in Seq(Step(Inverses)) /\ redo \in Seq(Step(Inverses)) /\ Len(undo) >= 1
    BY <1>2 DEF TInv, HoldsInverses
  <2>4. step \in Step(Inverses) /\ Front(undo) \in Seq(Step(Inverses))
    <3>1. Front(undo) \in Seq(Step(Inverses))  BY <2>3, FrontElements
    <3>2. step = undo[Len(undo)] /\ Len(undo) \in 1..Len(undo)  BY <2>3 DEF Last
    <3>. QED  BY <2>3, <3>1, <3>2
  <2>. HIDE DEF step
  <2>5. step.txn \in Txns  BY <2>4, InverseIsEdits DEF Step
  <2>6. /\ layer' \in Trees /\ refused' \in Reasons
        /\ refused' # "no" => SameButOrder(layer, layer')
    BY <2>1, <2>5, AppliedIs DEF TInv
  <2>7. applied.refused = "no" => Turned(step, applied.inverse) \in Step(Inverses)
    BY <2>4, TurnedIs DEF TInv
  <2>. HIDE DEF applied
  <2>8. undo' \in Seq(Step(Inverses)) /\ redo' \in Seq(Step(Inverses))
    <3>1. CASE applied.refused = "no"
      <4>1. undo' \in Seq(Step(Inverses))  BY <2>2, <2>4, <3>1
      <4>. DEFINE turned == Turned(step, applied.inverse)
      <4>2. turned \in Step(Inverses) /\ redo' = Append(redo, turned)  BY <2>2, <2>7, <3>1
      <4>. HIDE DEF turned
      <4>. QED  BY <2>3, <4>1, <4>2
    <3>2. CASE applied.refused # "no"  BY <2>2, <2>3, <3>2
    <3>. QED  BY <3>1, <3>2
  <2>9. HoldsInverses' /\ Counted'
    BY <2>1, <2>8 DEF TInv, HoldsInverses, Counted
  <2>10. refused' # "no" => UNCHANGED history  BY <2>1, <2>2 DEF history
  <2>. QED  BY <2>6, <2>9, <2>10 DEF TInv, RefusalKept
<1>. QED  BY <1>1, <1>2

LEMMA RedoTypes ==
    ASSUME TInv, Redo
    PROVE  TInv' /\ RefusalKept
<1>1. CASE Open \/ redo = <<>>
  <2>1. PICK why \in {"group_open", "empty"} : Refused(why)  BY <1>1 DEF Redo
  <2>2. UNCHANGED recorded  BY DEF Redo
  <2>3. /\ layer' \in Trees /\ refused' \in Reasons
        /\ SameButOrder(layer, layer') /\ UNCHANGED history
    BY <2>1, RefusedIs DEF TInv, Reasons
  <2>. QED  BY <2>2, <2>3 DEF TInv, HoldsInverses, Counted, RefusalKept, history
<1>2. CASE ~(Open \/ redo = <<>>)
  <2>. DEFINE step == Last(redo)
              applied == Apply(layer, step.txn)
  <2>1. /\ Writes(applied) /\ refused' = applied.refused
        /\ UNCHANGED <<group, levels, nextId, dropped, epoch, recorded>>
    BY <1>2 DEF Redo, Writes
  <2>2. /\ applied.refused # "no" => UNCHANGED <<undo, redo>>
        /\ applied.refused = "no" =>
             redo' = Front(redo) /\ undo' = Append(undo, Turned(step, applied.inverse))
    BY <1>2 DEF Redo
  <2>3. undo \in Seq(Step(Inverses)) /\ redo \in Seq(Step(Inverses)) /\ Len(redo) >= 1
    BY <1>2 DEF TInv, HoldsInverses
  <2>4. step \in Step(Inverses) /\ Front(redo) \in Seq(Step(Inverses))
    <3>1. Front(redo) \in Seq(Step(Inverses))  BY <2>3, FrontElements
    <3>2. step = redo[Len(redo)] /\ Len(redo) \in 1..Len(redo)  BY <2>3 DEF Last
    <3>. QED  BY <2>3, <3>1, <3>2
  <2>. HIDE DEF step
  <2>5. step.txn \in Txns  BY <2>4, InverseIsEdits DEF Step
  <2>6. /\ layer' \in Trees /\ refused' \in Reasons
        /\ refused' # "no" => SameButOrder(layer, layer')
    BY <2>1, <2>5, AppliedIs DEF TInv
  <2>7. applied.refused = "no" => Turned(step, applied.inverse) \in Step(Inverses)
    BY <2>4, TurnedIs DEF TInv
  <2>. HIDE DEF applied
  <2>8. undo' \in Seq(Step(Inverses)) /\ redo' \in Seq(Step(Inverses))
    <3>1. CASE applied.refused = "no"
      <4>1. redo' \in Seq(Step(Inverses))  BY <2>2, <2>4, <3>1
      <4>. DEFINE turned == Turned(step, applied.inverse)
      <4>2. turned \in Step(Inverses) /\ undo' = Append(undo, turned)  BY <2>2, <2>7, <3>1
      <4>. HIDE DEF turned
      <4>. QED  BY <2>3, <4>1, <4>2
    <3>2. CASE applied.refused # "no"  BY <2>2, <2>3, <3>2
    <3>. QED  BY <3>1, <3>2
  <2>9. HoldsInverses' /\ Counted'
    BY <2>1, <2>8 DEF TInv, HoldsInverses, Counted
  <2>10. refused' # "no" => UNCHANGED history  BY <2>1, <2>2 DEF history
  <2>. QED  BY <2>6, <2>9, <2>10 DEF TInv, RefusalKept
<1>. QED  BY <1>1, <1>2

LEMMA ResetTypes ==
    ASSUME TInv, Reset
    PROVE  TInv' /\ RefusalKept
<1>1. /\ undo' = <<>> /\ redo' = <<>> /\ group' = <<>> /\ levels' = <<>> /\ refused' = "no"
      /\ UNCHANGED <<layer, nextId, dropped, recorded>>
  BY DEF Reset
<1>2. HoldsInverses'
  <2>1. <<>> \in Seq(Step(Inverses)) /\ <<>> \in Seq(Inverses) /\ <<>> \in Seq(Nat)
    OBVIOUS
  <2>. QED  BY <1>1, <2>1 DEF HoldsInverses
<1>. QED  BY <1>1, <1>2 DEF TInv, Counted, RefusalKept, Reasons

LEMMA UnwindTypes ==
    ASSUME TInv, HInv, NEW mark, UnwindTo(mark)
    PROVE  TInv' /\ RefusalKept
<1>1. CASE Open \/ Gone(mark)
  <2>1. PICK why \in {"group_open", "mark_gone"} : Refused(why)  BY <1>1 DEF UnwindTo
  <2>2. UNCHANGED recorded  BY DEF UnwindTo
  <2>3. /\ layer' \in Trees /\ refused' \in Reasons
        /\ SameButOrder(layer, layer') /\ UNCHANGED history
    BY <2>1, RefusedIs DEF TInv, Reasons
  <2>. QED  BY <2>2, <2>3 DEF TInv, HoldsInverses, Counted, RefusalKept, history
<1>2. CASE ~(Open \/ Gone(mark))
  <2>. DEFINE above == SubSeq(undo, Kept(mark) + 1, Len(undo))
              txns == [i \in DOMAIN above |-> above[i].txn]
              applied == Apply(layer, Combine(txns))
  <2>1. /\ Writes(applied) /\ refused' = applied.refused
        /\ undo' = IF applied.refused = "no" THEN SubSeq(undo, 1, Kept(mark)) ELSE undo
        /\ UNCHANGED <<redo, group, levels, nextId, dropped, epoch, recorded>>
    BY <1>2 DEF UnwindTo, Writes
  <2>2. undo \in Seq(Step(Inverses)) /\ Len(undo) \in Nat  BY DEF TInv, HoldsInverses
  <2>3. Kept(mark) \in 0..Len(undo)  BY <1>2, KeptIsThere
  <2>4. above \in Seq(Step(Inverses))  BY <2>2, <2>3, PartIs
  <2>. HIDE DEF above
  <2>5. txns \in Seq(Inverses)
    <3>1. \A i \in 1..Len(above) : above[i].txn \in Inverses
      <4>1. \A i \in 1..Len(above) : above[i] \in Step(Inverses)  BY <2>4
      <4>. QED  BY <4>1 DEF Step
    <3>. QED  BY <2>4, <3>1
  <2>. HIDE DEF txns
  <2>6. Combine(txns) \in Txns  BY <2>5, CombineIs, InverseIsEdits
  <2>7. /\ layer' \in Trees /\ refused' \in Reasons
        /\ refused' # "no" => SameButOrder(layer, layer')
    BY <2>1, <2>6, AppliedIs DEF TInv
  <2>. HIDE DEF applied
  <2>8. undo' \in Seq(Step(Inverses))
    <3>1. SubSeq(undo, 1, Kept(mark)) \in Seq(Step(Inverses))  BY <2>2, <2>3, PartIs
    <3>. QED  BY <2>1, <2>2, <3>1
  <2>9. HoldsInverses' /\ Counted'
    BY <2>1, <2>8 DEF TInv, HoldsInverses, Counted
  <2>10. refused' # "no" => UNCHANGED history  BY <2>1 DEF history
  <2>. QED  BY <2>7, <2>9, <2>10 DEF TInv, RefusalKept
<1>. QED  BY <1>1, <1>2

LEMMA SameTypes ==
    ASSUME TInv, UNCHANGED <<layer, history, refused, recorded>>
    PROVE  TInv' /\ RefusalKept
BY SameIsReflexive DEF TInv, HoldsInverses, Counted, RefusalKept, history

LEMMA NextTypes == TInv /\ HInv /\ [Next]_vars => TInv' /\ RefusalKept
<1>. SUFFICES ASSUME TInv, HInv, [Next]_vars  PROVE TInv' /\ RefusalKept
  OBVIOUS
<1>1. ASSUME NEW txn \in Transactions, Edit(txn)  PROVE TInv' /\ RefusalKept
  BY <1>1, EditTypes
<1>2. ASSUME NEW txn \in Outside, OutsideEdit(txn)  PROVE TInv' /\ RefusalKept
  BY <1>2, OutsideEditTypes
<1>3. CASE BeginGroup  BY <1>3, BeginGroupTypes
<1>4. CASE EndGroup  BY <1>4, EndGroupTypes
<1>5. CASE AbandonGroup  BY <1>5, AbandonGroupTypes
<1>6. CASE Undo  BY <1>6, UndoTypes
<1>7. CASE Redo  BY <1>7, RedoTypes
<1>8. CASE Reset  BY <1>8, ResetTypes
<1>9. CASE TakeMark
  <2>1. refused' = "no" /\ UNCHANGED <<layer, history, recorded>>  BY <1>9 DEF TakeMark
  <2>. QED  BY <2>1 DEF TInv, HoldsInverses, Counted, RefusalKept, Reasons, history
<1>10. CASE Unwind  BY <1>10, UnwindTypes DEF Unwind
<1>11. CASE UNCHANGED vars  BY <1>11, SameTypes DEF vars
<1>. QED
  BY <1>1, <1>2, <1>3, <1>4, <1>5, <1>6, <1>7, <1>8, <1>9, <1>10, <1>11 DEF Next

LEMMA TInvHolds == Spec => [](TInv /\ HInv)
<1>1. Init => TInv /\ HInv  BY InitTInv, InitHInv
<1>2. TInv /\ HInv /\ [Next]_vars => (TInv /\ HInv)'  BY NextTypes, NextHInv
<1>. QED  BY <1>1, <1>2, PTL DEF Spec

LEMMA TypesFollow == TInv /\ HInv => TypeOK
<1>. SUFFICES ASSUME TInv, HInv  PROVE TypeOK
  OBVIOUS
<1>1. IsLayer(layer)  BY LayerFacts DEF TInv, Trees, IsLayer
<1>2. \A i \in DOMAIN undo : undo[i].txn # <<>>
  <2>1. \A i \in DOMAIN undo : undo[i] \in Step(Inverses)  BY DEF TInv, HoldsInverses
  <2>. QED  BY <2>1, InverseIsEdits DEF Step
<1>3. \A i \in DOMAIN redo : redo[i].txn # <<>>
  <2>1. \A i \in DOMAIN redo : redo[i] \in Step(Inverses)  BY DEF TInv, HoldsInverses
  <2>. QED  BY <2>1, InverseIsEdits DEF Step
<1>4. \A i \in 1..(Len(levels) - 1) : levels[i] <= levels[i + 1]
  <2>. SUFFICES ASSUME NEW i \in 1..(Len(levels) - 1)  PROVE levels[i] <= levels[i + 1]
    OBVIOUS
  <2>1. i \in DOMAIN levels /\ i + 1 \in DOMAIN levels /\ i <= i + 1
    BY DEF TInv, HoldsInverses
  <2>. QED  BY <2>1 DEF HInv, GroupOpen, Nested
<1>5. \A i \in DOMAIN levels : levels[i] <= Len(group)  BY DEF HInv, GroupOpen, Nested
<1>6. Open \/ group = <<>>  BY DEF HInv, GroupOpen
<1>7. /\ \A i \in DOMAIN undo : undo[i].id < nextId
      /\ \A i \in DOMAIN redo : redo[i].id < nextId
  BY DEF HInv, InOrder
<1>8. dropped <= nextId /\ nextId <= recorded  BY DEF TInv, Counted
<1>9. refused \in Reasons  BY DEF TInv
<1>. QED
  BY <1>1, <1>2, <1>3, <1>4, <1>5, <1>6, <1>7, <1>8, <1>9 DEF TypeOK, Reasons

(* The stacks hold inverse transactions with something in them, whose ids   *)
(* were given out, and the layer is one, whatever is applied to it,         *)
(* recorded, grouped, undone, redone, unwound or refused.                   *)
THEOREM UndoKeepsTypes == Spec => []TypeOK
<1>. QED  BY TInvHolds, TypesFollow, PTL

(* An operation refused, at whatever step of its transaction, leaves the    *)
(* history as it was, and of the layer all but the order of children.       *)
THEOREM RefusalsTakeNothing == Spec => RefusalKeepsContent
<1>1. TInv /\ HInv /\ [Next]_vars =>
        [(refused' # "no") => SameButOrder(layer, layer') /\ UNCHANGED history]_vars
  BY NextTypes DEF RefusalKept
<1>. QED  BY <1>1, TInvHolds, PTL DEF Spec, RefusalKeepsContent

LEMMA TreeIsIntact ==
    ASSUME layer \in Layers, Tree(layer)
    PROVE  TreeIntact
<1>. SUFFICES ASSUME NEW p \in DOMAIN layer
     PROVE  /\ p # <<>> => Lists(layer, Front(p), Last(p))
            /\ IsInjective(layer[p].children)
            /\ \A i \in DOMAIN layer[p].children :
                  Has(layer, Append(p, layer[p].children[i]))
  BY DEF TreeIntact
<1>1. p \in Paths /\ layer[p].children \in Seq(Names)  BY LayerFacts
<1>2. \A name \in Names :
        Times(layer[p].children, name) = IF Append(p, name) \in DOMAIN layer THEN 1 ELSE 0
  BY DEF Tree
<1>3. p # <<>> => Lists(layer, Front(p), Last(p))
  <2>. SUFFICES ASSUME p # <<>>  PROVE Lists(layer, Front(p), Last(p))
    OBVIOUS
  <2>1. Last(p) \in Names /\ Append(Front(p), Last(p)) = p  BY <1>1, PathIs, FrontIs
  <2>2. Front(p) \in DOMAIN layer  BY DEF Tree
  <2>3. layer[Front(p)].children \in Seq(Names)  BY <2>2, LayerFacts
  <2>4. Times(layer[Front(p)].children, Last(p)) = 1  BY <2>1, <2>2 DEF Tree
  <2>5. Contains(layer[Front(p)].children, Last(p))  BY <2>3, <2>4, ListedIfAny
  <2>. QED  BY <2>2, <2>5 DEF Lists, ChildrenAt, Has
<1>4. IsInjective(layer[p].children)
  <2>1. \A name \in Names : Times(layer[p].children, name) <= 1  BY <1>2
  <2>. QED  BY <1>1, <2>1, OnceIsInjective
<1>5. ASSUME NEW i \in DOMAIN layer[p].children
      PROVE  Has(layer, Append(p, layer[p].children[i]))
  <2>. DEFINE names == layer[p].children
              name == names[i]
  <2>1. name \in Names /\ Contains(names, name)  BY <1>1 DEF Contains
  <2>2. Times(names, name) > 0  BY <1>1, <2>1, ListedIfAny
  <2>. QED  BY <1>2, <2>1, <2>2 DEF Has
<1>. QED  BY <1>3, <1>4, <1>5

(* Whatever is applied, refused, undone, redone, abandoned or unwound, and  *)
(* whoever else edits: every spec is listed once by the one above it, and   *)
(* every name listed has its spec.                                          *)
THEOREM SpecsStayATree == Spec => []TreeIntact
<1>1. TInv => TreeIntact  BY TreeIsIntact DEF TInv, Trees
<1>. QED  BY <1>1, TInvHolds, PTL

-----------------------------------------------------------------------------
(* Layers that inverses lead down through, one after the other.             *)

Links(c, n, txns) ==
    /\ \A i \in 0..n : c[i] \in Trees
    /\ \A i \in 1..n : Leads(c[i], txns[i], c[i - 1])

TxnsOf(steps) == [i \in DOMAIN steps |-> steps[i].txn]

\* The layers below the last.
Below(c, n) == [i \in 1..n |-> c[i - 1]]

OneLayer(l) == [i \in 0..0 |-> l]

LEMMA OneLinks ==
    ASSUME NEW l \in Trees, NEW txns
    PROVE  Links(OneLayer(l), 0, txns) /\ OneLayer(l)[0] = l /\ Below(OneLayer(l), 0) = <<>>
<1>1. OneLayer(l)[0] = l /\ \A i \in 0..0 : OneLayer(l)[i] = l  BY DEF OneLayer
<1>2. 1..0 = {}  OBVIOUS
<1>3. Links(OneLayer(l), 0, txns)  BY <1>1, <1>2 DEF Links
<1>4. Below(OneLayer(l), 0) = <<>>  BY <1>2 DEF Below
<1>. QED  BY <1>1, <1>3, <1>4

Topped(c, n, l) == [i \in 0..(n + 1) |-> IF i = n + 1 THEN l ELSE c[i]]

LEMMA LinksUp ==
    ASSUME NEW c, NEW n \in Nat, NEW txns, Links(c, n, txns),
           NEW more, \A i \in 1..n : more[i] = txns[i],
           NEW l \in Trees, Leads(l, more[n + 1], c[n])
    PROVE  /\ Links(Topped(c, n, l), n + 1, more)
           /\ Topped(c, n, l)[n + 1] = l
           /\ \A i \in 0..n : Topped(c, n, l)[i] = c[i]
           /\ Below(Topped(c, n, l), n + 1) = Append(Below(c, n), c[n])
<1>. DEFINE t == Topped(c, n, l)
<1>1. t[n + 1] = l /\ \A i \in 0..n : t[i] = c[i]  BY DEF Topped
<1>. HIDE DEF t
<1>2. ASSUME NEW i \in 0..(n + 1)  PROVE t[i] \in Trees
  <2>1. i \in 0..n \/ i = n + 1  OBVIOUS
  <2>. QED  BY <1>1, <2>1 DEF Links
<1>3. ASSUME NEW i \in 1..(n + 1)  PROVE Leads(t[i], more[i], t[i - 1])
  <2>1. CASE i = n + 1
    <3>1. i - 1 = n /\ n \in 0..n  BY <2>1
    <3>. QED  BY <1>1, <2>1, <3>1
  <2>2. CASE i # n + 1
    <3>1. i \in 1..n /\ i \in 0..n /\ i - 1 \in 0..n  BY <2>2
    <3>2. Leads(c[i], txns[i], c[i - 1])  BY <3>1 DEF Links
    <3>3. t[i] = c[i] /\ t[i - 1] = c[i - 1] /\ more[i] = txns[i]  BY <1>1, <3>1
    <3>. QED  BY <3>2, <3>3
  <2>. QED  BY <2>1, <2>2
<1>4. Below(t, n + 1) = Append(Below(c, n), c[n])
  <2>. DEFINE x == Below(t, n + 1)
              b == Below(c, n)
              y == Append(b, c[n])
  <2>. DEFINE Z == {c[i] : i \in 0..n}
  <2>1. b \in Seq(Z) /\ Len(b) = n /\ \A i \in 1..n : b[i] = c[i - 1]
    <3>1. \A i \in 1..n : i - 1 \in 0..n  OBVIOUS
    <3>2. b \in [1..n -> Z]  BY <3>1 DEF Below
    <3>. QED  BY <3>2 DEF Below
  <2>2. c[n] \in Z
    <3>1. n \in 0..n  OBVIOUS
    <3>. QED  BY <3>1
  <2>. HIDE DEF Z, b
  <2>3. /\ y \in Seq(Z) /\ Len(y) = n + 1 /\ y[n + 1] = c[n]
        /\ \A i \in 1..n : y[i] = b[i]
    BY <2>1, <2>2, AppendProperties
  <2>4. ASSUME NEW i \in 1..(n + 1)  PROVE t[i - 1] = y[i]
    <3>1. CASE i = n + 1
      <4>1. i - 1 = n /\ n \in 0..n  BY <3>1
      <4>. QED  BY <1>1, <2>3, <3>1, <4>1
    <3>2. CASE i # n + 1
      <4>1. i \in 1..n /\ i - 1 \in 0..n  BY <3>2
      <4>. QED  BY <1>1, <2>1, <2>3, <4>1
    <3>. QED  BY <3>1, <3>2
  <2>. HIDE DEF y
  <2>5. y \in [1..(n + 1) -> Z]  BY <2>3
  <2>6. y = [i \in 1..(n + 1) |-> y[i]]  BY <2>5
  <2>7. x = [i \in 1..(n + 1) |-> t[i - 1]]  BY DEF Below
  <2>8. x = y  BY <2>4, <2>6, <2>7
  <2>. QED  BY <2>8 DEF x, y, b
<1>. QED  BY <1>1, <1>2, <1>3, <1>4 DEF Links, t

(* Fewer of them.                                                           *)
LEMMA LinksDown ==
    ASSUME NEW c, NEW n \in Nat, NEW txns, Links(c, n, txns), NEW k \in 0..n,
           NEW less, \A i \in 1..k : less[i] = txns[i]
    PROVE  Links(c, k, less)
<1>1. \A i \in 0..k : i \in 0..n  OBVIOUS
<1>2. \A i \in 1..k : i \in 1..n  OBVIOUS
<1>. QED  BY <1>1, <1>2 DEF Links

\* The rest of n transactions after the first k.
IsRest(rest, txns, n, k) == \A i \in 1..(n - k) : rest[i] = txns[k + i]

Shifted(c, n, k) == [i \in 0..(n - k) |-> c[k + i]]

LEMMA LinksAbove ==
    ASSUME NEW c, NEW n \in Nat, NEW txns, Links(c, n, txns), NEW k \in 0..n,
           NEW rest, IsRest(rest, txns, n, k)
    PROVE  /\ Links(Shifted(c, n, k), n - k, rest)
           /\ Shifted(c, n, k)[0] = c[k] /\ Shifted(c, n, k)[n - k] = c[n]
           /\ \A i \in 0..(n - k) : Shifted(c, n, k)[i] = c[k + i]
<1>. DEFINE t == Shifted(c, n, k)
            m == n - k
<1>1. \A i \in 0..m : t[i] = c[k + i]  BY DEF Shifted
<1>2. m \in Nat /\ k + 0 = k /\ k + m = n /\ k \in Nat  OBVIOUS
<1>3. ASSUME NEW i \in 0..m  PROVE t[i] \in Trees
  <2>1. PICK a \in 0..n : a = k + i
    <3>1. k + i \in 0..n  OBVIOUS
    <3>. QED  BY <3>1
  <2>. HIDE DEF t, m
  <2>. QED  BY <1>1, <2>1 DEF Links
<1>4. ASSUME NEW i \in 1..m  PROVE Leads(t[i], rest[i], t[i - 1])
  <2>1. PICK a \in 1..n : a = k + i /\ a - 1 = k + (i - 1)
    <3>1. k + i \in 1..n /\ k + i - 1 = k + (i - 1)  OBVIOUS
    <3>. QED  BY <3>1
  <2>2. i \in 0..m /\ i - 1 \in 0..m  OBVIOUS
  <2>. HIDE DEF t, m
  <2>3. t[i] = c[a]  BY <1>1, <2>1, <2>2
  <2>4. t[i - 1] = c[a - 1]
    <3>1. t[i - 1] = c[k + (i - 1)]  BY <1>1, <2>2
    <3>. QED  BY <2>1, <3>1
  <2>5. rest[i] = txns[a]  BY <2>1 DEF m, IsRest
  <2>6. Leads(c[a], txns[a], c[a - 1])  BY DEF Links
  <2>. QED  BY <2>3, <2>4, <2>5, <2>6
<1>5. t[0] = c[k] /\ t[m] = c[n]
  <2>1. 0 \in 0..m /\ m \in 0..m  BY <1>2
  <2>. HIDE DEF t, m
  <2>2. t[0] = c[k + 0] /\ t[m] = c[k + m]  BY <1>1, <2>1
  <2>. QED  BY <1>2, <2>2
<1>. HIDE DEF t
<1>6. Links(t, m, rest)  BY <1>3, <1>4 DEF Links
<1>. QED  BY <1>1, <1>5, <1>6 DEF t

(* Inverses made on the way from c[0] to c[n], as one, lead back.           *)
LEMMA CombineLeads ==
    ASSUME NEW inverses \in Seq(Inverses), NEW c, Links(c, Len(inverses), inverses)
    PROVE  Leads(c[Len(inverses)], Combine(inverses), c[0])
<1>. DEFINE n == Len(inverses)
            back == Reverse(inverses)
<1>1. /\ n \in Nat /\ back \in Seq(Inverses) /\ Len(back) = n
      /\ \A i \in 1..n : n - i + 1 \in 1..n /\ back[i] = inverses[n - i + 1]
  BY ReverseIs
<1>2. \A i \in 0..n : c[i] \in Trees  BY DEF Links
<1>3. CASE n = 0
  <2>1. inverses = <<>>  BY <1>3
  <2>2. Combine(inverses) = <<>>
    <3>1. Len(back) = 0  BY <1>1, <1>3
    <3>2. back = <<>>  BY <1>1, <3>1
    <3>. QED  BY <1>1, <3>2, FlatInverses DEF Combine
  <2>3. c[0] \in Layers  BY <1>2, <1>3 DEF Trees
  <2>. QED  BY <1>3, <2>2, <2>3, LeadsNowhere
<1>4. CASE n # 0
  <2>1. back # <<>>
    <3>1. Len(<<>>) = 0  OBVIOUS
    <3>. QED  BY <1>1, <1>4, <3>1
  <2>2. PICK flat : Flattens(flat, back)  BY <1>1, <2>1, FlatIs
  <2>. DEFINE S == {i \in 0..(n - 1) : Leads(c[n], flat[i + 1], c[n - (i + 1)])}
  <2>3. ASSUME NEW i \in 1..n
        PROVE  Leads(c[n - i + 1], back[i], c[n - i])
    <3>1. PICK k \in 1..n : k = n - i + 1 /\ k - 1 = n - i
      <4>1. n - i + 1 \in 1..n /\ n - i + 1 - 1 = n - i  BY <1>1
      <4>. QED  BY <4>1
    <3>2. back[i] = inverses[k]  BY <1>1, <3>1
    <3>3. Leads(c[k], inverses[k], c[k - 1])  BY DEF Links
    <3>. HIDE DEF n, back
    <3>. QED  BY Zenon, <3>1, <3>2, <3>3
  <2>. HIDE DEF back
  <2>4. /\ \A i \in 1..n : flat[i] \in Inverses
        /\ flat[1] = back[1]
        /\ \A i \in 2..n : flat[i] = flat[i - 1] \o back[i]
        /\ FlattenSeq(back) = flat[n]
    BY <1>1, <2>2 DEF Flattens
  <2>5. 0 \in S
    <3>1. Leads(c[n - 1 + 1], back[1], c[n - 1])
      <4>1. 1 \in 1..n  BY <1>1, <1>4
      <4>. HIDE DEF n
      <4>. QED  BY Zenon, <2>3, <4>1
    <3>2. n - 1 + 1 = n /\ 0 \in 0..(n - 1) /\ 0 + 1 = 1  BY <1>1, <1>4
    <3>. HIDE DEF n
    <3>. QED  BY <2>4, <3>1, <3>2
  <2>6. ASSUME NEW i \in 1..(n - 1), i - 1 \in S  PROVE i \in S
    <3>1. PICK k \in 2..n : k = i + 1 /\ k - 1 = i /\ i - 1 + 1 = i /\ n - k + 1 = n - i
      <4>1. i + 1 \in 2..n /\ n - (i + 1) + 1 = n - i  BY <1>1
      <4>. QED  BY <4>1
    <3>2. k \in 1..n /\ i \in 1..n /\ i \in 0..(n - 1)  BY <1>1
    <3>. HIDE DEF n
    <3>3. Leads(c[n], flat[i], c[n - i])  BY <2>6, <3>1
    <3>4. Leads(c[n - i], back[k], c[n - k])
      <4>1. Leads(c[n - k + 1], back[k], c[n - k])  BY Zenon, <2>3, <3>2
      <4>. QED  BY <3>1, <4>1
    <3>5. flat[i] \in Seq(RawEdits) /\ back[k] \in Seq(RawEdits)
      <4>1. flat[i] \in Inverses  BY <2>4, <3>2
      <4>2. back[k] \in Inverses  BY <1>1, <3>2
      <4>. QED  BY <4>1, <4>2, InverseIsEdits
    <3>6. Leads(c[n], flat[i] \o back[k], c[n - k])  BY <3>3, <3>4, <3>5, LeadsOn
    <3>7. flat[k] = flat[i] \o back[k]  BY <2>4, <3>1
    <3>8. Leads(c[n], flat[k], c[n - k])  BY <3>6, <3>7
    <3>. QED  BY <3>1, <3>2, <3>8
  <2>7. n - 1 \in S
    <3>. DEFINE m == n - 1
    <3>1. m \in Nat /\ m \in 0..m  BY <1>1, <1>4
    <3>2. \A i \in 1..m : i - 1 \in S => i \in S  BY <2>6
    <3>. HIDE DEF S, m
    <3>3. \A i \in 0..m : i \in S  BY <2>5, <3>1, <3>2, Upwards
    <3>. QED  BY <3>1, <3>3 DEF m
  <2>8. n - 1 + 1 = n /\ n - n = 0  BY <1>1
  <2>. HIDE DEF n
  <2>9. Leads(c[n], flat[n], c[0])  BY <2>7, <2>8
  <2>. QED  BY <2>4, <2>9 DEF Combine, back, n
<1>. QED  BY <1>3, <1>4

ReachOne(reached, step) == <<Apply(reached[1], step.txn).layer>> \o reached

LEMMA ReachedAlong ==
    ASSUME NEW T, NEW steps \in Seq(T), NEW from, NEW at,
           StartsAt(at, Len(steps), <<from>>),
           \A i \in 1..Len(steps) : at[i] = ReachOne(at[i - 1], Reverse(steps)[i])
    PROVE  Reached(from, steps) = Front(at[Len(steps)])
<1>. DEFINE back == Reverse(steps)
            n == Len(back)
            Is(g) == g = [i \in 0..n |-> IF i = 0 THEN <<from>>
                            ELSE One({ReachOne(x, back[i]) : x \in {g[i - 1]}})]
            run == CHOOSE g : Is(g)
<1>1. n \in Nat /\ n = Len(steps) /\ back \in Seq(T)  BY ReverseIs
<1>2. Is(at)
  <2>1. at = [i \in 0..n |-> at[i]] /\ at[0] = <<from>>  BY <1>1 DEF StartsAt
  <2>2. ASSUME NEW i \in 0..n
        PROVE  at[i] = IF i = 0 THEN <<from>>
                       ELSE One({ReachOne(x, back[i]) : x \in {at[i - 1]}})
    <3>1. CASE i = 0  BY <2>1, <3>1
    <3>2. CASE i # 0
      <4>1. i \in 1..n  BY <1>1, <3>2
      <4>2. at[i] = ReachOne(at[i - 1], back[i])  BY <1>1, <4>1
      <4>3. {ReachOne(x, back[i]) : x \in {at[i - 1]}} = {at[i]}  BY <4>2
      <4>. QED  BY <3>2, <4>3, OneOfOne
    <3>. QED  BY <3>1, <3>2
  <2>. QED  BY <2>1, <2>2
<1>3. \A i \in 0..n : run[i] = IF i = 0 THEN <<from>>
                            ELSE One({ReachOne(x, back[i]) : x \in {run[i - 1]}})
  <2>1. Is(run)  BY <1>2
  <2>. HIDE DEF run
  <2>. QED  BY <2>1
<1>4. Reached(from, steps) = Front(run[n])
  BY Zenon DEF Reached, Through, With, One, ReachOne, n, back
<1>. HIDE DEF run, n, back
<1>5. run[0] = at[0]
  <2>1. 0 \in 0..n  BY <1>1
  <2>2. run[0] = <<from>>  BY <1>3, <2>1
  <2>. QED  BY <2>2 DEF StartsAt
<1>6. Follows(run, at, n)
  <2>. SUFFICES ASSUME NEW i \in 1..n, run[i - 1] = at[i - 1]  PROVE run[i] = at[i]
    BY DEF Follows
  <2>1. i \in 0..n /\ i # 0  BY <1>1
  <2>2. at[i] = ReachOne(at[i - 1], back[i])  BY <1>1 DEF back
  <2>3. {ReachOne(x, back[i]) : x \in {run[i - 1]}} = {at[i]}  BY <2>2
  <2>. QED  BY <1>3, <2>1, <2>3, OneOfOne
<1>7. run[n] = at[n]  BY <1>1, <1>5, <1>6, TracesAgree
<1>. QED  BY <1>1, <1>4, <1>7

LEMMA Ahead ==
    ASSUME NEW Z, NEW x \in Z, NEW seq \in Seq(Z)
    PROVE  /\ <<x>> \o seq \in Seq(Z) /\ Len(<<x>> \o seq) = Len(seq) + 1
           /\ (<<x>> \o seq)[1] = x
           /\ \A k \in 1..Len(seq) : (<<x>> \o seq)[k + 1] = seq[k]
OBVIOUS

(* The layers a stack of steps reaches are those its links say.             *)
LEMMA ReachedIs ==
    ASSUME NEW steps \in Seq(Step(Inverses)), NEW c, Links(c, Len(steps), TxnsOf(steps))
    PROVE  Reached(c[Len(steps)], steps) = Below(c, Len(steps))
<1>. DEFINE n == Len(steps)
            back == Reverse(steps)
            Z == Trees
            at == [i \in 0..n |-> [k \in 1..(i + 1) |-> c[n - i + k - 1]]]
<1>1. /\ n \in Nat /\ back \in Seq(Step(Inverses)) /\ Len(back) = n
      /\ \A i \in 1..n : n - i + 1 \in 1..n /\ back[i] = steps[n - i + 1]
  BY ReverseIs
<1>2. /\ \A i \in 0..n : c[i] \in Z
      /\ \A i \in 1..n : Leads(c[i], steps[i].txn, c[i - 1])
  <2>1. \A i \in 1..n : TxnsOf(steps)[i] = steps[i].txn  BY <1>1 DEF TxnsOf
  <2>. QED  BY <2>1 DEF Links
<1>. HIDE DEF Z
<1>3. ASSUME NEW i \in 0..n
      PROVE  /\ at[i] = [k \in 1..(i + 1) |-> c[n - i + k - 1]]
             /\ at[i] \in Seq(Z) /\ Len(at[i]) = i + 1
             /\ \A k \in 1..(i + 1) : at[i][k] = c[n - i + k - 1]
  <2>1. \A k \in 1..(i + 1) : n - i + k - 1 \in 0..n  BY <1>1
  <2>2. i + 1 \in Nat  BY <1>1
  <2>3. at[i] = [k \in 1..(i + 1) |-> c[n - i + k - 1]]  OBVIOUS
  <2>. DEFINE o == i + 1
              s == [k \in 1..o |-> c[n - i + k - 1]]
  <2>4. \A k \in 1..o : c[n - i + k - 1] \in Z  BY <1>2, <2>1
  <2>5. s \in [1..o -> Z]
    <3>. HIDE DEF n, o
    <3>. QED  BY <2>4
  <2>6. s \in Seq(Z) /\ Len(s) = o /\ \A k \in 1..o : s[k] = c[n - i + k - 1]
    <3>1. \A k \in 1..o : s[k] = c[n - i + k - 1]  OBVIOUS
    <3>. HIDE DEF s, o
    <3>. QED  BY <2>2, <2>5, <3>1 DEF o
  <2>. HIDE DEF at, n
  <2>. QED  BY <2>3, <2>6
<1>4. ASSUME NEW i \in 1..n  PROVE at[i] = ReachOne(at[i - 1], back[i])
  <2>1. PICK b \in 0..n : b = i - 1 /\ b + 1 = i
    <3>1. i - 1 \in 0..n /\ i - 1 + 1 = i  BY <1>1
    <3>. QED  BY <3>1
  <2>2. PICK k \in 1..n : k = n - i + 1 /\ k - 1 = n - i /\ k = n - b
    <3>. DEFINE k == n - i + 1
    <3>1. k \in 1..n  BY <1>1
    <3>2. n \in Nat  BY <1>1
    <3>3. k - 1 = n - i /\ k = n - b
      <4>. HIDE DEF n
      <4>. QED  BY <2>1, <3>2
    <3>4. k = n - i + 1  OBVIOUS
    <3>. HIDE DEF k
    <3>. QED  BY <3>1, <3>3, <3>4
  <2>3. i \in 0..n /\ k \in 0..n /\ k - 1 \in 0..n  BY <1>1
  <2>. DEFINE x == at[b]
              y == <<c[k - 1]>> \o x
  <2>4. x \in Seq(Z) /\ Len(x) = i /\ \A a \in 1..i : x[a] = c[n - b + a - 1]
    <3>. HIDE DEF at, n
    <3>. QED  BY <1>3, <2>1
  <2>5. x[1] = c[k]
    <3>1. 1 \in 1..i /\ n - b + 1 - 1 = k  BY <1>1, <2>1, <2>2
    <3>. HIDE DEF x, n
    <3>2. x[1] = c[n - b + 1 - 1]  BY <2>4, <3>1
    <3>. QED  BY <3>1, <3>2
  <2>6. steps[k] \in Step(Inverses) /\ back[i] = steps[k]  BY <1>1, <2>2
  <2>7. steps[k].txn \in Seq(RawEdits)  BY <2>6, InverseIsEdits DEF Step
  <2>8. Leads(c[k], steps[k].txn, c[k - 1])  BY <1>2
  <2>9. c[k] \in Layers  BY <1>2, <2>3 DEF Z, Trees
  <2>10. Apply(c[k], steps[k].txn).layer = c[k - 1]  BY <2>7, <2>8, <2>9, LeadsIsApplied
  <2>11. ReachOne(x, back[i]) = y
    <3>. HIDE DEF x, back
    <3>. QED  BY <2>5, <2>6, <2>10 DEF ReachOne
  <2>. HIDE DEF x
  <2>12. c[k - 1] \in Z  BY <1>2, <2>3
  <2>13. /\ y \in Seq(Z) /\ Len(y) = i + 1 /\ y[1] = c[k - 1]
         /\ \A a \in 1..i : y[a + 1] = x[a]
    BY <2>4, <2>12, Ahead
  <2>. HIDE DEF y
  <2>14. ASSUME NEW a \in 1..(i + 1)  PROVE y[a] = c[n - i + a - 1]
    <3>1. CASE a = 1
      <4>1. n - i + a - 1 = k - 1  BY <1>1, <2>2, <3>1
      <4>. HIDE DEF n
      <4>. QED  BY <2>13, <3>1, <4>1
    <3>2. CASE a # 1
      <4>1. PICK d \in 1..i : d + 1 = a /\ n - b + d - 1 = n - i + a - 1
        <5>1. a - 1 \in 1..i /\ a - 1 + 1 = a /\ n - b + (a - 1) - 1 = n - i + a - 1
          BY <1>1, <2>1, <3>2
        <5>. QED  BY <5>1
      <4>. HIDE DEF n
      <4>2. y[d + 1] = x[d] /\ x[d] = c[n - b + d - 1]  BY <2>4, <2>13
      <4>. QED  BY <4>1, <4>2
    <3>. QED  BY <3>1, <3>2
  <2>15. y = [a \in 1..(i + 1) |-> y[a]]  BY <2>13
  <2>16. y = [a \in 1..(i + 1) |-> c[n - i + a - 1]]
    <3>. HIDE DEF n
    <3>. QED  BY <2>14, <2>15
  <2>17. at[i] = y
    <3>. HIDE DEF at, n
    <3>. QED  BY <1>3, <2>3, <2>16
  <2>. QED  BY <2>1, <2>11, <2>17 DEF x
<1>5. StartsAt(at, n, <<c[n]>>)
  <2>1. 0 \in 0..n  BY <1>1
  <2>2. at[0] = <<c[n]>>
    <3>1. at[0] = [k \in 1..1 |-> c[n - 0 + k - 1]]  BY <2>1
    <3>2. \A k \in 1..1 : n - 0 + k - 1 = n  BY <1>1
    <3>. HIDE DEF n, at
    <3>3. at[0] = [k \in 1..1 |-> c[n]]  BY <3>1, <3>2
    <3>. QED  BY <3>3
  <2>3. at = [i \in 0..n |-> at[i]]  OBVIOUS
  <2>. HIDE DEF at, n
  <2>. QED  BY <2>2, <2>3 DEF StartsAt
<1>. HIDE DEF at
<1>6. Reached(c[n], steps) = Front(at[n])
  BY <1>4, <1>5, ReachedAlong DEF back
<1>7. Front(at[n]) = Below(c, n)
  <2>1. n \in 0..n /\ n - n = 0 /\ n + 1 >= 1 /\ n + 1 - 1 = n  BY <1>1
  <2>. DEFINE s == at[n]
              f == Front(s)
  <2>. HIDE DEF n
  <2>2. s \in Seq(Z) /\ Len(s) = n + 1 /\ \A k \in 1..(n + 1) : s[k] = c[n - n + k - 1]
    BY <1>3, <2>1
  <2>. HIDE DEF s
  <2>3. f \in Seq(Z) /\ Len(f) = n /\ \A k \in 1..n : f[k] = s[k]
    <3>1. Len(s) >= 1 /\ Len(s) - 1 = n  BY <2>1, <2>2
    <3>2. /\ Front(s) \in Seq(Z) /\ Len(Front(s)) = Len(s) - 1
          /\ \A k \in 1..(Len(s) - 1) : Front(s)[k] = s[k]
      BY <2>2, <3>1, FrontElements
    <3>. QED  BY <3>1, <3>2
  <2>4. ASSUME NEW k \in 1..n  PROVE f[k] = c[k - 1]
    <3>1. k \in 1..(n + 1) /\ n - n + k - 1 = k - 1  BY <1>1
    <3>2. s[k] = c[n - n + k - 1]  BY <2>2, <3>1
    <3>. HIDE DEF f
    <3>. QED  BY <2>3, <3>1, <3>2
  <2>. HIDE DEF f
  <2>5. f = [k \in 1..n |-> f[k]]  BY <1>1, <2>3
  <2>6. f = [k \in 1..n |-> c[k - 1]]  BY <2>4, <2>5
  <2>. QED  BY <2>6 DEF f, s, Below
<1>. QED  BY <1>6, <1>7

-----------------------------------------------------------------------------
(* What the stacks and the open group are, whatever layer is under them.    *)
Fit(u, r, g, lv) ==
    /\ u \in Seq(Step(Inverses)) /\ r \in Seq(Step(Inverses))
    /\ g \in Seq(Inverses) /\ lv \in Seq(Nat)
    /\ Nested(g, lv)
    /\ g # <<>> => lv # <<>> /\ r = <<>>

(* Both stacks and the group lead through layers from l: the redo stack     *)
(* from l itself, the group too, and the undo stack from where the group    *)
(* began.                                                                   *)
Stands(l, u, r, g, c, d, e) ==
    /\ Links(c, Len(u), TxnsOf(u))
    /\ Links(d, Len(r), TxnsOf(r))
    /\ Links(e, Len(g), g)
    /\ c[Len(u)] = e[0] /\ d[Len(r)] = l /\ e[Len(g)] = l

FoundBy(lv, e) == [i \in DOMAIN lv |-> e[lv[i]]]

SeenLine(u, r, lv, c, d, e) ==
    [past |-> Below(c, Len(u)), future |-> Below(d, Len(r)), open |-> FoundBy(lv, e)]

BeganOf(l, g, lv) ==
    [i \in DOMAIN lv |-> Apply(l, Combine(SubSeq(g, lv[i] + 1, Len(g)))).layer]

ViewOf(l, u, r, g, lv) ==
    [past |-> Reached(IF lv # <<>> THEN BeganOf(l, g, lv)[1] ELSE l, u),
     future |-> Reached(l, r), open |-> BeganOf(l, g, lv)]

(* The innermost part of a group leads back to where it began.              *)
LEMMA InnerLeads ==
    ASSUME NEW g \in Seq(Inverses), NEW e, Links(e, Len(g), g), NEW k \in 0..Len(g)
    PROVE  /\ Combine(SubSeq(g, k + 1, Len(g))) \in GrownEdits
           /\ Combine(SubSeq(g, k + 1, Len(g))) \in Seq(RawEdits)
           /\ Leads(e[Len(g)], Combine(SubSeq(g, k + 1, Len(g))), e[k])
           /\ e[Len(g)] \in Trees /\ e[k] \in Trees
<1>. DEFINE n == Len(g)
            inner == SubSeq(g, k + 1, n)
            t == Shifted(e, n, k)
<1>1. n \in Nat /\ k + 1 \in Nat \ {0} /\ n \in 0..n  OBVIOUS
<1>2. inner \in Seq(Inverses)  BY <1>1, PartIs
<1>3. Len(inner) = n - k /\ \A i \in 1..(n - k) : inner[i] = g[k + i]
  <2>1. k + 1 \in Int /\ n \in Int /\ \A i \in (k + 1)..n : g[i] \in Inverses  BY <1>1
  <2>2. /\ Len(inner) = IF k + 1 <= n THEN n - (k + 1) + 1 ELSE 0
        /\ \A i \in 1..(n - (k + 1) + 1) : inner[i] = g[k + 1 + i - 1]
    BY <2>1, SubSeqProperties
  <2>3. n - (k + 1) + 1 = n - k /\ (~(k + 1 <= n) => n - k = 0)  BY <1>1
  <2>4. \A i \in 1..(n - k) : k + 1 + i - 1 = k + i  BY <1>1
  <2>. HIDE DEF n, inner
  <2>. QED  BY <2>2, <2>3, <2>4
<1>. HIDE DEF inner
<1>4. Links(t, n - k, inner) /\ t[0] = e[k] /\ t[n - k] = e[n]
  <2>1. n \in Nat /\ k \in 0..n /\ Links(e, n, g)  BY <1>1
  <2>2. IsRest(inner, g, n, k)  BY <1>3 DEF IsRest
  <2>. HIDE DEF n
  <2>3. Links(t, n - k, inner)  BY <2>1, <2>2, LinksAbove
  <2>4. t[0] = e[k]  BY <2>1, <2>2, LinksAbove
  <2>5. t[n - k] = e[n]  BY <2>1, <2>2, LinksAbove
  <2>. QED  BY <2>3, <2>4, <2>5
<1>. HIDE DEF t
<1>5. Leads(e[n], Combine(inner), e[k])  BY <1>2, <1>3, <1>4, CombineLeads
<1>6. Combine(inner) \in GrownEdits  BY <1>2, CombineIs
<1>7. Combine(inner) \in Seq(RawEdits)  BY <1>6, GrownEditsJoin
<1>8. e[n] \in Trees /\ e[k] \in Trees  BY <1>1 DEF Links
<1>. QED  BY <1>5, <1>6, <1>7, <1>8 DEF inner

LEMMA BeganIs ==
    ASSUME NEW l, NEW g \in Seq(Inverses), NEW lv \in Seq(Nat), Nested(g, lv),
           NEW e, Links(e, Len(g), g), e[Len(g)] = l
    PROVE  BeganOf(l, g, lv) = FoundBy(lv, e)
<1>1. ASSUME NEW i \in DOMAIN lv
      PROVE  Apply(l, Combine(SubSeq(g, lv[i] + 1, Len(g)))).layer = e[lv[i]]
  <2>. DEFINE k == lv[i]
              txn == Combine(SubSeq(g, k + 1, Len(g)))
  <2>1. k \in 0..Len(g)
    <3>1. k \in Nat /\ Len(g) \in Nat /\ k <= Len(g)  BY DEF Nested
    <3>. QED  BY <3>1
  <2>. HIDE DEF k
  <2>2. txn \in Seq(RawEdits)  BY <2>1, InnerLeads
  <2>3. Leads(l, txn, e[k])  BY <2>1, InnerLeads
  <2>4. l \in Layers  BY <2>1, InnerLeads DEF Trees
  <2>. HIDE DEF txn
  <2>5. Apply(l, txn).layer = e[k]  BY <2>2, <2>3, <2>4, LeadsIsApplied
  <2>. QED  BY <2>5 DEF txn, k
<1>. QED  BY <1>1 DEF BeganOf, FoundBy

(* The line the history stands for.                                         *)
LEMMA ViewIsSeen ==
    ASSUME NEW l, NEW u, NEW r, NEW g, NEW lv, NEW c, NEW d, NEW e,
           Fit(u, r, g, lv), Stands(l, u, r, g, c, d, e)
    PROVE  ViewOf(l, u, r, g, lv) = SeenLine(u, r, lv, c, d, e)
<1>. DEFINE b == BeganOf(l, g, lv)
<1>1. b = FoundBy(lv, e)
  <2>1. g \in Seq(Inverses) /\ lv \in Seq(Nat) /\ Nested(g, lv)  BY DEF Fit
  <2>2. Links(e, Len(g), g) /\ e[Len(g)] = l  BY DEF Stands
  <2>. HIDE DEF Stands, Fit
  <2>. QED  BY <2>1, <2>2, BeganIs
<1>. HIDE DEF b
<1>2. (IF lv # <<>> THEN b[1] ELSE l) = c[Len(u)]
  <2>1. CASE lv # <<>>
    <3>1. lv[1] = 0 /\ 1 \in DOMAIN lv  BY <2>1 DEF Fit, Nested
    <3>2. b[1] = e[0]  BY <1>1, <3>1 DEF FoundBy
    <3>. QED  BY <2>1, <3>2 DEF Stands
  <2>2. CASE lv = <<>>
    <3>1. Len(g) = 0  BY <2>2 DEF Fit
    <3>. QED  BY <2>2, <3>1 DEF Stands
  <2>. QED  BY <2>1, <2>2
<1>3. Reached(c[Len(u)], u) = Below(c, Len(u))  BY ReachedIs DEF Fit, Stands
<1>4. Reached(l, r) = Below(d, Len(r))
  <2>1. Reached(d[Len(r)], r) = Below(d, Len(r))  BY ReachedIs DEF Fit, Stands
  <2>. QED  BY <2>1 DEF Stands
<1>5. Reached(IF lv # <<>> THEN b[1] ELSE l, u) = Below(c, Len(u))  BY <1>2, <1>3
<1>. QED  BY <1>1, <1>4, <1>5 DEF ViewOf, SeenLine, b

LEMMA ViewIs ==
    /\ View = ViewOf(layer, undo, redo, group, levels)
    /\ View' = ViewOf(layer', undo', redo', group', levels')
BY DEF View, ViewOf, Began, BeganOf, Open

LEMMA FitNow == TInv /\ HInv => Fit(undo, redo, group, levels)
BY DEF TInv, HoldsInverses, HInv, GroupOpen, Fit, Open

LEMMA FitThen == TInv' /\ HInv' => Fit(undo', redo', group', levels')
BY DEF TInv, HoldsInverses, HInv, GroupOpen, Fit, Open

LEMMA BelowIs ==
    ASSUME NEW c, NEW n \in Nat, NEW txns, Links(c, n, txns)
    PROVE  /\ Below(c, n) \in Seq(Trees) /\ Len(Below(c, n)) = n
           /\ \A i \in 1..n : Below(c, n)[i] = c[i - 1]
<1>. DEFINE b == Below(c, n)
<1>1. \A i \in 1..n : i - 1 \in 0..n  OBVIOUS
<1>2. \A i \in 1..n : c[i - 1] \in Trees  BY <1>1 DEF Links
<1>3. b \in [1..n -> Trees] /\ \A i \in 1..n : b[i] = c[i - 1]  BY <1>2 DEF Below
<1>. HIDE DEF b
<1>. QED  BY <1>3 DEF b

LEMMA LastBelow ==
    ASSUME NEW c, NEW n \in Nat, n >= 1, NEW txns, Links(c, n, txns)
    PROVE  /\ Below(c, n) # <<>> /\ Last(Below(c, n)) = c[n - 1]
           /\ Front(Below(c, n)) = Below(c, n - 1)
<1>. DEFINE b == Below(c, n)
            f == Front(b)
<1>1. b \in Seq(Trees) /\ Len(b) = n /\ \A i \in 1..n : b[i] = c[i - 1]  BY BelowIs
<1>. HIDE DEF b
<1>2. /\ f \in Seq(Trees) /\ Len(f) = n - 1
      /\ \A i \in 1..(n - 1) : f[i] = b[i]
  BY <1>1, FrontElements
<1>. HIDE DEF f
<1>3. f = [i \in 1..(n - 1) |-> f[i]]  BY <1>2
<1>4. \A i \in 1..(n - 1) : f[i] = c[i - 1]  BY <1>1, <1>2
<1>5. f = Below(c, n - 1)  BY <1>3, <1>4 DEF Below
<1>6. b # <<>>
  <2>1. Len(<<>>) = 0  OBVIOUS
  <2>. QED  BY <1>1, <2>1
<1>7. Last(b) = c[n - 1]
  <2>1. n \in 1..n  OBVIOUS
  <2>. QED  BY <1>1, <2>1 DEF Last
<1>. QED  BY <1>5, <1>6, <1>7 DEF b, f

(* The levels of a group, as the layers they found.                         *)
LEMMA FoundIs ==
    ASSUME NEW lv \in Seq(Nat), NEW n \in Nat, NEW g, NEW e, Links(e, n, g),
           \A i \in DOMAIN lv : lv[i] <= n
    PROVE  /\ FoundBy(lv, e) \in Seq(Trees) /\ Len(FoundBy(lv, e)) = Len(lv)
           /\ \A i \in 1..Len(lv) : lv[i] \in 0..n /\ FoundBy(lv, e)[i] = e[lv[i]]
<1>. DEFINE f == FoundBy(lv, e)
            m == Len(lv)
<1>1. m \in Nat /\ DOMAIN lv = 1..m /\ \A i \in 1..m : lv[i] \in Nat  OBVIOUS
<1>2. \A i \in 1..m : lv[i] \in 0..n  BY <1>1
<1>3. \A i \in 1..m : e[lv[i]] \in Trees  BY <1>2 DEF Links
<1>4. f \in [1..m -> Trees] /\ \A i \in 1..m : f[i] = e[lv[i]]  BY <1>1, <1>3 DEF FoundBy
<1>. HIDE DEF f, m
<1>5. f \in Seq(Trees) /\ Len(f) = m  BY <1>1, <1>4
<1>. QED  BY <1>2, <1>4, <1>5 DEF f, m

LEMMA FoundBegins ==
    ASSUME NEW lv \in Seq(Nat), NEW n \in Nat, NEW g, NEW e, Links(e, n, g),
           \A i \in DOMAIN lv : lv[i] <= n
    PROVE  FoundBy(Append(lv, n), e) = Append(FoundBy(lv, e), e[n])
<1>. DEFINE m == Len(lv)
            more == Append(lv, n)
            x == FoundBy(more, e)
            f == FoundBy(lv, e)
            y == Append(f, e[n])
<1>1. m \in Nat  OBVIOUS
<1>2. /\ f \in Seq(Trees) /\ Len(f) = m
      /\ \A i \in 1..m : f[i] = e[lv[i]]
  BY FoundIs
<1>3. e[n] \in Trees  BY DEF Links
<1>4. more \in Seq(Nat) /\ DOMAIN more = 1..(m + 1) /\ more[m + 1] = n
      /\ \A i \in 1..m : more[i] = lv[i]
  OBVIOUS
<1>. HIDE DEF f, more, m
<1>5. /\ y \in Seq(Trees) /\ Len(y) = m + 1 /\ y[m + 1] = e[n]
      /\ \A i \in 1..m : y[i] = f[i]
  BY <1>2, <1>3, AppendProperties
<1>6. x = [i \in 1..(m + 1) |-> e[more[i]]]  BY <1>4 DEF FoundBy
<1>. HIDE DEF y
<1>7. y = [i \in 1..(m + 1) |-> y[i]]  BY <1>5
<1>8. ASSUME NEW i \in 1..(m + 1)  PROVE e[more[i]] = y[i]
  <2>1. CASE i \in 1..m  BY <1>2, <1>4, <1>5, <2>1
  <2>2. CASE i = m + 1  BY <1>4, <1>5, <2>2
  <2>. QED  BY <1>1, <2>1, <2>2, LastOrBefore
<1>9. x = y  BY <1>6, <1>7, <1>8
<1>. QED  BY <1>9 DEF x, y, f, more

LEMMA FoundCloses ==
    ASSUME NEW lv \in Seq(Nat), lv # <<>>, NEW n \in Nat, NEW g, NEW e, Links(e, n, g),
           \A i \in DOMAIN lv : lv[i] <= n
    PROVE  /\ FoundBy(Front(lv), e) = Front(FoundBy(lv, e))
           /\ FoundBy(lv, e) # <<>> /\ Last(FoundBy(lv, e)) = e[Last(lv)]
<1>. DEFINE m == Len(lv)
            fewer == Front(lv)
            x == FoundBy(fewer, e)
            f == FoundBy(lv, e)
            y == Front(f)
<1>1. m \in Nat /\ m >= 1  OBVIOUS
<1>2. /\ f \in Seq(Trees) /\ Len(f) = m
      /\ \A i \in 1..m : f[i] = e[lv[i]]
  BY FoundIs
<1>3. DOMAIN fewer = 1..(m - 1) /\ \A i \in 1..(m - 1) : fewer[i] = lv[i]
  BY <1>1, FrontElements
<1>. HIDE DEF f, fewer, m
<1>4. /\ y \in Seq(Trees) /\ Len(y) = m - 1
      /\ \A i \in 1..(m - 1) : y[i] = f[i]
  BY <1>1, <1>2, FrontElements
<1>5. x = [i \in 1..(m - 1) |-> e[fewer[i]]]  BY <1>3 DEF FoundBy
<1>. HIDE DEF y
<1>6. y = [i \in 1..(m - 1) |-> y[i]]  BY <1>1, <1>4
<1>7. \A i \in 1..(m - 1) : e[fewer[i]] = y[i]
  <2>1. \A i \in 1..(m - 1) : i \in 1..m  BY <1>1
  <2>. QED  BY <1>2, <1>3, <1>4, <2>1
<1>8. x = y  BY <1>5, <1>6, <1>7
<1>9. f # <<>> /\ Last(f) = f[m] /\ f[m] = e[lv[m]] /\ Last(lv) = lv[m]
  <2>1. m \in 1..m /\ Len(<<>>) = 0  BY <1>1
  <2>. QED  BY <1>1, <1>2, <2>1 DEF Last, m
<1>. QED  BY <1>8, <1>9 DEF x, y, f, fewer

LEMMA FoundAgrees ==
    ASSUME NEW lv \in Seq(Nat), NEW n \in Nat, \A i \in DOMAIN lv : lv[i] <= n,
           NEW e, NEW o, \A i \in 0..n : o[i] = e[i]
    PROVE  FoundBy(lv, o) = FoundBy(lv, e)
<1>1. \A i \in DOMAIN lv : o[lv[i]] = e[lv[i]]
  <2>. TAKE i \in DOMAIN lv
  <2>1. lv[i] \in 0..n  OBVIOUS
  <2>. QED  BY <2>1
<1>. QED  BY <1>1 DEF FoundBy

-----------------------------------------------------------------------------
(* A new step, and the oldest gone over the limit.                          *)
ReachTo(past, from, ahead) ==
    LET reached == Append(past, from)
    IN  IF Limit # None /\ Len(reached) + ahead > Limit THEN Tail(reached) ELSE reached

\* A stack over the limit, counting the steps ahead, loses its oldest step.
Capped(pushed, ahead) ==
    IF Limit # None /\ Len(pushed) + ahead > Limit THEN Tail(pushed) ELSE pushed

\* A stack that leads down from l, through the layers of `past`.
LeadsThrough(u, l, past) ==
    \E t : Links(t, Len(u), TxnsOf(u)) /\ t[Len(u)] = l /\ Below(t, Len(u)) = past

LEMMA TxnsGrow ==
    ASSUME NEW u \in Seq(Step(Inverses)), NEW step \in Step(Inverses)
    PROVE  /\ Len(Append(u, step)) = Len(u) + 1
           /\ Append(u, step) \in Seq(Step(Inverses))
           /\ TxnsOf(Append(u, step))[Len(u) + 1] = step.txn
           /\ \A i \in 1..Len(u) : TxnsOf(Append(u, step))[i] = TxnsOf(u)[i]
<1>. DEFINE S == Step(Inverses)
            n == Len(u)
            p == Append(u, step)
<1>1. n \in Nat /\ u \in Seq(S) /\ step \in S  OBVIOUS
<1>. HIDE DEF S
<1>2. p \in Seq(S) /\ Len(p) = n + 1 /\ p[n + 1] = step /\ \A i \in 1..n : p[i] = u[i]
  BY <1>1
<1>. HIDE DEF p
<1>3. DOMAIN p = 1..(n + 1) /\ DOMAIN u = 1..n  BY <1>1, <1>2
<1>. HIDE DEF n
<1>4. n + 1 \in 1..(n + 1) /\ \A i \in 1..n : i \in 1..(n + 1)  BY <1>1
<1>5. /\ TxnsOf(p)[n + 1] = step.txn
      /\ \A i \in 1..n : TxnsOf(p)[i] = TxnsOf(u)[i]
  BY <1>2, <1>3, <1>4 DEF TxnsOf
<1>. QED  BY <1>2, <1>5 DEF p, S, n

LEMMA TxnsFront ==
    ASSUME NEW u \in Seq(Step(Inverses)), u # <<>>
    PROVE  /\ Len(u) \in Nat /\ Len(u) >= 1
           /\ Len(Front(u)) = Len(u) - 1 /\ Last(u) = u[Len(u)]
           /\ Last(u) \in Step(Inverses)
           /\ TxnsOf(u)[Len(u)] = Last(u).txn
           /\ \A i \in 1..(Len(u) - 1) : TxnsOf(Front(u))[i] = TxnsOf(u)[i]
<1>. DEFINE n == Len(u)
            f == Front(u)
<1>1. n \in Nat /\ n >= 1 /\ DOMAIN u = 1..n  BY Zenon, NotEmptyHasLen
<1>2. Len(f) = n - 1 /\ DOMAIN f = 1..(n - 1) /\ \A i \in 1..(n - 1) : f[i] = u[i]
  BY <1>1, FrontElements
<1>3. Last(u) = u[n] /\ n \in 1..n  BY <1>1 DEF Last
<1>4. u[n] \in Step(Inverses)  BY <1>3
<1>. HIDE DEF f
<1>5. TxnsOf(u)[n] = u[n].txn  BY <1>1, <1>3 DEF TxnsOf
<1>6. \A i \in 1..(n - 1) : i \in 1..n  BY <1>1
<1>. HIDE DEF n
<1>7. \A i \in 1..(n - 1) : TxnsOf(f)[i] = TxnsOf(u)[i]  BY <1>1, <1>2, <1>6 DEF TxnsOf
<1>. QED  BY <1>1, <1>2, <1>3, <1>4, <1>5, <1>7 DEF n, f

LEMMA PushLinks ==
    ASSUME NEW u \in Seq(Step(Inverses)), NEW c, Links(c, Len(u), TxnsOf(u)),
           NEW step \in Step(Inverses), NEW l \in Trees, Leads(l, step.txn, c[Len(u)]),
           NEW ahead \in Nat
    PROVE  LeadsThrough(Capped(Append(u, step), ahead), l,
                        ReachTo(Below(c, Len(u)), c[Len(u)], ahead))
<1>. DEFINE n == Len(u)
            p == Append(u, step)
            v == Capped(p, ahead)
            o == Topped(c, n, l)
            b == Append(Below(c, n), c[n])
<1>1. n \in Nat /\ n + 1 \in Nat  OBVIOUS
<1>2. /\ Len(p) = n + 1 /\ p \in Seq(Step(Inverses))
      /\ TxnsOf(p)[n + 1] = step.txn
      /\ \A i \in 1..n : TxnsOf(p)[i] = TxnsOf(u)[i]
  BY TxnsGrow
<1>0. v = IF Limit # None /\ Len(p) + ahead > Limit THEN Tail(p) ELSE p  BY DEF Capped
<1>. HIDE DEF n, p, v
<1>3. /\ Links(o, n + 1, TxnsOf(p)) /\ o[n + 1] = l /\ Below(o, n + 1) = b
  <2>1. Links(c, n, TxnsOf(u)) /\ Leads(l, TxnsOf(p)[n + 1], c[n])  BY <1>2 DEF n
  <2>2. Links(o, n + 1, TxnsOf(p))  BY <1>1, <1>2, <2>1, LinksUp
  <2>3. o[n + 1] = l  BY <1>1, <1>2, <2>1, LinksUp
  <2>4. Below(o, n + 1) = b  BY <1>1, <1>2, <2>1, LinksUp
  <2>. QED  BY <2>2, <2>3, <2>4
<1>4. b \in Seq(Trees) /\ Len(b) = n + 1
  <2>1. Below(o, n + 1) \in Seq(Trees) /\ Len(Below(o, n + 1)) = n + 1
    BY <1>1, <1>3, BelowIs
  <2>. QED  BY <1>3, <2>1
<1>. HIDE DEF o, b
<1>5. CASE Limit # None /\ Len(p) + ahead > Limit
  <2>1. v = Tail(p)  BY <1>0, <1>5
  <2>. DEFINE t == Shifted(o, n + 1, 1)
  <2>2. /\ Len(v) = n /\ v \in Seq(Step(Inverses))
        /\ \A i \in 1..n : v[i] = p[i + 1]
    <3>1. p # <<>>
      <4>1. Len(<<>>) = 0  OBVIOUS
      <4>. QED  BY <1>1, <1>2, <4>1
    <3>. QED  BY <1>1, <1>2, <2>1, <3>1
  <2>3. \A i \in 1..((n + 1) - 1) : TxnsOf(v)[i] = TxnsOf(p)[1 + i]
    <3>. SUFFICES ASSUME NEW i \in 1..n  PROVE TxnsOf(v)[i] = TxnsOf(p)[1 + i]
      BY <1>1
    <3>1. DOMAIN v = 1..n /\ DOMAIN p = 1..(n + 1) /\ i + 1 \in 1..(n + 1) /\ 1 + i = i + 1
      BY <1>1, <1>2, <2>2
    <3>2. TxnsOf(v)[i] = v[i].txn /\ TxnsOf(p)[i + 1] = p[i + 1].txn
      BY <3>1 DEF TxnsOf
    <3>. QED  BY <2>2, <3>1, <3>2
  <2>5. Links(t, n, TxnsOf(v)) /\ t[n] = o[n + 1] /\ \A i \in 0..n : t[i] = o[1 + i]
    <3>. DEFINE k == n + 1
                z == TxnsOf(v)
    <3>1. k \in Nat /\ 1 \in 0..k /\ k - 1 = n  BY <1>1
    <3>2. Links(o, k, TxnsOf(p)) /\ IsRest(z, TxnsOf(p), k, 1)
      BY <1>3, <2>3 DEF IsRest
    <3>. HIDE DEF k, z, t
    <3>3. Links(Shifted(o, k, 1), k - 1, z)  BY <3>1, <3>2, LinksAbove
    <3>4. Shifted(o, k, 1)[k - 1] = o[k]  BY <3>1, <3>2, LinksAbove
    <3>5. \A i \in 0..(k - 1) : Shifted(o, k, 1)[i] = o[1 + i]  BY <3>1, <3>2, LinksAbove
    <3>. QED  BY <3>1, <3>3, <3>4, <3>5 DEF t, k, z
  <2>8. Links(t, n, TxnsOf(v)) /\ t[n] = l /\ \A i \in 0..n : t[i] = o[1 + i]
    BY <1>3, <2>5
  <2>. HIDE DEF t
  <2>9. Below(t, n) = Tail(b)
    <3>1. /\ Below(t, n) \in Seq(Trees) /\ Len(Below(t, n)) = n
          /\ \A i \in 1..n : Below(t, n)[i] = t[i - 1]
      BY <1>1, <2>8, BelowIs
    <3>2. \A i \in 1..(n + 1) : b[i] = o[i - 1]  BY <1>1, <1>3, BelowIs
    <3>3. /\ Tail(b) \in Seq(Trees) /\ Len(Tail(b)) = n
          /\ \A i \in 1..n : Tail(b)[i] = b[i + 1]
      <4>1. b # <<>>
        <5>1. Len(<<>>) = 0  OBVIOUS
        <5>. QED  BY <1>1, <1>4, <5>1
      <4>. QED  BY <1>1, <1>4, <4>1
    <3>4. ASSUME NEW i \in 1..n  PROVE Below(t, n)[i] = Tail(b)[i]
      <4>1. i - 1 \in 0..n /\ 1 + (i - 1) = i /\ i + 1 \in 1..(n + 1) /\ i + 1 - 1 = i
        BY <1>1
      <4>2. t[i - 1] = o[1 + (i - 1)]  BY <2>8, <4>1
      <4>3. b[i + 1] = o[i + 1 - 1]  BY <3>2, <4>1
      <4>. QED  BY <3>1, <3>3, <4>1, <4>2, <4>3
    <3>. DEFINE x == Below(t, n)
                y == Tail(b)
    <3>. HIDE DEF x, y
    <3>5. /\ x \in Seq(Trees) /\ Len(x) = n /\ y \in Seq(Trees) /\ Len(y) = n
          /\ \A i \in 1..n : x[i] = y[i]
      BY <3>1, <3>3, <3>4 DEF x, y
    <3>6. x = y  BY <1>1, <3>5, SeqEqual
    <3>. QED  BY <3>6 DEF x, y
  <2>10. ReachTo(Below(c, n), c[n], ahead) = Tail(b)
    BY <1>2, <1>4, <1>5 DEF ReachTo, b
  <2>. QED  BY <2>2, <2>8, <2>9, <2>10 DEF LeadsThrough, n, p, v
<1>6. CASE ~(Limit # None /\ Len(p) + ahead > Limit)
  <2>1. v = p  BY <1>0, <1>6
  <2>2. ReachTo(Below(c, n), c[n], ahead) = b  BY <1>2, <1>4, <1>6 DEF ReachTo, b
  <2>. QED  BY <1>2, <1>3, <2>1, <2>2 DEF LeadsThrough, n, p, v
<1>. QED  BY <1>5, <1>6

-----------------------------------------------------------------------------
(* The line, step by step.                                                  *)
Stood == \E c, d, e : Stands(layer, undo, redo, group, c, d, e)

Follow == line = View /\ line' = View' => [Line!Next]_(Line!vars)

Carries == Stood' /\ refused' # "stale" /\ Follow

LEMMA LineNow ==
    ASSUME TInv, HInv, NEW c, NEW d, NEW e, Stands(layer, undo, redo, group, c, d, e),
           line = View
    PROVE  /\ line.past = Below(c, Len(undo)) /\ line.future = Below(d, Len(redo))
           /\ line.open = FoundBy(levels, e)
<1>1. ViewOf(layer, undo, redo, group, levels) = SeenLine(undo, redo, levels, c, d, e)
  BY FitNow, ViewIsSeen
<1>2. line = SeenLine(undo, redo, levels, c, d, e)  BY <1>1, ViewIs
<1>. QED  BY <1>2 DEF SeenLine

LEMMA LineThen ==
    ASSUME TInv', HInv', NEW c, NEW d, NEW e,
           Stands(layer', undo', redo', group', c, d, e), line' = View'
    PROVE  /\ line'.past = Below(c, Len(undo')) /\ line'.future = Below(d, Len(redo'))
           /\ line'.open = FoundBy(levels', e)
<1>1. ViewOf(layer', undo', redo', group', levels') = SeenLine(undo', redo', levels', c, d, e)
  BY FitThen, ViewIsSeen
<1>2. line' = SeenLine(undo', redo', levels', c, d, e)  BY <1>1, ViewIs
<1>. QED  BY <1>2 DEF SeenLine

LEMMA StoodThen ==
    ASSUME NEW c, NEW d, NEW e, Stands(layer', undo', redo', group', c, d, e)
    PROVE  Stood'
BY DEF Stood

LEMMA SameLine ==
    ASSUME Stood, UNCHANGED <<layer, undo, redo, group, levels>>, refused' # "stale"
    PROVE  Carries
<1>1. PICK c, d, e : Stands(layer, undo, redo, group, c, d, e)  BY DEF Stood
<1>2. Stood'
  <2>1. Stands(layer', undo', redo', group', c, d, e)  BY <1>1
  <2>. QED  BY <2>1, StoodThen
<1>3. View' = View  BY ViewIs
<1>4. Follow
  <2>. SUFFICES ASSUME line = View, line' = View'  PROVE UNCHANGED Line!vars
    BY DEF Follow
  <2>. QED  BY <1>3 DEF Line!vars
<1>. QED  BY <1>2, <1>4 DEF Carries

LEMMA RefusedOnLine ==
    ASSUME Stood, NEW why \in Reasons \ {"stale"}, Refused(why)
    PROVE  Carries
<1>1. UNCHANGED <<layer, undo, redo, group, levels>> /\ refused' # "stale"
  BY DEF Refused, history
<1>. QED  BY <1>1, SameLine

(* Two stacks that lead down from the layer between them.                   *)
Meet(u, r, c, d, l) ==
    /\ u \in Seq(Step(Inverses)) /\ r \in Seq(Step(Inverses))
    /\ Links(c, Len(u), TxnsOf(u)) /\ Links(d, Len(r), TxnsOf(r))
    /\ c[Len(u)] = l /\ d[Len(r)] = l

(* What was applied takes the layer below u, and one more is below v, the   *)
(* other stack.                                                             *)
Turns(u, r, c, d, l, applied, v) ==
    /\ applied.refused = "no" /\ applied.layer = Last(Below(c, Len(u)))
    /\ applied.layer \in Trees
    /\ Links(c, Len(Front(u)), TxnsOf(Front(u)))
    /\ c[Len(Front(u))] = applied.layer
    /\ Below(c, Len(u)) # <<>>
    /\ Front(Below(c, Len(u))) = Below(c, Len(Front(u)))
    /\ \E f : /\ Links(f, Len(v), TxnsOf(v)) /\ f[Len(v)] = applied.layer
              /\ Below(f, Len(v)) = Append(Below(d, Len(r)), l)

LEMMA TurnLinks ==
    ASSUME NEW u, u # <<>>, NEW r, NEW l, NEW c, NEW d, Meet(u, r, c, d, l),
           NEW applied, applied = Apply(l, Last(u).txn),
           NEW v, v = Append(r, Turned(Last(u), applied.inverse))
    PROVE  Turns(u, r, c, d, l, applied, v)
<1>. USE DEF Meet
<1>. DEFINE step == Last(u)
            n == Len(u)
            m == Len(r)
            to == c[n - 1]
<1>1. /\ n \in Nat /\ n >= 1 /\ Len(Front(u)) = n - 1
      /\ step \in Step(Inverses) /\ TxnsOf(u)[n] = step.txn
      /\ \A i \in 1..(n - 1) : TxnsOf(Front(u))[i] = TxnsOf(u)[i]
  BY TxnsFront
<1>2. m \in Nat  OBVIOUS
<1>3. Links(c, n, TxnsOf(u)) /\ Links(d, m, TxnsOf(r)) /\ c[n] = l /\ d[m] = l
  OBVIOUS
<1>. HIDE DEF n, m, step
<1>4. n \in 1..n /\ n \in 0..n /\ n - 1 \in 0..n  BY <1>1
<1>5. l \in Trees /\ to \in Trees /\ Leads(l, step.txn, to)
  BY <1>1, <1>3, <1>4 DEF Links
<1>6. step.txn \in Inverses /\ step.txn \in GrownEdits /\ step.txn \in Seq(RawEdits)
  BY <1>1, InverseIsEdits DEF Step
<1>7. l \in Layers /\ Tree(l)  BY <1>5 DEF Trees
<1>8. applied = Apply(l, step.txn)  BY DEF step
<1>. HIDE DEF to
<1>9. applied.refused = "no" /\ applied.layer = to
  BY <1>5, <1>6, <1>7, <1>8, LeadsIsApplied
<1>10. Leads(to, applied.inverse, l)
  <2>1. Leads(applied.layer, applied.inverse, l)
    BY <1>6, <1>7, <1>8, <1>9, InverseLeadsBack
  <2>. QED  BY <1>9, <2>1
<1>. DEFINE turned == Turned(step, applied.inverse)
            f == Topped(d, m, to)
<1>11. turned \in Step(Inverses) /\ turned.txn = applied.inverse
  <2>1. turned \in Step(Inverses)  BY <1>1, <1>5, <1>8, <1>9, TurnedIs
  <2>. QED  BY <1>1, <2>1 DEF Turned, Step
<1>12. v = Append(r, turned)  BY DEF step
<1>. HIDE DEF turned
<1>13. /\ Len(v) = m + 1 /\ TxnsOf(v)[m + 1] = turned.txn
       /\ \A i \in 1..m : TxnsOf(v)[i] = TxnsOf(r)[i]
  BY <1>11, <1>12, TxnsGrow DEF m
<1>14. Leads(to, TxnsOf(v)[m + 1], d[m])  BY <1>3, <1>10, <1>11, <1>13
<1>15. /\ Links(f, m + 1, TxnsOf(v)) /\ f[m + 1] = to
       /\ Below(f, m + 1) = Append(Below(d, m), d[m])
  <2>. DEFINE x == TxnsOf(r)
              y == TxnsOf(v)
  <2>1. Links(d, m, x) /\ (\A i \in 1..m : y[i] = x[i]) /\ Leads(to, y[m + 1], d[m])
    BY <1>3, <1>13, <1>14
  <2>. HIDE DEF x, y, Meet
  <2>2. Links(f, m + 1, y)  BY <1>2, <1>5, <2>1, LinksUp
  <2>3. f[m + 1] = to  BY <1>2, <1>5, <2>1, LinksUp
  <2>4. Below(f, m + 1) = Append(Below(d, m), d[m])  BY <1>2, <1>5, <2>1, LinksUp
  <2>. QED  BY <2>2, <2>3, <2>4 DEF y
<1>. HIDE DEF f
<1>16. Links(c, n - 1, TxnsOf(Front(u)))  BY <1>1, <1>3, <1>4, LinksDown
<1>17. /\ Below(c, n) # <<>> /\ Last(Below(c, n)) = to
       /\ Front(Below(c, n)) = Below(c, n - 1)
  BY <1>1, <1>3, LastBelow DEF to
<1>18. \E g : /\ Links(g, Len(v), TxnsOf(v)) /\ g[Len(v)] = applied.layer
              /\ Below(g, Len(v)) = Append(Below(d, m), l)
  BY <1>3, <1>9, <1>13, <1>15
<1>. QED  BY <1>1, <1>5, <1>9, <1>16, <1>17, <1>18 DEF n, m, to, Turns

(* No group open: the group's layers are the present one.                   *)
LEMMA NoneFound == \A e : FoundBy(<<>>, e) = <<>>
<1>1. DOMAIN <<>> = {}  OBVIOUS
<1>. QED  BY <1>1 DEF FoundBy

LEMMA UndoOnLine ==
    ASSUME TInv, HInv, TInv', HInv', Stood, Undo
    PROVE  Carries
<1>1. CASE Open \/ undo = <<>>
  <2>1. PICK why \in {"group_open", "empty"} : Refused(why)  BY <1>1 DEF Undo
  <2>. QED  BY <2>1, RefusedOnLine DEF Reasons
<1>2. CASE ~(Open \/ undo = <<>>)
  <2>1. PICK c, d, e : Stands(layer, undo, redo, group, c, d, e)  BY DEF Stood
  <2>. DEFINE applied == Apply(layer, Last(undo).txn)
              v == Append(redo, Turned(Last(undo), applied.inverse))
              o == OneLayer(applied.layer)
  <2>2. undo \in Seq(Step(Inverses)) /\ redo \in Seq(Step(Inverses)) /\ undo # <<>>
        /\ levels = <<>> /\ group = <<>>
    BY <1>2 DEF TInv, HoldsInverses, HInv, GroupOpen, Open
  <2>3. Meet(undo, redo, c, d, layer)
    <3>1. /\ Links(c, Len(undo), TxnsOf(undo)) /\ Links(d, Len(redo), TxnsOf(redo))
          /\ c[Len(undo)] = layer /\ d[Len(redo)] = layer
      BY <2>1, <2>2 DEF Stands
    <3>. QED  BY <2>2, <3>1 DEF Meet
  <2>11. Turns(undo, redo, c, d, layer, applied, v)
    <3>. HIDE DEF applied, v
    <3>1. applied = Apply(layer, Last(undo).txn)  BY DEF applied
    <3>2. v = Append(redo, Turned(Last(undo), applied.inverse))  BY DEF v
    <3>. QED  BY <2>2, <2>3, <3>1, <3>2, TurnLinks
  <2>. HIDE DEF v, applied
  <2>4. /\ applied.refused = "no" /\ applied.layer = Last(Below(c, Len(undo)))
        /\ applied.layer \in Trees
        /\ Links(c, Len(Front(undo)), TxnsOf(Front(undo)))
        /\ c[Len(Front(undo))] = applied.layer
        /\ Below(c, Len(undo)) # <<>>
        /\ Front(Below(c, Len(undo))) = Below(c, Len(Front(undo)))
    BY <2>11 DEF Turns
  <2>5. PICK f : /\ Links(f, Len(v), TxnsOf(v)) /\ f[Len(v)] = applied.layer
                 /\ Below(f, Len(v)) = Append(Below(d, Len(redo)), layer)
    BY <2>11 DEF Turns
  <2>6. /\ layer' = applied.layer /\ refused' = "no"
        /\ undo' = Front(undo) /\ redo' = v
        /\ UNCHANGED <<group, levels>>
    BY <1>2, <2>4 DEF Undo, Writes, applied, v
  <2>7. Links(o, 0, <<>>) /\ o[0] = applied.layer  BY <2>4, OneLinks
  <2>. HIDE DEF o
  <2>8. Stands(layer', undo', redo', group', c, f, o)
    BY <2>2, <2>4, <2>5, <2>6, <2>7 DEF Stands
  <2>9. Follow
    <3>. SUFFICES ASSUME line = View, line' = View'  PROVE Line!Undo
      BY DEF Follow, Line!Next
    <3>1. /\ line.past = Below(c, Len(undo)) /\ line.future = Below(d, Len(redo))
          /\ line.open = <<>>
      BY <2>1, <2>2, LineNow, NoneFound
    <3>2. /\ line'.past = Below(c, Len(undo')) /\ line'.future = Below(f, Len(redo'))
          /\ line'.open = <<>>
      BY <2>2, <2>6, <2>8, LineThen, NoneFound
    <3>3. /\ line'.past = Front(line.past) /\ line.past # <<>> /\ layer' = Last(line.past)
          /\ line'.future = Append(line.future, layer)
      BY <2>4, <2>5, <2>6, <3>1, <3>2
    <3>. QED
      BY <3>1, <3>2, <3>3 DEF Line!Undo, Line!Last, Line!Front, Last, Front
  <2>10. Stood'  BY <2>8, StoodThen
  <2>. QED  BY <2>6, <2>9, <2>10 DEF Carries
<1>. QED  BY <1>1, <1>2

LEMMA RedoOnLine ==
    ASSUME TInv, HInv, TInv', HInv', Stood, Redo
    PROVE  Carries
<1>1. CASE Open \/ redo = <<>>
  <2>1. PICK why \in {"group_open", "empty"} : Refused(why)  BY <1>1 DEF Redo
  <2>. QED  BY <2>1, RefusedOnLine DEF Reasons
<1>2. CASE ~(Open \/ redo = <<>>)
  <2>1. PICK c, d, e : Stands(layer, undo, redo, group, c, d, e)  BY DEF Stood
  <2>. DEFINE applied == Apply(layer, Last(redo).txn)
              v == Append(undo, Turned(Last(redo), applied.inverse))
              o == OneLayer(applied.layer)
  <2>2. undo \in Seq(Step(Inverses)) /\ redo \in Seq(Step(Inverses)) /\ redo # <<>>
        /\ levels = <<>> /\ group = <<>>
    BY <1>2 DEF TInv, HoldsInverses, HInv, GroupOpen, Open
  <2>3. Meet(redo, undo, d, c, layer)
    <3>1. /\ Links(c, Len(undo), TxnsOf(undo)) /\ Links(d, Len(redo), TxnsOf(redo))
          /\ c[Len(undo)] = layer /\ d[Len(redo)] = layer
      BY <2>1, <2>2 DEF Stands
    <3>. QED  BY <2>2, <3>1 DEF Meet
  <2>11. Turns(redo, undo, d, c, layer, applied, v)
    <3>. HIDE DEF applied, v
    <3>1. applied = Apply(layer, Last(redo).txn)  BY DEF applied
    <3>2. v = Append(undo, Turned(Last(redo), applied.inverse))  BY DEF v
    <3>. QED  BY <2>2, <2>3, <3>1, <3>2, TurnLinks
  <2>. HIDE DEF v, applied
  <2>4. /\ applied.refused = "no" /\ applied.layer = Last(Below(d, Len(redo)))
        /\ applied.layer \in Trees
        /\ Links(d, Len(Front(redo)), TxnsOf(Front(redo)))
        /\ d[Len(Front(redo))] = applied.layer
        /\ Below(d, Len(redo)) # <<>>
        /\ Front(Below(d, Len(redo))) = Below(d, Len(Front(redo)))
    BY <2>11 DEF Turns
  <2>5. PICK f : /\ Links(f, Len(v), TxnsOf(v)) /\ f[Len(v)] = applied.layer
                 /\ Below(f, Len(v)) = Append(Below(c, Len(undo)), layer)
    BY <2>11 DEF Turns
  <2>6. /\ layer' = applied.layer /\ refused' = "no"
        /\ redo' = Front(redo) /\ undo' = v
        /\ UNCHANGED <<group, levels>>
    BY <1>2, <2>4 DEF Redo, Writes, applied, v
  <2>7. Links(o, 0, <<>>) /\ o[0] = applied.layer  BY <2>4, OneLinks
  <2>. HIDE DEF o
  <2>8. Stands(layer', undo', redo', group', f, d, o)
    BY <2>2, <2>4, <2>5, <2>6, <2>7 DEF Stands
  <2>9. Follow
    <3>. SUFFICES ASSUME line = View, line' = View'  PROVE Line!Redo
      BY DEF Follow, Line!Next
    <3>1. /\ line.past = Below(c, Len(undo)) /\ line.future = Below(d, Len(redo))
          /\ line.open = <<>>
      BY <2>1, <2>2, LineNow, NoneFound
    <3>2. /\ line'.past = Below(f, Len(undo')) /\ line'.future = Below(d, Len(redo'))
          /\ line'.open = <<>>
      BY <2>2, <2>6, <2>8, LineThen, NoneFound
    <3>3. /\ line'.future = Front(line.future) /\ line.future # <<>>
          /\ layer' = Last(line.future) /\ line'.past = Append(line.past, layer)
      BY <2>4, <2>5, <2>6, <3>1, <3>2
    <3>. QED
      BY <3>1, <3>2, <3>3 DEF Line!Redo, Line!Last, Line!Front, Last, Front
  <2>10. Stood'  BY <2>8, StoodThen
  <2>. QED  BY <2>6, <2>9, <2>10 DEF Carries
<1>. QED  BY <1>1, <1>2

LEMMA ResetOnLine ==
    ASSUME TInv, HInv, TInv', HInv', Stood, Reset
    PROVE  Carries
<1>. DEFINE o == OneLayer(layer)
<1>1. /\ undo' = <<>> /\ redo' = <<>> /\ group' = <<>> /\ levels' = <<>>
      /\ refused' = "no" /\ layer' = layer
  BY DEF Reset
<1>2. /\ \A txns : Links(o, 0, txns)
      /\ o[0] = layer /\ Below(o, 0) = <<>> /\ Len(<<>>) = 0
  BY OneLinks DEF TInv
<1>. HIDE DEF o
<1>3. Stands(layer', undo', redo', group', o, o, o)  BY <1>1, <1>2 DEF Stands
<1>4. Follow
  <2>. SUFFICES ASSUME line = View, line' = View'  PROVE Line!Reset
    BY DEF Follow, Line!Next
  <2>1. /\ line'.past = Below(o, Len(undo')) /\ line'.future = Below(o, Len(redo'))
        /\ line'.open = FoundBy(levels', o)
    BY <1>3, LineThen
  <2>. QED  BY <1>1, <1>2, <2>1, NoneFound DEF Line!Reset
<1>5. Stood'  BY <1>3, StoodThen
<1>. QED  BY <1>1, <1>4, <1>5 DEF Carries

LEMMA BeginGroupOnLine ==
    ASSUME TInv, HInv, TInv', HInv', Stood, BeginGroup
    PROVE  Carries
<1>1. PICK c, d, e : Stands(layer, undo, redo, group, c, d, e)  BY DEF Stood
<1>2. /\ levels' = Append(levels, Len(group)) /\ refused' = "no"
      /\ UNCHANGED <<layer, undo, redo, group>>
  BY DEF BeginGroup
<1>3. Stands(layer', undo', redo', group', c, d, e)  BY <1>1, <1>2
<1>4. Follow
  <2>. SUFFICES ASSUME line = View, line' = View'  PROVE Line!Begin
    BY DEF Follow, Line!Next
  <2>1. /\ line.past = Below(c, Len(undo)) /\ line.future = Below(d, Len(redo))
        /\ line.open = FoundBy(levels, e)
    BY <1>1, LineNow
  <2>2. /\ line'.past = Below(c, Len(undo')) /\ line'.future = Below(d, Len(redo'))
        /\ line'.open = FoundBy(levels', e)
    BY <1>3, LineThen
  <2>3. FoundBy(Append(levels, Len(group)), e) = Append(FoundBy(levels, e), e[Len(group)])
    <3>. DEFINE n == Len(group)
    <3>1. levels \in Seq(Nat) /\ n \in Nat /\ \A i \in DOMAIN levels : levels[i] <= n
      BY DEF TInv, HoldsInverses, HInv, GroupOpen, Nested
    <3>2. Links(e, n, group)  BY <1>1 DEF Stands
    <3>. HIDE DEF n
    <3>3. FoundBy(Append(levels, n), e) = Append(FoundBy(levels, e), e[n])
      BY <3>1, <3>2, FoundBegins
    <3>. QED  BY <3>3 DEF n
  <2>4. e[Len(group)] = layer  BY <1>1 DEF Stands
  <2>5. line'.open = Append(line.open, layer)  BY <1>2, <2>1, <2>2, <2>3, <2>4
  <2>. QED  BY <1>2, <2>1, <2>2, <2>5 DEF Line!Begin
<1>5. Stood'  BY <1>3, StoodThen
<1>. QED  BY <1>2, <1>4, <1>5 DEF Carries

(* Closing the innermost level, as the line sees it.                        *)
LEMMA CloseOnLine ==
    ASSUME TInv, HInv, Open, NEW e, Links(e, Len(group), group)
    PROVE  /\ Last(levels) \in 0..Len(group)
           /\ FoundBy(Front(levels), e) = Front(FoundBy(levels, e))
           /\ FoundBy(levels, e) # <<>> /\ Last(FoundBy(levels, e)) = e[Last(levels)]
           /\ Len(FoundBy(levels, e)) = Len(levels) /\ Len(levels) \in Nat /\ Len(levels) >= 1
           /\ FoundBy(levels, e)[1] = e[0]
           /\ Len(levels) > 1 <=> Front(levels) # <<>>
           /\ levels \in Seq(Nat) /\ Front(levels) \in Seq(Nat)
           /\ \A i \in DOMAIN Front(levels) : Front(levels)[i] <= Last(levels)
<1>. DEFINE n == Len(group)
<1>1. /\ levels \in Seq(Nat) /\ levels # <<>> /\ n \in Nat /\ group \in Seq(Inverses)
      /\ \A i \in DOMAIN levels : levels[i] <= n
      /\ Nested(group, levels) /\ levels[1] = 0
  BY DEF TInv, HoldsInverses, HInv, GroupOpen, Nested, Open
<1>2. /\ Last(levels) \in 0..Len(group) /\ Front(levels) \in Seq(Nat)
      /\ Len(levels) > 1 <=> Front(levels) # <<>>
  BY <1>1, CloseNests
<1>3. /\ FoundBy(Front(levels), e) = Front(FoundBy(levels, e))
      /\ FoundBy(levels, e) # <<>> /\ Last(FoundBy(levels, e)) = e[Last(levels)]
  <2>. HIDE DEF n
  <2>1. Links(e, n, group)  BY DEF n
  <2>. QED  BY <1>1, <2>1, FoundCloses
<1>4. /\ Len(FoundBy(levels, e)) = Len(levels)
      /\ \A i \in 1..Len(levels) : FoundBy(levels, e)[i] = e[levels[i]]
  <2>. HIDE DEF n
  <2>1. Links(e, n, group)  BY DEF n
  <2>2. Len(FoundBy(levels, e)) = Len(levels)  BY <1>1, <2>1, FoundIs
  <2>3. \A i \in 1..Len(levels) : FoundBy(levels, e)[i] = e[levels[i]]
    BY <1>1, <2>1, FoundIs
  <2>. QED  BY <2>2, <2>3
<1>5. Len(levels) \in Nat /\ Len(levels) >= 1  BY <1>1
<1>6. FoundBy(levels, e)[1] = e[0]
  <2>1. 1 \in 1..Len(levels)  BY <1>5
  <2>. QED  BY <1>1, <1>4, <2>1
<1>7. \A i \in DOMAIN Front(levels) : Front(levels)[i] <= Last(levels)
  <2>. DEFINE k == Len(levels)
              f == Front(levels)
  <2>1. DOMAIN f = 1..(k - 1) /\ \A i \in 1..(k - 1) : f[i] = levels[i]
    BY <1>1, <1>5, FrontElements
  <2>2. Last(levels) = levels[k] /\ DOMAIN levels = 1..k /\ k \in Nat
    BY <1>1, <1>5 DEF Last
  <2>3. \A i \in 1..(k - 1) : i \in 1..k /\ k \in 1..k /\ i <= k  BY <2>2
  <2>4. \A i, j \in 1..k : i <= j => levels[i] <= levels[j]  BY <1>1, <2>2 DEF Nested
  <2>. HIDE DEF f, k
  <2>5. \A i \in DOMAIN f : f[i] <= Last(levels)  BY <2>1, <2>2, <2>3, <2>4
  <2>. QED  BY <2>5 DEF f
<1>. QED  BY <1>1, <1>2, <1>3, <1>4, <1>5, <1>6, <1>7

LEMMA AbandonGroupOnLine ==
    ASSUME TInv, HInv, TInv', HInv', Stood, AbandonGroup
    PROVE  Carries
<1>1. CASE ~Open
  <2>1. Refused("no_group")  BY <1>1 DEF AbandonGroup
  <2>. QED  BY <2>1, RefusedOnLine DEF Reasons
<1>2. CASE Open
  <2>1. PICK c, d, e : Stands(layer, undo, redo, group, c, d, e)  BY DEF Stood
  <2>. DEFINE start == Last(levels)
              n == Len(group)
              txn == Combine(SubSeq(group, start + 1, n))
              to == e[start]
              kept == SubSeq(group, 1, start)
  <2>2. /\ group \in Seq(Inverses) /\ n \in Nat /\ layer \in Trees
        /\ group # <<>> => redo = <<>>
    BY DEF TInv, HoldsInverses, HInv, GroupOpen
  <2>3. /\ Links(c, Len(undo), TxnsOf(undo)) /\ Links(d, Len(redo), TxnsOf(redo))
        /\ Links(e, n, group)
        /\ c[Len(undo)] = e[0] /\ d[Len(redo)] = layer /\ e[n] = layer
    BY <2>1 DEF Stands
  <2>4. start \in 0..n  BY <1>2, <2>3, CloseOnLine
  <2>5. FoundBy(Front(levels), e) = Front(FoundBy(levels, e))
    BY <1>2, <2>3, CloseOnLine
  <2>6. FoundBy(levels, e) # <<>> /\ Last(FoundBy(levels, e)) = to
    BY <1>2, <2>3, CloseOnLine
  <2>. HIDE DEF start
  <2>7. /\ txn \in Seq(RawEdits) /\ Leads(e[n], txn, to) /\ to \in Trees
    BY <2>2, <2>3, <2>4, InnerLeads
  <2>. HIDE DEF txn
  <2>8. Apply(layer, txn).refused = "no" /\ Apply(layer, txn).layer = to
    <3>1. layer \in Layers  BY <2>2 DEF Trees
    <3>2. Leads(layer, txn, to)  BY <2>3, <2>7
    <3>. QED  BY <2>7, <3>1, <3>2, LeadsIsApplied
  <2>9. /\ layer' = to /\ refused' = "no" /\ group' = kept /\ levels' = Front(levels)
        /\ UNCHANGED <<undo, redo>>
    BY <1>2, <2>8 DEF AbandonGroup, Writes, start, txn
  <2>10. Links(e, start, kept) /\ Len(kept) = start
    <3>1. start \in Nat /\ start <= n  BY <2>2, <2>4
    <3>2. Len(kept) = start /\ \A i \in 1..start : kept[i] = group[i]
      <4>1. start - 1 + 1 = start /\ (~(1 <= start) => start = 0) /\ 1 \in Int /\ start \in Int
            /\ (\A i \in 1..start : group[i] \in Inverses)
            /\ \A i \in 1..start : 1 + i - 1 = i
        BY <2>2, <3>1
      <4>. QED  BY <4>1, SubSeqProperties
    <3>. HIDE DEF n, kept
    <3>3. Links(e, start, kept)  BY <2>2, <2>3, <2>4, <3>2, LinksDown
    <3>. QED  BY <3>2, <3>3
  <2>. HIDE DEF kept
  <2>11. PICK f : /\ Links(f, Len(redo), TxnsOf(redo)) /\ f[Len(redo)] = to
                  /\ Below(f, Len(redo)) = Below(d, Len(redo))
    <3>1. CASE group = <<>>
      <4>1. start = n  BY <2>4, <3>1
      <4>. QED  BY <2>3, <4>1
    <3>2. CASE group # <<>>
      <4>1. redo = <<>> /\ Len(redo) = 0  BY <2>2, <3>2
      <4>2. 1..0 = {}  OBVIOUS
      <4>3. \A b : Below(b, 0) = <<>>  BY <4>2 DEF Below
      <4>. DEFINE o == OneLayer(to)
      <4>4. Links(o, 0, TxnsOf(redo)) /\ o[0] = to  BY <2>7, OneLinks
      <4>. HIDE DEF o
      <4>5. Below(o, 0) = Below(d, 0)  BY <4>3
      <4>. QED  BY <4>1, <4>4, <4>5
    <3>. QED  BY <3>1, <3>2
  <2>12. Stands(layer', undo', redo', group', c, f, e)
    BY <2>3, <2>9, <2>10, <2>11 DEF Stands
  <2>. HIDE DEF to, n
  <2>13. Follow
    <3>. SUFFICES ASSUME line = View, line' = View'  PROVE Line!Abandon
      BY DEF Follow, Line!Next
    <3>1. /\ line.past = Below(c, Len(undo)) /\ line.future = Below(d, Len(redo))
          /\ line.open = FoundBy(levels, e)
      BY <2>1, LineNow
    <3>2. /\ line'.past = Below(c, Len(undo')) /\ line'.future = Below(f, Len(redo'))
          /\ line'.open = FoundBy(levels', e)
      BY <2>12, LineThen
    <3>3. /\ line'.past = line.past /\ line'.future = line.future
          /\ line'.open = Front(line.open) /\ line.open # <<>> /\ layer' = Last(line.open)
      BY <2>5, <2>6, <2>9, <2>11, <3>1, <3>2
    <3>. QED  BY <3>3 DEF Line!Abandon, Line!Last, Line!Front, Last, Front
  <2>14. Stood'  BY <2>12, StoodThen
  <2>. QED  BY <2>9, <2>13, <2>14 DEF Carries
<1>. QED  BY <1>1, <1>2

(* A push, as the line sees it: `ahead` is how many steps are left to redo. *)
LEMMA PushOnLine ==
    ASSUME TInv, NEW inverse \in Inverses, Push(inverse), redo' \in Seq(Step(Inverses)),
           NEW c, Links(c, Len(undo), TxnsOf(undo)),
           NEW l \in Trees, Leads(l, inverse, c[Len(undo)])
    PROVE  \E t : /\ Links(t, Len(undo'), TxnsOf(undo')) /\ t[Len(undo')] = l
                  /\ Below(t, Len(undo')) =
                        ReachTo(Below(c, Len(undo)), c[Len(undo)], Len(redo'))
<1>. DEFINE step == [id |-> nextId, txn |-> inverse]
            ahead == Len(redo')
            u == undo
            v == undo'
<1>1. u \in Seq(Step(Inverses)) /\ step \in Step(Inverses) /\ step.txn = inverse
  BY DEF TInv, HoldsInverses, Counted, Step
<1>2. v = Capped(Append(u, step), ahead)  BY DEF Push, Capped
<1>3. ahead \in Nat  OBVIOUS
<1>4. Links(c, Len(u), TxnsOf(u)) /\ Leads(l, step.txn, c[Len(u)])  BY <1>1
<1>. HIDE DEF step, ahead, u, v
<1>5. LeadsThrough(v, l, ReachTo(Below(c, Len(u)), c[Len(u)], ahead))
  BY <1>1, <1>2, <1>3, <1>4, PushLinks
<1>. QED  BY <1>5 DEF LeadsThrough, ahead, v, u

LEMMA ReachingIs ==
    ASSUME NEW past, past = line.past, NEW from, NEW ahead
    PROVE  Line!Reaching(from, ahead) = ReachTo(past, from, Len(ahead))
BY DEF Line!Reaching, ReachTo

LEMMA EndGroupOnLine ==
    ASSUME TInv, HInv, TInv', HInv', Stood, EndGroup
    PROVE  Carries
<1>1. CASE ~Open
  <2>1. Refused("no_group")  BY <1>1 DEF EndGroup
  <2>. QED  BY <2>1, RefusedOnLine DEF Reasons
<1>2. CASE Open
  <2>1. PICK c, d, e : Stands(layer, undo, redo, group, c, d, e)  BY DEF Stood
  <2>2. /\ group \in Seq(Inverses) /\ layer \in Trees /\ redo \in Seq(Step(Inverses))
    BY DEF TInv, HoldsInverses
  <2>3. /\ Links(c, Len(undo), TxnsOf(undo)) /\ Links(d, Len(redo), TxnsOf(redo))
        /\ Links(e, Len(group), group)
        /\ c[Len(undo)] = e[0] /\ d[Len(redo)] = layer /\ e[Len(group)] = layer
    BY <2>1 DEF Stands
  <2>4. /\ FoundBy(Front(levels), e) = Front(FoundBy(levels, e))
        /\ FoundBy(levels, e) # <<>> /\ Len(FoundBy(levels, e)) = Len(levels)
        /\ Len(levels) \in Nat /\ Len(levels) >= 1 /\ FoundBy(levels, e)[1] = e[0]
        /\ (Len(levels) > 1 <=> Front(levels) # <<>>)
    BY <1>2, <2>3, CloseOnLine
  <2>5. /\ refused' = "no" /\ levels' = Front(levels)
        /\ UNCHANGED <<layer, redo>>
    BY <1>2 DEF EndGroup
  <2>6. line = View => /\ line.past = Below(c, Len(undo)) /\ line.future = Below(d, Len(redo))
                       /\ line.open = FoundBy(levels, e)
    BY <2>1, LineNow
  <2>7. CASE Len(levels) > 1 \/ group = <<>>
    <3>1. group' = group /\ undo' = undo
      BY <1>2, <2>7 DEF EndGroup
    <3>2. Stands(layer', undo', redo', group', c, d, e)  BY <2>1, <2>5, <3>1
    <3>3. Follow
      <4>. SUFFICES ASSUME line = View, line' = View'  PROVE Line!End
        BY DEF Follow, Line!Next
      <4>1. /\ line'.past = Below(c, Len(undo')) /\ line'.future = Below(d, Len(redo'))
            /\ line'.open = FoundBy(levels', e)
        BY <3>2, LineThen
      <4>2. Len(line.open) = 1 => layer = line.open[1]
        <5>. DEFINE f == FoundBy(levels, e)
        <5>3. line.open = f /\ Len(f) = Len(levels) /\ f[1] = e[0] /\ Len(levels) \in Nat
          BY <2>4, <2>6
        <5>. HIDE DEF f
        <5>1. CASE Len(levels) > 1
          <6>1. Len(levels) # 1  BY <2>4, <5>1
          <6>2. Len(line.open) # 1  BY <5>3, <6>1
          <6>. QED  BY <6>2
        <5>2. CASE group = <<>>
          <6>1. e[0] = layer  BY <2>3, <5>2
          <6>. QED  BY <5>3, <6>1
        <5>. QED  BY <2>7, <5>1, <5>2
      <4>3. /\ line.open # <<>> /\ line'.open = Front(line.open)
            /\ line'.past = line.past /\ line'.future = line.future
        BY <2>4, <2>5, <2>6, <3>1, <4>1
      <4>. QED  BY <2>5, <4>2, <4>3 DEF Line!End, Line!Front, Front
    <3>4. Stood'  BY <3>2, StoodThen
    <3>. QED  BY <2>5, <3>3, <3>4 DEF Carries
  <2>8. CASE ~(Len(levels) > 1 \/ group = <<>>)
    <3>1. group' = <<>> /\ Push(Combine(group))  BY <1>2, <2>8 DEF EndGroup
    <3>2. Combine(group) \in Inverses  BY <2>2, <2>8, CombineIs
    <3>3. Leads(layer, Combine(group), c[Len(undo)])
      <4>1. Leads(e[Len(group)], Combine(group), e[0])  BY <2>2, <2>3, CombineLeads
      <4>. QED  BY <2>3, <4>1
    <3>. DEFINE inverse == Combine(group)
    <3>. HIDE DEF inverse
    <3>4. PICK t : /\ Links(t, Len(undo'), TxnsOf(undo')) /\ t[Len(undo')] = layer
                   /\ Below(t, Len(undo')) =
                         ReachTo(Below(c, Len(undo)), c[Len(undo)], Len(redo'))
      <4>1. Push(inverse) /\ inverse \in Inverses /\ Leads(layer, inverse, c[Len(undo)])
        BY <3>1, <3>2, <3>3 DEF inverse
      <4>2. redo' \in Seq(Step(Inverses))  BY <2>2, <2>5
      <4>. QED  BY <2>2, <2>3, <4>1, <4>2, PushOnLine
    <3>. DEFINE o == OneLayer(layer)
    <3>5. Links(o, 0, <<>>) /\ o[0] = layer  BY <2>2, OneLinks
    <3>. HIDE DEF o
    <3>6. Stands(layer', undo', redo', group', t, d, o)
      BY <2>3, <2>5, <3>1, <3>4, <3>5 DEF Stands
    <3>7. Follow
      <4>. SUFFICES ASSUME line = View, line' = View'  PROVE Line!End
        BY DEF Follow, Line!Next
      <4>1. /\ line'.past = Below(t, Len(undo')) /\ line'.future = Below(d, Len(redo'))
            /\ line'.open = FoundBy(levels', o)
        BY <3>6, LineThen
      <4>2. Len(line.open) = 1 /\ line.open[1] = c[Len(undo)]
        <5>. DEFINE f == FoundBy(levels, e)
        <5>1. line.open = f /\ Len(f) = Len(levels) /\ f[1] = e[0]  BY <2>4, <2>6
        <5>2. Len(levels) = 1  BY <2>4, <2>8
        <5>. HIDE DEF f
        <5>. QED  BY <2>3, <5>1, <5>2
      <4>3. line.open # <<>> /\ line'.open = Front(line.open)
        <5>1. levels' = <<>> /\ line'.open = <<>>
          BY <2>4, <2>5, <2>8, <4>1, NoneFound
        <5>2. FoundBy(Front(levels), e) = <<>>  BY <2>5, <5>1, NoneFound
        <5>. QED  BY <2>4, <2>6, <5>1, <5>2
      <4>4. line'.past = Line!Reaching(line.open[1], line.future)
        <5>1. Line!Reaching(line.open[1], line.future)
                = ReachTo(line.past, line.open[1], Len(line.future))
          BY ReachingIs
        <5>2. Len(line.future) = Len(redo')
          <6>1. Len(redo) \in Nat  BY <2>2
          <6>2. Len(Below(d, Len(redo))) = Len(redo)  BY <2>3, <6>1, BelowIs
          <6>. QED  BY <2>5, <2>6, <6>2
        <5>. QED  BY <2>6, <3>4, <4>1, <4>2, <5>1, <5>2
      <4>5. line'.future = line.future  BY <2>5, <2>6, <4>1
      <4>. QED  BY <2>5, <4>2, <4>3, <4>4, <4>5 DEF Line!End, Line!Front, Front
    <3>8. Stood'  BY <3>6, StoodThen
    <3>. QED  BY <2>5, <3>7, <3>8 DEF Carries
  <2>. QED  BY <2>7, <2>8
<1>. QED  BY <1>1, <1>2

(* An edit recorded, over a group or not.                                   *)
LEMMA RecordOnLine ==
    ASSUME TInv, HInv, TInv', HInv', Stood, refused' = "no",
           NEW inverse \in Inverses, Record(inverse), Leads(layer', inverse, layer)
    PROVE  Carries
<1>1. PICK c, d, e : Stands(layer, undo, redo, group, c, d, e)  BY DEF Stood
<1>. DEFINE o == OneLayer(layer')
            n == Len(group)
<1>2. /\ group \in Seq(Inverses) /\ n \in Nat /\ layer' \in Trees /\ levels \in Seq(Nat)
      /\ (group # <<>> => Open) /\ \A i \in DOMAIN levels : levels[i] <= n
  BY DEF TInv, HoldsInverses, HInv, GroupOpen, Nested
<1>3. /\ Links(c, Len(undo), TxnsOf(undo)) /\ Links(e, n, group)
      /\ c[Len(undo)] = e[0] /\ e[n] = layer
  BY <1>1 DEF Stands
<1>4. redo' = <<>> /\ levels' = levels /\ Len(<<>>) = 0 /\ TxnsOf(<<>>) = <<>>
  <2>1. inverse # <<>>  BY InverseIsEdits
  <2>. QED  BY <2>1 DEF Record, TxnsOf
<1>5. /\ \A txns : Links(o, 0, txns)
      /\ o[0] = layer' /\ Below(o, 0) = <<>>
  BY <1>2, OneLinks
<1>6. line = View => /\ line.past = Below(c, Len(undo)) /\ line.open = FoundBy(levels, e)
  BY <1>1, LineNow
<1>. HIDE DEF o
<1>7. CASE Open
  <2>1. group' = Append(group, inverse) /\ undo' = undo
    BY <1>7, InverseIsEdits DEF Record
  <2>. DEFINE f == Topped(e, n, layer')
  <2>2. /\ Len(group') = n + 1 /\ group'[n + 1] = inverse
        /\ \A i \in 1..n : group'[i] = group[i]
    <3>. HIDE DEF n
    <3>1. n = Len(group)  BY DEF n
    <3>. QED  BY <1>2, <2>1, <3>1, AppendProperties
  <2>. HIDE DEF n
  <2>3. /\ Links(f, n + 1, group') /\ f[n + 1] = layer'
        /\ \A i \in 0..n : f[i] = e[i]
    <3>. DEFINE to == layer'
                g == group'
    <3>1. /\ Leads(to, g[n + 1], e[n]) /\ to \in Trees /\ n \in Nat /\ Links(e, n, group)
          /\ \A i \in 1..n : g[i] = group[i]
      BY <1>2, <1>3, <2>2
    <3>. HIDE DEF to, g
    <3>2. Links(Topped(e, n, to), n + 1, g)  BY <3>1, LinksUp
    <3>3. Topped(e, n, to)[n + 1] = to  BY <3>1, LinksUp
    <3>4. \A i \in 0..n : Topped(e, n, to)[i] = e[i]  BY <3>1, LinksUp
    <3>. QED  BY <3>2, <3>3, <3>4 DEF to, g
  <2>. HIDE DEF f
  <2>4. f[0] = e[0]
    <3>1. 0 \in 0..n  BY <1>2
    <3>. QED  BY <2>3, <3>1
  <2>5. Stands(layer', undo', redo', group', c, o, f)
    BY <1>3, <1>4, <1>5, <2>1, <2>2, <2>3, <2>4 DEF Stands
  <2>6. FoundBy(levels, f) = FoundBy(levels, e)  BY <1>2, <2>3, FoundAgrees
  <2>7. Follow
    <3>. SUFFICES ASSUME line = View, line' = View'  PROVE Line!Edit
      BY DEF Follow, Line!Next
    <3>1. /\ line'.past = Below(c, Len(undo')) /\ line'.future = Below(o, Len(redo'))
          /\ line'.open = FoundBy(levels', f)
      BY <2>5, LineThen
    <3>2. line.open # <<>>
      <4>1. Len(FoundBy(levels, e)) = Len(levels)  BY <1>2, <1>3, FoundIs
      <4>2. Len(levels) # 0  BY <1>2, <1>7 DEF Open
      <4>. QED  BY <1>4, <1>6, <4>1, <4>2
    <3>. QED  BY <1>4, <1>5, <1>6, <2>1, <2>6, <3>1, <3>2 DEF Line!Edit
  <2>8. Stood'  BY <2>5, StoodThen
  <2>. QED  BY <2>7, <2>8 DEF Carries
<1>8. CASE ~Open
  <2>1. Push(inverse) /\ group' = group /\ levels = <<>> /\ group = <<>>
    BY <1>2, <1>8, InverseIsEdits DEF Record, Open
  <2>2. c[Len(undo)] = layer  BY <1>3, <2>1 DEF n
  <2>3. Leads(layer', inverse, c[Len(undo)])  BY <2>2
  <2>4. PICK t : /\ Links(t, Len(undo'), TxnsOf(undo')) /\ t[Len(undo')] = layer'
                 /\ Below(t, Len(undo')) =
                       ReachTo(Below(c, Len(undo)), c[Len(undo)], Len(redo'))
    <3>1. redo' \in Seq(Step(Inverses))  BY DEF TInv, HoldsInverses
    <3>. DEFINE to == layer'
    <3>2. to \in Trees /\ Leads(to, inverse, c[Len(undo)])  BY <1>2, <2>3
    <3>. HIDE DEF to
    <3>3. \E t : /\ Links(t, Len(undo'), TxnsOf(undo')) /\ t[Len(undo')] = to
                 /\ Below(t, Len(undo')) =
                       ReachTo(Below(c, Len(undo)), c[Len(undo)], Len(redo'))
      BY <1>3, <2>1, <3>1, <3>2, PushOnLine
    <3>. QED  BY <3>3 DEF to
  <2>5. Stands(layer', undo', redo', group', t, o, o)
    BY <1>4, <1>5, <2>1, <2>4 DEF Stands
  <2>6. Follow
    <3>. SUFFICES ASSUME line = View, line' = View'  PROVE Line!Edit
      BY DEF Follow, Line!Next
    <3>1. /\ line'.past = Below(t, Len(undo')) /\ line'.future = Below(o, Len(redo'))
          /\ line'.open = FoundBy(levels', o)
      BY <2>5, LineThen
    <3>2. line.open = <<>> /\ line'.open = <<>>
      BY <1>4, <1>6, <2>1, <3>1, NoneFound
    <3>3. line'.past = Line!Reaching(layer, <<>>)
      <4>1. Line!Reaching(layer, <<>>) = ReachTo(line.past, layer, Len(<<>>))
        BY ReachingIs
      <4>. QED  BY <1>4, <1>6, <2>2, <2>4, <3>1, <4>1
    <3>4. line'.future = <<>>  BY <1>4, <1>5, <3>1
    <3>. QED  BY <3>2, <3>3, <3>4 DEF Line!Edit
  <2>7. Stood'  BY <2>5, StoodThen
  <2>. QED  BY <2>6, <2>7 DEF Carries
<1>. QED  BY <1>7, <1>8

LEMMA EditOnLine ==
    ASSUME TInv, HInv, TInv', HInv', Stood, NEW txn \in Transactions, Edit(txn)
    PROVE  Carries
<1>. DEFINE applied == Apply(layer, txn)
<1>1. txn \in Seq(Edits) /\ txn \in Txns  BY TransactionsAssumption, HostEdits
<1>2. layer \in Trees /\ layer \in Layers /\ Tree(layer)  BY DEF TInv, Trees
<1>3. layer' = applied.layer /\ refused' = applied.refused  BY DEF Edit, Writes
<1>4. /\ applied.refused \in {"no", "rejected"}
      /\ applied.refused # "no" => applied.layer = layer
      /\ applied.refused = "no" => Leads(applied.layer, applied.inverse, layer)
      /\ applied.refused = "no" => applied.inverse \in GrownEdits
  BY <1>1, <1>2, InverseLeadsBack, TxnIs
<1>5. CASE applied.refused # "no"
  <2>1. UNCHANGED history  BY <1>5 DEF Edit
  <2>2. UNCHANGED <<layer, undo, redo, group, levels>> /\ refused' # "stale"
    BY <1>3, <1>4, <1>5, <2>1 DEF history
  <2>. QED  BY <2>2, SameLine
<1>6. CASE applied.refused = "no"
  <2>1. Record(applied.inverse)  BY <1>6 DEF Edit
  <2>. DEFINE inverse == applied.inverse
  <2>2. Leads(layer', inverse, layer) /\ inverse \in GrownEdits /\ Record(inverse)
    BY <1>3, <1>4, <1>6, <2>1
  <2>. HIDE DEF inverse
  <2>3. CASE inverse = <<>>
    <3>1. Leads(layer', <<>>, layer)  BY <2>2, <2>3
    <3>. DEFINE to == layer'
    <3>2. to = layer
      <4>1. Leads(to, <<>>, layer)  BY <3>1
      <4>. HIDE DEF to
      <4>. QED  BY <4>1, LeadsNoOther
    <3>3. UNCHANGED <<undo, redo, group, levels>>  BY <2>2, <2>3 DEF Record
    <3>4. refused' # "stale"  BY <1>3, <1>6
    <3>. QED  BY <3>2, <3>3, <3>4, SameLine
  <2>4. CASE inverse # <<>>
    <3>1. inverse \in Inverses  BY <2>2, <2>4 DEF Inverses
    <3>. QED  BY <1>3, <1>6, <2>2, <3>1, RecordOnLine
  <2>. QED  BY <2>3, <2>4
<1>. QED  BY <1>5, <1>6

-----------------------------------------------------------------------------
(* Alone, the history leads through the layers of its line, and nothing it  *)
(* applies is stale.                                                        *)
AInv ==
    /\ alien \in Nat
    /\ Alone => Stood /\ refused # "stale"

LEMMA InitAInv == Init => AInv
<1>. SUFFICES ASSUME Init  PROVE AInv
  OBVIOUS
<1>1. /\ layer = EmptyLayer /\ undo = <<>> /\ redo = <<>> /\ group = <<>>
      /\ alien = 0 /\ refused = "no"
  BY DEF Init
<1>. DEFINE o == OneLayer(layer)
<1>2. (\A txns : Links(o, 0, txns)) /\ o[0] = layer /\ Len(<<>>) = 0
  <2>1. layer \in Trees  BY InitTInv DEF TInv
  <2>. QED  BY <2>1, OneLinks
<1>. HIDE DEF o
<1>3. Stands(layer, undo, redo, group, o, o, o)  BY <1>1, <1>2 DEF Stands
<1>4. Stood  BY <1>3 DEF Stood
<1>. QED  BY <1>1, <1>4 DEF AInv

(* Whoever becomes no longer alone stays so.                                *)
LEMMA NextIsAlone ==
    ASSUME AInv, [Next]_vars
    PROVE  alien' \in Nat /\ (Alone' => Alone)
<1>1. CASE UNCHANGED <<marks, alien>>  BY <1>1 DEF AInv, Alone
<1>2. ASSUME NEW txn \in Outside, OutsideEdit(txn)  PROVE alien' \in Nat /\ ~Alone'
  <2>1. alien' = alien + 1 /\ alien \in Nat  BY <1>2 DEF OutsideEdit, AInv
  <2>. QED  BY <2>1 DEF Alone
<1>3. CASE TakeMark
  <2>1. alien' = alien /\ marks' # {}  BY <1>3 DEF TakeMark
  <2>. QED  BY <2>1 DEF AInv, Alone
<1>4. ASSUME NEW txn \in Transactions, Edit(txn)  PROVE UNCHANGED <<marks, alien>>
  BY <1>4 DEF Edit
<1>5. BeginGroup \/ EndGroup \/ AbandonGroup \/ Undo \/ Redo \/ Reset \/ Unwind
        => UNCHANGED <<marks, alien>>
  BY DEF BeginGroup, EndGroup, AbandonGroup, Undo, Redo, Reset, Unwind, UnwindTo
<1>6. UNCHANGED vars => UNCHANGED <<marks, alien>>  BY DEF vars
<1>. QED  BY <1>1, <1>2, <1>3, <1>4, <1>5, <1>6 DEF Next

LEMMA NextOnLine ==
    ASSUME TInv, HInv, AInv, TInv', HInv', [Next]_vars, Alone'
    PROVE  Carries
<1>1. Alone /\ Stood /\ refused # "stale"  BY NextIsAlone DEF AInv
<1>2. ASSUME NEW txn \in Transactions, Edit(txn)  PROVE Carries
  BY <1>1, <1>2, EditOnLine
<1>3. ASSUME NEW txn \in Outside, OutsideEdit(txn)  PROVE Carries
  <2>1. alien' = alien + 1 /\ alien \in Nat /\ alien' = 0
    BY <1>3 DEF OutsideEdit, AInv, Alone
  <2>. QED  BY <2>1
<1>4. CASE BeginGroup  BY <1>1, <1>4, BeginGroupOnLine
<1>5. CASE EndGroup  BY <1>1, <1>5, EndGroupOnLine
<1>6. CASE AbandonGroup  BY <1>1, <1>6, AbandonGroupOnLine
<1>7. CASE Undo  BY <1>1, <1>7, UndoOnLine
<1>8. CASE Redo  BY <1>1, <1>8, RedoOnLine
<1>9. CASE Reset  BY <1>1, <1>9, ResetOnLine
<1>10. CASE TakeMark
  <2>1. marks' # {} /\ marks' = {}  BY <1>10 DEF TakeMark, Alone
  <2>. QED  BY <2>1
<1>11. CASE Unwind
  <2>1. marks # {}  BY <1>11 DEF Unwind
  <2>. QED  BY <1>1, <2>1 DEF Alone
<1>12. CASE UNCHANGED vars
  <2>1. UNCHANGED <<layer, undo, redo, group, levels>>  BY <1>12 DEF vars, history
  <2>2. refused' # "stale"
    <3>1. refused' = refused  BY <1>12 DEF vars, history
    <3>. QED  BY <1>1, <3>1
  <2>3. Stood  BY <1>1
  <2>. QED  BY <2>1, <2>2, <2>3, SameLine
<1>13. CASE Next
  BY <1>2, <1>3, <1>4, <1>5, <1>6, <1>7, <1>8, <1>9, <1>10, <1>11, <1>13 DEF Next
<1>. QED  BY <1>12, <1>13

LEMMA NextAInv ==
    ASSUME TInv, HInv, AInv, [Next]_vars
    PROVE  /\ TInv' /\ HInv' /\ AInv'
           /\ Alone' => Follow
<1>1. TInv' /\ HInv'  BY NextTypes, NextHInv
<1>2. alien' \in Nat  BY NextIsAlone
<1>3. Alone' => Stood' /\ refused' # "stale" /\ Follow
  BY <1>1, NextOnLine DEF Carries
<1>. QED  BY <1>1, <1>2, <1>3 DEF AInv

(* While the host has a mark to unwind to or somebody else edited, nothing  *)
(* is promised; without marks only the second can be.                       *)
Unmarked == marks = {}

LEMMA NoMarks ==
    ASSUME ~MayUnwind
    PROVE  Spec => []Unmarked
<1>1. Init => Unmarked  BY DEF Init, Unmarked
<1>2. Unmarked /\ [Next]_vars => Unmarked'
  <2>. SUFFICES ASSUME marks = {}, [Next]_vars  PROVE marks' = {}
    BY DEF Unmarked
  <2>1. ~TakeMark /\ ~Unwind  BY DEF TakeMark, Unwind, UnwindTo
  <2>. QED
    BY <2>1 DEF Next, vars, Edit, OutsideEdit, BeginGroup, EndGroup, AbandonGroup, Undo,
                Redo, Reset
<1>. QED  BY <1>1, <1>2, PTL DEF Spec

(* Without marks to unwind to, a step is stale only because of an edit the  *)
(* history did not record, as HistoryError::Stale says: every inverse on    *)
(* the stacks or in the group fits the layer it is applied to, because each *)
(* leads exactly from the layer its transaction left to the one before.     *)
(* (Unwinding leaves redo steps that do not: mark, edit a slot twice, undo   *)
(* the second edit, unwind to the mark, redo.)                             *)
THEOREM StaleNeedsOutsideEdit ==
    ASSUME ~MayUnwind
    PROVE  Spec => []StaleMeansOutsideEdit
<1>1. Init => TInv /\ HInv /\ AInv  BY InitTInv, InitHInv, InitAInv
<1>2. TInv /\ HInv /\ AInv /\ [Next]_vars => (TInv /\ HInv /\ AInv)'  BY NextAInv
<1>3. AInv /\ Unmarked => StaleMeansOutsideEdit
  <2>. SUFFICES ASSUME AInv, marks = {}, refused = "stale"  PROVE alien > 0
    BY DEF StaleMeansOutsideEdit, Unmarked
  <2>1. alien \in Nat /\ alien # 0  BY DEF AInv, Alone
  <2>. QED  BY <2>1
<1>. QED  BY <1>1, <1>2, <1>3, NoMarks, PTL DEF Spec

-----------------------------------------------------------------------------
(* With the line beside it. *)
LInv == TInv /\ HInv /\ AInv /\ (Alone => line = View)

LEMMA InitLine == LineInit => LInv /\ Line!Init
<1>. SUFFICES ASSUME LineInit  PROVE LInv /\ Line!Init
  OBVIOUS
<1>1. Init /\ line = View  BY DEF LineInit
<1>2. TInv /\ HInv /\ AInv  BY <1>1, InitTInv, InitHInv, InitAInv
<1>3. Line!Init
  <2>1. undo = <<>> /\ redo = <<>> /\ levels = <<>> /\ Alone /\ Len(<<>>) = 0
    BY <1>1 DEF Init, Alone
  <2>2. PICK c, d, e : Stands(layer, undo, redo, group, c, d, e)
    BY <1>2, <2>1 DEF AInv, Stood
  <2>3. /\ line.past = Below(c, Len(undo)) /\ line.future = Below(d, Len(redo))
        /\ line.open = FoundBy(levels, e)
    BY <1>1, <1>2, <2>2, LineNow
  <2>4. \A b : Below(b, 0) = <<>>
    <3>1. 1..0 = {}  OBVIOUS
    <3>. QED  BY <3>1 DEF Below
  <2>. QED  BY <2>1, <2>3, <2>4, NoneFound DEF Line!Init
<1>. QED  BY <1>1, <1>2, <1>3 DEF LInv

LEMMA NextLine ==
    ASSUME LInv, [LineNext]_<<vars, line>>
    PROVE  LInv' /\ [Alone' => [Line!Next]_(Line!vars)]_<<vars, line>>
<1>1. TInv /\ HInv /\ AInv /\ (Alone => line = View)  BY DEF LInv
<1>2. CASE LineNext
  <2>1. [Next]_vars /\ (Alone' => line' = View')  BY <1>2 DEF LineNext
  <2>2. TInv' /\ HInv' /\ AInv'  BY <1>1, <2>1, NextAInv
  <2>3. LInv'  BY <2>1, <2>2 DEF LInv
  <2>4. Alone' => [Line!Next]_(Line!vars)
    <3>. SUFFICES ASSUME Alone'  PROVE [Line!Next]_(Line!vars)
      OBVIOUS
    <3>1. Follow  BY <1>1, <2>1, NextAInv
    <3>2. line = View /\ line' = View'  BY <1>1, <2>1, NextIsAlone
    <3>. QED  BY <3>1, <3>2 DEF Follow
  <2>. QED  BY <2>3, <2>4
<1>3. CASE UNCHANGED <<vars, line>>
  <2>1. UNCHANGED vars /\ UNCHANGED line  BY <1>3
  <2>2. TInv' /\ HInv' /\ AInv'  BY <1>1, <2>1, NextAInv
  <2>3. View' = View
    <3>1. UNCHANGED <<layer, undo, redo, group, levels>>  BY <2>1 DEF vars, history
    <3>. QED  BY <3>1, ViewIs
  <2>4. Alone' => Alone  BY <1>1, <2>1, NextIsAlone
  <2>5. LInv'  BY <1>1, <2>1, <2>2, <2>3, <2>4 DEF LInv
  <2>. QED  BY <1>3, <2>5
<1>. QED  BY <1>2, <1>3

(* A host that makes every edit itself, and takes no mark, never sees a     *)
(* stale step, however it groups, undoes, redoes and abandons.              *)
THEOREM NothingIsStaleAlone == LineSpec => []NothingStaleAlone
<1>1. LineInit => LInv  BY InitLine
<1>2. LInv /\ [LineNext]_<<vars, line>> => LInv'  BY NextLine
<1>3. LInv => NothingStaleAlone  BY DEF LInv, AInv, NothingStaleAlone
<1>. QED  BY <1>1, <1>2, <1>3, PTL DEF LineSpec

(* The history implements LinearHistory to such a host: every step of it is *)
(* a step, or none, of a line of whole layers that undo and redo move       *)
(* along, for any transactions, paths, limit and nesting of groups.         *)
THEOREM HistoryIsALine == LineSpec => IsLinear
<1>1. LineInit => LInv /\ Line!Init  BY InitLine
<1>2. LInv /\ [LineNext]_<<vars, line>> =>
        LInv' /\ [Alone' => [Line!Next]_(Line!vars)]_<<vars, line>>
  BY NextLine
<1>. QED  BY <1>1, <1>2, PTL DEF LineSpec, IsLinear

-----------------------------------------------------------------------------
(* What an inverse takes from a slot is what its transaction left there.    *)

(* Whether a storage step writes to what the slot holds, and what it leaves *)
(* there.  A list of children is no slot of its own: a name is listed       *)
(* exactly if its prim is there (TreeIntact).                               *)
Touches(step, s) ==
    \/ step.slot = "prim" /\ s[2] = step.at
    \/ step.slot = "field" /\ s[1] = "field" /\ s[2] = step.at

Brought(step, s) ==
    IF step.slot = "field" THEN step.to
    ELSE IF s[1] = "prim" THEN step.to # None
    ELSE IF step.to = None THEN None
    ELSE step.to.field

LEMMA WrittenContent ==
    ASSUME NEW l \in Layers, NEW step \in StorageSteps, Applicable(l, step), NEW s \in Slots
    PROVE  Content(Written(l, step), s) =
                IF Touches(step, s) THEN Brought(step, s) ELSE Content(l, s)
<1>. DEFINE w == Written(l, step)
            p == s[2]
<1>1. s[1] \in {"prim", "field"}  BY DEF Slots
<1>2. CASE step \in PrimSteps
  <2>1. step.slot = "prim" /\ step.to \in Specs \cup {None}  BY <1>2 DEF PrimSteps
  <2>2. CASE step.to = None
    <3>1. w = [q \in DOMAIN l \ {step.at} |-> l[q]]  BY <1>2, <2>2, PrimWritten
    <3>. HIDE DEF w
    <3>2. /\ Has(w, p) <=> Has(l, p) /\ p # step.at
          /\ p # step.at => FieldAt(w, p) = FieldAt(l, p)
          /\ p = step.at => FieldAt(w, p) = None
      BY <3>1 DEF Has, FieldAt
    <3>. QED  BY <1>1, <2>1, <2>2, <3>2 DEF Content, Touches, Brought, Has, w
  <2>3. CASE step.to # None
    <3>1. w = [q \in DOMAIN l \cup {step.at} |-> IF q = step.at THEN step.to ELSE l[q]]
      BY <1>2, <2>3, PrimWritten
    <3>. HIDE DEF w
    <3>2. /\ Has(w, p) <=> Has(l, p) \/ p = step.at
          /\ p # step.at => FieldAt(w, p) = FieldAt(l, p)
          /\ p = step.at => FieldAt(w, p) = step.to.field
      BY <3>1 DEF Has, FieldAt
    <3>. QED  BY <1>1, <2>1, <2>3, <3>2 DEF Content, Touches, Brought, Has, w
  <2>. QED  BY <2>2, <2>3
<1>3. CASE step \in FieldSteps
  <2>1. step.slot = "field" /\ Has(l, step.at)  BY <1>3 DEF FieldSteps, Applicable
  <2>2. w = [q \in DOMAIN l |->
                IF q = step.at THEN [children |-> l[q].children, field |-> step.to] ELSE l[q]]
    BY <1>3, <2>1, FieldWritten
  <2>. HIDE DEF w
  <2>3. /\ DOMAIN w = DOMAIN l
        /\ \A q \in DOMAIN l : q # step.at => w[q] = l[q]
        /\ w[step.at] = [children |-> l[step.at].children, field |-> step.to]
    BY <2>1, <2>2 DEF Has
  <2>4. w[step.at].field = step.to  BY <2>3
  <2>5. /\ Has(w, p) <=> Has(l, p)
        /\ p # step.at => FieldAt(w, p) = FieldAt(l, p)
        /\ p = step.at => FieldAt(w, p) = step.to
    BY <2>1, <2>3, <2>4 DEF Has, FieldAt
  <2>. QED  BY <1>1, <2>1, <2>5 DEF Content, Touches, Brought, Has, w
<1>4. CASE step \in ChildSteps
  <2>1. step.slot = "child" /\ Has(l, step.at)  BY <1>4 DEF ChildSteps, Applicable
  <2>2. step.to = None => Lists(l, step.at, step.name)  BY <2>1 DEF Applicable
  <2>3. w = [q \in DOMAIN l |->
                IF q = step.at
                THEN [children |-> Listed(l[q].children, step), field |-> l[q].field]
                ELSE l[q]]
    BY <1>4, <2>1, <2>2, ChildWritten
  <2>. HIDE DEF w
  <2>4. /\ DOMAIN w = DOMAIN l
        /\ \A q \in DOMAIN l : q # step.at => w[q] = l[q]
        /\ w[step.at] = [children |-> Listed(l[step.at].children, step),
                         field |-> l[step.at].field]
    BY <2>1, <2>3 DEF Has
  <2>5. w[step.at].field = l[step.at].field  BY <2>4
  <2>6. (Has(w, p) <=> Has(l, p)) /\ FieldAt(w, p) = FieldAt(l, p)
    BY <2>1, <2>4, <2>5 DEF Has, FieldAt
  <2>. QED  BY <1>1, <2>1, <2>6 DEF Content, Touches, Has, w
<1>. QED  BY <1>2, <1>3, <1>4, KindsOfSteps

(* The step undoing one leaves in its slot what the slot held.              *)
LEMMA UndoingContent ==
    ASSUME NEW l \in Layers, NEW step \in StorageSteps, Applicable(l, step), NEW s \in Slots
    PROVE  /\ Touches(Undoing(l, step), s) <=> Touches(step, s)
           /\ Touches(step, s) => Content(l, s) = Brought(Undoing(l, step), s)
<1>. DEFINE u == Undoing(l, step)
            p == s[2]
<1>1. s[1] \in {"prim", "field"}  BY DEF Slots
<1>2. u = [slot |-> step.slot, at |-> step.at, name |-> step.name, to |-> Held(l, step)]
  BY UndoingIsAStep
<1>. HIDE DEF u
<1>3. u.slot = step.slot /\ u.at = step.at /\ u.to = Held(l, step)  BY <1>2
<1>4. Touches(u, s) <=> Touches(step, s)  BY <1>3 DEF Touches
<1>5. ASSUME Touches(step, s)  PROVE Content(l, s) = Brought(u, s)
  <2>1. p = step.at  BY <1>5 DEF Touches
  <2>2. CASE step.slot = "prim"
    <3>1. u.to = SpecAt(l, p)  BY <1>3, <2>1, <2>2 DEF Held
    <3>2. Has(l, p) => l[p] # None
      <4>1. \A q \in DOMAIN l : l[q] \in Specs  BY LayerFacts
      <4>. QED  BY <4>1, SpecsAreNotNone DEF Has
    <3>3. Has(l, p) <=> u.to # None  BY <3>1, <3>2 DEF SpecAt
    <3>4. FieldAt(l, p) = IF u.to = None THEN None ELSE u.to.field
      BY <3>1, <3>3 DEF SpecAt, FieldAt
    <3>. QED  BY <1>1, <1>3, <2>2, <3>3, <3>4 DEF Content, Brought, Has
  <2>3. CASE step.slot = "field"
    <3>1. s[1] = "field"  BY <1>5, <2>3 DEF Touches
    <3>2. u.to = FieldAt(l, p)  BY <1>3, <2>1, <2>3 DEF Held
    <3>. QED  BY <1>3, <2>3, <3>1, <3>2 DEF Content, Brought
  <2>. QED  BY <1>5, <2>2, <2>3 DEF Touches
<1>. QED  BY <1>4, <1>5 DEF u

(* A step did something on the way from a to b, and undoing it is allowed   *)
(* from x to y: in each slot, neither did anything, or the second found     *)
(* what the first left, and left what the first found.                      *)
Undoes(a, b, x, y, s) ==
    \/ Content(b, s) = Content(a, s) /\ Content(y, s) = Content(x, s)
    \/ Content(x, s) = Content(b, s) /\ Content(y, s) = Content(a, s)

LEMMA StepUndoes ==
    ASSUME NEW a \in Layers, NEW b, NEW x \in Layers, NEW y, NEW g \in Guards,
           Did(a, b, g), Reverts(x, y, g), NEW s \in Slots
    PROVE  Undoes(a, b, x, y, s)
<1>. DEFINE d == g.written
            u == g.step
            v == Undoing(x, u)
<1>1. /\ d \in StorageSteps /\ Applicable(a, d) /\ b = Written(a, d) /\ u = Undoing(a, d)
      /\ u \in StorageSteps /\ Applicable(x, u) /\ y = Written(x, u)
      /\ SameState(v, d)
  BY DEF Did, Reverts, Guards
<1>. HIDE DEF d, u
<1>2. Content(b, s) = IF Touches(d, s) THEN Brought(d, s) ELSE Content(a, s)
  BY <1>1, WrittenContent
<1>3. Content(y, s) = IF Touches(u, s) THEN Brought(u, s) ELSE Content(x, s)
  BY <1>1, WrittenContent
<1>4. /\ Touches(u, s) <=> Touches(d, s)
      /\ Touches(d, s) => Content(a, s) = Brought(u, s)
  BY <1>1, UndoingContent
<1>5. Touches(u, s) => Content(x, s) = Brought(v, s)
  BY <1>1, UndoingContent
<1>. HIDE DEF v
<1>6. Touches(d, s) => Brought(v, s) = Brought(d, s)
  <2>. SUFFICES ASSUME Touches(d, s)  PROVE Brought(v, s) = Brought(d, s)
    OBVIOUS
  <2>1. d.slot # "child"  BY DEF Touches
  <2>2. v.slot = d.slot  BY <1>1 DEF SameState
  <2>3. v.to = d.to  BY <1>1, <2>1, <2>2 DEF SameState
  <2>. QED  BY <2>2, <2>3 DEF Brought
<1>. QED  BY <1>2, <1>3, <1>4, <1>5, <1>6 DEF Undoes

(* A raw transaction that is applied leads to what it leaves.               *)
LEMMA AppliedLeads ==
    ASSUME NEW l \in Layers, NEW txn \in Seq(RawEdits), Apply(l, txn).refused = "no"
    PROVE  Leads(l, txn, Apply(l, txn).layer)
<1>. DEFINE n == Len(txn)
<1>1. /\ n \in Nat
      /\ \A i \in 1..n : txn[i].edit = "raw" /\ txn[i].guarded \in Guards
  BY GuardsOfIs
<1>2. txn \in Seq(AllEdits)
  <2>1. RawEdits \subseteq AllEdits  BY DEF AllEdits
  <2>. QED  BY <2>1, WiderSeq
<1>3. PICK at : Applying(at, l, txn)  BY <1>2, ApplyingIs
<1>4. /\ at[0] = Opened(l) /\ (\A i \in 1..n : at[i] = ApplyOp(at[i - 1], txn[i]))
      /\ (\A i \in 0..n : at[i] \in Journals)
      /\ Apply(l, txn) = Settle(at[n])
  BY <1>3 DEF Applying, JournalsOver
<1>5. at[n].refused = "no" /\ Apply(l, txn).layer = at[n].layer
  BY <1>4 DEF Settle
<1>6. ASSUME NEW i \in 1..n, at[i].refused = "no"
      PROVE  /\ at[i - 1].refused = "no"
             /\ Reverts(at[i - 1].layer, at[i].layer, txn[i].guarded)
  <2>. DEFINE j == at[i - 1]
              g == txn[i].guarded
  <2>1. i - 1 \in 0..n  BY <1>1
  <2>2. j \in Journals /\ g \in Guards /\ at[i] = ApplyOp(j, txn[i]) /\ txn[i].edit = "raw"
    BY <1>1, <1>4, <2>1
  <2>3. j.refused = "no"
    <3>. SUFFICES ASSUME j.refused # "no"  PROVE FALSE
      OBVIOUS
    <3>1. at[i] = j  BY <2>2, RawOpIs
    <3>. QED  BY <1>6, <3>1
  <2>4. at[i] = RunGuarded(j, g)  BY <2>2, <2>3, RawOpIs
  <2>. HIDE DEF j, g
  <2>5. RunGuarded(j, g).refused = "no"  BY <1>6, <2>4
  <2>6. Reverts(j.layer, RunGuarded(j, g).layer, g)  BY <2>2, <2>5, RunGuardedIs
  <2>7. Reverts(j.layer, at[i].layer, g)  BY <2>4, <2>6
  <2>. QED  BY <2>3, <2>7 DEF j, g
<1>. DEFINE S == {i \in 0..n : at[n - i].refused = "no"}
<1>7. \A i \in 0..n : i \in S
  <2>1. 0 \in S
    <3>1. n - 0 = n /\ 0 \in 0..n  BY <1>1
    <3>. QED  BY <1>5, <3>1
  <2>2. ASSUME NEW i \in 1..n, i - 1 \in S  PROVE i \in S
    <3>1. PICK k \in 1..n : k = n - (i - 1) /\ k - 1 = n - i
      <4>1. n - (i - 1) \in 1..n /\ n - (i - 1) - 1 = n - i  BY <1>1
      <4>. QED  BY <4>1
    <3>2. at[k].refused = "no" /\ i \in 0..n  BY <1>1, <2>2, <3>1
    <3>3. at[k - 1].refused = "no"  BY <1>6, <3>2
    <3>. QED  BY <3>1, <3>2, <3>3
  <2>. HIDE DEF S
  <2>3. n \in Nat  BY <1>1
  <2>. QED  BY <2>1, <2>2, <2>3, Upwards
<1>8. \A i \in 0..n : at[i].refused = "no"
  <2>. TAKE i \in 0..n
  <2>1. PICK k \in 0..n : n - k = i
    <3>1. n - i \in 0..n /\ n - (n - i) = i  BY <1>1
    <3>. QED  BY <3>1
  <2>2. at[n - k].refused = "no"  BY <1>7
  <2>. QED  BY <2>1, <2>2
<1>. DEFINE to == [i \in 0..n |-> at[i].layer]
<1>9. \A i \in 0..n : to[i] \in Layers /\ to[i] = at[i].layer
  BY <1>4, JournalFacts
<1>10. ASSUME NEW i \in 1..n  PROVE Reverts(to[i - 1], to[i], txn[i].guarded)
  <2>1. PICK k \in 0..n : k = i - 1
    <3>1. i - 1 \in 0..n  BY <1>1
    <3>. QED  BY <3>1
  <2>2. i \in 0..n  BY <1>1
  <2>3. Reverts(at[i - 1].layer, at[i].layer, txn[i].guarded)  BY <1>6, <1>8, <2>2
  <2>. HIDE DEF to
  <2>. QED  BY <1>9, <2>1, <2>2, <2>3
<1>11. to[0] = l /\ to[n] = Apply(l, txn).layer
  <2>1. 0 \in 0..n /\ n \in 0..n  BY <1>1
  <2>. HIDE DEF to
  <2>. QED  BY <1>4, <1>5, <1>9, <2>1 DEF Opened
<1>. HIDE DEF to
<1>12. Along(to, txn)  BY <1>9, <1>10 DEF Along
<1>. QED  BY <1>11, <1>12 DEF Leads

(* One transaction and then another: there is a layer between them.         *)
LEMMA LeadsApart ==
    ASSUME NEW k, NEW m, NEW x \in Seq(RawEdits), NEW y \in Seq(RawEdits),
           Leads(k, x \o y, m)
    PROVE  \E l : Leads(k, x, l) /\ Leads(l, y, m)
<1>. DEFINE z == x \o y
            n == Len(x)
            o == Len(y)
<1>1. PICK at : Along(at, z) /\ at[0] = k /\ at[Len(z)] = m  BY DEF Leads
<1>2. /\ Len(z) = n + o /\ n \in Nat /\ o \in Nat
      /\ \A i \in 1..n : z[i] = x[i]
      /\ \A i \in 1..o : z[n + i] = y[i]
  BY ConcatIs
<1>3. /\ \A i \in 0..(n + o) : at[i] \in Layers
      /\ \A i \in 1..(n + o) : Reverts(at[i - 1], at[i], z[i].guarded)
  BY <1>1, <1>2 DEF Along
<1>. HIDE DEF z
<1>4. Leads(k, x, at[n])
  <2>1. \A i \in 0..n : i \in 0..(n + o)  BY <1>2
  <2>2. \A i \in 1..n : i \in 1..(n + o)  BY <1>2
  <2>3. Along(at, x)  BY <1>2, <1>3, <2>1, <2>2 DEF Along
  <2>. QED  BY <1>1, <2>3 DEF Leads
<1>5. Leads(at[n], y, m)
  <2>. DEFINE bt == [i \in 0..o |-> at[n + i]]
  <2>1. \A i \in 0..o : n + i \in 0..(n + o) /\ bt[i] = at[n + i]  BY <1>2
  <2>. HIDE DEF bt
  <2>2. \A i \in 0..o : bt[i] \in Layers  BY <1>3, <2>1
  <2>3. ASSUME NEW i \in 1..o  PROVE Reverts(bt[i - 1], bt[i], y[i].guarded)
    <3>1. PICK h \in 1..(n + o) : h = n + i /\ h - 1 = n + (i - 1)
      <4>1. n + i \in 1..(n + o) /\ n + i - 1 = n + (i - 1)  BY <1>2
      <4>. QED  BY <4>1
    <3>2. i - 1 \in 0..o /\ i \in 0..o  BY <1>2
    <3>3. bt[i - 1] = at[h - 1]  BY <2>1, <3>1, <3>2
    <3>4. bt[i] = at[h]  BY <2>1, <3>1, <3>2
    <3>5. z[h] = y[i]  BY <1>2, <3>1
    <3>6. Reverts(at[h - 1], at[h], z[h].guarded)  BY <1>3
    <3>. QED  BY <3>3, <3>4, <3>5, <3>6
  <2>4. bt[0] = at[n] /\ bt[o] = m
    <3>1. 0 \in 0..o /\ o \in 0..o /\ n + 0 = n  BY <1>2
    <3>2. bt[0] = at[n + 0]  BY <2>1, <3>1
    <3>3. bt[o] = at[n + o]  BY <2>1, <3>1
    <3>4. at[n + o] = m  BY <1>1, <1>2
    <3>. QED  BY <3>1, <3>2, <3>3, <3>4
  <2>5. Along(bt, y)  BY <2>2, <2>3 DEF Along
  <2>. QED  BY <2>4, <2>5 DEF Leads
<1>. QED  BY <1>4, <1>5

(* The same of whole transactions: where the inverse of one that led from l *)
(* to a journal's layer is allowed, from x to y, wherever that is.          *)
LEMMA InverseUndoes ==
    ASSUME NEW l, NEW j \in JournalsOver(l), NEW x, NEW y,
           Leads(x, Reverse([i \in DOMAIN j.steps |-> Raw(j.steps[i])]), y), NEW s \in Slots
    PROVE  \/ Content(y, s) = Content(x, s)
           \/ Content(x, s) = Content(j.layer, s) /\ Content(y, s) = Content(l, s)
<1>. DEFINE n == Len(j.steps)
            raws == [i \in DOMAIN j.steps |-> Raw(j.steps[i])]
            txn == Reverse(raws)
<1>1. j.steps \in Seq(Guards) /\ n \in Nat /\ DOMAIN j.steps = 1..n
  BY JournalFacts DEF JournalsOver
<1>2. PICK at : WentThrough(at, l, j)  BY DEF JournalsOver
<1>3. /\ \A i \in 0..n : at[i] \in Layers
      /\ at[0] = l /\ at[n] = j.layer
      /\ \A i \in 1..n : Did(at[i - 1], at[i], j.steps[i])
  BY <1>2 DEF WentThrough
<1>4. /\ raws \in Seq(RawEdits) /\ Len(raws) = n
      /\ \A i \in 1..n : raws[i].guarded = j.steps[i]
  BY <1>1 DEF Raw, RawEdits
<1>. HIDE DEF raws
<1>5. /\ Len(txn) = n
      /\ \A i \in 1..n : n - i + 1 \in 1..n /\ txn[i] = raws[n - i + 1]
  BY <1>4, ReverseIs
<1>6. PICK to : Along(to, txn) /\ to[0] = x /\ to[Len(txn)] = y
  BY DEF Leads, raws
<1>. HIDE DEF txn
<1>7. /\ \A i \in 0..n : to[i] \in Layers
      /\ \A i \in 1..n : Reverts(to[i - 1], to[i], txn[i].guarded)
  BY <1>5, <1>6 DEF Along
<1>. DEFINE So(i) == Undoes(at[n - i], at[n], x, to[i], s)
            S == {i \in 0..n : So(i)}
<1>8. 0 \in S
  <2>1. n - 0 = n /\ 0 \in 0..n  BY <1>1
  <2>2. Undoes(at[n], at[n], x, x, s)  BY DEF Undoes
  <2>. QED  BY <1>6, <2>1, <2>2
<1>9. ASSUME NEW i \in 1..n, i - 1 \in S  PROVE i \in S
  <2>1. PICK k \in 1..n : k = n - (i - 1) /\ k = n - i + 1 /\ k - 1 = n - i
    <3>1. n - (i - 1) \in 1..n /\ n - (i - 1) = n - i + 1 /\ n - (i - 1) - 1 = n - i
      BY <1>1
    <3>. QED  BY <3>1
  <2>2. i \in 0..n /\ i - 1 \in 0..n /\ k \in 0..n /\ k - 1 \in 0..n  BY <1>1
  <2>. DEFINE a == at[k - 1]
              b == at[k]
              v == to[i - 1]
              w == to[i]
              g == j.steps[k]
  <2>3. g \in Guards /\ txn[i].guarded = g  BY <1>1, <1>4, <1>5, <2>1
  <2>4. Did(a, b, g) /\ Reverts(v, w, g)  BY <1>3, <1>7, <2>3
  <2>5. a \in Layers /\ v \in Layers  BY <1>3, <1>7, <2>2
  <2>6. Undoes(b, at[n], x, v, s)  BY <1>9, <2>1
  <2>. HIDE DEF a, b, v, w, g
  <2>7. Undoes(a, b, v, w, s)  BY <2>3, <2>4, <2>5, StepUndoes
  <2>8. Undoes(a, at[n], x, w, s)  BY <2>6, <2>7 DEF Undoes
  <2>. QED  BY <2>1, <2>2, <2>8 DEF a, w
<1>10. n \in S
  <2>. HIDE DEF S
  <2>1. n \in Nat /\ n \in 0..n  BY <1>1
  <2>2. \A i \in 0..n : i \in S  BY <1>8, <1>9, <2>1, Upwards
  <2>. QED  BY <2>1, <2>2
<1>11. Undoes(at[0], at[n], x, to[n], s)
  <2>1. n - n = 0  BY <1>1
  <2>. QED  BY <1>10, <2>1
<1>. QED  BY <1>3, <1>5, <1>6, <1>11 DEF Undoes

(* Inverses that only ever take what is among `own`.                        *)
Loses(l, m, own) ==
    \A s \in Slots : Content(m, s) # Content(l, s) => Content(l, s) \in own[s]

Owned(own) == {txn \in GrownEdits : \A l, m : Leads(l, txn, m) => Loses(l, m, own)}

LEMMA SameContent ==
    ASSUME NEW l, NEW m, SameButOrder(l, m), NEW s \in Slots
    PROVE  Content(m, s) = Content(l, s)
<1>1. DOMAIN l = DOMAIN m /\ \A p \in DOMAIN l : l[p].field = m[p].field
  BY DEF SameButOrder
<1>2. \A p : Has(m, p) = Has(l, p) /\ FieldAt(m, p) = FieldAt(l, p)
  BY <1>1 DEF Has, FieldAt
<1>. QED  BY <1>2 DEF Content

LEMMA OwnedMore ==
    ASSUME NEW own, NEW more, \A s \in Slots : own[s] \subseteq more[s]
    PROVE  Owned(own) \subseteq Owned(more)
<1>1. \A l, m : Loses(l, m, own) => Loses(l, m, more)  BY DEF Loses
<1>. QED  BY <1>1 DEF Owned

LEMMA OwnedNothing == \A own : <<>> \in Owned(own)
<1>. TAKE own
<1>1. \A l, m : Leads(l, <<>>, m) => l = m  BY LeadsNoOther
<1>2. \A l : Loses(l, l, own)  BY DEF Loses
<1>3. <<>> \in GrownEdits  BY GrownEditsJoin
<1>. QED  BY <1>1, <1>2, <1>3 DEF Owned

LEMMA OwnedJoin ==
    ASSUME NEW own, NEW x \in Owned(own), NEW y \in Owned(own)
    PROVE  x \o y \in Owned(own)
<1>1. x \in GrownEdits /\ y \in GrownEdits  BY DEF Owned
<1>2. x \o y \in GrownEdits  BY <1>1, GrownEditsJoin
<1>3. x \in Seq(RawEdits) /\ y \in Seq(RawEdits)  BY <1>1, GrownEditsJoin
<1>4. ASSUME NEW k, NEW m, Leads(k, x \o y, m)  PROVE Loses(k, m, own)
  <2>1. PICK l : Leads(k, x, l) /\ Leads(l, y, m)  BY <1>3, <1>4, LeadsApart
  <2>2. Loses(k, l, own) /\ Loses(l, m, own)  BY <2>1 DEF Owned
  <2>. QED  BY <2>2 DEF Loses
<1>. QED  BY <1>2, <1>4 DEF Owned

LEMMA OwnedCombine ==
    ASSUME NEW own, NEW inverses \in Seq(Inverses), inverses \in Seq(Owned(own))
    PROVE  Combine(inverses) \in Owned(own)
<1>. DEFINE back == Reverse(inverses)
            n == Len(inverses)
            m == n - 1
            O == Owned(own)
<1>1. n \in Nat /\ back \in Seq(Inverses) /\ Len(back) = n  BY ReverseIs
<1>2. back \in Seq(O)
  <2>. HIDE DEF O
  <2>. QED  BY ReverseIs DEF O
<1>. HIDE DEF O
<1>3. \A i \in 1..n : back[i] \in O  BY <1>1, <1>2
<1>. HIDE DEF back
<1>4. CASE n = 0
  <2>1. back = <<>>  BY <1>1, <1>4
  <2>2. Combine(inverses) = <<>>  BY <1>1, <2>1, FlatInverses DEF Combine, back
  <2>. QED  BY <2>2, OwnedNothing
<1>5. CASE n # 0
  <2>1. back # <<>>
    <3>1. Len(<<>>) = 0  OBVIOUS
    <3>. QED  BY <1>1, <1>5, <3>1
  <2>2. PICK flat : Flattens(flat, back)  BY <1>1, <2>1, FlatIs
  <2>3. /\ flat[1] = back[1]
        /\ \A i \in 2..n : flat[i] = flat[i - 1] \o back[i]
        /\ FlattenSeq(back) = flat[n]
    BY <1>1, <2>2 DEF Flattens
  <2>. DEFINE S == {i \in 0..m : flat[i + 1] \in O}
  <2>4. m \in Nat /\ n = m + 1  BY <1>1, <1>5
  <2>. HIDE DEF n, m
  <2>5. 0 \in S
    <3>1. 0 \in 0..m /\ 0 + 1 = 1 /\ 1 \in 1..n  BY <2>4
    <3>. QED  BY <1>3, <2>3, <3>1
  <2>6. ASSUME NEW i \in 1..m, i - 1 \in S  PROVE i \in S
    <3>1. PICK k \in 2..n : k = i + 1 /\ k - 1 = i
      <4>1. i + 1 \in 2..n /\ i + 1 - 1 = i  BY <2>4
      <4>. QED  BY <4>1
    <3>2. i - 1 + 1 = i /\ i \in 0..m /\ k \in 1..n  BY <2>4
    <3>3. flat[i] \in O  BY <2>6, <3>2
    <3>4. flat[k] = flat[i] \o back[k]  BY <2>3, <3>1
    <3>5. flat[k] \in O  BY <1>3, <3>2, <3>3, <3>4, OwnedJoin DEF O
    <3>. QED  BY <3>1, <3>2, <3>5
  <2>7. \A i \in 0..m : i \in S
    <3>. HIDE DEF S
    <3>. QED  BY <2>4, <2>5, <2>6, Upwards
  <2>8. m \in S  BY <2>4, <2>7
  <2>9. flat[n] \in O  BY <2>4, <2>8
  <2>. QED  BY <2>3, <2>9 DEF Combine, back, O
<1>. QED  BY <1>4, <1>5

(* The inverse of an accepted transaction takes what that one left.         *)
LEMMA InverseIsOwned ==
    ASSUME NEW l \in Trees, NEW txn \in Txns, NEW own, Apply(l, txn).refused = "no",
           Loses(Apply(l, txn).layer, l, own)
    PROVE  Apply(l, txn).inverse \in Owned(own)
<1>. DEFINE n == Len(txn)
            a == Apply(l, txn)
<1>1. txn \in Seq(AllEdits) /\ n \in Nat /\ l \in Layers
  <2>1. Edits \subseteq AllEdits /\ RawEdits \subseteq AllEdits  BY DEF AllEdits
  <2>. QED  BY <2>1, WiderSeq DEF GrownEdits, Txns, Trees
<1>2. PICK at : Applying(at, l, txn)  BY <1>1, ApplyingIs
<1>. DEFINE j == at[n]
            raws == [i \in DOMAIN j.steps |-> Raw(j.steps[i])]
<1>3. j \in JournalsOver(l) /\ a = Settle(j)
  <2>1. n \in 0..n  BY <1>1
  <2>. QED  BY <1>2, <2>1 DEF Applying
<1>4. a.layer = j.layer /\ a.inverse = Reverse(raws)  BY <1>3 DEF Settle
<1>5. a.inverse \in GrownEdits  BY TxnIs
<1>. HIDE DEF j, a
<1>6. ASSUME NEW x, NEW y, Leads(x, Reverse(raws), y)  PROVE Loses(x, y, own)
  <2>. SUFFICES ASSUME NEW s \in Slots, Content(y, s) # Content(x, s)
       PROVE  Content(x, s) \in own[s]
    BY DEF Loses
  <2>1. Content(x, s) = Content(j.layer, s) /\ Content(y, s) = Content(l, s)
    BY <1>3, <1>6, InverseUndoes
  <2>2. Content(l, s) # Content(a.layer, s)  BY <1>4, <2>1
  <2>3. Content(a.layer, s) \in own[s]  BY <2>2 DEF Loses, a
  <2>. QED  BY <1>4, <2>1, <2>3
<1>. HIDE DEF raws
<1>. QED  BY <1>4, <1>5, <1>6 DEF Owned, a

(* Everything the history would apply takes only what it or its host left.  *)
OInv ==
    /\ undo \in Seq(Step(Owned(left))) /\ redo \in Seq(Step(Owned(left)))
    /\ group \in Seq(Owned(left))
    /\ alien \in Nat

\* The step takes from no slot what only somebody else can have put there.
Spares == recorded' = recorded /\ alien' = alien => Loses(layer, layer', left)

LEMMA InitOInv == Init => OInv
<1>. SUFFICES ASSUME Init  PROVE OInv
  OBVIOUS
<1>1. undo = <<>> /\ redo = <<>> /\ group = <<>> /\ alien = 0  BY DEF Init
<1>. QED  BY <1>1 DEF OInv

LEMMA StepMore ==
    ASSUME NEW S, NEW T, S \subseteq T
    PROVE  Seq(Step(S)) \subseteq Seq(Step(T)) /\ Seq(S) \subseteq Seq(T)
<1>1. Step(S) \subseteq Step(T)  BY DEF Step
<1>. QED  BY <1>1, WiderSeq

(* What the stacks held stays theirs, since what was left is never struck   *)
(* out; and what is left by a transaction is there after it.                *)
Grew == \A s \in Slots : left[s] \subseteq left'[s]

LEMMA GrewMore ==
    ASSUME Grew, OInv
    PROVE  /\ undo \in Seq(Step(Owned(left'))) /\ redo \in Seq(Step(Owned(left')))
           /\ group \in Seq(Owned(left'))
<1>. DEFINE to == left'
<1>1. \A s \in Slots : left[s] \subseteq to[s]  BY DEF Grew
<1>. HIDE DEF to
<1>2. Owned(left) \subseteq Owned(to)  BY <1>1, OwnedMore
<1>3. /\ Seq(Step(Owned(left))) \subseteq Seq(Step(Owned(to)))
      /\ Seq(Owned(left)) \subseteq Seq(Owned(to))
  BY <1>2, StepMore
<1>4. /\ undo \in Seq(Step(Owned(to))) /\ redo \in Seq(Step(Owned(to)))
      /\ group \in Seq(Owned(to))
  BY <1>3 DEF OInv
<1>. QED  BY <1>4 DEF to

LEMMA WritesGrow ==
    ASSUME NEW applied, Writes(applied)
    PROVE  /\ Grew
           /\ applied.refused = "no" => Loses(applied.layer, layer, left')
<1>1. left' = IF applied.refused = "no" THEN Left(applied.layer) ELSE left
  BY DEF Writes
<1>2. \A s \in Slots : Left(applied.layer)[s] =
        IF Content(applied.layer, s) # Content(layer, s)
        THEN left[s] \cup {Content(applied.layer, s)} ELSE left[s]
  BY DEF Left
<1>. QED  BY <1>1, <1>2 DEF Grew, Loses

LEMMA WritesInverse ==
    ASSUME layer \in Trees, NEW txn \in Txns, Writes(Apply(layer, txn)),
           Apply(layer, txn).refused = "no"
    PROVE  Apply(layer, txn).inverse \in Owned(left')
<1>. DEFINE to == left'
<1>1. Loses(Apply(layer, txn).layer, layer, to)  BY WritesGrow
<1>. HIDE DEF to
<1>2. Apply(layer, txn).inverse \in Owned(to)  BY <1>1, InverseIsOwned
<1>. QED  BY <1>2 DEF to

(* Nothing is lost by what is refused, or by what is owned.                 *)
LEMMA SameLoses == \A l, m, own : SameButOrder(l, m) => Loses(l, m, own)
BY SameContent DEF Loses

LEMMA WritesOwned ==
    ASSUME layer \in Trees, NEW txn \in Owned(left), Writes(Apply(layer, txn))
    PROVE  Loses(layer, layer', left)
<1>. DEFINE to == layer'
            a == Apply(layer, txn)
<1>1. to = a.layer  BY DEF Writes
<1>. HIDE DEF to
<1>2. txn \in GrownEdits /\ txn \in Txns /\ txn \in Seq(RawEdits) /\ layer \in Layers
  BY GrownEditsJoin, InverseIsEdits DEF Owned, Trees
<1>3. CASE a.refused = "no"
  <2>1. Leads(layer, txn, a.layer)  BY <1>2, <1>3, AppliedLeads
  <2>. HIDE DEF a
  <2>2. Loses(layer, a.layer, left)  BY <2>1 DEF Owned
  <2>. QED  BY <1>1, <2>2 DEF to
<1>4. CASE a.refused # "no"
  <2>1. SameButOrder(layer, a.layer)  BY <1>2, <1>4, TxnIs
  <2>. HIDE DEF a
  <2>2. Loses(layer, a.layer, left)  BY <2>1, SameLoses
  <2>. QED  BY <1>1, <2>2 DEF to
<1>. QED  BY <1>3, <1>4

LEMMA StillLoses ==
    ASSUME layer' = layer
    PROVE  Spares
<1>1. Loses(layer, layer, left)  BY SameIsReflexive, SameLoses
<1>. QED  BY <1>1 DEF Spares

(* Where nothing is applied. *)
LEMMA StillSpares ==
    ASSUME OInv, UNCHANGED <<layer, left, undo, redo, group>>, alien' \in Nat
    PROVE  OInv' /\ Spares
BY StillLoses DEF OInv

LEMMA PushOwned ==
    ASSUME NEW T, undo \in Seq(Step(T)), nextId \in Nat, NEW inverse \in T, Push(inverse)
    PROVE  undo' \in Seq(Step(T))
<1>. DEFINE step == [id |-> nextId, txn |-> inverse]
            pushed == Append(undo, step)
            S == Step(T)
<1>1. step \in S  BY DEF Step
<1>2. undo' = Tail(pushed) \/ undo' = pushed  BY DEF Push
<1>. HIDE DEF step, S
<1>3. pushed \in Seq(S) /\ Len(pushed) > 0  BY <1>1 DEF S
<1>. HIDE DEF pushed
<1>4. Tail(pushed) \in Seq(S)  BY <1>3
<1>. QED  BY <1>2, <1>3, <1>4 DEF S

LEMMA RecordOwned ==
    ASSUME NEW T, undo \in Seq(Step(T)), redo \in Seq(Step(T)), group \in Seq(T),
           nextId \in Nat, NEW inverse \in T, Record(inverse)
    PROVE  /\ undo' \in Seq(Step(T)) /\ redo' \in Seq(Step(T)) /\ group' \in Seq(T)
<1>1. redo' = redo \/ redo' = <<>>  BY DEF Record
<1>2. group' = group \/ group' = Append(group, inverse)  BY DEF Record
<1>3. undo' = undo \/ Push(inverse)  BY DEF Record
<1>4. undo' \in Seq(Step(T))  BY <1>3, PushOwned
<1>5. redo' \in Seq(Step(T))
  <2>1. <<>> \in Seq(Step(T))  OBVIOUS
  <2>. QED  BY <1>1, <2>1
<1>6. group' \in Seq(T)  BY <1>2
<1>. QED  BY <1>4, <1>5, <1>6

LEMMA EditSpares ==
    ASSUME TInv, OInv, NEW txn \in Transactions, Edit(txn)
    PROVE  OInv' /\ Spares
<1>. DEFINE applied == Apply(layer, txn)
            to == left'
<1>1. layer \in Trees /\ txn \in Txns /\ nextId \in Nat /\ recorded \in Nat
  BY HostEdits DEF TInv, Counted
<1>2. Writes(applied) /\ recorded' = recorded + 1 /\ alien' = alien  BY DEF Edit
<1>3. /\ undo \in Seq(Step(Owned(to))) /\ redo \in Seq(Step(Owned(to)))
      /\ group \in Seq(Owned(to))
  BY <1>2, WritesGrow, GrewMore
<1>4. /\ undo' \in Seq(Step(Owned(to))) /\ redo' \in Seq(Step(Owned(to)))
      /\ group' \in Seq(Owned(to))
  <2>1. CASE applied.refused = "no"
    <3>1. Record(applied.inverse)  BY <2>1 DEF Edit
    <3>2. applied.inverse \in Owned(to)  BY <1>1, <1>2, <2>1, WritesInverse
    <3>. DEFINE T == Owned(to)
                inverse == applied.inverse
    <3>. HIDE DEF T, inverse
    <3>3. /\ undo \in Seq(Step(T)) /\ redo \in Seq(Step(T)) /\ group \in Seq(T)
          /\ inverse \in T /\ Record(inverse)
      BY <1>3, <3>1, <3>2 DEF T, inverse
    <3>4. /\ undo' \in Seq(Step(T)) /\ redo' \in Seq(Step(T)) /\ group' \in Seq(T)
      BY <1>1, <3>3, RecordOwned
    <3>. QED  BY <3>4 DEF T
  <2>2. CASE applied.refused # "no"
    <3>1. UNCHANGED <<undo, redo, group>>  BY <2>2 DEF Edit, history
    <3>. QED  BY <1>3, <3>1
  <2>. QED  BY <2>1, <2>2
<1>5. OInv'  BY <1>2, <1>4 DEF OInv
<1>6. Spares
  <2>1. recorded' # recorded  BY <1>1, <1>2
  <2>. QED  BY <2>1 DEF Spares
<1>. QED  BY <1>5, <1>6

LEMMA OutsideEditSpares ==
    ASSUME OInv, NEW txn \in Outside, OutsideEdit(txn)
    PROVE  OInv' /\ Spares
<1>1. alien' = alien + 1 /\ UNCHANGED <<undo, redo, group, left>> /\ alien \in Nat
  BY DEF OutsideEdit, history, OInv
<1>2. alien' # alien  BY <1>1
<1>. QED  BY <1>1, <1>2 DEF OInv, Spares

(* A step that is taken from one stack, and turned for the other.           *)
LEMMA TakeOwned ==
    ASSUME TInv, OInv, NEW steps \in Seq(Step(Owned(left))), steps \in Seq(Step(Inverses)),
           steps # <<>>, Writes(Apply(layer, Last(steps).txn))
    PROVE  /\ Loses(layer, layer', left) /\ Grew
           /\ Apply(layer, Last(steps).txn).refused = "no" =>
                /\ Front(steps) \in Seq(Step(Owned(left')))
                /\ Turned(Last(steps), Apply(layer, Last(steps).txn).inverse)
                        \in Step(Owned(left'))
<1>. DEFINE step == Last(steps)
            to == left'
            applied == Apply(layer, step.txn)
            S == Step(Owned(left))
            T == Step(Owned(to))
<1>1. step \in S /\ step \in Step(Inverses)
  <2>1. step = steps[Len(steps)] /\ Len(steps) \in 1..Len(steps)  BY DEF Last
  <2>. QED  BY <2>1
<1>2. Front(steps) \in Seq(S)
  <2>1. Len(steps) >= 1  OBVIOUS
  <2>. HIDE DEF S
  <2>. QED  BY <2>1, FrontElements DEF S
<1>. HIDE DEF step
<1>3. step.id \in Nat /\ step.txn \in Owned(left) /\ step.txn \in Inverses
  BY <1>1 DEF Step
<1>4. step.txn \in Txns /\ layer \in Trees  BY <1>3, InverseIsEdits DEF TInv
<1>5. Writes(applied)  BY DEF step
<1>6. Loses(layer, layer', left)  BY <1>3, <1>4, <1>5, WritesOwned
<1>7. Grew  BY <1>5, WritesGrow
<1>8. ASSUME applied.refused = "no"  PROVE Turned(step, applied.inverse) \in T
  <2>. DEFINE inverse == applied.inverse
  <2>1. inverse \in Owned(to)  BY <1>4, <1>5, <1>8, WritesInverse
  <2>. HIDE DEF inverse, to
  <2>2. Turned(step, inverse) = [id |-> step.id, txn |-> inverse]
    BY <1>1 DEF Turned, Step
  <2>. QED  BY <1>3, <2>1, <2>2 DEF Step, inverse
<1>9. Front(steps) \in Seq(T)
  <2>1. \A s \in Slots : left[s] \subseteq to[s]  BY <1>7 DEF Grew
  <2>. HIDE DEF to
  <2>2. Owned(left) \subseteq Owned(to)  BY <2>1, OwnedMore
  <2>3. Seq(S) \subseteq Seq(T)  BY <2>2, StepMore
  <2>. QED  BY <1>2, <2>3
<1>. QED  BY <1>6, <1>7, <1>8, <1>9 DEF step

LEMMA UndoSpares ==
    ASSUME TInv, OInv, Undo
    PROVE  OInv' /\ Spares
<1>0. alien' = alien /\ alien \in Nat  BY DEF Undo, OInv
<1>1. CASE Open \/ undo = <<>>
  <2>1. UNCHANGED <<layer, left, undo, redo, group>>  BY <1>1 DEF Undo, Refused, history
  <2>. QED  BY <1>0, <2>1, StillSpares
<1>2. CASE ~(Open \/ undo = <<>>)
  <2>. DEFINE applied == Apply(layer, Last(undo).txn)
              turned == Turned(Last(undo), applied.inverse)
              to == left'
  <2>1. Writes(applied) /\ UNCHANGED group  BY <1>2 DEF Undo
  <2>2. /\ applied.refused # "no" => UNCHANGED <<undo, redo>>
        /\ applied.refused = "no" => undo' = Front(undo) /\ redo' = Append(redo, turned)
    BY <1>2 DEF Undo
  <2>3. undo \in Seq(Step(Owned(left))) /\ undo \in Seq(Step(Inverses))
    BY DEF OInv, TInv, HoldsInverses
  <2>4. Loses(layer, layer', left)  BY <1>2, <2>1, <2>3, TakeOwned
  <2>5. Grew  BY <1>2, <2>1, <2>3, TakeOwned
  <2>6. applied.refused = "no" => /\ Front(undo) \in Seq(Step(Owned(to)))
                                  /\ turned \in Step(Owned(to))
    BY <1>2, <2>1, <2>3, TakeOwned
  <2>7. /\ undo \in Seq(Step(Owned(to))) /\ redo \in Seq(Step(Owned(to)))
        /\ group \in Seq(Owned(to))
    BY <2>5, GrewMore
  <2>. DEFINE T == Step(Owned(to))
  <2>8. undo' \in Seq(T) /\ redo' \in Seq(T)
    <3>. HIDE DEF T, turned, applied
    <3>1. CASE applied.refused = "no"
      <4>1. redo \in Seq(T) /\ turned \in T  BY <2>6, <2>7, <3>1 DEF T
      <4>2. Append(redo, turned) \in Seq(T)  BY <4>1
      <4>. QED  BY <2>2, <2>6, <3>1, <4>2 DEF T
    <3>2. CASE applied.refused # "no"  BY <2>2, <2>7, <3>2 DEF T
    <3>. QED  BY <3>1, <3>2
  <2>. QED  BY <1>0, <2>1, <2>4, <2>7, <2>8 DEF OInv, Spares
<1>. QED  BY <1>1, <1>2

LEMMA RedoSpares ==
    ASSUME TInv, OInv, Redo
    PROVE  OInv' /\ Spares
<1>0. alien' = alien /\ alien \in Nat  BY DEF Redo, OInv
<1>1. CASE Open \/ redo = <<>>
  <2>1. UNCHANGED <<layer, left, undo, redo, group>>  BY <1>1 DEF Redo, Refused, history
  <2>. QED  BY <1>0, <2>1, StillSpares
<1>2. CASE ~(Open \/ redo = <<>>)
  <2>. DEFINE applied == Apply(layer, Last(redo).txn)
              turned == Turned(Last(redo), applied.inverse)
              to == left'
  <2>1. Writes(applied) /\ UNCHANGED group  BY <1>2 DEF Redo
  <2>2. /\ applied.refused # "no" => UNCHANGED <<undo, redo>>
        /\ applied.refused = "no" => redo' = Front(redo) /\ undo' = Append(undo, turned)
    BY <1>2 DEF Redo
  <2>3. redo \in Seq(Step(Owned(left))) /\ redo \in Seq(Step(Inverses))
    BY DEF OInv, TInv, HoldsInverses
  <2>4. Loses(layer, layer', left)  BY <1>2, <2>1, <2>3, TakeOwned
  <2>5. Grew  BY <1>2, <2>1, <2>3, TakeOwned
  <2>6. applied.refused = "no" => /\ Front(redo) \in Seq(Step(Owned(to)))
                                  /\ turned \in Step(Owned(to))
    BY <1>2, <2>1, <2>3, TakeOwned
  <2>7. /\ undo \in Seq(Step(Owned(to))) /\ redo \in Seq(Step(Owned(to)))
        /\ group \in Seq(Owned(to))
    BY <2>5, GrewMore
  <2>. DEFINE T == Step(Owned(to))
  <2>8. undo' \in Seq(T) /\ redo' \in Seq(T)
    <3>. HIDE DEF T, turned, applied
    <3>1. CASE applied.refused = "no"
      <4>1. undo \in Seq(T) /\ turned \in T  BY <2>6, <2>7, <3>1 DEF T
      <4>2. Append(undo, turned) \in Seq(T)  BY <4>1
      <4>. QED  BY <2>2, <2>6, <3>1, <4>2 DEF T
    <3>2. CASE applied.refused # "no"  BY <2>2, <2>7, <3>2 DEF T
    <3>. QED  BY <3>1, <3>2
  <2>. QED  BY <1>0, <2>1, <2>4, <2>7, <2>8 DEF OInv, Spares
<1>. QED  BY <1>1, <1>2

LEMMA EndGroupSpares ==
    ASSUME TInv, OInv, EndGroup
    PROVE  OInv' /\ Spares
<1>0. alien' = alien /\ alien \in Nat  BY DEF EndGroup, OInv
<1>1. CASE ~Open \/ Len(levels) > 1
  <2>1. UNCHANGED <<layer, left, undo, redo, group>>
    BY <1>1 DEF EndGroup, Refused, history
  <2>. QED  BY <1>0, <2>1, StillSpares
<1>2. CASE Open /\ ~(Len(levels) > 1)
  <2>1. group' = <<>> /\ UNCHANGED <<layer, redo, left>>  BY <1>2 DEF EndGroup
  <2>2. undo' \in Seq(Step(Owned(left)))
    <3>1. CASE group = <<>>
      <4>1. undo' = undo  BY <1>2, <3>1 DEF EndGroup
      <4>. QED  BY <4>1 DEF OInv
    <3>2. CASE group # <<>>
      <4>1. Push(Combine(group))  BY <1>2, <3>2 DEF EndGroup
      <4>2. Combine(group) \in Owned(left)  BY OwnedCombine DEF OInv, TInv, HoldsInverses
      <4>. QED  BY <4>1, <4>2, PushOwned DEF OInv, TInv, Counted
    <3>. QED  BY <3>1, <3>2
  <2>3. Spares  BY <2>1, StillLoses
  <2>. QED  BY <1>0, <2>1, <2>2, <2>3 DEF OInv
<1>. QED  BY <1>1, <1>2

LEMMA AbandonGroupSpares ==
    ASSUME TInv, HInv, OInv, AbandonGroup
    PROVE  OInv' /\ Spares
<1>0. alien' = alien /\ alien \in Nat  BY DEF AbandonGroup, OInv
<1>1. CASE ~Open
  <2>1. UNCHANGED <<layer, left, undo, redo, group>>
    BY <1>1 DEF AbandonGroup, Refused, history
  <2>. QED  BY <1>0, <2>1, StillSpares
<1>2. CASE Open
  <2>. DEFINE start == Last(levels)
              inner == SubSeq(group, start + 1, Len(group))
              applied == Apply(layer, Combine(inner))
              to == left'
  <2>1. Writes(applied) /\ UNCHANGED <<undo, redo>>  BY <1>2 DEF AbandonGroup
  <2>2. group' = group \/ group' = SubSeq(group, 1, start)  BY <1>2 DEF AbandonGroup
  <2>3. /\ group \in Seq(Inverses) /\ group \in Seq(Owned(left)) /\ levels \in Seq(Nat)
        /\ Len(group) \in Nat
    BY DEF OInv, TInv, HoldsInverses
  <2>4. start \in 0..Len(group)
    BY <1>2, <2>3, CloseNests DEF HInv, GroupOpen, Open
  <2>. HIDE DEF start
  <2>5. inner \in Seq(Inverses)  BY <2>3, <2>4, PartIs
  <2>6. inner \in Seq(Owned(left))  BY <2>3, <2>4, PartIs
  <2>7. Combine(inner) \in Owned(left)
    <3>. HIDE DEF inner
    <3>. QED  BY <2>5, <2>6, OwnedCombine
  <2>8. Loses(layer, layer', left) /\ Grew
    <3>. HIDE DEF inner
    <3>1. Loses(layer, layer', left)  BY <2>1, <2>7, WritesOwned DEF TInv
    <3>2. Grew  BY <2>1, WritesGrow
    <3>. QED  BY <3>1, <3>2
  <2>9. /\ undo \in Seq(Step(Owned(to))) /\ redo \in Seq(Step(Owned(to)))
        /\ group \in Seq(Owned(to))
    BY <2>8, GrewMore
  <2>10. group' \in Seq(Owned(to))
    <3>1. SubSeq(group, 1, start) \in Seq(Owned(to))
      <4>. HIDE DEF to
      <4>. QED  BY <2>4, <2>9, PartIs
    <3>. QED  BY <2>2, <2>9, <3>1
  <2>. QED  BY <1>0, <2>1, <2>8, <2>9, <2>10 DEF OInv, Spares
<1>. QED  BY <1>1, <1>2

LEMMA UnwindSpares ==
    ASSUME TInv, HInv, OInv, NEW mark, UnwindTo(mark)
    PROVE  OInv' /\ Spares
<1>0. alien' = alien /\ alien \in Nat  BY DEF UnwindTo, OInv
<1>1. CASE Open \/ Gone(mark)
  <2>1. UNCHANGED <<layer, left, undo, redo, group>>
    BY <1>1 DEF UnwindTo, Refused, history
  <2>. QED  BY <1>0, <2>1, StillSpares
<1>2. CASE ~(Open \/ Gone(mark))
  <2>. DEFINE above == SubSeq(undo, Kept(mark) + 1, Len(undo))
              txns == [i \in DOMAIN above |-> above[i].txn]
              applied == Apply(layer, Combine(txns))
              to == left'
  <2>1. Writes(applied) /\ UNCHANGED <<redo, group>>  BY <1>2 DEF UnwindTo
  <2>2. undo' = undo \/ undo' = SubSeq(undo, 1, Kept(mark))  BY <1>2 DEF UnwindTo
  <2>3. /\ undo \in Seq(Step(Inverses)) /\ undo \in Seq(Step(Owned(left)))
        /\ Len(undo) \in Nat
    BY DEF OInv, TInv, HoldsInverses
  <2>4. Kept(mark) \in 0..Len(undo)  BY <1>2, KeptIsThere
  <2>5. above \in Seq(Step(Inverses)) /\ above \in Seq(Step(Owned(left)))
    <3>1. above \in Seq(Step(Inverses))  BY <2>3, <2>4, PartIs
    <3>2. above \in Seq(Step(Owned(left)))  BY <2>3, <2>4, PartIs
    <3>. QED  BY <3>1, <3>2
  <2>. HIDE DEF above
  <2>6. \A T : above \in Seq(Step(T)) => txns \in Seq(T)
    <3>. TAKE T
    <3>. HAVE above \in Seq(Step(T))
    <3>1. \A i \in 1..Len(above) : above[i].txn \in T
      <4>1. \A i \in 1..Len(above) : above[i] \in Step(T)  OBVIOUS
      <4>. QED  BY <4>1 DEF Step
    <3>. QED  BY <3>1
  <2>. HIDE DEF txns
  <2>7. Combine(txns) \in Owned(left)  BY <2>5, <2>6, OwnedCombine
  <2>8. Loses(layer, layer', left) /\ Grew
    <3>1. Loses(layer, layer', left)  BY <2>1, <2>7, WritesOwned DEF TInv
    <3>2. Grew  BY <2>1, WritesGrow
    <3>. QED  BY <3>1, <3>2
  <2>9. /\ undo \in Seq(Step(Owned(to))) /\ redo \in Seq(Step(Owned(to)))
        /\ group \in Seq(Owned(to))
    BY <2>8, GrewMore
  <2>10. undo' \in Seq(Step(Owned(to)))
    <3>1. SubSeq(undo, 1, Kept(mark)) \in Seq(Step(Owned(to)))
      <4>. DEFINE T == Step(Owned(to))
      <4>1. undo \in Seq(T)  BY <2>9
      <4>. HIDE DEF T
      <4>2. SubSeq(undo, 1, Kept(mark)) \in Seq(T)  BY <2>4, <4>1, PartIs
      <4>. QED  BY <4>2 DEF T
    <3>. QED  BY <2>2, <2>9, <3>1
  <2>. QED  BY <1>0, <2>1, <2>8, <2>9, <2>10 DEF OInv, Spares
<1>. QED  BY <1>1, <1>2

LEMMA NextSpares == TInv /\ HInv /\ OInv /\ [Next]_vars => OInv' /\ Spares
<1>. SUFFICES ASSUME TInv, HInv, OInv, [Next]_vars  PROVE OInv' /\ Spares
  OBVIOUS
<1>1. ASSUME NEW txn \in Transactions, Edit(txn)  PROVE OInv' /\ Spares
  BY <1>1, EditSpares
<1>2. ASSUME NEW txn \in Outside, OutsideEdit(txn)  PROVE OInv' /\ Spares
  BY <1>2, OutsideEditSpares
<1>3. CASE BeginGroup
  <2>1. UNCHANGED <<layer, left, undo, redo, group>> /\ alien' = alien
    BY <1>3 DEF BeginGroup
  <2>. QED  BY <2>1, StillSpares DEF OInv
<1>4. CASE EndGroup  BY <1>4, EndGroupSpares
<1>5. CASE AbandonGroup  BY <1>5, AbandonGroupSpares
<1>6. CASE Undo  BY <1>6, UndoSpares
<1>7. CASE Redo  BY <1>7, RedoSpares
<1>8. CASE Reset
  <2>1. /\ undo' = <<>> /\ redo' = <<>> /\ group' = <<>>
        /\ UNCHANGED <<layer, left, alien>>
    BY <1>8 DEF Reset
  <2>2. Spares  BY <2>1, StillLoses
  <2>3. OInv'
    <3>1. /\ <<>> \in Seq(Step(Owned(left))) /\ <<>> \in Seq(Owned(left))  OBVIOUS
    <3>. QED  BY <2>1, <3>1 DEF OInv
  <2>. QED  BY <2>2, <2>3
<1>9. CASE TakeMark
  <2>1. UNCHANGED <<layer, left, undo, redo, group>> /\ alien' = alien
    BY <1>9 DEF TakeMark, history
  <2>. QED  BY <2>1, StillSpares DEF OInv
<1>10. CASE Unwind  BY <1>10, UnwindSpares DEF Unwind
<1>11. CASE UNCHANGED vars
  <2>1. UNCHANGED <<layer, left, undo, redo, group>> /\ alien' = alien
    BY <1>11 DEF vars, history
  <2>. QED  BY <2>1, StillSpares DEF OInv
<1>. QED
  BY <1>1, <1>2, <1>3, <1>4, <1>5, <1>6, <1>7, <1>8, <1>9, <1>10, <1>11 DEF Next

(* Whatever is undone, redone, abandoned or unwound, and whoever edits      *)
(* between: content that neither a recorded transaction nor the history     *)
(* ever left in a slot, so that only somebody else can have put it there,   *)
(* is never taken (Guarded).                                                *)
THEOREM OthersKeepTheirs == Spec => OutsideEditsSurvive
<1>1. Init => TInv /\ HInv /\ OInv  BY InitTInv, InitHInv, InitOInv
<1>2. TInv /\ HInv /\ OInv /\ [Next]_vars => (TInv /\ HInv /\ OInv)'
  BY NextTypes, NextHInv, NextSpares
<1>3. TInv /\ HInv /\ OInv /\ [Next]_vars =>
        [recorded' = recorded /\ alien' = alien =>
            \A s \in Slots : Content(layer', s) # Content(layer, s)
                => Content(layer, s) \in left[s]]_vars
  BY NextSpares DEF Spares, Loses
<1>. QED  BY <1>1, <1>2, <1>3, PTL DEF Spec, OutsideEditsSurvive

-----------------------------------------------------------------------------
(* Where the steps of a raw transaction go, whatever their guards say.  The *)
(* guard of a spec's step compares the order of its children, so of two     *)
(* layers that differ in it the transaction may be refused over one.        *)
Passing(at, txn) ==
    /\ \A i \in 0..Len(txn) : at[i] \in Layers
    /\ \A i \in 1..Len(txn) : /\ Applicable(at[i - 1], txn[i].guarded.step)
                              /\ at[i] = Written(at[i - 1], txn[i].guarded.step)

Goes(l, txn, m) == \E at : Passing(at, txn) /\ at[0] = l /\ at[Len(txn)] = m

LEMMA LeadsGoes ==
    ASSUME NEW l, NEW txn, NEW m, Leads(l, txn, m)
    PROVE  Goes(l, txn, m)
BY DEF Leads, Along, Goes, Passing, Reverts

LEMMA GoesAmong ==
    ASSUME NEW l, NEW txn \in Seq(RawEdits), NEW m, Goes(l, txn, m)
    PROVE  l \in Layers /\ m \in Layers
<1>1. 0 \in 0..Len(txn) /\ Len(txn) \in 0..Len(txn)
  <2>1. Len(txn) \in Nat  OBVIOUS
  <2>. QED  BY <2>1
<1>. QED  BY <1>1 DEF Goes, Passing

LEMMA GoesNoOther ==
    ASSUME NEW l, NEW m, Goes(l, <<>>, m)
    PROVE  l = m
<1>1. Len(<<>>) = 0  OBVIOUS
<1>. QED  BY <1>1 DEF Goes

(* There is one way only.                                                   *)
LEMMA GoesAgree ==
    ASSUME NEW l, NEW txn \in Seq(RawEdits), NEW m, NEW y, Goes(l, txn, m), Goes(l, txn, y)
    PROVE  y = m
<1>. DEFINE n == Len(txn)
<1>1. n \in Nat  OBVIOUS
<1>2. PICK at : Passing(at, txn) /\ at[0] = l /\ at[n] = m  BY DEF Goes
<1>3. PICK bt : Passing(bt, txn) /\ bt[0] = l /\ bt[n] = y  BY DEF Goes
<1>4. Follows(at, bt, n)
  <2>. SUFFICES ASSUME NEW i \in 1..n, at[i - 1] = bt[i - 1]  PROVE at[i] = bt[i]
    BY DEF Follows
  <2>. QED  BY <1>2, <1>3 DEF Passing
<1>5. \A i \in 0..n : at[i] = bt[i]
  <2>. HIDE DEF n
  <2>. QED  BY <1>1, <1>2, <1>3, <1>4, TracesAgree
<1>6. n \in 0..n  BY <1>1
<1>. QED  BY <1>2, <1>3, <1>5, <1>6

(* One transaction and then another, and the two of them as one.            *)
LEMMA GoesApart ==
    ASSUME NEW k, NEW m, NEW x \in Seq(RawEdits), NEW y \in Seq(RawEdits),
           Goes(k, x \o y, m)
    PROVE  \E l : Goes(k, x, l) /\ Goes(l, y, m)
<1>. DEFINE z == x \o y
            n == Len(x)
            o == Len(y)
            Fits(a, b, g) == Applicable(a, g.step) /\ b = Written(a, g.step)
<1>1. PICK at : Passing(at, z) /\ at[0] = k /\ at[Len(z)] = m  BY DEF Goes
<1>2. /\ Len(z) = n + o /\ n \in Nat /\ o \in Nat
      /\ \A i \in 1..n : z[i] = x[i]
      /\ \A i \in 1..o : z[n + i] = y[i]
  BY ConcatIs
<1>3. /\ \A i \in 0..(n + o) : at[i] \in Layers
      /\ \A i \in 1..(n + o) : Fits(at[i - 1], at[i], z[i].guarded)
  BY <1>1, <1>2 DEF Passing
<1>0. \A f, t : (/\ \A i \in 0..Len(t) : f[i] \in Layers
                 /\ \A i \in 1..Len(t) : Fits(f[i - 1], f[i], t[i].guarded)) => Passing(f, t)
  BY DEF Passing
<1>. HIDE DEF z, Fits
<1>4. Goes(k, x, at[n])
  <2>1. \A i \in 0..n : i \in 0..(n + o)  BY <1>2
  <2>2. \A i \in 1..n : i \in 1..(n + o)  BY <1>2
  <2>3. Passing(at, x)  BY <1>0, <1>2, <1>3, <2>1, <2>2
  <2>. QED  BY <1>1, <2>3 DEF Goes
<1>5. Goes(at[n], y, m)
  <2>. DEFINE bt == [i \in 0..o |-> at[n + i]]
  <2>1. \A i \in 0..o : n + i \in 0..(n + o) /\ bt[i] = at[n + i]  BY <1>2
  <2>. HIDE DEF bt
  <2>2. \A i \in 0..o : bt[i] \in Layers  BY <1>3, <2>1
  <2>3. ASSUME NEW i \in 1..o  PROVE Fits(bt[i - 1], bt[i], y[i].guarded)
    <3>1. PICK h \in 1..(n + o) : h = n + i /\ h - 1 = n + (i - 1)
      <4>1. n + i \in 1..(n + o) /\ n + i - 1 = n + (i - 1)  BY <1>2
      <4>. QED  BY <4>1
    <3>2. i - 1 \in 0..o /\ i \in 0..o  BY <1>2
    <3>3. bt[i - 1] = at[h - 1]  BY <2>1, <3>1, <3>2
    <3>4. bt[i] = at[h]  BY <2>1, <3>1, <3>2
    <3>5. z[h] = y[i]  BY <1>2, <3>1
    <3>6. Fits(at[h - 1], at[h], z[h].guarded)  BY <1>3
    <3>. QED  BY <3>3, <3>4, <3>5, <3>6
  <2>4. bt[0] = at[n] /\ bt[o] = m
    <3>1. 0 \in 0..o /\ o \in 0..o /\ n + 0 = n  BY <1>2
    <3>2. bt[0] = at[n + 0]  BY <2>1, <3>1
    <3>3. bt[o] = at[n + o]  BY <2>1, <3>1
    <3>4. at[n + o] = m  BY <1>1, <1>2
    <3>. QED  BY <3>1, <3>2, <3>3, <3>4
  <2>5. Passing(bt, y)  BY <1>0, <2>2, <2>3
  <2>. QED  BY <2>4, <2>5 DEF Goes
<1>. QED  BY <1>4, <1>5

LEMMA GoesOn ==
    ASSUME NEW k, NEW l, NEW m, NEW x \in Seq(RawEdits), NEW y \in Seq(RawEdits),
           Goes(k, x, l), Goes(l, y, m)
    PROVE  Goes(k, x \o y, m)
<1>. DEFINE n == Len(x)
            o == Len(y)
            z == x \o y
            Fits(a, b, g) == Applicable(a, g.step) /\ b = Written(a, g.step)
<1>1. PICK at : Passing(at, x) /\ at[0] = k /\ at[n] = l  BY DEF Goes
<1>2. PICK bt : Passing(bt, y) /\ bt[0] = l /\ bt[o] = m  BY DEF Goes
<1>3. /\ Len(z) = n + o /\ n \in Nat /\ o \in Nat
      /\ \A i \in 1..n : z[i] = x[i]
      /\ \A i \in 1..o : z[n + i] = y[i]
  BY ConcatIs
<1>4. /\ \A i \in 0..n : at[i] \in Layers
      /\ \A i \in 1..n : Fits(at[i - 1], at[i], x[i].guarded)
  BY <1>1 DEF Passing
<1>5. /\ \A i \in 0..o : bt[i] \in Layers
      /\ \A i \in 1..o : Fits(bt[i - 1], bt[i], y[i].guarded)
  BY <1>2 DEF Passing
<1>0. \A f, t : (/\ \A i \in 0..Len(t) : f[i] \in Layers
                 /\ \A i \in 1..Len(t) : Fits(f[i - 1], f[i], t[i].guarded)) => Passing(f, t)
  BY DEF Passing
<1>. HIDE DEF z, n, o, Fits
<1>. DEFINE to == [i \in 0..(n + o) |-> IF i <= n THEN at[i] ELSE bt[i - n]]
<1>6. /\ \A i \in 0..n : to[i] = at[i]
      /\ \A i \in 0..o : to[n + i] = bt[i]
  <2>1. \A i \in 0..n : to[i] = at[i]  BY <1>3
  <2>2. ASSUME NEW i \in 0..o  PROVE to[n + i] = bt[i]
    <3>1. CASE i = 0
      <4>1. n + i = n /\ n \in 0..n  BY <1>3, <3>1
      <4>. HIDE DEF to
      <4>2. to[n + i] = at[n]  BY <2>1, <4>1
      <4>. QED  BY <1>1, <1>2, <3>1, <4>2
    <3>2. CASE i # 0
      <4>. DEFINE a == n + i
      <4>1. a \in 0..(n + o) /\ ~(a <= n) /\ a - n = i  BY <1>3, <3>2
      <4>. HIDE DEF a
      <4>2. to[a] = bt[i]  BY <4>1
      <4>. QED  BY <4>2 DEF a
    <3>. QED  BY <3>1, <3>2
  <2>. QED  BY <2>1, <2>2
<1>. HIDE DEF to
<1>7. ASSUME NEW i \in 0..(n + o)  PROVE to[i] \in Layers
  <2>1. CASE i <= n
    <3>1. i \in 0..n  BY <1>3, <2>1
    <3>. QED  BY <1>4, <1>6, <3>1
  <2>2. CASE ~(i <= n)
    <3>1. PICK a \in 0..o : n + a = i
      <4>1. i - n \in 0..o /\ n + (i - n) = i  BY <1>3, <2>2
      <4>. QED  BY <4>1
    <3>. QED  BY <1>5, <1>6, <3>1
  <2>. QED  BY <2>1, <2>2
<1>8. ASSUME NEW i \in 1..(n + o)  PROVE Fits(to[i - 1], to[i], z[i].guarded)
  <2>1. CASE i <= n
    <3>1. i \in 0..n /\ i - 1 \in 0..n /\ i \in 1..n  BY <1>3, <2>1
    <3>2. to[i] = at[i] /\ to[i - 1] = at[i - 1] /\ z[i] = x[i]  BY <1>3, <1>6, <3>1
    <3>. QED  BY <1>4, <3>1, <3>2
  <2>2. CASE ~(i <= n)
    <3>1. PICK a \in 1..o : n + a = i
      <4>1. i - n \in 1..o /\ n + (i - n) = i  BY <1>3, <2>2
      <4>. QED  BY <4>1
    <3>2. PICK b \in 0..o : b = a - 1 /\ n + b = i - 1
      <4>1. a - 1 \in 0..o /\ n + (a - 1) = i - 1  BY <1>3, <3>1
      <4>. QED  BY <4>1
    <3>3. a \in 0..o  BY <1>3
    <3>4. to[i] = bt[a] /\ z[i] = y[a]  BY <1>3, <1>6, <3>1, <3>3
    <3>5. to[i - 1] = bt[b]  BY <1>6, <3>2
    <3>6. Fits(bt[b], bt[a], y[a].guarded)  BY <1>5, <3>2
    <3>. QED  BY <3>4, <3>5, <3>6
  <2>. QED  BY <2>1, <2>2
<1>9. Passing(to, z)  BY <1>0, <1>3, <1>7, <1>8
<1>10. to[0] = k /\ to[n + o] = m
  <2>1. 0 \in 0..n /\ o \in 0..o  BY <1>3
  <2>. QED  BY <1>1, <1>2, <1>6, <2>1 DEF n, o
<1>. QED  BY <1>3, <1>9, <1>10 DEF Goes, z

(* Over a layer that differs in the order of children it goes to one that   *)
(* differs in that.                                                         *)
LEMMA GoesSame ==
    ASSUME NEW l \in Layers, NEW k \in Layers, SameButOrder(l, k),
           NEW txn \in Seq(RawEdits), NEW m, Goes(l, txn, m)
    PROVE  \E y : Goes(k, txn, y) /\ SameButOrder(m, y)
<1>. DEFINE n == Len(txn)
            Next1(i, x) == IF Applicable(x, txn[i].guarded.step)
                           THEN Written(x, txn[i].guarded.step) ELSE x
            F == [i \in 1..n |-> [x \in Layers |-> Next1(i, x)]]
<1>1. n \in Nat /\ \A i \in 1..n : txn[i].guarded.step \in StorageSteps
  BY GuardsOfIs DEF Guards
<1>2. PICK at : Passing(at, txn) /\ at[0] = l /\ at[n] = m  BY DEF Goes
<1>3. F \in Moves(n, Layers)
  <2>1. \A i \in 1..n, x \in Layers : Next1(i, x) \in Layers  BY <1>1, WrittenIsALayer
  <2>. HIDE DEF Next1
  <2>. QED  BY <1>1, <2>1 DEF Moves
<1>4. PICK bt : IsTrace(bt, n, Layers, k, F)
  <2>. HIDE DEF F, n
  <2>. QED  BY <1>1, <1>3, TraceExists
<1>5. /\ \A i \in 0..n : bt[i] \in Layers
      /\ bt[0] = k
      /\ \A i \in 1..n : bt[i] = Next1(i, bt[i - 1])
  <2>1. bt \in [0..n -> Layers] /\ bt[0] = k /\ \A i \in 1..n : bt[i] = F[i][bt[i - 1]]
    <3>. HIDE DEF F
    <3>. QED  BY <1>4 DEF IsTrace
  <2>2. \A i \in 1..n : i - 1 \in 0..n  BY <1>1
  <2>. HIDE DEF Next1
  <2>. QED  BY <2>1, <2>2
<1>. HIDE DEF F
<1>. DEFINE S == {i \in 0..n : SameButOrder(at[i], bt[i])}
<1>6. 0 \in S  BY <1>1, <1>2, <1>5
<1>7. ASSUME NEW i \in 1..n, i - 1 \in S
      PROVE  i \in S /\ Applicable(bt[i - 1], txn[i].guarded.step)
  <2>. DEFINE a == at[i - 1]
              b == bt[i - 1]
              s == txn[i].guarded.step
  <2>1. i \in 0..n /\ i - 1 \in 0..n  BY <1>1
  <2>2. a \in Layers /\ b \in Layers /\ s \in StorageSteps /\ SameButOrder(a, b)
    BY <1>1, <1>2, <1>5, <1>7, <2>1 DEF Passing
  <2>3. Applicable(a, s) /\ at[i] = Written(a, s)  BY <1>2 DEF Passing
  <2>4. bt[i] = IF Applicable(b, s) THEN Written(b, s) ELSE b  BY <1>5
  <2>. HIDE DEF a, b, s
  <2>5. Applicable(b, s) /\ SameButOrder(Written(a, s), Written(b, s))
    BY <2>2, <2>3, StepsRespectSame
  <2>. QED  BY <2>1, <2>3, <2>4, <2>5 DEF b, s
<1>8. \A i \in 0..n : i \in S
  <2>. HIDE DEF S, n
  <2>. QED  BY <1>1, <1>6, <1>7, Upwards
<1>9. \A i \in 1..n : /\ Applicable(bt[i - 1], txn[i].guarded.step)
                      /\ bt[i] = Written(bt[i - 1], txn[i].guarded.step)
  <2>. TAKE i \in 1..n
  <2>1. i - 1 \in 0..n  BY <1>1
  <2>2. Applicable(bt[i - 1], txn[i].guarded.step)
    <3>. HIDE DEF S
    <3>. QED  BY <1>7, <1>8, <2>1
  <2>. QED  BY <1>5, <2>2
<1>10. Passing(bt, txn)  BY <1>5, <1>9 DEF Passing
<1>11. SameButOrder(m, bt[n])
  <2>1. n \in 0..n  BY <1>1
  <2>. QED  BY <1>2, <1>8, <2>1
<1>. QED  BY <1>5, <1>10, <1>11 DEF Goes

-----------------------------------------------------------------------------
(* Wherever the transaction goes from l, it comes to m but for the order.   *)
Arrives(l, txn, m) == \A y : Goes(l, txn, y) => SameButOrder(y, m)

LEMMA ArrivesSame ==
    ASSUME NEW l \in Layers, NEW k \in Layers, SameButOrder(l, k),
           NEW txn \in Seq(RawEdits), NEW m, Arrives(l, txn, m)
    PROVE  Arrives(k, txn, m)
<1>. SUFFICES ASSUME NEW y, Goes(k, txn, y)  PROVE SameButOrder(y, m)
  BY DEF Arrives
<1>1. SameButOrder(k, l)  BY SameIsSymmetric
<1>2. PICK z : Goes(l, txn, z) /\ SameButOrder(y, z)  BY <1>1, GoesSame
<1>3. SameButOrder(z, m)  BY <1>2 DEF Arrives
<1>. QED  BY <1>2, <1>3, SameIsTransitive

(* With a transaction ahead that comes to where it goes from; and with one  *)
(* less, from where that one comes.                                         *)
LEMMA ArrivesBack ==
    ASSUME NEW k, NEW l, NEW x \in Seq(RawEdits), NEW p \in Seq(RawEdits), NEW m,
           Goes(k, x, l), Arrives(l, p, m)
    PROVE  Arrives(k, x \o p, m)
<1>. SUFFICES ASSUME NEW y, Goes(k, x \o p, y)  PROVE SameButOrder(y, m)
  BY DEF Arrives
<1>1. PICK z : Goes(k, x, z) /\ Goes(z, p, y)  BY GoesApart
<1>2. z = l  BY <1>1, GoesAgree
<1>. QED  BY <1>1, <1>2 DEF Arrives

LEMMA ArrivesOn ==
    ASSUME NEW k, NEW l, NEW x \in Seq(RawEdits), NEW p \in Seq(RawEdits), NEW m,
           Goes(k, x, l), Arrives(k, x \o p, m)
    PROVE  Arrives(l, p, m)
<1>. SUFFICES ASSUME NEW y, Goes(l, p, y)  PROVE SameButOrder(y, m)
  BY DEF Arrives
<1>1. Goes(k, x \o p, y)  BY GoesOn
<1>. QED  BY <1>1 DEF Arrives

(* Inverses of transactions applied in order, as one: with one more, it is  *)
(* undone first; in two parts, the later part is.                           *)
LEMMA InversesAre ==
    \A x \in Inverses : x \in GrownEdits /\ x \in Seq(RawEdits) /\ <<x>> \in Seq(Inverses)
BY GrownEditsJoin DEF Inverses

LEMMA EditsAssociate ==
    ASSUME NEW x \in Seq(RawEdits), NEW y \in Seq(RawEdits), NEW z \in Seq(RawEdits)
    PROVE  (x \o y) \o z = x \o (y \o z)
BY ConcatAssociative

LEMMA InversesAppend ==
    ASSUME NEW s \in Seq(Inverses), NEW u \in Seq(Inverses), NEW x \in Inverses
    PROVE  s \o Append(u, x) = Append(s \o u, x)
<1>1. s \o u \in Seq(Inverses) /\ <<x>> \in Seq(Inverses)  BY ConcatProperties
<1>2. Append(s \o u, x) = (s \o u) \o <<x>>  BY <1>1, AppendIsConcat
<1>3. (s \o u) \o <<x>> = s \o (u \o <<x>>)  BY <1>1, ConcatAssociative
<1>. QED  BY <1>2, <1>3, AppendIsConcat

LEMMA FlatAhead ==
    ASSUME NEW x \in Inverses, NEW t \in Seq(Inverses)
    PROVE  FlattenSeq(<<x>> \o t) = x \o FlattenSeq(t)
<1>. DEFINE n == Len(t)
            w == <<x>> \o t
<1>1. /\ w \in Seq(Inverses) /\ Len(w) = n + 1 /\ n \in Nat /\ w[1] = x
      /\ \A i \in 1..n : w[i + 1] = t[i]
  BY Ahead
<1>2. w # <<>>
  <2>1. Len(<<>>) = 0  OBVIOUS
  <2>. HIDE DEF w, n
  <2>. QED  BY <1>1, <2>1
<1>3. x \in Seq(RawEdits)  BY InversesAre
<1>4. PICK h : Flattens(h, w)
  <2>. HIDE DEF w
  <2>. QED  BY <1>1, <1>2, FlatIs
<1>5. /\ h[1] = x /\ FlattenSeq(w) = h[n + 1]
      /\ \A i \in 2..(n + 1) : h[i] = h[i - 1] \o w[i]
  <2>. HIDE DEF w, n
  <2>. QED  BY <1>1, <1>4 DEF Flattens
<1>6. CASE t = <<>>
  <2>1. n = 0  BY <1>6
  <2>2. FlattenSeq(t) = <<>>  BY <1>6, FlatInverses
  <2>3. n + 1 = 1  BY <2>1
  <2>4. FlattenSeq(w) = x
    <3>. HIDE DEF w, n
    <3>. QED  BY <1>5, <2>3
  <2>5. x \o <<>> = x  BY <1>3, ConcatEmptySeq
  <2>. QED  BY <2>2, <2>4, <2>5 DEF w
<1>7. CASE t # <<>>
  <2>1. PICK f : Flattens(f, t)  BY <1>7, FlatIs
  <2>2. /\ f[1] = t[1] /\ FlattenSeq(t) = f[n]
        /\ \A i \in 2..n : f[i] = f[i - 1] \o t[i]
        /\ \A i \in 1..n : f[i] \in Seq(RawEdits) /\ t[i] \in Seq(RawEdits)
    <3>1. \A i \in 1..n : t[i] \in Inverses  OBVIOUS
    <3>. QED  BY <2>1, <3>1, InversesAre DEF Flattens
  <2>3. n >= 1  BY <1>7
  <2>. DEFINE m == n - 1
              S == {i \in 0..m : h[i + 2] = x \o f[i + 1]}
  <2>. HIDE DEF w, n
  <2>4. 0 \in S
    <3>1. 2 \in 2..(n + 1) /\ 2 - 1 = 1 /\ 1 \in 1..n /\ 1 + 1 = 2 /\ 0 + 2 = 2 /\ 0 + 1 = 1
          /\ 0 \in 0..m
      BY <1>1, <2>3
    <3>2. h[2] = h[1] \o w[2]  BY <1>5, <3>1
    <3>3. w[2] = t[1]  BY <1>1, <3>1
    <3>4. h[2] = x \o f[1]  BY <1>5, <2>2, <3>2, <3>3
    <3>. QED  BY <3>1, <3>4
  <2>5. ASSUME NEW i \in 1..m, i - 1 \in S  PROVE i \in S
    <3>1. /\ i + 2 \in 2..(n + 1) /\ i + 2 - 1 = i + 1 /\ i + 1 \in 1..n /\ i + 1 + 1 = i + 2
          /\ i + 1 \in 2..n /\ i + 1 - 1 = i /\ i \in 1..n
          /\ i - 1 + 2 = i + 1 /\ i - 1 + 1 = i
          /\ i \in 0..m
      BY <1>1, <2>3
    <3>2. h[i + 2] = h[i + 1] \o w[i + 2]
      <4>1. PICK k \in 2..(n + 1) : k = i + 2 /\ k - 1 = i + 1  BY <3>1
      <4>2. h[k] = h[k - 1] \o w[k]  BY <1>5
      <4>. QED  BY <4>1, <4>2
    <3>3. w[i + 1 + 1] = t[i + 1]  BY <1>1, <3>1
    <3>4. h[i - 1 + 2] = x \o f[i - 1 + 1]  BY <2>5
    <3>5. h[i + 1] = x \o f[i]  BY <3>1, <3>4
    <3>6. f[i + 1] = f[i] \o t[i + 1]
      <4>1. PICK k \in 2..n : k = i + 1 /\ k - 1 = i  BY <3>1
      <4>2. f[k] = f[k - 1] \o t[k]  BY <2>2
      <4>. QED  BY <4>1, <4>2
    <3>7. (x \o f[i]) \o t[i + 1] = x \o (f[i] \o t[i + 1])
      BY Zenon, <1>3, <2>2, <3>1, EditsAssociate
    <3>8. h[i + 2] = x \o f[i + 1]  BY <3>1, <3>2, <3>3, <3>5, <3>6, <3>7
    <3>. QED  BY <3>1, <3>8
  <2>6. m \in Nat /\ m \in 0..m /\ m + 2 = n + 1 /\ m + 1 = n  BY <1>1, <2>3
  <2>7. \A i \in 0..m : i \in S
    <3>. HIDE DEF S, m
    <3>. QED  BY <2>4, <2>5, <2>6, Upwards
  <2>8. h[m + 2] = x \o f[m + 1]
    <3>. HIDE DEF m
    <3>. QED  BY <2>6, <2>7
  <2>9. h[n + 1] = x \o f[n]
    <3>. HIDE DEF m
    <3>. QED  BY <2>6, <2>8
  <2>. QED  BY <1>5, <2>2, <2>9 DEF w
<1>. QED  BY <1>6, <1>7

LEMMA CombineNothing == Combine(<<>>) = <<>>
<1>1. Reverse(<<>>) = <<>>
  <2>1. <<>> \in Seq(Inverses) /\ Len(<<>>) = 0  OBVIOUS
  <2>2. Reverse(<<>>) \in Seq(Inverses) /\ Len(Reverse(<<>>)) = 0  BY <2>1, ReverseIs
  <2>. QED  BY <2>2
<1>2. <<>> \in Seq(Inverses)  OBVIOUS
<1>. QED  BY <1>1, <1>2, FlatInverses DEF Combine

LEMMA CombineMore ==
    ASSUME NEW s \in Seq(Inverses), NEW x \in Inverses
    PROVE  Combine(Append(s, x)) = x \o Combine(s)
<1>1. <<x>> \in Seq(Inverses)  OBVIOUS
<1>2. Append(s, x) = s \o <<x>>  BY AppendIsConcat
<1>3. Reverse(s \o <<x>>) = Reverse(<<x>>) \o Reverse(s)  BY <1>1, ReverseConcat
<1>4. Reverse(<<x>>) = <<x>>
  <2>. DEFINE q == <<x>>
              r == Reverse(q)
  <2>1. Len(q) = 1 /\ q[1] = x /\ q \in Seq(Inverses)  OBVIOUS
  <2>. HIDE DEF q
  <2>2. /\ r \in Seq(Inverses) /\ Len(r) = Len(q)
        /\ \A i \in 1..Len(q) : Len(q) - i + 1 \in 1..Len(q) /\ r[i] = q[Len(q) - i + 1]
    BY <2>1, ReverseIs
  <2>. HIDE DEF r
  <2>3. 1 \in 1..Len(q) /\ Len(q) - 1 + 1 = 1  BY <2>1
  <2>4. r[1] = x  BY <2>1, <2>2, <2>3
  <2>5. r = <<x>>  BY <2>1, <2>2, <2>4
  <2>. QED  BY <2>5 DEF r, q
<1>5. Reverse(s) \in Seq(Inverses)  BY ReverseIs
<1>6. FlattenSeq(<<x>> \o Reverse(s)) = x \o FlattenSeq(Reverse(s))  BY <1>5, FlatAhead
<1>. QED  BY <1>2, <1>3, <1>4, <1>6 DEF Combine

LEMMA CombineOne ==
    ASSUME NEW x \in Inverses
    PROVE  Combine(<<x>>) = x
<1>1. <<>> \in Seq(Inverses) /\ Append(<<>>, x) = <<x>>  OBVIOUS
<1>2. Combine(<<x>>) = x \o <<>>  BY <1>1, CombineMore, CombineNothing
<1>3. x \o <<>> = x  BY InversesAre, ConcatEmptySeq
<1>. QED  BY <1>2, <1>3

LEMMA CombinePart ==
    ASSUME NEW s \in Seq(Inverses)
    PROVE  Combine(s) \in Seq(RawEdits) /\ Combine(s) \in GrownEdits
BY CombineIs, GrownEditsJoin

LEMMA CombineJoin ==
    ASSUME NEW s \in Seq(Inverses), NEW t \in Seq(Inverses)
    PROVE  Combine(s \o t) = Combine(t) \o Combine(s)
<1>. DEFINE n == Len(t)
            c(k) == SubSeq(t, 1, k)
            S == {k \in 0..n : Combine(s \o c(k)) = Combine(c(k)) \o Combine(s)}
<1>1. n \in Nat /\ \A k \in 0..n : c(k) \in Seq(Inverses) /\ Len(c(k)) = k
  <2>1. n \in Nat  OBVIOUS
  <2>2. \A k \in 0..n : c(k) \in Seq(Inverses)  BY PartIs
  <2>3. \A k \in 0..n : Len(c(k)) = k  OBVIOUS
  <2>. QED  BY <2>1, <2>2, <2>3
<1>2. 0 \in S
  <2>1. c(0) = <<>>  OBVIOUS
  <2>2. s \o <<>> = s  BY ConcatEmptySeq
  <2>3. <<>> \o Combine(s) = Combine(s)  BY CombinePart, ConcatEmptySeq
  <2>4. Combine(s \o <<>>) = Combine(<<>>) \o Combine(s)  BY <2>2, <2>3, CombineNothing
  <2>5. 0 \in 0..n  BY <1>1
  <2>6. Combine(s \o c(0)) = Combine(c(0)) \o Combine(s)  BY <2>1, <2>4
  <2>. QED  BY <2>5, <2>6
<1>3. ASSUME NEW k \in 1..n, k - 1 \in S  PROVE k \in S
  <2>. DEFINE u == c(k - 1)
              x == t[k]
  <2>1. k - 1 \in 0..n /\ k \in 0..n /\ x \in Inverses  BY <1>1
  <2>2. u \in Seq(Inverses)  BY <1>1, <2>1
  <2>3. c(k) = Append(u, x)  OBVIOUS
  <2>4. Combine(s \o u) = Combine(u) \o Combine(s)  BY <1>3
  <2>. HIDE DEF u, x, c
  <2>5. s \o Append(u, x) = Append(s \o u, x)  BY <2>1, <2>2, InversesAppend
  <2>6. s \o u \in Seq(Inverses)  BY <2>2, ConcatProperties
  <2>7. Combine(s \o Append(u, x)) = x \o (Combine(u) \o Combine(s))
    BY <2>1, <2>4, <2>5, <2>6, CombineMore
  <2>8. x \o (Combine(u) \o Combine(s)) = (x \o Combine(u)) \o Combine(s)
    <3>1. x \in Seq(RawEdits) /\ Combine(u) \in Seq(RawEdits) /\ Combine(s) \in Seq(RawEdits)
      BY <2>1, <2>2, InversesAre, CombinePart
    <3>. QED  BY Zenon, <3>1, EditsAssociate
  <2>9. x \o Combine(u) = Combine(Append(u, x))  BY <2>1, <2>2, CombineMore
  <2>10. Combine(s \o c(k)) = Combine(c(k)) \o Combine(s)  BY <2>3, <2>7, <2>8, <2>9
  <2>. QED  BY <2>1, <2>10
<1>4. n \in S
  <2>. HIDE DEF S, n
  <2>1. n \in 0..n  BY <1>1
  <2>2. n \in Nat  BY <1>1
  <2>3. \A k \in 0..n : k \in S  BY <1>2, <1>3, <2>2, Upwards
  <2>. QED  BY <2>1, <2>3
<1>5. c(n) = t  OBVIOUS
<1>. QED  BY <1>4, <1>5

(* The transactions of the steps above the first k.                         *)
Part(steps, k) == TxnsOf(SubSeq(steps, k + 1, Len(steps)))

LEMMA PartFacts ==
    ASSUME NEW s \in Seq(Step(Inverses)), NEW k \in 0..Len(s)
    PROVE  /\ Part(s, k) \in Seq(Inverses) /\ Len(Part(s, k)) = Len(s) - k
           /\ \A i \in 1..(Len(s) - k) : Part(s, k)[i] = s[k + i].txn
           /\ Combine(Part(s, k)) \in Seq(RawEdits)
<1>. DEFINE n == Len(s)
            o == n - k
            q == SubSeq(s, k + 1, n)
<1>1. n \in Nat /\ o \in Nat /\ \A i \in 1..n : s[i].txn \in Inverses
  <2>1. n \in Nat /\ o \in Nat  OBVIOUS
  <2>2. \A i \in 1..n : s[i] \in Step(Inverses)  OBVIOUS
  <2>. QED  BY <2>1, <2>2 DEF Step
<1>2. Len(q) = o /\ DOMAIN q = 1..o /\ \A i \in 1..o : q[i] = s[k + i]
  BY <1>1
<1>3. \A i \in 1..o : k + i \in 1..n
  <2>. HIDE DEF n
  <2>. QED  BY <1>1
<1>. HIDE DEF q, n, o
<1>4. TxnsOf(q) = [i \in 1..o |-> q[i].txn]  BY <1>2 DEF TxnsOf
<1>5. \A i \in 1..o : q[i].txn = s[k + i].txn /\ q[i].txn \in Inverses
  BY <1>1, <1>2, <1>3
<1>6. TxnsOf(q) \in Seq(Inverses) /\ Len(TxnsOf(q)) = o
      /\ \A i \in 1..o : TxnsOf(q)[i] = s[k + i].txn
  BY <1>1, <1>4, <1>5
<1>7. Combine(TxnsOf(q)) \in Seq(RawEdits)  BY <1>6, CombinePart
<1>. QED  BY <1>6, <1>7 DEF Part, q, n, o

LEMMA PartTop ==
    ASSUME NEW s \in Seq(Step(Inverses))
    PROVE  Part(s, Len(s)) = <<>> /\ Combine(Part(s, Len(s))) = <<>>
<1>1. Len(s) \in 0..Len(s) /\ Len(s) - Len(s) = 0
  <2>1. Len(s) \in Nat  OBVIOUS
  <2>. QED  BY <2>1
<1>2. Part(s, Len(s)) \in Seq(Inverses) /\ Len(Part(s, Len(s))) = 0  BY <1>1, PartFacts
<1>3. Part(s, Len(s)) = <<>>  BY <1>2
<1>. QED  BY <1>3, CombineNothing

LEMMA PartAppend ==
    ASSUME NEW s \in Seq(Step(Inverses)), NEW x \in Step(Inverses), NEW k \in 0..Len(s)
    PROVE  /\ Part(Append(s, x), k) = Append(Part(s, k), x.txn)
           /\ Combine(Part(Append(s, x), k)) = x.txn \o Combine(Part(s, k))
<1>. DEFINE n == Len(s)
            o == n - k
            w == Append(s, x)
            p == Part(s, k)
            q == Part(w, k)
            e == Append(p, x.txn)
<1>1. n \in Nat /\ o \in Nat /\ x.txn \in Inverses
  <2>1. n \in Nat /\ o \in Nat  OBVIOUS
  <2>. QED  BY <2>1 DEF Step
<1>2. /\ w \in Seq(Step(Inverses)) /\ Len(w) = n + 1
      /\ w[n + 1] = x /\ \A i \in 1..n : w[i] = s[i]
  OBVIOUS
<1>3. p \in Seq(Inverses) /\ Len(p) = o /\ \A i \in 1..o : p[i] = s[k + i].txn
  BY PartFacts
<1>4. /\ k \in 0..(n + 1) /\ n + 1 - k = o + 1 /\ k + (o + 1) = n + 1
      /\ \A i \in 1..o : k + i \in 1..n
  <2>. HIDE DEF n
  <2>. QED  BY <1>1
<1>. HIDE DEF w, n, o
<1>5. q \in Seq(Inverses) /\ Len(q) = o + 1 /\ \A i \in 1..(o + 1) : q[i] = w[k + i].txn
  <2>0. Len(w) = n + 1  BY <1>2
  <2>1. k \in 0..Len(w) /\ Len(w) - k = o + 1
    <3>1. k \in 0..(n + 1)  BY <1>4
    <3>2. n + 1 - k = o + 1  BY <1>4
    <3>3. k \in 0..Len(w)  BY <2>0, <3>1
    <3>4. Len(w) - k = o + 1  BY <1>1, <2>0, <3>1, <3>2
    <3>. QED  BY <3>3, <3>4
  <2>2. w \in Seq(Step(Inverses))  BY <1>2
  <2>3. /\ Part(w, k) \in Seq(Inverses) /\ Len(Part(w, k)) = Len(w) - k
        /\ \A i \in 1..(Len(w) - k) : Part(w, k)[i] = w[k + i].txn
    BY <2>1, <2>2, PartFacts
  <2>. QED  BY <2>1, <2>3
<1>. HIDE DEF p, q
<1>6. /\ e \in Seq(Inverses) /\ Len(e) = o + 1
      /\ e[o + 1] = x.txn /\ \A i \in 1..o : e[i] = p[i]
  BY <1>1, <1>3
<1>. HIDE DEF e
<1>7. ASSUME NEW i \in 1..(o + 1)  PROVE q[i] = e[i]
  <2>1. CASE i = o + 1
    <3>1. w[k + i] = x  BY <1>2, <1>4, <2>1
    <3>. QED  BY <1>5, <1>6, <2>1, <3>1
  <2>2. CASE i # o + 1
    <3>1. i \in 1..o  BY <1>1, <2>2
    <3>2. w[k + i] = s[k + i]  BY <1>2, <1>4, <3>1
    <3>. QED  BY <1>3, <1>5, <1>6, <3>1, <3>2
  <2>. QED  BY <2>1, <2>2
<1>8. q = e  BY <1>5, <1>6, <1>7
<1>9. Combine(Append(p, x.txn)) = x.txn \o Combine(p)  BY <1>1, <1>3, CombineMore
<1>. QED  BY <1>8, <1>9 DEF w, p, q, e

LEMMA PartFront ==
    ASSUME NEW s \in Seq(Step(Inverses)), s # <<>>
    PROVE  /\ Len(s) \in Nat /\ Len(s) >= 1 /\ Len(Front(s)) = Len(s) - 1
           /\ Front(s) \in Seq(Step(Inverses)) /\ Last(s) \in Step(Inverses)
           /\ Last(s) = s[Len(s)] /\ \A i \in 1..(Len(s) - 1) : Front(s)[i] = s[i]
           /\ \A k \in 0..(Len(s) - 1) :
                Combine(Part(s, k)) = Last(s).txn \o Combine(Part(Front(s), k))
<1>1. /\ Len(s) \in Nat /\ Len(s) >= 1 /\ Len(Front(s)) = Len(s) - 1
      /\ Last(s) = s[Len(s)] /\ Last(s) \in Step(Inverses)
      /\ Front(s) \in Seq(Step(Inverses))
      /\ \A i \in 1..(Len(s) - 1) : Front(s)[i] = s[i]
  BY TxnsFront, FrontElements DEF Front
<1>2. s = Append(Front(s), Last(s))
  <2>. DEFINE f == Front(s)
              x == Last(s)
              e == Append(f, x)
              n == Len(s)
  <2>1. /\ e \in Seq(Step(Inverses)) /\ Len(e) = n /\ e[n] = x
        /\ \A i \in 1..(n - 1) : e[i] = f[i]
    <3>. HIDE DEF f, x
    <3>1. f \in Seq(Step(Inverses)) /\ x \in Step(Inverses) /\ Len(f) = n - 1 /\ n \in Nat
      BY <1>1 DEF f, x
    <3>. HIDE DEF n
    <3>2. /\ e \in Seq(Step(Inverses)) /\ Len(e) = Len(f) + 1 /\ e[Len(f) + 1] = x
          /\ \A i \in 1..Len(f) : e[i] = f[i]
      BY <3>1
    <3>3. Len(f) + 1 = n  BY <3>1
    <3>. QED  BY <3>1, <3>2, <3>3
  <2>. HIDE DEF e
  <2>2. ASSUME NEW i \in 1..n  PROVE s[i] = e[i]
    <3>1. CASE i = n  BY <1>1, <2>1, <3>1
    <3>2. CASE i # n
      <4>1. i \in 1..(n - 1)  BY <1>1, <3>2
      <4>. QED  BY <1>1, <2>1, <4>1
    <3>. QED  BY <3>1, <3>2
  <2>3. s = e  BY <2>1, <2>2
  <2>. QED  BY <2>3 DEF e
<1>3. ASSUME NEW k \in 0..(Len(s) - 1)
      PROVE  Combine(Part(s, k)) = Last(s).txn \o Combine(Part(Front(s), k))
  <2>. DEFINE f == Front(s)
              x == Last(s)
  <2>1. f \in Seq(Step(Inverses)) /\ x \in Step(Inverses) /\ k \in 0..Len(f)  BY <1>1
  <2>2. s = Append(f, x)  BY <1>2
  <2>. HIDE DEF f, x
  <2>3. Combine(Part(Append(f, x), k)) = x.txn \o Combine(Part(f, k))  BY <2>1, PartAppend
  <2>4. Combine(Part(s, k)) = x.txn \o Combine(Part(f, k))  BY <2>2, <2>3
  <2>. QED  BY <2>4 DEF f, x
<1>. QED  BY <1>1, <1>3

LEMMA PartJoin ==
    ASSUME NEW s \in Seq(Step(Inverses)), NEW j \in 0..Len(s), NEW k \in 0..j
    PROVE  /\ SubSeq(s, 1, j) \in Seq(Step(Inverses)) /\ Len(SubSeq(s, 1, j)) = j
           /\ \A i \in 1..j : SubSeq(s, 1, j)[i] = s[i]
           /\ Combine(Part(s, k)) = Combine(Part(s, j)) \o Combine(Part(SubSeq(s, 1, j), k))
<1>. DEFINE n == Len(s)
            w == SubSeq(s, 1, j)
            p == Part(w, k)
            q == Part(s, j)
            e == p \o q
<1>1. n \in Nat /\ w \in Seq(Step(Inverses)) /\ Len(w) = j /\ \A i \in 1..j : w[i] = s[i]
  OBVIOUS
<1>2. /\ k \in 0..n /\ n - k \in Nat /\ j - k \in Nat /\ n - j \in Nat
      /\ (j - k) + (n - j) = n - k
      /\ \A i \in 1..(j - k) : k + i \in 1..j
      /\ \A i \in 1..(n - j) : k + ((j - k) + i) = j + i
      /\ \A i \in 1..(n - k) : i \notin 1..(j - k) =>
                i - (j - k) \in 1..(n - j) /\ (j - k) + (i - (j - k)) = i
  <2>1. n \in Nat /\ j \in Nat /\ k \in Nat /\ j <= n /\ k <= j
    <3>1. n \in Nat  OBVIOUS
    <3>. HIDE DEF n
    <3>2. j \in 0..n  BY DEF n
    <3>. QED  BY <3>1, <3>2
  <2>. HIDE DEF n
  <2>2. /\ k \in 0..n /\ n - k \in Nat /\ j - k \in Nat /\ n - j \in Nat
        /\ (j - k) + (n - j) = n - k
    BY <2>1
  <2>3. \A i \in 1..(j - k) : k + i \in 1..j  BY <2>1
  <2>4. \A i \in 1..(n - j) : k + ((j - k) + i) = j + i  BY <2>1
  <2>5. \A i \in 1..(n - k) : i \notin 1..(j - k) =>
                i - (j - k) \in 1..(n - j) /\ (j - k) + (i - (j - k)) = i
    BY <2>1
  <2>. QED  BY <2>2, <2>3, <2>4, <2>5
<1>. HIDE DEF w, n
<1>3. p \in Seq(Inverses) /\ Len(p) = j - k /\ \A i \in 1..(j - k) : p[i] = w[k + i].txn
  BY <1>1, PartFacts
<1>4. q \in Seq(Inverses) /\ Len(q) = n - j /\ \A i \in 1..(n - j) : q[i] = s[j + i].txn
  BY PartFacts DEF n
<1>5. /\ Part(s, k) \in Seq(Inverses) /\ Len(Part(s, k)) = n - k
      /\ \A i \in 1..(n - k) : Part(s, k)[i] = s[k + i].txn
  <2>1. k \in 0..Len(s)  BY <1>2 DEF n
  <2>. QED  BY <2>1, PartFacts DEF n
<1>. HIDE DEF p, q
<1>6. /\ e \in Seq(Inverses) /\ Len(e) = n - k
      /\ \A i \in 1..(j - k) : e[i] = p[i]
      /\ \A i \in 1..(n - j) : e[(j - k) + i] = q[i]
  <2>1. /\ e \in Seq(Inverses) /\ Len(e) = Len(p) + Len(q)
        /\ \A i \in 1..Len(p) : e[i] = p[i]
        /\ \A i \in 1..Len(q) : e[Len(p) + i] = q[i]
    <3>1. p \in Seq(Inverses) /\ q \in Seq(Inverses)  BY <1>3, <1>4
    <3>. QED  BY <3>1, ConcatIs
  <2>. HIDE DEF e
  <2>2. Len(e) = n - k  BY <1>2, <1>3, <1>4, <2>1
  <2>. QED  BY <1>3, <1>4, <2>1, <2>2
<1>. HIDE DEF e
<1>7. ASSUME NEW i \in 1..(n - k)  PROVE Part(s, k)[i] = e[i]
  <2>1. CASE i \in 1..(j - k)
    <3>1. w[k + i] = s[k + i]  BY <1>1, <1>2, <2>1
    <3>. QED  BY <1>3, <1>5, <1>6, <2>1, <3>1
  <2>2. CASE i \notin 1..(j - k)
    <3>1. PICK h \in 1..(n - j) : (j - k) + h = i  BY <1>2, <2>2
    <3>2. k + i = j + h  BY <1>2, <3>1
    <3>3. e[i] = q[h] /\ q[h] = s[j + h].txn  BY <1>4, <1>6, <3>1
    <3>. QED  BY <1>5, <3>2, <3>3
  <2>. QED  BY <2>1, <2>2
<1>8. Part(s, k) = e
  <2>. DEFINE v == Part(s, k)
  <2>1. v \in Seq(Inverses) /\ Len(v) = n - k /\ \A i \in 1..(n - k) : v[i] = e[i]
    BY <1>5, <1>7
  <2>. HIDE DEF v, n
  <2>2. v = e  BY <1>6, <2>1
  <2>. QED  BY <2>2 DEF v
<1>9. Combine(p \o q) = Combine(q) \o Combine(p)  BY <1>3, <1>4, CombineJoin
<1>. QED  BY <1>1, <1>8, <1>9 DEF e, p, q, w

LEMMA PartTail ==
    ASSUME NEW s \in Seq(Step(Inverses)), s # <<>>, NEW k \in 0..(Len(s) - 1)
    PROVE  /\ Tail(s) \in Seq(Step(Inverses)) /\ Len(Tail(s)) = Len(s) - 1
           /\ \A i \in 1..(Len(s) - 1) : Tail(s)[i] = s[i + 1]
           /\ Part(Tail(s), k) = Part(s, k + 1)
<1>. DEFINE n == Len(s)
            t == Tail(s)
            p == Part(t, k)
            q == Part(s, k + 1)
<1>1. n \in Nat /\ n >= 1 /\ t \in Seq(Step(Inverses)) /\ Len(t) = n - 1
      /\ \A i \in 1..(n - 1) : t[i] = s[i + 1]
  OBVIOUS
<1>2. /\ k + 1 \in 0..n /\ n - 1 - k = n - (k + 1) /\ n - (k + 1) \in Nat
      /\ \A i \in 1..(n - (k + 1)) : k + i \in 1..(n - 1) /\ k + i + 1 = k + 1 + i
  <2>. HIDE DEF n
  <2>. QED  BY <1>1
<1>. HIDE DEF t
<1>3. p \in Seq(Inverses) /\ Len(p) = n - (k + 1)
      /\ \A i \in 1..(n - (k + 1)) : p[i] = t[k + i].txn
  <2>1. k \in 0..Len(t) /\ Len(t) - k = n - (k + 1)  BY <1>1, <1>2
  <2>. QED  BY <1>1, <2>1, PartFacts, SMTT(40)
<1>4. q \in Seq(Inverses) /\ Len(q) = n - (k + 1)
      /\ \A i \in 1..(n - (k + 1)) : q[i] = s[k + 1 + i].txn
  BY <1>2, PartFacts
<1>. HIDE DEF p, q, n
<1>5. ASSUME NEW i \in 1..(n - (k + 1))  PROVE p[i] = q[i]
  <2>1. k + i \in 1..(n - 1) /\ k + i + 1 = k + 1 + i  BY <1>2
  <2>2. t[k + i] = s[k + i + 1]  BY <1>1, <2>1
  <2>3. p[i] = t[k + i].txn  BY <1>3
  <2>4. q[i] = s[k + 1 + i].txn  BY <1>4
  <2>. QED  BY <2>1, <2>2, <2>3, <2>4
<1>6. p = q  BY <1>2, <1>3, <1>4, <1>5
<1>. QED  BY <1>1, <1>6 DEF p, q, t, n

(* The ids a mark was taken on, the first d of them dropped, are those of   *)
(* the first k steps: up the undo stack and then down the redo stack.       *)
Rests(ids, u, r, d, k) ==
    /\ k <= Len(u) + Len(r) /\ k + d = Len(ids) /\ (k = 0 => ids = <<>>)
    /\ \A i \in 1..k :
        /\ i <= Len(u) => u[i].id = ids[d + i]
        /\ i > Len(u) => r[Len(r) - (i - Len(u)) + 1].id = ids[d + i]

(* What would have to be applied to stand on them: the inverses above them  *)
(* undone, or the steps missing redone.                                     *)
Way(u, r, g, k) ==
    IF k <= Len(u) THEN Combine(g) \o Combine(Part(u, k))
    ELSE Combine(Part(r, Len(r) + Len(u) - k))

Comes(ids, u, r, g, l, d, m) ==
    \A k \in Nat : Rests(ids, u, r, d, k) => Arrives(l, Way(u, r, g, k), m)

LEMMA WayIs ==
    ASSUME NEW u \in Seq(Step(Inverses)), NEW r \in Seq(Step(Inverses)),
           NEW g \in Seq(Inverses), NEW k \in 0..(Len(u) + Len(r))
    PROVE  /\ Way(u, r, g, k) \in Seq(RawEdits)
           /\ k <= Len(u) =>
                /\ k \in 0..Len(u) /\ Combine(Part(u, k)) \in Seq(RawEdits)
                /\ Way(u, r, g, k) = Combine(g) \o Combine(Part(u, k))
                /\ g = <<>> => Way(u, r, g, k) = Combine(Part(u, k))
           /\ ~(k <= Len(u)) =>
                /\ Len(r) + Len(u) - k \in 0..Len(r)
                /\ Way(u, r, g, k) = Combine(Part(r, Len(r) + Len(u) - k))
           /\ k = Len(u) /\ g = <<>> => Way(u, r, g, k) = <<>>
<1>0. Len(u) \in Nat /\ Len(r) \in Nat  OBVIOUS
<1>. DEFINE a == Len(u)
            b == Len(r)
<1>. HIDE DEF a, b
<1>1. k <= a => k \in 0..a  BY <1>0 DEF a, b
<1>2. ~(k <= a) => b + a - k \in 0..b
  <2>1. a \in Nat /\ b \in Nat /\ k \in 0..(a + b)  BY <1>0 DEF a, b
  <2>. QED  BY <2>1
<1>3. ASSUME k <= a
      PROVE  /\ Combine(Part(u, k)) \in Seq(RawEdits) /\ Combine(g) \in Seq(RawEdits)
             /\ Way(u, r, g, k) = Combine(g) \o Combine(Part(u, k))
             /\ Way(u, r, g, k) \in Seq(RawEdits)
             /\ g = <<>> => Way(u, r, g, k) = Combine(Part(u, k))
  <2>. DEFINE p == Combine(Part(u, k))
  <2>1. p \in Seq(RawEdits)  BY <1>1, <1>3, PartFacts DEF a
  <2>2. Combine(g) \in Seq(RawEdits)  BY CombinePart
  <2>3. Way(u, r, g, k) = Combine(g) \o p  BY <1>3 DEF Way, a
  <2>. HIDE DEF p
  <2>4. Combine(g) \o p \in Seq(RawEdits)  BY <2>1, <2>2, ConcatProperties
  <2>5. g = <<>> => Combine(g) \o p = p
    <3>1. <<>> \o p = p  BY <2>1, ConcatEmptySeq
    <3>. QED  BY <3>1, CombineNothing
  <2>6. /\ p \in Seq(RawEdits) /\ Combine(g) \in Seq(RawEdits)
        /\ Way(u, r, g, k) = Combine(g) \o p
        /\ Way(u, r, g, k) \in Seq(RawEdits)
        /\ g = <<>> => Way(u, r, g, k) = p
    BY Zenon, <2>1, <2>2, <2>3, <2>4, <2>5
  <2>. QED  BY <2>6 DEF p
<1>4. ASSUME ~(k <= a)
      PROVE  /\ Way(u, r, g, k) = Combine(Part(r, b + a - k))
             /\ Way(u, r, g, k) \in Seq(RawEdits)
  <2>1. Way(u, r, g, k) = Combine(Part(r, b + a - k))  BY <1>4 DEF Way, a, b
  <2>2. b + a - k \in 0..Len(r)  BY <1>2, <1>4 DEF b
  <2>3. Combine(Part(r, b + a - k)) \in Seq(RawEdits)  BY <2>2, PartFacts
  <2>. QED  BY Zenon, <2>1, <2>3
<1>5. ASSUME k = a, g = <<>>  PROVE Way(u, r, g, k) = <<>>
  <2>1. Combine(Part(u, Len(u))) = <<>>  BY PartTop
  <2>2. k <= a  BY <1>0, <1>5 DEF a
  <2>3. Combine(Part(u, k)) = <<>>  BY <1>5, <2>1 DEF a
  <2>4. Way(u, r, g, k) = Combine(Part(u, k))  BY <1>3, <1>5, <2>2
  <2>. QED  BY <2>3, <2>4
<1>. QED  BY <1>1, <1>2, <1>3, <1>4, <1>5 DEF a, b

LEMMA WayDown ==
    ASSUME NEW u \in Seq(Step(Inverses)), NEW r \in Seq(Step(Inverses)),
           NEW g \in Seq(Inverses), NEW k \in 0..(Len(u) + Len(r)), k <= Len(u)
    PROVE  /\ Combine(Part(u, k)) \in Seq(RawEdits)
           /\ Way(u, r, g, k) = Combine(g) \o Combine(Part(u, k))
BY WayIs

(* Another layer that differs in order.                                     *)
LEMMA SameComes ==
    ASSUME NEW u \in Seq(Step(Inverses)), NEW r \in Seq(Step(Inverses)),
           NEW g \in Seq(Inverses), NEW ids, NEW l \in Layers, NEW d, NEW m,
           Comes(ids, u, r, g, l, d, m), NEW k \in Layers, SameButOrder(l, k)
    PROVE  Comes(ids, u, r, g, k, d, m)
<1>. SUFFICES ASSUME NEW j \in Nat, Rests(ids, u, r, d, j)
     PROVE  Arrives(k, Way(u, r, g, j), m)
  BY DEF Comes
<1>1. j \in 0..(Len(u) + Len(r))
  <2>1. j <= Len(u) + Len(r) /\ Len(u) \in Nat /\ Len(r) \in Nat  BY DEF Rests
  <2>. QED  BY <2>1
<1>2. Way(u, r, g, j) \in Seq(RawEdits)  BY <1>1, WayIs
<1>3. Arrives(l, Way(u, r, g, j), m)  BY DEF Comes
<1>. QED  BY <1>2, <1>3, ArrivesSame

(* A step undone: it goes from the undo stack to the redo stack.            *)
LEMMA UndoneComes ==
    ASSUME NEW u \in Seq(Step(Inverses)), u # <<>>, NEW r \in Seq(Step(Inverses)),
           NEW ids, NEW l, NEW d \in Nat, NEW m, Comes(ids, u, r, <<>>, l, d, m),
           NEW k, NEW y \in Step(Inverses), y.id = Last(u).id,
           Goes(l, Last(u).txn, k), Goes(k, y.txn, l)
    PROVE  Comes(ids, Front(u), Append(r, y), <<>>, k, d, m)
<1>. DEFINE f == Front(u)
            w == Append(r, y)
            x == Last(u)
            n == Len(u)
            o == Len(r)
<1>1. /\ n \in Nat /\ n >= 1 /\ Len(f) = n - 1 /\ f \in Seq(Step(Inverses))
      /\ x \in Step(Inverses) /\ x = u[n] /\ \A i \in 1..(n - 1) : f[i] = u[i]
      /\ \A j \in 0..(n - 1) : Combine(Part(u, j)) = x.txn \o Combine(Part(f, j))
  BY PartFront
<1>2. /\ w \in Seq(Step(Inverses)) /\ Len(w) = o + 1 /\ w[o + 1] = y
      /\ o \in Nat /\ \A i \in 1..o : w[i] = r[i]
  OBVIOUS
<1>3. \A j \in 0..o : Combine(Part(w, j)) = y.txn \o Combine(Part(r, j))  BY PartAppend
<1>4. x.txn \in Seq(RawEdits) /\ y.txn \in Seq(RawEdits)
  <2>1. x.txn \in Inverses /\ y.txn \in Inverses  BY <1>1 DEF Step
  <2>. QED  BY <2>1, InversesAre
<1>5. Goes(l, x.txn, k) /\ x.id = y.id  OBVIOUS
<1>0. u \in Seq(Step(Inverses)) /\ r \in Seq(Step(Inverses)) /\ n = Len(u) /\ o = Len(r)
      /\ <<>> \in Seq(Inverses)
  OBVIOUS
<1>. HIDE DEF f, w, x, n, o
<1>. SUFFICES ASSUME NEW j \in Nat, Rests(ids, f, w, d, j)
     PROVE  Arrives(k, Way(f, w, <<>>, j), m)
  BY DEF Comes, f, w
<1>6. /\ j <= n + o /\ j + d = Len(ids) /\ (j = 0 => ids = <<>>)
      /\ \A i \in 1..j :
            /\ i <= n - 1 => f[i].id = ids[d + i]
            /\ i > n - 1 => w[o + 1 - (i - (n - 1)) + 1].id = ids[d + i]
  <2>1. n - 1 + (o + 1) = n + o  BY <1>1, <1>2
  <2>. QED  BY <1>1, <1>2, <2>1 DEF Rests
<1>7. Rests(ids, u, r, d, j)
  <2>1. ASSUME NEW i \in 1..j, i <= n  PROVE u[i].id = ids[d + i]
    <3>1. CASE i = n
      <4>1. i > n - 1 /\ o + 1 - (i - (n - 1)) + 1 = o + 1  BY <1>1, <1>2, <3>1
      <4>2. w[o + 1].id = ids[d + i]  BY <1>6, <4>1
      <4>. QED  BY <1>1, <1>2, <1>5, <3>1, <4>2
    <3>2. CASE i # n
      <4>1. i \in 1..(n - 1) /\ i <= n - 1  BY <1>1, <2>1, <3>2
      <4>. QED  BY <1>1, <1>6, <4>1
    <3>. QED  BY <3>1, <3>2
  <2>2. ASSUME NEW i \in 1..j, i > n  PROVE r[o - (i - n) + 1].id = ids[d + i]
    <3>1. PICK h \in 1..o : h = o - (i - n) + 1 /\ h = o + 1 - (i - (n - 1)) + 1
      <4>1. o - (i - n) + 1 \in 1..o /\ o - (i - n) + 1 = o + 1 - (i - (n - 1)) + 1
        BY <1>1, <1>2, <1>6, <2>2
      <4>. QED  BY <4>1
    <3>2. i > n - 1  BY <1>1, <2>2
    <3>3. w[h].id = ids[d + i]  BY <1>6, <3>1, <3>2
    <3>4. w[h] = r[h]  BY <1>2
    <3>. QED  BY <3>1, <3>3, <3>4
  <2>. QED  BY <1>0, <1>6, <2>1, <2>2 DEF Rests
<1>8. Arrives(l, Way(u, r, <<>>, j), m)  BY <1>7 DEF Comes
<1>9. j \in 0..(n + o) /\ j \in 0..(Len(f) + Len(w))  BY <1>1, <1>2, <1>6
<1>10. CASE j <= n - 1
  <2>1. j <= n /\ j <= Len(f) /\ j \in 0..(n - 1) /\ j \in 0..Len(f)  BY <1>1, <1>10
  <2>2. Way(u, r, <<>>, j) = Combine(Part(u, j))  BY <1>0, <1>9, <2>1, WayIs
  <2>3. Way(f, w, <<>>, j) = Combine(Part(f, j)) /\ Combine(Part(f, j)) \in Seq(RawEdits)
    BY <1>0, <1>1, <1>2, <1>9, <2>1, WayIs
  <2>4. Combine(Part(u, j)) = x.txn \o Combine(Part(f, j))  BY <1>1, <2>1
  <2>5. Arrives(l, x.txn \o Combine(Part(f, j)), m)  BY <1>8, <2>2, <2>4
  <2>. QED  BY <1>4, <1>5, <2>3, <2>5, ArrivesOn
<1>11. CASE ~(j <= n - 1)
  <2>. DEFINE h == o + n - j
  <2>1. h \in 0..o /\ o + 1 + (n - 1) - j = h /\ ~(j <= Len(f)) /\ h \in 0..Len(r)
    BY <1>0, <1>1, <1>2, <1>9, <1>11
  <2>2. Way(f, w, <<>>, j) = Combine(Part(w, h))
    <3>1. Way(f, w, <<>>, j) = Combine(Part(w, Len(w) + Len(f) - j))
      BY <1>0, <1>1, <1>2, <1>9, <2>1, WayIs
    <3>2. Len(w) + Len(f) - j = h  BY <1>1, <1>2, <2>1
    <3>. QED  BY <3>1, <3>2
  <2>3. Way(u, r, <<>>, j) = Combine(Part(r, h)) /\ Combine(Part(r, h)) \in Seq(RawEdits)
    <3>0. Combine(Part(r, h)) \in Seq(RawEdits)  BY <2>1, PartFacts
    <3>1. CASE j = n
      <4>1. h = Len(r)  BY <1>0, <1>1, <1>2, <3>1
      <4>2. Combine(Part(r, Len(r))) = <<>>  BY PartTop
      <4>3. Way(u, r, <<>>, j) = <<>>  BY <1>0, <1>9, <3>1, WayIs
      <4>. HIDE DEF h
      <4>. QED  BY <3>0, <4>1, <4>2, <4>3
    <3>2. CASE j # n
      <4>1. ~(j <= n)  BY <1>1, <1>11, <3>2
      <4>2. Way(u, r, <<>>, j) = Combine(Part(r, Len(r) + Len(u) - j))
        BY <1>0, <1>9, <4>1, WayIs
      <4>. QED  BY <1>0, <3>0, <4>2
    <3>. QED  BY <3>1, <3>2
  <2>. HIDE DEF h
  <2>4. Combine(Part(w, h)) = y.txn \o Combine(Part(r, h))  BY <1>3, <2>1
  <2>5. Arrives(k, y.txn \o Combine(Part(r, h)), m)
    BY <1>4, <1>8, <2>3, ArrivesBack
  <2>. QED  BY <2>2, <2>4, <2>5
<1>. QED  BY <1>10, <1>11

(* A step redone: it goes back to the undo stack.                           *)
LEMMA RedoneComes ==
    ASSUME NEW u \in Seq(Step(Inverses)), NEW r \in Seq(Step(Inverses)), r # <<>>,
           NEW ids, NEW l, NEW d \in Nat, NEW m, Comes(ids, u, r, <<>>, l, d, m),
           NEW k, NEW y \in Step(Inverses), y.id = Last(r).id,
           Goes(l, Last(r).txn, k), Goes(k, y.txn, l)
    PROVE  Comes(ids, Append(u, y), Front(r), <<>>, k, d, m)
<1>. DEFINE f == Front(r)
            w == Append(u, y)
            x == Last(r)
            n == Len(u)
            o == Len(r)
<1>1. /\ o \in Nat /\ o >= 1 /\ Len(f) = o - 1 /\ f \in Seq(Step(Inverses))
      /\ x \in Step(Inverses) /\ x = r[o] /\ \A i \in 1..(o - 1) : f[i] = r[i]
      /\ \A j \in 0..(o - 1) : Combine(Part(r, j)) = x.txn \o Combine(Part(f, j))
  BY PartFront
<1>2. /\ w \in Seq(Step(Inverses)) /\ Len(w) = n + 1 /\ w[n + 1] = y
      /\ n \in Nat /\ \A i \in 1..n : w[i] = u[i]
  OBVIOUS
<1>3. \A j \in 0..n : Combine(Part(w, j)) = y.txn \o Combine(Part(u, j))  BY PartAppend
<1>4. x.txn \in Seq(RawEdits) /\ y.txn \in Seq(RawEdits)
  <2>1. x.txn \in Inverses /\ y.txn \in Inverses  BY <1>1 DEF Step
  <2>. QED  BY <2>1, InversesAre
<1>5. Goes(l, x.txn, k) /\ x.id = y.id /\ Goes(k, y.txn, l)  OBVIOUS
<1>0. u \in Seq(Step(Inverses)) /\ r \in Seq(Step(Inverses)) /\ n = Len(u) /\ o = Len(r)
      /\ <<>> \in Seq(Inverses)
  OBVIOUS
<1>. HIDE DEF f, w, x, n, o
<1>. SUFFICES ASSUME NEW j \in Nat, Rests(ids, w, f, d, j)
     PROVE  Arrives(k, Way(w, f, <<>>, j), m)
  BY DEF Comes, f, w
<1>6. /\ j <= n + o /\ j + d = Len(ids) /\ (j = 0 => ids = <<>>)
      /\ \A i \in 1..j :
            /\ i <= n + 1 => w[i].id = ids[d + i]
            /\ i > n + 1 => f[o - 1 - (i - (n + 1)) + 1].id = ids[d + i]
  <2>1. n + 1 + (o - 1) = n + o  BY <1>1, <1>2
  <2>. QED  BY <1>1, <1>2, <2>1 DEF Rests
<1>7. Rests(ids, u, r, d, j)
  <2>1. ASSUME NEW i \in 1..j, i <= n  PROVE u[i].id = ids[d + i]
    <3>1. i \in 1..n /\ i <= n + 1  BY <1>2, <2>1
    <3>. QED  BY <1>2, <1>6, <3>1
  <2>2. ASSUME NEW i \in 1..j, i > n  PROVE r[o - (i - n) + 1].id = ids[d + i]
    <3>1. CASE i = n + 1
      <4>1. i <= n + 1 /\ o - (i - n) + 1 = o  BY <1>1, <1>2, <3>1
      <4>2. w[n + 1].id = ids[d + i]  BY <1>6, <3>1, <4>1
      <4>. QED  BY <1>1, <1>2, <1>5, <4>1, <4>2
    <3>2. CASE i # n + 1
      <4>1. PICK h \in 1..(o - 1) : h = o - (i - n) + 1 /\ h = o - 1 - (i - (n + 1)) + 1
        <5>1. o - (i - n) + 1 \in 1..(o - 1)
              /\ o - (i - n) + 1 = o - 1 - (i - (n + 1)) + 1
          BY <1>1, <1>2, <1>6, <2>2, <3>2
        <5>. QED  BY <5>1
      <4>2. i > n + 1  BY <1>2, <2>2, <3>2
      <4>3. f[h].id = ids[d + i]  BY <1>6, <4>1, <4>2
      <4>4. f[h] = r[h]  BY <1>1
      <4>. QED  BY <4>1, <4>3, <4>4
    <3>. QED  BY <3>1, <3>2
  <2>. QED  BY <1>0, <1>6, <2>1, <2>2 DEF Rests
<1>8. Arrives(l, Way(u, r, <<>>, j), m)  BY <1>7 DEF Comes
<1>9. j \in 0..(n + o) /\ j \in 0..(Len(w) + Len(f))  BY <1>1, <1>2, <1>6
<1>10. CASE j <= n
  <2>1. j <= Len(w) /\ j \in 0..n /\ j \in 0..Len(w) /\ j <= Len(u)  BY <1>0, <1>2, <1>10
  <2>2. Way(u, r, <<>>, j) = Combine(Part(u, j)) /\ Combine(Part(u, j)) \in Seq(RawEdits)
    BY <1>0, <1>9, <2>1, WayIs
  <2>3. Way(w, f, <<>>, j) = Combine(Part(w, j))
    BY <1>0, <1>1, <1>2, <1>9, <2>1, WayIs
  <2>4. Combine(Part(w, j)) = y.txn \o Combine(Part(u, j))  BY <1>3, <2>1
  <2>5. Arrives(k, y.txn \o Combine(Part(u, j)), m)
    BY <1>4, <1>5, <1>8, <2>2, ArrivesBack
  <2>. QED  BY <2>3, <2>4, <2>5
<1>11. CASE ~(j <= n)
  <2>. DEFINE h == o + n - j
  <2>0. j \in Nat /\ n \in Nat /\ o \in Nat /\ o >= 1 /\ j <= n + o /\ j > n
    BY <1>1, <1>2, <1>6, <1>11
  <2>1. /\ h \in 0..(o - 1) /\ o - 1 + (n + 1) - j = h /\ ~(j <= Len(u)) /\ h \in 0..Len(f)
        /\ h = Len(r) + Len(u) - j
    <3>1. h \in 0..(o - 1) /\ o - 1 + (n + 1) - j = h  BY <2>0
    <3>2. ~(j <= n) /\ h = o + n - j  BY <2>0
    <3>. HIDE DEF h
    <3>. QED  BY <1>0, <1>1, <3>1, <3>2
  <2>2. Way(u, r, <<>>, j) = Combine(Part(r, h))  BY <1>0, <1>9, <2>1, WayIs
  <2>3. Way(w, f, <<>>, j) = Combine(Part(f, h)) /\ Combine(Part(f, h)) \in Seq(RawEdits)
    <3>0. Combine(Part(f, h)) \in Seq(RawEdits)  BY <1>1, <2>1, PartFacts
    <3>1. CASE j = n + 1
      <4>1. h = Len(f) /\ j = Len(w)  BY <1>1, <1>2, <3>1
      <4>2. Combine(Part(f, Len(f))) = <<>>  BY <1>1, PartTop
      <4>3. Way(w, f, <<>>, j) = <<>>  BY <1>0, <1>1, <1>2, <1>9, <4>1, WayIs
      <4>. HIDE DEF h
      <4>. QED  BY <3>0, <4>1, <4>2, <4>3
    <3>2. CASE j # n + 1
      <4>1. ~(j <= Len(w))  BY <1>2, <1>11, <3>2
      <4>2. Way(w, f, <<>>, j) = Combine(Part(f, Len(f) + Len(w) - j))
        BY <1>0, <1>1, <1>2, <1>9, <4>1, WayIs
      <4>3. Len(f) + Len(w) - j = h  BY <1>1, <1>2, <2>1
      <4>. HIDE DEF h
      <4>. QED  BY <3>0, <4>2, <4>3
    <3>. QED  BY <3>1, <3>2
  <2>. HIDE DEF h
  <2>4. Combine(Part(r, h)) = x.txn \o Combine(Part(f, h))  BY <1>1, <2>1
  <2>5. Arrives(l, x.txn \o Combine(Part(f, h)), m)  BY <1>8, <2>2, <2>4
  <2>6. Arrives(k, Combine(Part(f, h)), m)  BY <1>4, <1>5, <2>3, <2>5, ArrivesOn
  <2>. QED  BY <2>3, <2>6
<1>. QED  BY <1>10, <1>11

(* An edit recorded in the open group.                                      *)
LEMMA GroupedComes ==
    ASSUME NEW u \in Seq(Step(Inverses)), NEW r \in Seq(Step(Inverses)),
           NEW g \in Seq(Inverses), NEW ids, NEW l, NEW d, NEW m,
           Comes(ids, u, r, g, l, d, m), NEW k, NEW x \in Inverses, Goes(k, x, l)
    PROVE  Comes(ids, u, <<>>, Append(g, x), k, d, m)
<1>. DEFINE e == Append(g, x)
<1>0. /\ <<>> \in Seq(Step(Inverses)) /\ Len(<<>>) = 0 /\ Len(u) \in Nat
      /\ Len(r) \in Nat
  OBVIOUS
<1>1. e \in Seq(Inverses) /\ x \in Seq(RawEdits)  BY InversesAre
<1>. SUFFICES ASSUME NEW j \in Nat, Rests(ids, u, <<>>, d, j)
     PROVE  Arrives(k, Way(u, <<>>, e, j), m)
  BY DEF Comes
<1>2. /\ j <= Len(u) /\ j + d = Len(ids) /\ (j = 0 => ids = <<>>)
      /\ \A i \in 1..j : i <= Len(u) => u[i].id = ids[d + i]
  BY <1>0 DEF Rests
<1>3. /\ j \in 0..(Len(u) + Len(r)) /\ j \in 0..(Len(u) + Len(<<>>))
      /\ \A i \in 1..j : ~(i > Len(u))
  BY <1>0, <1>2
<1>4. Rests(ids, u, r, d, j)
  <2>1. j <= Len(u) + Len(r)  BY <1>0, <1>2
  <2>. QED  BY <1>2, <1>3, <2>1 DEF Rests
<1>5. Arrives(l, Way(u, r, g, j), m)  BY <1>4 DEF Comes
<1>. DEFINE p == Combine(Part(u, j))
<1>6. p \in Seq(RawEdits) /\ Way(u, r, g, j) = Combine(g) \o p  BY <1>2, <1>3, WayIs
<1>7. Way(u, <<>>, e, j) = Combine(e) \o p
  <2>. HIDE DEF e
  <2>. QED  BY <1>0, <1>1, <1>2, <1>3, WayIs
<1>8. Combine(e) = x \o Combine(g)  BY CombineMore
<1>. HIDE DEF p, e
<1>9. Combine(g) \in Seq(RawEdits)  BY CombinePart
<1>10. (x \o Combine(g)) \o p = x \o (Combine(g) \o p)
  BY Zenon, <1>1, <1>6, <1>9, EditsAssociate
<1>11. Combine(g) \o p \in Seq(RawEdits)  BY <1>6, <1>9, ConcatProperties
<1>12. Arrives(l, Combine(g) \o p, m)  BY Zenon, <1>5, <1>6
<1>13. Arrives(k, x \o (Combine(g) \o p), m)  BY Zenon, <1>1, <1>11, <1>12, ArrivesBack
<1>. QED  BY Zenon, <1>7, <1>8, <1>10, <1>13

(* The inner level of an open group taken back.                             *)
LEMMA AbandonedComes ==
    ASSUME NEW u \in Seq(Step(Inverses)), NEW r \in Seq(Step(Inverses)),
           NEW g \in Seq(Inverses), g # <<>> => r = <<>>,
           NEW s \in 0..Len(g), NEW ids, NEW l, NEW d, NEW m,
           Comes(ids, u, r, g, l, d, m), NEW k,
           Goes(l, Combine(SubSeq(g, s + 1, Len(g))), k)
    PROVE  Comes(ids, u, r, SubSeq(g, 1, s), k, d, m)
<1>. DEFINE e == SubSeq(g, 1, s)
            inner == SubSeq(g, s + 1, Len(g))
            n == Len(g)
<1>1. e \in Seq(Inverses) /\ inner \in Seq(Inverses) /\ g = e \o inner
  <2>1. /\ n \in Nat /\ n - s \in Nat /\ s \in 0..n /\ s + (n - s) = n
        /\ e \in Seq(Inverses) /\ Len(e) = s /\ \A i \in 1..s : e[i] = g[i]
    OBVIOUS
  <2>2. /\ inner \in Seq(Inverses) /\ Len(inner) = n - s
        /\ \A i \in 1..(n - s) : inner[i] = g[s + i]
    OBVIOUS
  <2>3. g \in Seq(Inverses) /\ n = Len(g)  OBVIOUS
  <2>. DEFINE w == e \o inner
  <2>. HIDE DEF e, inner, n
  <2>4. /\ w \in Seq(Inverses) /\ Len(w) = Len(e) + Len(inner)
        /\ \A i \in 1..Len(e) : w[i] = e[i]
        /\ \A i \in 1..Len(inner) : w[Len(e) + i] = inner[i]
    <3>1. e \in Seq(Inverses) /\ inner \in Seq(Inverses)  BY <2>1, <2>2
    <3>. QED  BY <3>1, ConcatIs
  <2>. HIDE DEF w
  <2>5. ASSUME NEW i \in 1..n  PROVE g[i] = w[i]
    <3>1. CASE i <= s
      <4>1. i \in 1..s  BY <2>1, <3>1
      <4>. QED  BY <2>1, <2>4, <4>1
    <3>2. CASE ~(i <= s)
      <4>1. PICK h \in 1..(n - s) : s + h = i
        <5>1. i - s \in 1..(n - s) /\ s + (i - s) = i  BY <2>1, <3>2
        <5>. QED  BY <5>1
      <4>. QED  BY <2>1, <2>2, <2>4, <4>1
    <3>. QED  BY <3>1, <3>2
  <2>6. Len(w) = n  BY <2>1, <2>2, <2>4
  <2>7. g = w  BY <2>3, <2>4, <2>5, <2>6
  <2>. QED  BY <2>1, <2>2, <2>7 DEF w
<1>2. CASE g = <<>>
  <2>1. Len(g) = 0 /\ s = 0  BY <1>2
  <2>2. e = <<>> /\ inner = <<>>  BY <1>1, <2>1
  <2>3. Combine(inner) = <<>>  BY <2>2, CombineNothing
  <2>. HIDE DEF e, inner
  <2>4. Goes(l, Combine(inner), k)  BY DEF inner
  <2>5. k = l  BY <2>3, <2>4, GoesNoOther
  <2>6. Comes(ids, u, r, e, k, d, m)  BY <1>2, <2>2, <2>5
  <2>. QED  BY <2>6 DEF e
<1>3. CASE g # <<>>
  <2>0. r = <<>> /\ Len(<<>>) = 0 /\ Len(u) \in Nat  BY <1>3
  <2>1. Goes(l, Combine(inner), k)  OBVIOUS
  <2>. HIDE DEF e, inner
  <2>. SUFFICES ASSUME NEW j \in Nat, Rests(ids, u, r, d, j)
       PROVE  Arrives(k, Way(u, r, e, j), m)
    BY DEF Comes, e
  <2>2. j <= Len(u) /\ j \in 0..(Len(u) + Len(r))  BY <2>0 DEF Rests
  <2>3. Arrives(l, Way(u, r, g, j), m)  BY DEF Comes
  <2>. DEFINE p == Combine(Part(u, j))
  <2>4. p \in Seq(RawEdits) /\ Way(u, r, g, j) = Combine(g) \o p  BY Zenon, <2>2, WayDown
  <2>5. Way(u, r, e, j) = Combine(e) \o p  BY <1>1, <2>2, WayIs
  <2>. HIDE DEF p
  <2>6. Combine(g) = Combine(inner) \o Combine(e)  BY <1>1, CombineJoin
  <2>7. Combine(inner) \in Seq(RawEdits) /\ Combine(e) \in Seq(RawEdits)
    BY <1>1, CombinePart
  <2>8. (Combine(inner) \o Combine(e)) \o p = Combine(inner) \o (Combine(e) \o p)
    BY Zenon, <2>4, <2>7, EditsAssociate
  <2>9. Combine(e) \o p \in Seq(RawEdits)  BY <2>4, <2>7, ConcatProperties
  <2>10. Arrives(l, Combine(inner) \o (Combine(e) \o p), m)
    BY Zenon, <2>3, <2>4, <2>6, <2>8
  <2>11. Arrives(k, Combine(e) \o p, m)  BY Zenon, <2>1, <2>7, <2>9, <2>10, ArrivesOn
  <2>. QED  BY Zenon, <2>5, <2>11
<1>. QED  BY <1>2, <1>3

Rising(ids) == \A i, j \in 1..Len(ids) : i < j => ids[i] < ids[j]

HeldBy(u, r) == {u[i].id : i \in DOMAIN u} \cup {r[j].id : j \in DOMAIN r}

(* Of the steps there are, those from before the mark are ones it was taken *)
(* on, and none of the first d of them.                                     *)
Numbered(ids, held, d) ==
    ids # <<>> => \A id \in held :
        id <= ids[Len(ids)] => \E q \in (d + 1)..Len(ids) : id = ids[q]

Sorted(u, r) ==
    /\ \A i, j \in DOMAIN u : i < j => u[i].id < u[j].id
    /\ \A i \in DOMAIN u, j \in DOMAIN r : u[i].id < r[j].id

LEMMA NumberedMore ==
    ASSUME NEW ids \in Seq(Nat), NEW held, NEW d, Numbered(ids, held, d), NEW more,
           \A id \in more : id \in held \/ (id \in Nat /\ \A i \in 1..Len(ids) : ids[i] < id)
    PROVE  Numbered(ids, more, d)
<1>. SUFFICES ASSUME ids # <<>>, NEW id \in more, id <= ids[Len(ids)]
     PROVE  \E q \in (d + 1)..Len(ids) : id = ids[q]
  BY DEF Numbered
<1>1. Len(ids) \in 1..Len(ids) /\ \A i \in 1..Len(ids) : ids[i] \in Nat  OBVIOUS
<1>2. id \in held
  <2>. SUFFICES ASSUME id \in Nat, \A i \in 1..Len(ids) : ids[i] < id  PROVE FALSE
    OBVIOUS
  <2>1. ids[Len(ids)] < id /\ ids[Len(ids)] \in Nat  BY <1>1
  <2>. QED  BY <2>1
<1>. QED  BY <1>2 DEF Numbered

(* No step there is lies between two next to each other that a mark was     *)
(* taken on, nor under the first of them that was not dropped.              *)
LEMMA NoneBetween ==
    ASSUME NEW ids \in Seq(Nat), Rising(ids), NEW held, NEW d \in Nat,
           Numbered(ids, held, d), NEW id \in held, id \in Nat,
           NEW p \in (d + 1)..Len(ids), id < ids[p], p > d + 1 => ids[p - 1] < id
    PROVE  FALSE
<1>. DEFINE n == Len(ids)
<1>1. /\ n \in Nat /\ p \in 1..n /\ n \in 1..n /\ ids # <<>>
      /\ \A i \in 1..n : ids[i] \in Nat
  <2>1. n \in Nat /\ \A i \in 1..n : ids[i] \in Nat  OBVIOUS
  <2>2. p \in 1..n /\ n \in 1..n
    <3>. HIDE DEF n
    <3>1. p \in (d + 1)..n  BY DEF n
    <3>. QED  BY <2>1, <3>1
  <2>3. ids # <<>>
    <3>1. Len(<<>>) = 0  OBVIOUS
    <3>. QED  BY <2>2, <3>1
  <2>. QED  BY <2>1, <2>2, <2>3
<1>2. id <= ids[n]
  <2>1. p = n \/ ids[p] < ids[n]
    <3>. HIDE DEF n
    <3>1. p = n \/ p < n  BY <1>1
    <3>. QED  BY <1>1, <3>1 DEF Rising, n
  <2>2. ids[p] \in Nat /\ ids[n] \in Nat  BY <1>1
  <2>. HIDE DEF n
  <2>. QED  BY <2>1, <2>2
<1>3. PICK q \in (d + 1)..n : id = ids[q]  BY <1>1, <1>2 DEF Numbered
<1>. HIDE DEF n
<1>4. q \in 1..n /\ q >= d + 1  BY <1>1
<1>5. q < p
  <2>. SUFFICES ASSUME ~(q < p)  PROVE FALSE
    OBVIOUS
  <2>1. q = p \/ p < q  BY <1>1, <1>4
  <2>2. p < q => ids[p] < ids[q]  BY <1>1, <1>4 DEF Rising, n
  <2>3. ids[p] \in Nat /\ ids[q] \in Nat  BY <1>1, <1>4
  <2>. QED  BY <1>3, <2>1, <2>2, <2>3
<1>6. p > d + 1 /\ p - 1 \in 1..n /\ (q = p - 1 \/ q < p - 1)  BY <1>1, <1>4, <1>5
<1>7. ids[p - 1] < id  BY <1>6
<1>8. q < p - 1 => ids[q] < ids[p - 1]  BY <1>4, <1>6 DEF Rising, n
<1>9. ids[p - 1] \in Nat /\ ids[q] \in Nat  BY <1>1, <1>4, <1>6
<1>. QED  BY <1>3, <1>6, <1>7, <1>8, <1>9

(* A step pushed, with the redo stack cleared and maybe the oldest dropped. *)
Pushed(u, step, d, w, e) ==
    \/ w = Append(u, step) /\ e = d
    \/ w = Tail(Append(u, step)) /\ e = d + 1

LEMMA PushedFacts ==
    ASSUME NEW u \in Seq(Step(Inverses)), NEW x \in Inverses, NEW new \in Nat
    PROVE  LET w == Append(u, [id |-> new, txn |-> x])
               n == Len(u)
           IN  /\ n \in Nat /\ w \in Seq(Step(Inverses)) /\ Len(w) = n + 1
               /\ w[n + 1].id = new /\ \A i \in 1..n : w[i] = u[i]
               /\ Tail(w) \in Seq(Step(Inverses)) /\ Len(Tail(w)) = n
               /\ \A i \in 1..n : Tail(w)[i] = w[i + 1]
               /\ \A j \in 0..n : Combine(Part(w, j)) = x \o Combine(Part(u, j))
               /\ \A j \in 0..(n - 1) :
                    Combine(Part(Tail(w), j)) = x \o Combine(Part(u, j + 1))
<1>. DEFINE step == [id |-> new, txn |-> x]
            w == Append(u, step)
            n == Len(u)
<1>1. step \in Step(Inverses) /\ step.id = new /\ step.txn = x  BY DEF Step
<1>. HIDE DEF step
<1>2. /\ n \in Nat /\ w \in Seq(Step(Inverses)) /\ Len(w) = n + 1
      /\ w[n + 1] = step /\ \A i \in 1..n : w[i] = u[i]
  BY <1>1
<1>3. \A j \in 0..n : Combine(Part(w, j)) = x \o Combine(Part(u, j))
  BY <1>1, PartAppend
<1>. HIDE DEF w
<1>4. w # <<>> /\ Len(w) - 1 = n
  <2>1. Len(<<>>) = 0  OBVIOUS
  <2>. QED  BY <1>2, <2>1
<1>5. /\ Tail(w) \in Seq(Step(Inverses)) /\ Len(Tail(w)) = n
      /\ \A i \in 1..n : Tail(w)[i] = w[i + 1]
      /\ \A j \in 0..n : Part(Tail(w), j) = Part(w, j + 1)
  <2>1. 0 \in 0..(Len(w) - 1)  BY <1>2, <1>4
  <2>2. /\ Tail(w) \in Seq(Step(Inverses)) /\ Len(Tail(w)) = Len(w) - 1
        /\ \A i \in 1..(Len(w) - 1) : Tail(w)[i] = w[i + 1]
    BY <1>2, <1>4, <2>1, PartTail
  <2>3. \A j \in 0..(Len(w) - 1) : Part(Tail(w), j) = Part(w, j + 1)
    BY <1>2, <1>4, PartTail
  <2>. QED  BY <1>4, <2>2, <2>3
<1>6. ASSUME NEW j \in 0..(n - 1)
      PROVE  Combine(Part(Tail(w), j)) = x \o Combine(Part(u, j + 1))
  <2>1. j \in 0..n /\ j + 1 \in 0..n  BY <1>2
  <2>2. Part(Tail(w), j) = Part(w, j + 1)  BY <1>5, <2>1
  <2>3. Combine(Part(w, j + 1)) = x \o Combine(Part(u, j + 1))  BY <1>3, <2>1
  <2>. QED  BY <2>2, <2>3
<1>. QED  BY <1>1, <1>2, <1>3, <1>5, <1>6 DEF w, step

LEMMA EitherIsLess ==
    ASSUME NEW a \in Nat, NEW b \in Nat, a # b
    PROVE  a < b \/ b < a
OBVIOUS

LEMMA PushedComes ==
    ASSUME NEW u \in Seq(Step(Inverses)), NEW r \in Seq(Step(Inverses)), Sorted(u, r),
           NEW ids \in Seq(Nat), Rising(ids), NEW d \in Nat, Numbered(ids, HeldBy(u, r), d),
           NEW new \in Nat, \A i \in 1..Len(ids) : ids[i] < new,
           NEW k, NEW m, NEW x \in Inverses,
           \A j \in 0..Len(u) :
                Rests(ids, u, r, d, j) => Arrives(k, x \o Combine(Part(u, j)), m),
           NEW w, NEW e, Pushed(u, [id |-> new, txn |-> x], d, w, e)
    PROVE  Comes(ids, w, <<>>, <<>>, k, e, m)
<1>. DEFINE n == Len(u)
            L == Len(ids)
            z == Append(u, [id |-> new, txn |-> x])
            none == SubSeq(u, 1, 0)
<1>1. /\ n \in Nat /\ z \in Seq(Step(Inverses)) /\ Len(z) = n + 1
      /\ z[n + 1].id = new /\ \A i \in 1..n : z[i] = u[i]
      /\ Tail(z) \in Seq(Step(Inverses)) /\ Len(Tail(z)) = n
      /\ \A i \in 1..n : Tail(z)[i] = z[i + 1]
      /\ \A j \in 0..n : Combine(Part(z, j)) = x \o Combine(Part(u, j))
      /\ \A j \in 0..(n - 1) : Combine(Part(Tail(z), j)) = x \o Combine(Part(u, j + 1))
  BY PushedFacts
<1>2. L \in Nat /\ Len(r) \in Nat /\ Len(<<>>) = 0
      /\ (\A i \in 1..n : u[i].id \in Nat) /\ DOMAIN u = 1..n
      /\ \A i \in 1..L : ids[i] \in Nat /\ ids[i] < new
  <2>1. \A i \in 1..n : u[i] \in Step(Inverses)  OBVIOUS
  <2>2. \A i \in 1..n : u[i].id \in Nat  BY <2>1 DEF Step
  <2>3. L \in Nat /\ Len(r) \in Nat /\ Len(<<>>) = 0 /\ DOMAIN u = 1..n  OBVIOUS
  <2>4. \A i \in 1..L : ids[i] \in Nat /\ ids[i] < new  OBVIOUS
  <2>. QED  BY <2>2, <2>3, <2>4
<1>3. <<>> \in Seq(Step(Inverses)) /\ <<>> \in Seq(Inverses)  OBVIOUS
<1>4. (w = z /\ e = d) \/ (w = Tail(z) /\ e = d + 1)  BY DEF Pushed
<1>5. \A i \in 1..n : u[i].id \in HeldBy(u, r)  BY <1>2 DEF HeldBy
<1>. HIDE DEF n, L, z
<1>. SUFFICES ASSUME NEW j \in Nat, Rests(ids, w, <<>>, e, j)
     PROVE  Arrives(k, Way(w, <<>>, <<>>, j), m)
  BY DEF Comes
<1>6. /\ j <= Len(w) /\ j + e = L /\ (j = 0 => ids = <<>>)
      /\ \A i \in 1..j : i <= Len(w) => w[i].id = ids[e + i]
  <2>1. w \in Seq(Step(Inverses))  BY <1>1, <1>4
  <2>2. Len(w) \in Nat  BY <2>1
  <2>3. Len(w) + 0 = Len(w)  BY <2>2
  <2>. QED  BY <1>2, <2>3 DEF Rests, L
<1>7. ids = <<>> => L = 0  BY <1>2 DEF L
<1>8. CASE w = z /\ e = d
  <2>1. j # n + 1
    <3>. SUFFICES ASSUME j = n + 1  PROVE FALSE
      OBVIOUS
    <3>1. j \in 1..j /\ j <= Len(w) /\ d + j \in 1..L  BY <1>1, <1>6, <1>8
    <3>2. w[j].id = ids[d + j] /\ ids[d + j] < new /\ ids[d + j] \in Nat
      BY <1>2, <1>6, <1>8, <3>1
    <3>3. z[n + 1].id = new  BY <1>1
    <3>4. w[j].id = new  BY <1>8, <3>3
    <3>. QED  BY <3>2, <3>4
  <2>2. j \in 0..n /\ j <= Len(w) /\ j \in 0..(Len(w) + Len(<<>>)) /\ j <= n + Len(r)
    BY <1>1, <1>2, <1>6, <1>8, <2>1
  <2>3. Rests(ids, u, r, d, j)
    <3>1. ASSUME NEW i \in 1..j  PROVE i <= n /\ ~(i > n) /\ u[i].id = ids[d + i]
      <4>1. i \in 1..n /\ i <= Len(w) /\ i <= n /\ ~(i > n)  BY <1>1, <1>6, <1>8, <2>2
      <4>. QED  BY <1>1, <1>6, <1>8, <4>1
    <3>. QED  BY <1>6, <1>8, <2>2, <3>1 DEF Rests, n, L
  <2>4. Arrives(k, x \o Combine(Part(u, j)), m)  BY <2>2, <2>3 DEF n
  <2>5. Way(w, <<>>, <<>>, j) = Combine(Part(z, j))  BY <1>1, <1>3, <1>8, <2>2, WayIs
  <2>. QED  BY <1>1, <2>2, <2>4, <2>5
<1>9. CASE w = Tail(z) /\ e = d + 1
  <2>1. j # 0  BY <1>6, <1>7, <1>9
  <2>2. j # n
    <3>. SUFFICES ASSUME j = n  PROVE FALSE
      OBVIOUS
    <3>1. j \in 1..j /\ j \in 1..n /\ j <= Len(w) /\ d + 1 + j \in 1..L
      <4>1. j \in Nat /\ d \in Nat /\ j + (d + 1) = L /\ Len(w) = n /\ n \in Nat
        BY <1>1, <1>6, <1>9
      <4>2. j \in 1..j /\ j \in 1..n /\ j <= Len(w)  BY <2>1, <4>1
      <4>3. d + 1 + j \in 1..L  BY <4>1
      <4>. QED  BY <4>2, <4>3
    <3>2. w[j].id = ids[d + 1 + j] /\ ids[d + 1 + j] < new /\ ids[d + 1 + j] \in Nat
      BY <1>2, <1>6, <1>9, <3>1
    <3>3. w[j] = z[n + 1]
      <4>1. Tail(z)[n] = z[n + 1]  BY <1>1, <3>1
      <4>. QED  BY <1>9, <4>1
    <3>4. z[n + 1].id = new  BY <1>1
    <3>5. w[j].id = new  BY <3>3, <3>4
    <3>. QED  BY <3>2, <3>5
  <2>0. /\ j \in Nat /\ n \in Nat /\ Len(r) \in Nat /\ d \in Nat /\ Len(w) = n
        /\ j <= n /\ j + (d + 1) = L /\ Len(<<>>) = 0
    BY <1>1, <1>2, <1>6, <1>9
  <2>3. /\ j \in 1..(n - 1) /\ j \in 0..(n - 1) /\ j <= Len(w) /\ j + 1 \in 0..n
        /\ j \in 0..(Len(w) + Len(<<>>)) /\ j + 1 <= n + Len(r) /\ j + 1 + d = L
    <3>1. j \in 1..(n - 1) /\ j \in 0..(n - 1) /\ j + 1 \in 0..n /\ j + 1 <= n + Len(r)
      BY <2>0, <2>1, <2>2
    <3>2. j \in 0..(Len(w) + Len(<<>>))
      <4>1. Len(w) + Len(<<>>) = n  BY <2>0
      <4>. QED  BY <2>0, <4>1
    <3>. QED  BY <2>0, <3>1, <3>2
  <2>4. ASSUME NEW i \in 2..(j + 1)  PROVE u[i].id = ids[d + i] /\ i \in 1..n
    <3>1. PICK h \in 1..j : h = i - 1 /\ h + 1 = i /\ d + 1 + h = d + i
      <4>0. j \in Nat /\ d \in Nat  OBVIOUS
      <4>1. i \in Int /\ 2 <= i /\ i <= j + 1 /\ j \in Nat /\ d \in Nat  BY SMTT(40)
      <4>2. i - 1 \in 1..j /\ i - 1 + 1 = i /\ d + 1 + (i - 1) = d + i  BY <4>1
      <4>. QED  BY <4>2
    <3>2. h \in 1..n /\ h <= Len(w) /\ i \in 1..n  BY <1>1, <2>3, <3>1
    <3>3. w[h].id = ids[d + 1 + h]  BY <1>6, <1>9, <3>2
    <3>4. w[h] = z[h + 1]  BY <1>1, <1>9, <3>2
    <3>5. z[i] = u[i]  BY <1>1, <3>2
    <3>. QED  BY <3>1, <3>2, <3>3, <3>4, <3>5
  <2>5. u[1].id = ids[d + 1]
    <3>. SUFFICES ASSUME u[1].id # ids[d + 1]  PROVE FALSE
      OBVIOUS
    <3>1. /\ 2 \in 2..(j + 1) /\ 1 \in 1..n /\ 2 \in 1..n /\ 1 < 2
          /\ d + 1 \in 1..L /\ d + 2 \in 1..L /\ d + 1 \in (d + 1)..L /\ d + 2 \in (d + 1)..L
          /\ d + 2 > d + 1 /\ d + 2 - 1 = d + 1
      BY <1>1, <1>2, <2>3
    <3>2. u[2].id = ids[d + 2] /\ u[1].id < u[2].id  BY <1>2, <2>4, <3>1 DEF Sorted
    <3>3. /\ u[1].id \in HeldBy(u, r) /\ u[1].id \in Nat /\ ids[d + 1] \in Nat
          /\ u[1].id < ids[d + 2]
      BY <1>2, <1>5, <3>1, <3>2
    <3>4. CASE u[1].id < ids[d + 1]
      <4>1. ~(d + 1 > d + 1)  OBVIOUS
      <4>2. d + 1 \in (d + 1)..Len(ids)  BY <3>1 DEF L
      <4>. QED  BY <3>3, <3>4, <4>1, <4>2, NoneBetween
    <3>5. CASE ids[d + 1] < u[1].id
      <4>1. PICK p \in (d + 1)..Len(ids) : p = d + 2 /\ p - 1 = d + 1  BY <3>1 DEF L
      <4>2. u[1].id < ids[p] /\ ids[p - 1] < u[1].id  BY <3>3, <3>5, <4>1
      <4>. QED  BY <3>3, <4>2, NoneBetween
    <3>6. u[1].id < ids[d + 1] \/ ids[d + 1] < u[1].id  BY <3>3, EitherIsLess
    <3>. QED  BY <3>4, <3>5, <3>6
  <2>6. Rests(ids, u, r, d, j + 1)
    <3>1. ASSUME NEW i \in 1..(j + 1)  PROVE i <= n /\ ~(i > n) /\ u[i].id = ids[d + i]
      <4>1. i \in Int /\ 1 <= i /\ i <= j + 1 /\ n \in Nat /\ j + 1 \in 0..n /\ j \in Nat
        BY <1>1, <2>3
      <4>2. i <= n /\ ~(i > n)  BY <4>1
      <4>3. i = 1 \/ i \in 2..(j + 1)  BY <4>1
      <4>. QED  BY <2>4, <2>5, <4>2, <4>3
    <3>2. j + 1 # 0  BY <2>3
    <3>. QED  BY <2>3, <3>1, <3>2 DEF Rests, n, L
  <2>7. Arrives(k, x \o Combine(Part(u, j + 1)), m)  BY <2>3, <2>6 DEF n
  <2>8. Way(w, <<>>, <<>>, j) = Combine(Part(Tail(z), j))
    BY <1>1, <1>3, <1>9, <2>3, WayIs
  <2>. QED  BY <1>1, <2>3, <2>7, <2>8
<1>. QED  BY <1>4, <1>8, <1>9

LEMMA PushedNumbers ==
    ASSUME NEW u \in Seq(Step(Inverses)), NEW r \in Seq(Step(Inverses)), Sorted(u, r),
           NEW ids \in Seq(Nat), Rising(ids), NEW d \in Nat, Numbered(ids, HeldBy(u, r), d),
           NEW new \in Nat, \A i \in 1..Len(ids) : ids[i] < new,
           NEW x \in Inverses, NEW w, NEW e, Pushed(u, [id |-> new, txn |-> x], d, w, e)
    PROVE  Numbered(ids, HeldBy(w, <<>>), e)
<1>. DEFINE n == Len(u)
            z == Append(u, [id |-> new, txn |-> x])
            L == Len(ids)
<1>1. /\ n \in Nat /\ z \in Seq(Step(Inverses)) /\ Len(z) = n + 1
      /\ z[n + 1].id = new /\ \A i \in 1..n : z[i] = u[i]
      /\ Tail(z) \in Seq(Step(Inverses)) /\ Len(Tail(z)) = n
      /\ \A i \in 1..n : Tail(z)[i] = z[i + 1]
      /\ \A j \in 0..n : Combine(Part(z, j)) = x \o Combine(Part(u, j))
      /\ \A j \in 0..(n - 1) : Combine(Part(Tail(z), j)) = x \o Combine(Part(u, j + 1))
  BY PushedFacts
<1>2. /\ DOMAIN u = 1..n /\ DOMAIN z = 1..(n + 1) /\ DOMAIN Tail(z) = 1..n
      /\ DOMAIN <<>> = {} /\ L \in Nat
      /\ \A i \in 1..n : u[i].id \in Nat /\ u[i].id \in HeldBy(u, r)
  <2>1. DOMAIN u = 1..n /\ DOMAIN <<>> = {} /\ L \in Nat  OBVIOUS
  <2>2. DOMAIN z = 1..(n + 1) /\ DOMAIN Tail(z) = 1..n
    <3>. HIDE DEF z, n
    <3>. QED  BY <1>1
  <2>3. \A i \in 1..n : u[i] \in Step(Inverses)  OBVIOUS
  <2>. HIDE DEF z, n
  <2>. QED  BY <2>1, <2>2, <2>3 DEF Step, HeldBy
<1>3. (w = z /\ e = d) \/ (w = Tail(z) /\ e = d + 1)  BY DEF Pushed
<1>. HIDE DEF n, z
<1>4. CASE w = z /\ e = d
  <2>1. ASSUME NEW id \in HeldBy(z, <<>>)  PROVE id \in HeldBy(u, r) \/ id = new
    <3>1. PICK i \in 1..(n + 1) : id = z[i].id  BY <1>2 DEF HeldBy
    <3>2. i \in 1..n \/ i = n + 1  BY <1>1
    <3>. QED  BY <1>1, <1>2, <3>1, <3>2
  <2>. QED  BY <1>4, <2>1, NumberedMore
<1>5. CASE w = Tail(z) /\ e = d + 1
  <2>. SUFFICES ASSUME ids # <<>>, NEW id \in HeldBy(w, <<>>), id <= ids[L]
       PROVE  \E q \in (d + 1 + 1)..L : id = ids[q]
    BY <1>5 DEF Numbered
  <2>1. PICK i \in 1..n : id = z[i + 1].id
    <3>1. id \in HeldBy(Tail(z), <<>>)  BY <1>5
    <3>2. PICK i \in 1..n : id = Tail(z)[i].id  BY <1>2, <3>1 DEF HeldBy
    <3>3. Tail(z)[i] = z[i + 1]  BY <1>1
    <3>. QED  BY <3>2, <3>3
  <2>2. L \in 1..L /\ ids[L] \in Nat /\ ids[L] < new
    <3>1. L \in 1..L  BY <1>2
    <3>. QED  BY <3>1
  <2>3. i # n
    <3>1. i = n => id = new  BY <1>1, <2>1
    <3>. QED  BY <2>2, <3>1
  <2>4. PICK h \in 2..n : h = i + 1 /\ h \in 1..n /\ 1 \in 1..n /\ 1 < h
    <3>1. n \in Nat  BY <1>1
    <3>2. i + 1 \in 2..n /\ i + 1 \in 1..n /\ 1 \in 1..n /\ 1 < i + 1
      <4>1. 1 <= i /\ i + 1 <= n  BY <2>3, <3>1
      <4>. QED  BY <3>1, <4>1
    <3>. QED  BY <3>2
  <2>5. id = u[h].id /\ id \in Nat /\ id \in HeldBy(u, r)  BY <1>1, <1>2, <2>1, <2>4
  <2>6. PICK q \in (d + 1)..L : id = ids[q]  BY <2>5 DEF Numbered
  <2>7. q # d + 1
    <3>. SUFFICES ASSUME q = d + 1  PROVE FALSE
      OBVIOUS
    <3>1. u[1].id < id /\ u[1].id \in Nat /\ u[1].id \in HeldBy(u, r)
      BY <1>2, <2>4, <2>5 DEF Sorted
    <3>2. ~(q > d + 1)  OBVIOUS
    <3>. QED  BY <2>6, <3>1, <3>2, NoneBetween
  <2>8. q \in (d + 1 + 1)..L  BY <1>2, <2>7
  <2>. QED  BY <2>6, <2>8
<1>. QED  BY <1>3, <1>4, <1>5

(* Unwound to the first j steps.                                            *)
LEMMA UnwoundComes ==
    ASSUME NEW u \in Seq(Step(Inverses)), NEW r \in Seq(Step(Inverses)), Sorted(u, r),
           NEW ids \in Seq(Nat), Rising(ids), NEW d \in Nat, Numbered(ids, HeldBy(u, r), d),
           NEW l, NEW m, Comes(ids, u, r, <<>>, l, d, m), NEW j \in 0..Len(u),
           NEW k, Goes(l, Combine(Part(u, j)), k)
    PROVE  Comes(ids, SubSeq(u, 1, j), r, <<>>, k, d, m)
<1>. DEFINE n == Len(u)
            o == Len(r)
            w == SubSeq(u, 1, j)
            L == Len(ids)
<1>1. /\ w \in Seq(Step(Inverses)) /\ Len(w) = j /\ \A i \in 1..j : w[i] = u[i]
      /\ \A i \in 0..j : Combine(Part(u, i)) = Combine(Part(u, j)) \o Combine(Part(w, i))
  <2>1. j \in 0..j  OBVIOUS
  <2>. QED  BY <2>1, PartJoin
<1>2. /\ n \in Nat /\ o \in Nat /\ L \in Nat /\ j \in Nat /\ j <= n
      /\ DOMAIN u = 1..n /\ DOMAIN r = 1..o
      /\ \A i \in 1..n : u[i].id \in Nat /\ u[i].id \in HeldBy(u, r)
  <2>1. \A i \in 1..n : u[i] \in Step(Inverses)  OBVIOUS
  <2>2. \A i \in 1..n : u[i].id \in HeldBy(u, r)  BY DEF HeldBy
  <2>3. n \in Nat /\ o \in Nat /\ L \in Nat /\ DOMAIN u = 1..n /\ DOMAIN r = 1..o  OBVIOUS
  <2>4. j \in Nat /\ j <= n  BY <2>3
  <2>. QED  BY <2>1, <2>2, <2>3, <2>4 DEF Step
<1>0. <<>> \in Seq(Inverses) /\ j \in 0..n  OBVIOUS
<1>3. CASE j = n
  <2>1. w = u  BY <1>3
  <2>2. Combine(Part(u, j)) = <<>>  BY <1>3, PartTop
  <2>3. k = l  BY <2>2, GoesNoOther
  <2>. HIDE DEF w
  <2>4. Comes(ids, w, r, <<>>, k, d, m)  BY <2>1, <2>3
  <2>. QED  BY <2>4 DEF w
<1>4. CASE j # n
  <2>. HIDE DEF n, o, w, L
  <2>. SUFFICES ASSUME NEW i \in Nat, Rests(ids, w, r, d, i)
       PROVE  Arrives(k, Way(w, r, <<>>, i), m)
    BY DEF Comes, w
  <2>1. /\ i <= j + o /\ i + d = L /\ (i = 0 => ids = <<>>)
        /\ \A h \in 1..i : /\ h <= j => w[h].id = ids[d + h]
                           /\ h > j => r[o - (h - j) + 1].id = ids[d + h]
    BY <1>1 DEF Rests, o, L
  <2>2. i <= j
    <3>. SUFFICES ASSUME ~(i <= j)  PROVE FALSE
      OBVIOUS
    <3>. DEFINE p == d + (j + 1)
                x == u[j + 1].id
    <3>1. /\ j + 1 \in 1..n /\ j + 1 \in 1..i /\ j + 1 > j /\ o - (j + 1 - j) + 1 = o
          /\ o \in 1..o /\ p \in (d + 1)..L
      BY <1>2, <1>4, <2>1
    <3>2. r[o].id = ids[p] /\ x < r[o].id
      <4>1. PICK h \in 1..i : h = j + 1 /\ h > j /\ o - (h - j) + 1 = o /\ d + h = p
        BY <3>1
      <4>2. r[o - (h - j) + 1].id = ids[d + h]  BY <2>1, <4>1
      <4>3. r[o].id = ids[p]
        <5>. HIDE DEF p, x
        <5>. QED  BY <4>1, <4>2
      <4>4. j + 1 \in DOMAIN u /\ o \in DOMAIN r  BY <1>2, <3>1
      <4>5. u[j + 1].id < r[o].id  BY <4>4 DEF Sorted
      <4>. QED  BY <4>3, <4>5
    <3>3. x \in Nat /\ x \in HeldBy(u, r)  BY <1>2, <3>1
    <3>4. p > d + 1 => ids[p - 1] < x
      <4>. SUFFICES ASSUME p > d + 1  PROVE ids[p - 1] < x
        OBVIOUS
      <4>1. j \in 1..j /\ j \in 1..n /\ j \in 1..i /\ j <= j /\ p - 1 = d + j /\ j < j + 1
        BY <1>2, <3>1
      <4>2. u[j].id = ids[d + j]  BY <1>1, <2>1, <4>1
      <4>3. u[j].id < u[j + 1].id  BY <1>2, <3>1, <4>1 DEF Sorted
      <4>. QED  BY <4>1, <4>2, <4>3
    <3>5. p \in (d + 1)..Len(ids) /\ x < ids[p]  BY <3>1, <3>2 DEF L
    <3>. HIDE DEF p, x
    <3>. QED  BY <3>3, <3>4, <3>5, NoneBetween
  <2>3. /\ i \in 0..j /\ i \in 0..n /\ i \in 0..(n + o) /\ i \in 0..(Len(w) + Len(r))
        /\ i <= n /\ i <= Len(w) /\ i <= n + o
    BY <1>1, <1>2, <2>1, <2>2 DEF o
  <2>4. Rests(ids, u, r, d, i)
    <3>1. ASSUME NEW h \in 1..i  PROVE u[h].id = ids[d + h] /\ ~(h > n)
      <4>1. h \in 1..j /\ h <= j /\ ~(h > n)  BY <1>2, <2>3
      <4>. QED  BY <1>1, <2>1, <4>1
    <3>. QED  BY <2>1, <2>3, <3>1 DEF Rests, n, o, L
  <2>5. Arrives(l, Way(u, r, <<>>, i), m)  BY <2>4 DEF Comes
  <2>6. Way(u, r, <<>>, i) = Combine(Part(u, i))  BY <1>0, <2>3, WayIs DEF n, o
  <2>7. Way(w, r, <<>>, i) = Combine(Part(w, i)) /\ Combine(Part(w, i)) \in Seq(RawEdits)
    BY <1>0, <1>1, <2>3, WayIs
  <2>8. Combine(Part(u, j)) \in Seq(RawEdits)  BY PartFacts
  <2>9. Combine(Part(u, i)) = Combine(Part(u, j)) \o Combine(Part(w, i))  BY <1>1, <2>3
  <2>10. Arrives(l, Combine(Part(u, j)) \o Combine(Part(w, i)), m)
    BY Zenon, <2>5, <2>6, <2>9
  <2>11. Arrives(k, Combine(Part(w, i)), m)  BY Zenon, <2>7, <2>8, <2>10, ArrivesOn
  <2>. QED  BY Zenon, <2>7, <2>11
<1>. QED  BY <1>3, <1>4

(* A mark just taken.                                                       *)
LEMMA IdsAre ==
    ASSUME NEW u \in Seq(Step(Inverses)), NEW r, Sorted(u, r)
    PROVE  /\ Ids(u) \in Seq(Nat) /\ Len(Ids(u)) = Len(u) /\ DOMAIN Ids(u) = 1..Len(u)
           /\ \A i \in 1..Len(u) : Ids(u)[i] = u[i].id
           /\ Rising(Ids(u))
           /\ Ids(u) = <<>> <=> u = <<>>
<1>1. /\ Len(u) \in Nat /\ DOMAIN u = 1..Len(u)
      /\ \A i \in 1..Len(u) : u[i] \in Step(Inverses)
  OBVIOUS
<1>2. Ids(u) = [i \in 1..Len(u) |-> u[i].id]  BY <1>1 DEF Ids
<1>3. \A i \in 1..Len(u) : u[i].id \in Nat  BY <1>1 DEF Step
<1>4. /\ Ids(u) \in Seq(Nat) /\ Len(Ids(u)) = Len(u) /\ DOMAIN Ids(u) = 1..Len(u)
      /\ \A i \in 1..Len(u) : Ids(u)[i] = u[i].id
  BY <1>1, <1>2, <1>3
<1>5. Rising(Ids(u))  BY <1>1, <1>4 DEF Rising, Sorted
<1>6. Ids(u) = <<>> <=> u = <<>>
  <2>1. Ids(u) = <<>> <=> Len(Ids(u)) = 0  BY <1>4
  <2>2. u = <<>> <=> Len(u) = 0  OBVIOUS
  <2>. QED  BY <1>4, <2>1, <2>2
<1>. QED  BY <1>4, <1>5, <1>6

LEMMA TakenNumbers ==
    ASSUME NEW u \in Seq(Step(Inverses)), NEW r \in Seq(Step(Inverses)), Sorted(u, r)
    PROVE  Numbered(Ids(u), HeldBy(u, r), 0)
<1>. DEFINE ids == Ids(u)
            n == Len(u)
<1>1. /\ ids \in Seq(Nat) /\ Len(ids) = n /\ DOMAIN ids = 1..n
      /\ \A i \in 1..n : ids[i] = u[i].id
      /\ ids = <<>> <=> u = <<>>
  BY IdsAre
<1>2. DOMAIN u = 1..n /\ n \in Nat  OBVIOUS
<1>3. \A j \in DOMAIN r : r[j].id \in Nat
  <2>1. \A j \in DOMAIN r : r[j] \in Step(Inverses)  OBVIOUS
  <2>. QED  BY <2>1 DEF Step
<1>4. \A i \in 1..n : u[i].id \in Nat
  <2>1. \A i \in 1..n : u[i] \in Step(Inverses)  OBVIOUS
  <2>. QED  BY <2>1 DEF Step
<1>5. u # <<>> => n >= 1  OBVIOUS
<1>. HIDE DEF ids, n
<1>. SUFFICES ASSUME ids # <<>>, NEW id \in HeldBy(u, r), id <= ids[n]
     PROVE  \E q \in (0 + 1)..n : id = ids[q]
  BY <1>1 DEF Numbered, ids
<1>6. n \in 1..n  BY <1>1, <1>2, <1>5
<1>7. CASE \E i \in 1..n : id = u[i].id
  <2>1. PICK i \in 1..n : id = u[i].id  BY <1>7
  <2>2. i \in (0 + 1)..n  OBVIOUS
  <2>. QED  BY <1>1, <2>1, <2>2
<1>8. CASE \E j \in DOMAIN r : id = r[j].id
  <2>1. PICK j \in DOMAIN r : id = r[j].id  BY <1>8
  <2>2. u[n].id < id /\ id \in Nat  BY <1>2, <1>3, <1>6, <2>1 DEF Sorted
  <2>3. ids[n] = u[n].id /\ u[n].id \in Nat  BY <1>1, <1>4, <1>6
  <2>. QED  BY <2>2, <2>3
<1>. QED  BY <1>2, <1>7, <1>8 DEF HeldBy

LEMMA TakenComes ==
    ASSUME NEW u \in Seq(Step(Inverses)), NEW r \in Seq(Step(Inverses)), Sorted(u, r),
           NEW g \in Seq(Inverses), NEW l, NEW m, Goes(l, Combine(g), m)
    PROVE  Comes(Ids(u), u, r, g, l, 0, m)
<1>. SUFFICES ASSUME NEW j \in Nat, Rests(Ids(u), u, r, 0, j)
     PROVE  Arrives(l, Way(u, r, g, j), m)
  BY DEF Comes
<1>1. Len(Ids(u)) = Len(u) /\ Len(u) \in Nat /\ Len(r) \in Nat  BY IdsAre
<1>2. j + 0 = Len(u)  BY <1>1 DEF Rests
<1>3. j = Len(u) /\ j <= Len(u) /\ j \in 0..(Len(u) + Len(r))  BY <1>1, <1>2
<1>4. Way(u, r, g, j) = Combine(g) \o Combine(Part(u, j))  BY <1>3, WayIs
<1>5. Combine(Part(u, j)) = <<>>  BY <1>3, PartTop
<1>6. Combine(g) \in Seq(RawEdits)  BY CombinePart
<1>7. Combine(g) \o <<>> = Combine(g)  BY <1>6, ConcatEmptySeq
<1>8. Way(u, r, g, j) = Combine(g)  BY <1>4, <1>5, <1>7
<1>9. Arrives(l, Combine(g), m)
  <2>. SUFFICES ASSUME NEW y, Goes(l, Combine(g), y)  PROVE SameButOrder(y, m)
    BY DEF Arrives
  <2>1. y = m  BY <1>6, GoesAgree
  <2>. QED  BY <2>1, SameIsReflexive
<1>. QED  BY <1>8, <1>9

(* What the history knows of a mark the host holds: when it was taken,      *)
(* which of its steps are there, and how to get back to where it was.       *)
Since(mark) == dropped - mark.dropped

Dated(mark) ==
    /\ mark.epoch \in Nat /\ mark.epoch <= epoch
    /\ mark.alien \in Nat /\ mark.alien <= alien
    /\ mark.dropped \in Nat /\ mark.dropped <= dropped
    /\ mark.ids \in Seq(Nat) /\ Rising(mark.ids)
    /\ \A i \in 1..Len(mark.ids) : mark.ids[i] < nextId
    /\ mark.top = IF mark.ids = <<>> THEN None ELSE mark.ids[Len(mark.ids)]

There(mark) == Numbered(mark.ids, HeldBy(undo, redo), Since(mark))

Alike(mark) == mark.epoch = epoch /\ mark.alien = alien /\ mark.layer # None

Expects(mark) ==
    Alike(mark) => Comes(mark.ids, undo, redo, group, layer, Since(mark), mark.layer)

KInv == /\ epoch \in Nat /\ alien \in Nat
        /\ \A mark \in marks : Dated(mark) /\ There(mark) /\ Expects(mark)

LEMMA InitKInv == Init => KInv
BY DEF Init, KInv

LEMMA HistoryIs ==
    ASSUME TInv, HInv
    PROVE  /\ undo \in Seq(Step(Inverses)) /\ redo \in Seq(Step(Inverses))
           /\ group \in Seq(Inverses) /\ Sorted(undo, redo)
           /\ layer \in Trees /\ layer \in Layers
           /\ group # <<>> => Open /\ redo = <<>>
           /\ nextId \in Nat /\ dropped \in Nat /\ Len(undo) \in Nat
BY DEF TInv, HInv, HoldsInverses, Counted, InOrder, GroupOpen, Sorted, Trees

LEMMA MarkIs ==
    ASSUME TInv, KInv, NEW mark \in marks
    PROVE  /\ mark.ids \in Seq(Nat) /\ Rising(mark.ids)
           /\ Since(mark) \in Nat /\ mark.dropped \in Nat
           /\ \A i \in 1..Len(mark.ids) : mark.ids[i] < nextId
           /\ Numbered(mark.ids, HeldBy(undo, redo), Since(mark))
<1>1. Dated(mark) /\ There(mark)  BY DEF KInv
<1>2. dropped \in Nat  BY DEF TInv, Counted
<1>3. Since(mark) \in Nat  BY <1>1, <1>2 DEF Dated, Since
<1>. QED  BY <1>1, <1>3 DEF Dated, There

LEMMA KeepMarks ==
    ASSUME KInv, marks' = marks, epoch' \in Nat, epoch <= epoch',
           alien' \in Nat, alien <= alien', dropped \in Nat, dropped' \in Nat,
           dropped <= dropped', nextId \in Nat, nextId' \in Nat, nextId <= nextId',
           \A mark \in marks : There(mark)' /\ Expects(mark)'
    PROVE  KInv'
<1>1. ASSUME NEW mark \in marks  PROVE Dated(mark)'
  <2>1. Dated(mark) /\ epoch \in Nat /\ alien \in Nat  BY DEF KInv
  <2>2. \A i \in 1..Len(mark.ids) : mark.ids[i] < nextId'
    <3>. DEFINE ids == mark.ids
    <3>1. ids \in Seq(Nat) /\ \A i \in 1..Len(ids) : ids[i] < nextId  BY <2>1 DEF Dated
    <3>. HIDE DEF ids
    <3>2. \A i \in 1..Len(ids) : ids[i] \in Nat  BY <3>1
    <3>3. \A i \in 1..Len(ids) : ids[i] < nextId'  BY <3>1, <3>2
    <3>. QED  BY <3>3 DEF ids
  <2>3. mark.epoch <= epoch' /\ mark.alien <= alien' /\ mark.dropped <= dropped'
    BY <2>1 DEF Dated
  <2>. QED  BY <2>1, <2>2, <2>3 DEF Dated
<1>. QED  BY <1>1 DEF KInv

(* Fewer steps there, and the rest as it was.                               *)
LEMMA FewerAreThere ==
    ASSUME TInv, KInv, NEW mark \in marks, dropped' = dropped,
           HeldBy(undo, redo)' \subseteq HeldBy(undo, redo)
    PROVE  There(mark)'
<1>. DEFINE more == HeldBy(undo, redo)'
<1>1. /\ mark.ids \in Seq(Nat) /\ Numbered(mark.ids, HeldBy(undo, redo), Since(mark))
  BY MarkIs
<1>2. Since(mark)' = Since(mark)  BY DEF Since
<1>3. \A id \in more : id \in HeldBy(undo, redo)  OBVIOUS
<1>. HIDE DEF more
<1>4. Numbered(mark.ids, more, Since(mark))  BY <1>1, <1>3, NumberedMore
<1>. QED  BY <1>2, <1>4 DEF There, more

LEMMA SameKeeps ==
    ASSUME TInv, HInv, KInv, NEW mark \in marks, layer' \in Trees,
           SameButOrder(layer, layer'), UNCHANGED history, alien' = alien
    PROVE  There(mark)' /\ Expects(mark)'
<1>. DEFINE to == layer'
<1>1. to \in Layers /\ SameButOrder(layer, to)  BY DEF Trees
<1>2. UNCHANGED <<undo, redo, group, dropped, epoch>>  BY DEF history
<1>3. There(mark) /\ Expects(mark)  BY DEF KInv
<1>4. There(mark)'  BY <1>2, <1>3 DEF There, Since
<1>. HIDE DEF to
<1>5. ASSUME Alike(mark)
      PROVE  Comes(mark.ids, undo, redo, group, to, Since(mark), mark.layer)
  <2>1. Comes(mark.ids, undo, redo, group, layer, Since(mark), mark.layer)
    BY <1>3, <1>5 DEF Expects
  <2>. QED  BY <1>1, <2>1, HistoryIs, SameComes
<1>6. Expects(mark)'  BY <1>2, <1>5 DEF Expects, Alike, Since, to
<1>. QED  BY <1>4, <1>6

(* Where nothing is applied.                                                *)
LEMMA StillKeeps ==
    ASSUME TInv, HInv, KInv, marks' = marks, layer' = layer, UNCHANGED history, alien' = alien
    PROVE  KInv'
<1>1. layer' \in Trees /\ SameButOrder(layer, layer')
  BY HistoryIs, SameIsReflexive
<1>2. \A mark \in marks : There(mark)' /\ Expects(mark)'  BY <1>1, SameKeeps
<1>3. UNCHANGED <<epoch, dropped, nextId>>  BY DEF history
<1>4. epoch \in Nat /\ alien \in Nat /\ dropped \in Nat /\ nextId \in Nat
  BY HistoryIs DEF KInv
<1>. QED  BY <1>2, <1>3, <1>4, KeepMarks

(* Where a transaction was refused.                                         *)
LEMMA RefusedKeeps ==
    ASSUME TInv, HInv, KInv, marks' = marks, NEW txn \in Txns, Writes(Apply(layer, txn)),
           Apply(layer, txn).refused # "no", UNCHANGED history, alien' = alien
    PROVE  KInv'
<1>1. layer' \in Trees /\ SameButOrder(layer, layer')
  <2>1. refused' # "no"  BY DEF Writes
  <2>. QED  BY <2>1, HistoryIs, AppliedIs
<1>2. \A mark \in marks : There(mark)' /\ Expects(mark)'  BY <1>1, SameKeeps
<1>3. UNCHANGED <<epoch, dropped, nextId>>  BY DEF history
<1>4. epoch \in Nat /\ alien \in Nat /\ dropped \in Nat /\ nextId \in Nat
  BY HistoryIs DEF KInv
<1>. QED  BY <1>2, <1>3, <1>4, KeepMarks

(* Where an accepted transaction goes, and where its inverse does.          *)
LEMMA AppliedGoes ==
    ASSUME NEW l \in Trees, NEW txn \in GrownEdits, Apply(l, txn).refused = "no"
    PROVE  Goes(l, txn, Apply(l, txn).layer)
<1>1. l \in Layers /\ txn \in Seq(RawEdits)  BY GrownEditsJoin DEF Trees, GrownEdits
<1>. QED  BY <1>1, AppliedLeads, LeadsGoes

LEMMA InverseGoes ==
    ASSUME NEW l \in Trees, NEW txn \in Txns, Apply(l, txn).refused = "no"
    PROVE  Goes(Apply(l, txn).layer, Apply(l, txn).inverse, l)
<1>1. l \in Layers /\ Tree(l) /\ (txn \in Seq(Edits) \/ txn \in GrownEdits)
  BY DEF Trees, Txns
<1>2. Leads(Apply(l, txn).layer, Apply(l, txn).inverse, l)  BY <1>1, InverseLeadsBack
<1>. QED  BY <1>2, LeadsGoes

(* A step pushed, whose transaction leads back to where the host was when   *)
(* the steps under it were there.                                           *)
LEMMA PushKeeps ==
    ASSUME TInv, HInv, KInv, NEW mark \in marks, NEW x \in Inverses, Push(x),
           redo' = <<>>, group' = <<>>, alien' = alien, epoch' = epoch,
           Alike(mark) => \A j \in 0..Len(undo) :
                Rests(mark.ids, undo, redo, Since(mark), j)
                    => Arrives(layer', x \o Combine(Part(undo, j)), mark.layer)
    PROVE  There(mark)' /\ Expects(mark)'
<1>. DEFINE step == [id |-> nextId, txn |-> x]
            pushed == Append(undo, step)
            w == undo'
            e == Since(mark)'
            k == layer'
            d == Since(mark)
            ids == mark.ids
<1>1. /\ undo \in Seq(Step(Inverses)) /\ redo \in Seq(Step(Inverses)) /\ Sorted(undo, redo)
      /\ nextId \in Nat /\ dropped \in Nat
  BY HistoryIs
<1>2. /\ ids \in Seq(Nat) /\ Rising(ids) /\ d \in Nat /\ mark.dropped \in Nat
      /\ Numbered(ids, HeldBy(undo, redo), d)
      /\ \A i \in 1..Len(ids) : ids[i] < nextId
  BY MarkIs
<1>3. \/ w = pushed /\ dropped' = dropped
      \/ w = Tail(pushed) /\ dropped' = dropped + 1
  BY DEF Push
<1>4. Pushed(undo, step, d, w, e)
  <2>1. dropped' = dropped => e = d  BY DEF Since
  <2>2. dropped' = dropped + 1 => e = d + 1  BY <1>1, <1>2 DEF Since
  <2>. HIDE DEF step, w, e, d
  <2>. QED  BY <1>3, <2>1, <2>2 DEF Pushed
<1>5. redo' = <<>> /\ group' = <<>> /\ (Alike(mark)' => Alike(mark))  BY DEF Alike
<1>6. Alike(mark) => \A j \in 0..Len(undo) :
        Rests(ids, undo, redo, d, j) => Arrives(k, x \o Combine(Part(undo, j)), mark.layer)
  OBVIOUS
<1>. HIDE DEF w, e, k, d, ids
<1>7. Numbered(ids, HeldBy(w, <<>>), e)  BY <1>1, <1>2, <1>4, PushedNumbers DEF step
<1>8. ASSUME Alike(mark)  PROVE Comes(ids, w, <<>>, <<>>, k, e, mark.layer)
  <2>. DEFINE m == mark.layer
  <2>1. \A j \in 0..Len(undo) :
          Rests(ids, undo, redo, d, j) => Arrives(k, x \o Combine(Part(undo, j)), m)
    BY <1>6, <1>8
  <2>. HIDE DEF m
  <2>2. Comes(ids, w, <<>>, <<>>, k, e, m)
    BY <1>1, <1>2, <1>4, <2>1, PushedComes DEF step
  <2>. QED  BY <2>2 DEF m
<1>9. There(mark)'  BY <1>5, <1>7 DEF There, w, e, ids
<1>10. Expects(mark)'  BY <1>5, <1>8 DEF Expects, w, e, k, ids
<1>. QED  BY <1>9, <1>10

(* Recorded: what is recorded leads back to where the host was before.      *)
LEMMA RecordKeeps ==
    ASSUME TInv, HInv, KInv, NEW mark \in marks, NEW x \in GrownEdits, Record(x),
           layer' \in Trees, Goes(layer', x, layer), alien' = alien
    PROVE  There(mark)' /\ Expects(mark)'
<1>. DEFINE k == layer'
            d == Since(mark)
            ids == mark.ids
            m == mark.layer
<1>1. /\ undo \in Seq(Step(Inverses)) /\ redo \in Seq(Step(Inverses)) /\ Sorted(undo, redo)
      /\ group \in Seq(Inverses) /\ Len(undo) \in Nat
      /\ group # <<>> => Open
  BY HistoryIs
<1>2. Expects(mark)  BY DEF KInv
<1>3. epoch' = epoch  BY DEF Record
<1>4. CASE x = <<>>
  <2>1. UNCHANGED history  BY <1>4 DEF Record, history
  <2>2. layer' = layer
    <3>1. Goes(k, <<>>, layer)  BY <1>4
    <3>. HIDE DEF k
    <3>2. k = layer  BY <3>1, GoesNoOther
    <3>. QED  BY <3>2 DEF k
  <2>3. SameButOrder(layer, layer')  BY <2>2, SameIsReflexive
  <2>. QED  BY <2>1, <2>3, SameKeeps
<1>5. CASE x # <<>> /\ Open
  <2>1. /\ redo' = <<>> /\ group' = Append(group, x) /\ undo' = undo
        /\ dropped' = dropped
    BY <1>5 DEF Record
  <2>2. x \in Inverses  BY <1>5 DEF Inverses
  <2>3. HeldBy(undo, redo)' \subseteq HeldBy(undo, redo)
    <3>1. DOMAIN <<>> = {}  OBVIOUS
    <3>. QED  BY <2>1, <3>1 DEF HeldBy
  <2>4. There(mark)'  BY <2>1, <2>3, FewerAreThere
  <2>5. ASSUME Alike(mark)  PROVE Comes(ids, undo, <<>>, Append(group, x), k, d, m)
    <3>1. Comes(ids, undo, redo, group, layer, d, m)  BY <1>2, <2>5 DEF Expects
    <3>2. Goes(k, x, layer)  OBVIOUS
    <3>. HIDE DEF k, d, ids, m
    <3>. QED  BY <1>1, <2>2, <3>1, <3>2, GroupedComes
  <2>6. Expects(mark)'  BY <1>3, <2>1, <2>5 DEF Expects, Alike, Since
  <2>. QED  BY <2>4, <2>6
<1>6. CASE x # <<>> /\ ~Open
  <2>1. redo' = <<>> /\ Push(x) /\ group' = group  BY <1>6 DEF Record
  <2>2. x \in Inverses /\ x \in Seq(RawEdits) /\ group = <<>> /\ group' = <<>>
    BY <1>1, <1>6, <2>1, InversesAre DEF Inverses
  <2>3. ASSUME Alike(mark), NEW j \in 0..Len(undo), Rests(ids, undo, redo, d, j)
        PROVE  Arrives(k, x \o Combine(Part(undo, j)), m)
    <3>1. Comes(ids, undo, redo, <<>>, layer, d, m)  BY <1>2, <2>2, <2>3 DEF Expects
    <3>2. Goes(k, x, layer)  OBVIOUS
    <3>. HIDE DEF k, d, ids, m
    <3>3. Arrives(layer, Way(undo, redo, <<>>, j), m)  BY <1>1, <2>3, <3>1 DEF Comes
    <3>4. Way(undo, redo, <<>>, j) = Combine(Part(undo, j))
      <4>1. j \in 0..(Len(undo) + Len(redo)) /\ j <= Len(undo)  BY <1>1
      <4>2. <<>> \in Seq(Inverses)  OBVIOUS
      <4>. QED  BY <1>1, <4>1, <4>2, WayIs
    <3>5. Combine(Part(undo, j)) \in Seq(RawEdits)  BY <1>1, PartFacts
    <3>6. Arrives(layer, Combine(Part(undo, j)), m)  BY Zenon, <3>3, <3>4
    <3>. QED  BY <2>2, <3>2, <3>5, <3>6, ArrivesBack
  <2>. QED  BY <1>3, <2>1, <2>2, <2>3, PushKeeps
<1>. QED  BY <1>4, <1>5, <1>6

LEMMA MarksStay ==
    ASSUME TInv, TInv', KInv, marks' = marks, epoch' = epoch, alien' = alien,
           UNCHANGED <<nextId, dropped>> \/ \E x : Push(x),
           \A mark \in marks : There(mark)' /\ Expects(mark)'
    PROVE  KInv'
<1>1. /\ epoch \in Nat /\ alien \in Nat /\ dropped \in Nat /\ dropped' \in Nat
      /\ nextId \in Nat /\ nextId' \in Nat
  BY DEF TInv, Counted, KInv
<1>2. dropped <= dropped' /\ nextId <= nextId'
  <2>1. CASE UNCHANGED <<nextId, dropped>>  BY <1>1, <2>1
  <2>2. CASE \E x : Push(x)
    <3>1. nextId' = nextId + 1 /\ (dropped' = dropped \/ dropped' = dropped + 1)
      BY <2>2 DEF Push
    <3>. QED  BY <1>1, <3>1
  <2>. QED  BY <2>1, <2>2
<1>3. epoch <= epoch' /\ alien <= alien' /\ epoch' \in Nat /\ alien' \in Nat  BY <1>1
<1>. QED  BY <1>1, <1>2, <1>3, KeepMarks

LEMMA EditKeeps ==
    ASSUME TInv, TInv', HInv, KInv, NEW txn \in Transactions, Edit(txn)
    PROVE  KInv'
<1>. DEFINE applied == Apply(layer, txn)
            x == applied.inverse
<1>1. marks' = marks /\ alien' = alien /\ Writes(applied)  BY DEF Edit
<1>2. txn \in Txns /\ layer \in Trees /\ layer' \in Trees  BY HostEdits DEF TInv
<1>3. CASE applied.refused # "no"
  <2>1. UNCHANGED history  BY <1>3 DEF Edit
  <2>. QED  BY <1>1, <1>2, <1>3, <2>1, RefusedKeeps
<1>4. CASE applied.refused = "no"
  <2>1. Record(x)  BY <1>4 DEF Edit
  <2>2. layer' = applied.layer  BY <1>1 DEF Writes
  <2>3. x \in GrownEdits  BY <1>2, <1>4, TxnIs
  <2>4. Goes(applied.layer, x, layer)  BY <1>2, <1>4, InverseGoes
  <2>. HIDE DEF x, applied
  <2>5. Goes(layer', x, layer)
    <3>. DEFINE to == layer'
    <3>1. to = applied.layer  BY <2>2
    <3>. HIDE DEF to
    <3>2. Goes(to, x, layer)  BY <2>4, <3>1
    <3>. QED  BY <3>2 DEF to
  <2>6. \A mark \in marks : There(mark)' /\ Expects(mark)'
    BY <1>1, <1>2, <2>1, <2>3, <2>5, RecordKeeps
  <2>7. epoch' = epoch /\ (UNCHANGED <<nextId, dropped>> \/ \E y : Push(y))
    BY <2>1 DEF Record
  <2>. QED  BY <1>1, <2>6, <2>7, MarksStay
<1>. QED  BY <1>3, <1>4

(* Nothing more is expected of the marks taken before somebody else edited. *)
LEMMA OutsideEditKeeps ==
    ASSUME TInv, TInv', HInv, KInv, NEW txn \in Outside, OutsideEdit(txn)
    PROVE  KInv'
<1>1. /\ alien' = alien + 1 /\ marks' = marks /\ alien \in Nat /\ epoch \in Nat
      /\ UNCHANGED <<undo, redo, nextId, dropped, epoch>>
  BY DEF OutsideEdit, history, KInv
<1>2. \A mark \in marks : There(mark)' /\ Expects(mark)'
  <2>. TAKE mark \in marks
  <2>1. Dated(mark) /\ There(mark)  BY DEF KInv
  <2>2. There(mark)'  BY <1>1, <2>1 DEF There, Since
  <2>3. ~Alike(mark)'
    <3>1. mark.alien \in Nat /\ mark.alien <= alien  BY <2>1 DEF Dated
    <3>. QED  BY <1>1, <3>1 DEF Alike
  <2>. QED  BY <2>2, <2>3 DEF Expects
<1>3. dropped \in Nat /\ nextId \in Nat  BY HistoryIs
<1>. QED  BY <1>1, <1>2, <1>3, KeepMarks

LEMMA EndGroupKeeps ==
    ASSUME TInv, TInv', HInv, KInv, EndGroup
    PROVE  KInv'
<1>1. marks' = marks /\ alien' = alien  BY DEF EndGroup
<1>2. CASE ~Open
  <2>1. layer' = layer /\ UNCHANGED history  BY <1>2 DEF EndGroup, Refused
  <2>. QED  BY <1>1, <2>1, StillKeeps
<1>3. CASE Open
  <2>1. UNCHANGED <<layer, epoch>>  BY <1>3 DEF EndGroup
  <2>2. CASE Len(levels) > 1 \/ group = <<>>
    <3>1. UNCHANGED <<undo, redo, group, nextId, dropped>>  BY <1>3, <2>2 DEF EndGroup
    <3>2. \A mark \in marks : There(mark)' /\ Expects(mark)'
      BY <1>1, <2>1, <3>1 DEF KInv, There, Expects, Alike, Since
    <3>. QED  BY <1>1, <2>1, <3>1, <3>2, MarksStay
  <2>3. CASE ~(Len(levels) > 1 \/ group = <<>>)
    <3>. DEFINE x == Combine(group)
    <3>1. group' = <<>> /\ redo' = redo /\ Push(x)  BY <1>3, <2>3 DEF EndGroup
    <3>2. /\ undo \in Seq(Step(Inverses)) /\ redo \in Seq(Step(Inverses))
          /\ group \in Seq(Inverses) /\ redo = <<>> /\ Len(undo) \in Nat
      BY <2>3, HistoryIs
    <3>3. x \in Inverses  BY <2>3, <3>2, CombineIs
    <3>4. \A mark \in marks : There(mark)' /\ Expects(mark)'
      <4>. TAKE mark \in marks
      <4>. DEFINE d == Since(mark)
                  ids == mark.ids
                  m == mark.layer
      <4>1. Expects(mark)  BY DEF KInv
      <4>2. ASSUME Alike(mark), NEW j \in 0..Len(undo), Rests(ids, undo, redo, d, j)
            PROVE  Arrives(layer', x \o Combine(Part(undo, j)), m)
        <5>1. Comes(ids, undo, redo, group, layer, d, m)  BY <4>1, <4>2 DEF Expects
        <5>. HIDE DEF d, ids, m
        <5>2. Arrives(layer, Way(undo, redo, group, j), m)  BY <3>2, <4>2, <5>1 DEF Comes
        <5>3. Way(undo, redo, group, j) = x \o Combine(Part(undo, j))
          <6>1. j \in 0..(Len(undo) + Len(redo)) /\ j <= Len(undo)  BY <3>2
          <6>. QED  BY <3>2, <6>1, WayIs
        <5>. HIDE DEF x
        <5>4. Arrives(layer, x \o Combine(Part(undo, j)), m)  BY Zenon, <5>2, <5>3
        <5>. QED  BY <2>1, <5>4
      <4>. HIDE DEF x
      <4>. QED  BY <1>1, <2>1, <3>1, <3>2, <3>3, <4>2, PushKeeps
    <3>. QED  BY <1>1, <2>1, <3>1, <3>4, MarksStay
  <2>. QED  BY <2>2, <2>3
<1>. QED  BY <1>2, <1>3

LEMMA AbandonGroupKeeps ==
    ASSUME TInv, TInv', HInv, KInv, AbandonGroup
    PROVE  KInv'
<1>1. marks' = marks /\ alien' = alien  BY DEF AbandonGroup
<1>2. CASE ~Open
  <2>1. layer' = layer /\ UNCHANGED history  BY <1>2 DEF AbandonGroup, Refused
  <2>. QED  BY <1>1, <2>1, StillKeeps
<1>3. CASE Open
  <2>. DEFINE start == Last(levels)
              inner == SubSeq(group, start + 1, Len(group))
              txn == Combine(inner)
              applied == Apply(layer, txn)
              k == layer'
  <2>1. Writes(applied) /\ UNCHANGED <<undo, redo, nextId, dropped, epoch>>
    BY <1>3 DEF AbandonGroup
  <2>2. /\ applied.refused # "no" => UNCHANGED <<group, levels>>
        /\ applied.refused = "no" => group' = SubSeq(group, 1, start)
    BY <1>3 DEF AbandonGroup
  <2>3. /\ undo \in Seq(Step(Inverses)) /\ redo \in Seq(Step(Inverses))
        /\ group \in Seq(Inverses) /\ layer \in Trees /\ Len(group) \in Nat
        /\ group # <<>> => redo = <<>>
    <3>1. group \in Seq(Inverses)  BY HistoryIs
    <3>2. Len(group) \in Nat  BY <3>1
    <3>. QED  BY <3>2, HistoryIs
  <2>4. start \in 0..Len(group)
    BY <1>3, <2>3, CloseNests DEF TInv, HoldsInverses, HInv, GroupOpen, Open
  <2>. HIDE DEF start
  <2>5. inner \in Seq(Inverses)  BY <2>3, <2>4, PartIs
  <2>6. txn \in GrownEdits /\ txn \in Txns
    <3>. HIDE DEF inner
    <3>. QED  BY <2>5, CombineIs, InverseIsEdits
  <2>7. CASE applied.refused # "no"
    <3>1. UNCHANGED history  BY <2>1, <2>2, <2>7 DEF history
    <3>. HIDE DEF txn
    <3>. QED  BY <1>1, <2>1, <2>6, <2>7, <3>1, RefusedKeeps
  <2>8. CASE applied.refused = "no"
    <3>1. k = applied.layer  BY <2>1 DEF Writes
    <3>. HIDE DEF k
    <3>2. Goes(layer, txn, k)
      <4>. HIDE DEF txn
      <4>. QED  BY <2>3, <2>6, <2>8, <3>1, AppliedGoes
    <3>3. group' = SubSeq(group, 1, start)  BY <2>2, <2>8
    <3>4. \A mark \in marks : There(mark)' /\ Expects(mark)'
      <4>. TAKE mark \in marks
      <4>1. There(mark) /\ Expects(mark)  BY DEF KInv
      <4>2. There(mark)'  BY <2>1, <4>1 DEF There, Since
      <4>3. ASSUME Alike(mark)
            PROVE  Comes(mark.ids, undo, redo, SubSeq(group, 1, start), k,
                         Since(mark), mark.layer)
        <5>1. Comes(mark.ids, undo, redo, group, layer, Since(mark), mark.layer)
          BY <4>1, <4>3 DEF Expects
        <5>. QED  BY <2>3, <2>4, <3>2, <5>1, AbandonedComes
      <4>4. Expects(mark)'
        BY <1>1, <2>1, <3>3, <4>3 DEF Expects, Alike, Since, k
      <4>. QED  BY <4>2, <4>4
    <3>. QED  BY <1>1, <2>1, <3>4, MarksStay
  <2>. QED  BY <2>7, <2>8
<1>. QED  BY <1>2, <1>3

(* A step taken from the top of a stack, and turned.                        *)
LEMMA TakenGoes ==
    ASSUME NEW l \in Trees, NEW steps \in Seq(Step(Inverses)), steps # <<>>,
           Apply(l, Last(steps).txn).refused = "no"
    PROVE  LET applied == Apply(l, Last(steps).txn)
               y == Turned(Last(steps), applied.inverse)
           IN  /\ y \in Step(Inverses) /\ y.id = Last(steps).id
               /\ Goes(l, Last(steps).txn, applied.layer)
               /\ Goes(applied.layer, y.txn, l)
<1>. DEFINE step == Last(steps)
            applied == Apply(l, step.txn)
            y == Turned(step, applied.inverse)
<1>1. step \in Step(Inverses)  BY PartFront
<1>. HIDE DEF step
<1>2. step.txn \in GrownEdits /\ step.txn \in Txns
  <2>1. step.txn \in Inverses  BY <1>1 DEF Step
  <2>. QED  BY <2>1, InverseIsEdits
<1>3. applied.refused = "no"  BY DEF step
<1>4. y \in Step(Inverses)  BY <1>1, <1>3, TurnedIs
<1>5. y.id = step.id /\ y.txn = applied.inverse  BY <1>1 DEF Turned, Step
<1>6. Goes(l, step.txn, applied.layer)  BY <1>2, <1>3, AppliedGoes
<1>7. Goes(applied.layer, applied.inverse, l)  BY <1>2, <1>3, InverseGoes
<1>. HIDE DEF y, applied
<1>8. Goes(applied.layer, y.txn, l)  BY Zenon, <1>5, <1>7
<1>. QED  BY <1>4, <1>5, <1>6, <1>8 DEF step, applied, y

(* The steps there are the same ones, on whichever stack they are.          *)
LEMMA TurnedHolds ==
    ASSUME NEW u \in Seq(Step(Inverses)), u # <<>>, NEW r \in Seq(Step(Inverses)),
           NEW y \in Step(Inverses), y.id = Last(u).id
    PROVE  /\ HeldBy(Front(u), Append(r, y)) \subseteq HeldBy(u, r)
           /\ HeldBy(Append(r, y), Front(u)) \subseteq HeldBy(r, u)
<1>. DEFINE n == Len(u)
            o == Len(r)
            f == Front(u)
            a == Append(r, y)
<1>1. /\ n \in Nat /\ n >= 1 /\ Len(f) = n - 1 /\ f \in Seq(Step(Inverses))
      /\ Last(u) = u[n] /\ \A i \in 1..(n - 1) : f[i] = u[i]
  BY PartFront
<1>2. /\ DOMAIN u = 1..n /\ DOMAIN f = 1..(n - 1) /\ DOMAIN r = 1..o /\ o \in Nat
  BY <1>1
<1>3. /\ DOMAIN a = 1..(o + 1) /\ a[o + 1] = y /\ \A j \in 1..o : a[j] = r[j]
  OBVIOUS
<1>. HIDE DEF f, a, n, o
<1>4. \A i \in DOMAIN f : \E h \in DOMAIN u : f[i].id = u[h].id
  <2>1. \A i \in 1..(n - 1) : i \in 1..n  BY <1>1
  <2>. QED  BY <1>1, <1>2, <2>1
<1>5. \A j \in DOMAIN a : \/ \E h \in DOMAIN u : a[j].id = u[h].id
                          \/ \E h \in DOMAIN r : a[j].id = r[h].id
  <2>. TAKE j \in DOMAIN a
  <2>1. CASE j \in 1..o  BY <1>2, <1>3, <2>1
  <2>2. CASE j = o + 1
    <3>1. n \in DOMAIN u  BY <1>1, <1>2
    <3>. QED  BY <1>1, <1>3, <2>2, <3>1
  <2>. QED  BY <1>2, <1>3, <2>1, <2>2, LastOrBefore
<1>6. \A id \in HeldBy(f, a) : id \in HeldBy(u, r)
  <2>. TAKE id \in HeldBy(f, a)
  <2>1. CASE \E i \in DOMAIN f : id = f[i].id  BY <1>4, <2>1 DEF HeldBy
  <2>2. CASE \E j \in DOMAIN a : id = a[j].id  BY <1>5, <2>2 DEF HeldBy
  <2>. QED  BY <2>1, <2>2 DEF HeldBy
<1>7. HeldBy(a, f) = HeldBy(f, a) /\ HeldBy(u, r) = HeldBy(r, u)  BY DEF HeldBy
<1>. QED  BY <1>6, <1>7 DEF f, a

LEMMA UndoKeeps ==
    ASSUME TInv, TInv', HInv, KInv, Undo
    PROVE  KInv'
<1>1. marks' = marks /\ alien' = alien  BY DEF Undo
<1>2. CASE Open \/ undo = <<>>
  <2>1. layer' = layer /\ UNCHANGED history  BY <1>2 DEF Undo, Refused
  <2>. QED  BY <1>1, <2>1, StillKeeps
<1>3. CASE ~(Open \/ undo = <<>>)
  <2>. DEFINE step == Last(undo)
              applied == Apply(layer, step.txn)
              y == Turned(step, applied.inverse)
              k == layer'
  <2>1. Writes(applied) /\ UNCHANGED <<group, levels, nextId, dropped, epoch>>
    BY <1>3 DEF Undo
  <2>2. /\ applied.refused # "no" => UNCHANGED <<undo, redo>>
        /\ applied.refused = "no" => undo' = Front(undo) /\ redo' = Append(redo, y)
    BY <1>3 DEF Undo
  <2>3. /\ undo \in Seq(Step(Inverses)) /\ redo \in Seq(Step(Inverses)) /\ undo # <<>>
        /\ group = <<>> /\ layer \in Trees
    BY <1>3, HistoryIs
  <2>4. step.txn \in Txns
    <3>1. step \in Step(Inverses)  BY <2>3, PartFront
    <3>. QED  BY <3>1, InverseIsEdits DEF Step
  <2>5. CASE applied.refused # "no"
    <3>1. UNCHANGED history  BY <2>1, <2>2, <2>5 DEF history
    <3>. HIDE DEF step
    <3>. QED  BY <1>1, <2>1, <2>4, <2>5, <3>1, RefusedKeeps
  <2>6. CASE applied.refused = "no"
    <3>1. k = applied.layer  BY <2>1 DEF Writes
    <3>2. /\ y \in Step(Inverses) /\ y.id = step.id
          /\ Goes(layer, step.txn, applied.layer) /\ Goes(applied.layer, y.txn, layer)
      BY <2>3, <2>6, TakenGoes
    <3>3. undo' = Front(undo) /\ redo' = Append(redo, y)  BY <2>2, <2>6
    <3>. HIDE DEF y, applied, k
    <3>4. Goes(layer, Last(undo).txn, k) /\ Goes(k, y.txn, layer) /\ y.id = Last(undo).id
      BY Zenon, <3>1, <3>2 DEF step
    <3>. HIDE DEF step
    <3>5. HeldBy(undo, redo)' \subseteq HeldBy(undo, redo)
      <4>1. HeldBy(Front(undo), Append(redo, y)) \subseteq HeldBy(undo, redo)
        BY <2>3, <3>2, <3>4, TurnedHolds
      <4>. QED  BY <3>3, <4>1
    <3>6. \A mark \in marks : There(mark)' /\ Expects(mark)'
      <4>. TAKE mark \in marks
      <4>1. There(mark)'  BY <2>1, <3>5, FewerAreThere
      <4>2. ASSUME Alike(mark)
            PROVE  Comes(mark.ids, Front(undo), Append(redo, y), <<>>, k,
                         Since(mark), mark.layer)
        <5>1. Comes(mark.ids, undo, redo, <<>>, layer, Since(mark), mark.layer)
          BY <2>3, <4>2 DEF KInv, Expects
        <5>2. Since(mark) \in Nat  BY MarkIs
        <5>. QED  BY <2>3, <3>2, <3>4, <5>1, <5>2, UndoneComes
      <4>3. Expects(mark)'
        BY <1>1, <2>1, <2>3, <3>3, <4>2 DEF Expects, Alike, Since, k
      <4>. QED  BY <4>1, <4>3
    <3>. QED  BY <1>1, <2>1, <3>6, MarksStay
  <2>. QED  BY <2>5, <2>6
<1>. QED  BY <1>2, <1>3

LEMMA RedoKeeps ==
    ASSUME TInv, TInv', HInv, KInv, Redo
    PROVE  KInv'
<1>1. marks' = marks /\ alien' = alien  BY DEF Redo
<1>2. CASE Open \/ redo = <<>>
  <2>1. layer' = layer /\ UNCHANGED history  BY <1>2 DEF Redo, Refused
  <2>. QED  BY <1>1, <2>1, StillKeeps
<1>3. CASE ~(Open \/ redo = <<>>)
  <2>. DEFINE step == Last(redo)
              applied == Apply(layer, step.txn)
              y == Turned(step, applied.inverse)
              k == layer'
  <2>1. Writes(applied) /\ UNCHANGED <<group, levels, nextId, dropped, epoch>>
    BY <1>3 DEF Redo
  <2>2. /\ applied.refused # "no" => UNCHANGED <<undo, redo>>
        /\ applied.refused = "no" => redo' = Front(redo) /\ undo' = Append(undo, y)
    BY <1>3 DEF Redo
  <2>3. /\ redo \in Seq(Step(Inverses)) /\ undo \in Seq(Step(Inverses)) /\ redo # <<>>
        /\ group = <<>> /\ layer \in Trees
    BY <1>3, HistoryIs
  <2>4. step.txn \in Txns
    <3>1. step \in Step(Inverses)  BY <2>3, PartFront
    <3>. QED  BY <3>1, InverseIsEdits DEF Step
  <2>5. CASE applied.refused # "no"
    <3>1. UNCHANGED history  BY <2>1, <2>2, <2>5 DEF history
    <3>. HIDE DEF step
    <3>. QED  BY <1>1, <2>1, <2>4, <2>5, <3>1, RefusedKeeps
  <2>6. CASE applied.refused = "no"
    <3>1. k = applied.layer  BY <2>1 DEF Writes
    <3>2. /\ y \in Step(Inverses) /\ y.id = step.id
          /\ Goes(layer, step.txn, applied.layer) /\ Goes(applied.layer, y.txn, layer)
      BY <2>3, <2>6, TakenGoes
    <3>3. redo' = Front(redo) /\ undo' = Append(undo, y)  BY <2>2, <2>6
    <3>. HIDE DEF y, applied, k
    <3>4. Goes(layer, Last(redo).txn, k) /\ Goes(k, y.txn, layer) /\ y.id = Last(redo).id
      BY Zenon, <3>1, <3>2 DEF step
    <3>. HIDE DEF step
    <3>5. HeldBy(undo, redo)' \subseteq HeldBy(undo, redo)
      <4>1. HeldBy(Append(undo, y), Front(redo)) \subseteq HeldBy(undo, redo)
        BY <2>3, <3>2, <3>4, TurnedHolds
      <4>. QED  BY <3>3, <4>1
    <3>6. \A mark \in marks : There(mark)' /\ Expects(mark)'
      <4>. TAKE mark \in marks
      <4>1. There(mark)'  BY <2>1, <3>5, FewerAreThere
      <4>2. ASSUME Alike(mark)
            PROVE  Comes(mark.ids, Append(undo, y), Front(redo), <<>>, k,
                         Since(mark), mark.layer)
        <5>1. Comes(mark.ids, undo, redo, <<>>, layer, Since(mark), mark.layer)
          BY <2>3, <4>2 DEF KInv, Expects
        <5>2. Since(mark) \in Nat  BY MarkIs
        <5>. QED  BY <2>3, <3>2, <3>4, <5>1, <5>2, RedoneComes
      <4>3. Expects(mark)'
        BY <1>1, <2>1, <2>3, <3>3, <4>2 DEF Expects, Alike, Since, k
      <4>. QED  BY <4>1, <4>3
    <3>. QED  BY <1>1, <2>1, <3>6, MarksStay
  <2>. QED  BY <2>5, <2>6
<1>. QED  BY <1>2, <1>3


(* Nothing is expected of the marks from before a reset, nor is a step of    *)
(* theirs there.                                                            *)
LEMMA ResetKeeps ==
    ASSUME TInv, TInv', HInv, KInv, Reset
    PROVE  KInv'
<1>1. /\ marks' = marks /\ alien' = alien /\ epoch' = epoch + 1
      /\ undo' = <<>> /\ redo' = <<>> /\ UNCHANGED <<nextId, dropped>>
      /\ alien \in Nat /\ epoch \in Nat
  BY DEF Reset, KInv
<1>2. HeldBy(undo, redo)' \subseteq HeldBy(undo, redo)
  <2>1. DOMAIN <<>> = {}  OBVIOUS
  <2>. QED  BY <1>1, <2>1 DEF HeldBy
<1>3. \A mark \in marks : There(mark)' /\ Expects(mark)'
  <2>. TAKE mark \in marks
  <2>1. There(mark)'  BY <1>1, <1>2, FewerAreThere
  <2>2. mark.epoch \in Nat /\ mark.epoch <= epoch  BY DEF KInv, Dated
  <2>3. ~Alike(mark)'  BY <1>1, <2>2 DEF Alike
  <2>. QED  BY <2>1, <2>3 DEF Expects
<1>4. dropped \in Nat /\ nextId \in Nat  BY HistoryIs
<1>. QED  BY <1>1, <1>3, <1>4, KeepMarks

LEMMA TakeMarkKeeps ==
    ASSUME TInv, HInv, KInv, TakeMark
    PROVE  KInv'
<1>. DEFINE before == Apply(layer, Combine(group))
            m == IF before.refused = "no" THEN before.layer ELSE None
            new == [epoch |-> epoch, top |-> Top(undo), dropped |-> dropped,
                    layer |-> m, ids |-> Ids(undo), alien |-> alien]
<1>1. /\ marks' = marks \cup {new} /\ UNCHANGED <<layer, undo, redo, group>>
      /\ UNCHANGED <<nextId, dropped, epoch, alien>>
  BY DEF TakeMark, history
<1>2. /\ undo \in Seq(Step(Inverses)) /\ redo \in Seq(Step(Inverses))
      /\ group \in Seq(Inverses) /\ Sorted(undo, redo)
      /\ layer \in Trees /\ nextId \in Nat /\ dropped \in Nat /\ Len(undo) \in Nat
  BY HistoryIs
<1>3. /\ Ids(undo) \in Seq(Nat) /\ Len(Ids(undo)) = Len(undo)
      /\ \A i \in 1..Len(undo) : Ids(undo)[i] = undo[i].id
      /\ Rising(Ids(undo)) /\ (Ids(undo) = <<>> <=> undo = <<>>)
  BY <1>2, IdsAre
<1>4. epoch \in Nat /\ alien \in Nat  BY DEF KInv
<1>5. /\ new.epoch = epoch /\ new.top = Top(undo) /\ new.dropped = dropped
      /\ new.layer = m /\ new.ids = Ids(undo) /\ new.alien = alien
  OBVIOUS
<1>6. m # None => before.refused = "no" /\ m = before.layer  OBVIOUS
<1>7. before.refused = "no" => Goes(layer, Combine(group), before.layer)
  <2>1. Combine(group) \in GrownEdits  BY <1>2, CombineIs
  <2>. QED  BY <1>2, <2>1, AppliedGoes
<1>. HIDE DEF new, m, before
<1>8. Dated(new)
  <2>1. \A i \in 1..Len(undo) : undo[i].id < nextId
    BY <1>2 DEF HInv, InOrder
  <2>2. \A i \in 1..Len(Ids(undo)) : Ids(undo)[i] < nextId  BY <1>3, <2>1
  <2>3. Top(undo) = IF Ids(undo) = <<>> THEN None ELSE Ids(undo)[Len(Ids(undo))]
    <3>1. CASE undo = <<>>  BY <1>3, <3>1 DEF Top
    <3>2. CASE undo # <<>>
      <4>1. Len(undo) \in 1..Len(undo) /\ Last(undo) = undo[Len(undo)]
        BY <1>2, <3>2, PartFront
      <4>. QED  BY <1>3, <3>2, <4>1 DEF Top
    <3>. QED  BY <3>1, <3>2
  <2>. QED  BY <1>2, <1>3, <1>4, <1>5, <2>2, <2>3 DEF Dated
<1>9. Since(new) = 0  BY <1>2, <1>5 DEF Since
<1>10. There(new)
  <2>1. Numbered(Ids(undo), HeldBy(undo, redo), 0)  BY <1>2, TakenNumbers
  <2>. QED  BY <1>5, <1>9, <2>1 DEF There
<1>11. Expects(new)
  <2>. SUFFICES ASSUME m # None
       PROVE  Comes(Ids(undo), undo, redo, group, layer, 0, m)
    BY <1>5, <1>9 DEF Expects, Alike
  <2>1. Goes(layer, Combine(group), m)  BY <1>6, <1>7
  <2>. QED  BY <1>2, <2>1, TakenComes
<1>12. \A mark \in marks' : Dated(mark) /\ There(mark) /\ Expects(mark)
  BY <1>1, <1>8, <1>10, <1>11 DEF KInv
<1>13. \A mark \in marks' : Dated(mark)' /\ There(mark)' /\ Expects(mark)'
  BY <1>1, <1>12 DEF Dated, There, Expects, Alike, Since
<1>. QED  BY <1>1, <1>4, <1>13 DEF KInv

(* Unwinding applies the inverses of the steps above the mark's, as one.    *)
LEMMA UnwoundIs ==
    ASSUME TInv, HInv, NEW mark, UnwindTo(mark), ~Open, ~Gone(mark)
    PROVE  LET txn == Combine(Part(undo, Kept(mark)))
               applied == Apply(layer, txn)
           IN  /\ Kept(mark) \in 0..Len(undo) /\ txn \in GrownEdits /\ txn \in Txns
               /\ Writes(applied)
               /\ undo' = IF applied.refused = "no" THEN SubSeq(undo, 1, Kept(mark))
                          ELSE undo
               /\ UNCHANGED <<redo, group, levels, nextId, dropped, epoch>>
<1>. DEFINE above == SubSeq(undo, Kept(mark) + 1, Len(undo))
            txns == [i \in DOMAIN above |-> above[i].txn]
<1>1. undo \in Seq(Step(Inverses))  BY HistoryIs
<1>2. Kept(mark) \in 0..Len(undo)  BY KeptIsThere
<1>3. txns = Part(undo, Kept(mark))  BY DEF Part, TxnsOf
<1>4. /\ Writes(Apply(layer, Combine(txns)))
      /\ undo' = IF Apply(layer, Combine(txns)).refused = "no"
                 THEN SubSeq(undo, 1, Kept(mark)) ELSE undo
      /\ UNCHANGED <<redo, group, levels, nextId, dropped, epoch>>
  BY DEF UnwindTo
<1>. HIDE DEF txns
<1>5. Part(undo, Kept(mark)) \in Seq(Inverses)  BY <1>1, <1>2, PartFacts
<1>6. Combine(Part(undo, Kept(mark))) \in GrownEdits  BY <1>5, CombineIs
<1>7. Combine(Part(undo, Kept(mark))) \in Txns  BY <1>6, InverseIsEdits
<1>. QED  BY <1>2, <1>3, <1>4, <1>6, <1>7

LEMMA UnwindKeeps ==
    ASSUME TInv, TInv', HInv, KInv, NEW to, UnwindTo(to)
    PROVE  KInv'
<1>1. marks' = marks /\ alien' = alien  BY DEF UnwindTo
<1>2. CASE Open \/ Gone(to)
  <2>1. layer' = layer /\ UNCHANGED history  BY <1>2 DEF UnwindTo, Refused
  <2>. QED  BY <1>1, <2>1, StillKeeps
<1>3. CASE ~(Open \/ Gone(to))
  <2>. DEFINE j == Kept(to)
              txn == Combine(Part(undo, j))
              applied == Apply(layer, txn)
              k == layer'
  <2>1. /\ j \in 0..Len(undo) /\ txn \in GrownEdits /\ txn \in Txns
        /\ Writes(applied)
        /\ undo' = IF applied.refused = "no" THEN SubSeq(undo, 1, j) ELSE undo
        /\ UNCHANGED <<redo, group, levels, nextId, dropped, epoch>>
    BY <1>3, UnwoundIs
  <2>2. /\ undo \in Seq(Step(Inverses)) /\ redo \in Seq(Step(Inverses))
        /\ group = <<>> /\ layer \in Trees /\ Sorted(undo, redo) /\ Len(undo) \in Nat
    BY <1>3, HistoryIs
  <2>. HIDE DEF j
  <2>3. CASE applied.refused # "no"
    <3>1. UNCHANGED history  BY <2>1, <2>3 DEF history
    <3>. HIDE DEF txn
    <3>. QED  BY <1>1, <2>1, <2>3, <3>1, RefusedKeeps
  <2>4. CASE applied.refused = "no"
    <3>1. k = applied.layer  BY <2>1 DEF Writes
    <3>2. undo' = SubSeq(undo, 1, j)  BY <2>1, <2>4
    <3>. HIDE DEF k
    <3>3. Goes(layer, Combine(Part(undo, j)), k)
      <4>1. Goes(layer, txn, k)
        <5>. HIDE DEF txn
        <5>. QED  BY <2>1, <2>2, <2>4, <3>1, AppliedGoes
      <4>. QED  BY <4>1
    <3>. HIDE DEF applied, txn
    <3>4. HeldBy(undo, redo)' \subseteq HeldBy(undo, redo)
      <4>. DEFINE w == SubSeq(undo, 1, j)
      <4>1. w \in Seq(Step(Inverses)) /\ Len(w) = j /\ \A i \in 1..j : w[i] = undo[i]
        <5>1. j \in 0..j  BY <2>1
        <5>. QED  BY <2>1, <2>2, <5>1, PartJoin
      <4>. HIDE DEF w
      <4>2. \A i \in DOMAIN w : i \in DOMAIN undo /\ w[i] = undo[i]
        BY <2>1, <2>2, <4>1
      <4>3. HeldBy(w, redo) \subseteq HeldBy(undo, redo)  BY <4>2 DEF HeldBy
      <4>. QED  BY <2>1, <3>2, <4>3 DEF w
    <3>5. \A mark \in marks : There(mark)' /\ Expects(mark)'
      <4>. TAKE mark \in marks
      <4>1. There(mark)'  BY <2>1, <3>4, FewerAreThere
      <4>2. ASSUME Alike(mark)
            PROVE  Comes(mark.ids, SubSeq(undo, 1, j), redo, <<>>, k,
                         Since(mark), mark.layer)
        <5>. DEFINE ids == mark.ids
                    d == Since(mark)
                    m == mark.layer
        <5>1. Comes(ids, undo, redo, <<>>, layer, d, m)
          BY <2>2, <4>2 DEF KInv, Expects
        <5>2. /\ ids \in Seq(Nat) /\ Rising(ids) /\ d \in Nat
              /\ Numbered(ids, HeldBy(undo, redo), d)
          BY MarkIs
        <5>. HIDE DEF ids, d, m
        <5>3. Comes(ids, SubSeq(undo, 1, j), redo, <<>>, k, d, m)
          BY <2>1, <2>2, <3>3, <5>1, <5>2, UnwoundComes
        <5>. QED  BY <5>3 DEF ids, d, m
      <4>3. Expects(mark)'
        BY <1>1, <2>1, <2>2, <3>2, <4>2 DEF Expects, Alike, Since, k
      <4>. QED  BY <4>1, <4>3
    <3>. QED  BY <1>1, <2>1, <3>5, MarksStay
  <2>. QED  BY <2>3, <2>4
<1>. QED  BY <1>2, <1>3

LEMMA NextKInv == TInv /\ HInv /\ KInv /\ [Next]_vars => KInv'
<1>. SUFFICES ASSUME TInv, HInv, KInv, [Next]_vars  PROVE KInv'
  OBVIOUS
<1>0. TInv'  BY NextTypes
<1>1. ASSUME NEW txn \in Transactions, Edit(txn)  PROVE KInv'  BY <1>0, <1>1, EditKeeps
<1>2. ASSUME NEW txn \in Outside, OutsideEdit(txn)  PROVE KInv'
  BY <1>0, <1>2, OutsideEditKeeps
<1>3. CASE BeginGroup
  <2>1. /\ UNCHANGED <<layer, undo, redo, group, nextId, dropped, epoch, alien>>
        /\ marks' = marks
    BY <1>3 DEF BeginGroup
  <2>2. \A mark \in marks : There(mark)' /\ Expects(mark)'
    BY <2>1 DEF KInv, There, Expects, Alike, Since
  <2>. QED  BY <1>0, <2>1, <2>2, MarksStay
<1>4. CASE EndGroup  BY <1>0, <1>4, EndGroupKeeps
<1>5. CASE AbandonGroup  BY <1>0, <1>5, AbandonGroupKeeps
<1>6. CASE Undo  BY <1>0, <1>6, UndoKeeps
<1>7. CASE Redo  BY <1>0, <1>7, RedoKeeps
<1>8. CASE Reset  BY <1>0, <1>8, ResetKeeps
<1>9. CASE TakeMark  BY <1>9, TakeMarkKeeps
<1>10. CASE Unwind  BY <1>0, <1>10, UnwindKeeps DEF Unwind
<1>11. CASE UNCHANGED vars
  <2>1. layer' = layer /\ UNCHANGED history /\ marks' = marks /\ alien' = alien
    BY <1>11 DEF vars
  <2>. QED  BY <2>1, StillKeeps
<1>. QED
  BY <1>1, <1>2, <1>3, <1>4, <1>5, <1>6, <1>7, <1>8, <1>9, <1>10, <1>11 DEF Next

(* Standing on the steps of the mark, those above it are the way to it.     *)
LEMMA StandsRests ==
    ASSUME TInv, HInv, KInv, NEW mark \in marks, ~Gone(mark), StandsOn(mark),
           undo' = SubSeq(undo, 1, Kept(mark))
    PROVE  Rests(mark.ids, undo, redo, Since(mark), Kept(mark))
<1>. DEFINE j == Kept(mark)
            w == SubSeq(undo, 1, j)
            ids == mark.ids
            d == Since(mark)
            L == Len(ids)
            n == Len(undo)
            o == Len(redo)
            t == SubSeq(ids, 1 + d, L)
<1>1. j \in 0..n  BY KeptIsThere
<1>2. undo \in Seq(Step(Inverses)) /\ redo \in Seq(Step(Inverses))  BY HistoryIs
<1>3. /\ ids \in Seq(Nat) /\ d \in Nat /\ mark.dropped \in Nat /\ dropped \in Nat
      /\ Numbered(ids, HeldBy(undo, redo), d)
  BY MarkIs, HistoryIs
<1>4. Dated(mark)  BY DEF KInv
<1>5. n \in Nat /\ o \in Nat /\ L \in Nat /\ DOMAIN undo = 1..n  BY <1>2, <1>3
<1>6. /\ w \in Seq(Step(Inverses)) /\ Len(w) = j /\ \A i \in 1..j : w[i] = undo[i]
  <2>1. j \in 0..j  BY <1>1
  <2>. QED  BY <1>1, <1>2, <2>1, PartJoin
<1>7. Ids(w) = t
  <2>1. 1 + dropped - mark.dropped = 1 + d  BY <1>3 DEF Since
  <2>. QED  BY <2>1 DEF StandsOn
<1>8. Len(Ids(w)) = j /\ \A i \in 1..j : Ids(w)[i] = undo[i].id
  <2>. HIDE DEF w, j
  <2>1. DOMAIN w = 1..j  BY <1>6
  <2>2. Ids(w) = [i \in 1..j |-> w[i].id]  BY <2>1 DEF Ids
  <2>. QED  BY <1>1, <1>5, <1>6, <2>2
<1>9. ids = <<>> => j = 0 /\ d = 0
  <2>. SUFFICES ASSUME ids = <<>>  PROVE j = 0 /\ d = 0
    OBVIOUS
  <2>1. mark.top = None  BY <1>4 DEF Dated
  <2>. QED  BY <1>3, <2>1 DEF Kept, Gone, Since
<1>10. ids # <<>> => d + 1 <= L
  <2>. SUFFICES ASSUME ids # <<>>  PROVE d + 1 <= L
    OBVIOUS
  <2>1. L \in 1..L /\ ids[L] \in Nat
    <3>. HIDE DEF ids
    <3>. QED  BY <1>3
  <2>2. mark.top = ids[L] /\ mark.top # None
    BY <1>4, <2>1, NoneAssumption DEF Dated
  <2>3. PICK i \in DOMAIN undo : undo[i].id = ids[L]  BY <2>2 DEF Gone
  <2>4. ids[L] \in HeldBy(undo, redo) /\ ids[L] <= ids[L]  BY <2>1, <2>3 DEF HeldBy
  <2>5. \E q \in (d + 1)..L : ids[L] = ids[q]
    <3>. HIDE DEF ids, d
    <3>. QED  BY <1>3, <2>4 DEF Numbered
  <2>. QED  BY <1>3, <1>5, <2>5
<1>. HIDE DEF j, w, d, ids
<1>11. CASE ids = <<>>
  <2>1. j = 0 /\ d = 0 /\ L = 0  BY <1>9, <1>11
  <2>. QED  BY <1>5, <1>11, <2>1 DEF Rests, j, d, ids
<1>12. CASE ids # <<>>
  <2>1. Len(t) = L - d /\ \A i \in 1..(L - d) : t[i] = ids[d + i]
    <3>. DEFINE a == 1 + d
    <3>1. /\ a \in Int /\ L \in Int /\ a <= L /\ L - a + 1 = L - d
          /\ \A i \in 1..(L - d) : a + i - 1 = d + i
      BY <1>3, <1>5, <1>10, <1>12
    <3>2. \A i \in a..L : ids[i] \in Nat  BY <1>3
    <3>3. t = SubSeq(ids, a, L)  OBVIOUS
    <3>. HIDE DEF a, t, L
    <3>4. /\ Len(t) = IF a <= L THEN L - a + 1 ELSE 0
          /\ \A i \in 1..(L - a + 1) : t[i] = ids[a + i - 1]
      BY <3>1, <3>2, <3>3, SubSeqProperties
    <3>5. \A i \in 1..(L - d) : t[i] = ids[a + i - 1]  BY Zenon, <3>1, <3>4
    <3>. QED  BY <3>1, <3>4, <3>5
  <2>. HIDE DEF t
  <2>2. j = L - d  BY <1>7, <1>8, <2>1
  <2>3. \A i \in 1..j : undo[i].id = ids[d + i]  BY <1>7, <1>8, <2>1, <2>2
  <2>4. j <= n + o /\ j + d = L /\ j # 0 /\ \A i \in 1..j : ~(i > n)
    BY <1>1, <1>3, <1>5, <1>10, <1>12, <2>2
  <2>5. Rests(ids, undo, redo, d, j)
    <3>. HIDE DEF L, n, o
    <3>. QED  BY <2>3, <2>4 DEF Rests, L, n, o
  <2>. QED  BY <2>5 DEF j, d, ids
<1>. QED  BY <1>11, <1>12

LEMMA UnwoundReaches ==
    ASSUME TInv, HInv, KInv, NEW mark \in marks, refused' = "no", alien = mark.alien,
           mark.layer # None, StandsOn(mark), UnwindTo(mark)
    PROVE  SameButOrder(layer', mark.layer)
<1>. DEFINE j == Kept(mark)
            txn == Combine(Part(undo, j))
            applied == Apply(layer, txn)
            k == layer'
            m == mark.layer
<1>1. ~Open /\ ~Gone(mark)  BY DEF UnwindTo, Refused
<1>2. /\ j \in 0..Len(undo) /\ txn \in GrownEdits /\ Writes(applied)
      /\ undo' = IF applied.refused = "no" THEN SubSeq(undo, 1, j) ELSE undo
  BY <1>1, UnwoundIs
<1>3. /\ undo \in Seq(Step(Inverses)) /\ redo \in Seq(Step(Inverses))
      /\ group = <<>> /\ layer \in Trees /\ Len(undo) \in Nat
  BY <1>1, HistoryIs
<1>4. applied.refused = "no" /\ k = applied.layer  BY <1>2 DEF Writes
<1>5. Rests(mark.ids, undo, redo, Since(mark), j)  BY <1>1, <1>2, <1>4, StandsRests
<1>6. Comes(mark.ids, undo, redo, <<>>, layer, Since(mark), m)
  <2>1. Alike(mark) /\ Expects(mark)  BY <1>1 DEF Alike, Gone, KInv
  <2>. QED  BY <1>3, <2>1 DEF Expects
<1>. HIDE DEF j, k, m
<1>7. Arrives(layer, Way(undo, redo, <<>>, j), m)
  <2>1. j \in Nat  BY <1>2, <1>3
  <2>. QED  BY <1>5, <1>6, <2>1 DEF Comes
<1>8. Way(undo, redo, <<>>, j) = txn
  <2>1. j \in 0..(Len(undo) + Len(redo)) /\ j <= Len(undo)  BY <1>2, <1>3
  <2>2. <<>> \in Seq(Inverses)  OBVIOUS
  <2>. QED  BY <1>3, <2>1, <2>2, WayIs
<1>. HIDE DEF txn
<1>9. Goes(layer, txn, k)  BY <1>2, <1>3, <1>4, AppliedGoes
<1>10. SameButOrder(k, m)  BY <1>7, <1>8, <1>9 DEF Arrives
<1>. QED  BY <1>10 DEF k, m

(* Whatever was recorded, undone, redone, grouped, abandoned or dropped     *)
(* since a mark was taken, in an open group or out of one: an accepted      *)
(* unwinding that leaves the steps the mark stood on brings the layer back  *)
(* to where it was, but for the order of children a refusal may have left,  *)
(* if nobody else edited in between (unwind_to).                            *)
THEOREM MarksAreReached == Spec => UnwindReachesMark
<1>1. Init => TInv /\ HInv /\ KInv  BY InitTInv, InitHInv, InitKInv
<1>2. TInv /\ HInv /\ KInv /\ [Next]_vars => (TInv /\ HInv /\ KInv)'
  BY NextTypes, NextHInv, NextKInv
<1>3. TInv /\ HInv /\ KInv /\ [Next]_vars =>
        [\A mark \in marks :
            /\ refused' = "no" /\ alien = mark.alien /\ mark.layer # None
            /\ StandsOn(mark) /\ UnwindTo(mark)
            => SameButOrder(layer', mark.layer)]_vars
  BY UnwoundReaches
<1>. QED  BY <1>1, <1>2, <1>3, PTL DEF Spec, UnwindReachesMark

=============================================================================
