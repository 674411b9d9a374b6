------------------------ MODULE LayerEdits_proofs ------------------------
(***************************************************************************)
(* What transactions do to a layer, for any paths and values.  In this      *)
(* order: how often a list has a name; one storage step and the one undoing *)
(* it; sequences of steps, as traces of what they go through; what an edit, *)
(* then a transaction, does to a journal, and what rolling it back leaves;  *)
(* the parts a journal is made of, how they are undone, and that they keep  *)
(* the specs of a layer a tree; and that an inverse, applied where it was   *)
(* made, leads exactly back, the order of children included.                *)
(***************************************************************************)
EXTENDS LayerEdits, SequenceTheorems, FiniteSetTheorems, TLAPS

-----------------------------------------------------------------------------
(* A set of naturals with 0 and every next one has them all.                *)
LEMMA NatSet ==
    ASSUME NEW S, 0 \in S, \A n \in Nat : n \in S => n + 1 \in S
    PROVE  Nat \subseteq S
<1>. DEFINE T == Nat \ S
            LT == {p \in Nat \X Nat : p[1] < p[2]}
<1>. SUFFICES ASSUME T # {}  PROVE FALSE
  OBVIOUS
<1>1. IsWellFoundedOn(LT, Nat)
  <2>1. OpToRel(<, Nat) = LT  BY DEF OpToRel
  <2>. QED  BY <2>1, NatLessThanWellFounded
<1>2. \A x, y \in Nat : y < x => <<y, x>> \in LT  OBVIOUS
<1>3. PICK x \in T : \A y \in T : ~(<<y, x>> \in LT)
  <2>. HIDE DEF LT
  <2>1. T \subseteq Nat  OBVIOUS
  <2>. HIDE DEF T
  <2>. QED  BY <1>1, <2>1, WFMin
<1>. HIDE DEF LT
<1>4. x \in Nat /\ x # 0 /\ x \notin S  OBVIOUS
<1>5. x - 1 \in Nat /\ x - 1 < x /\ x - 1 + 1 = x  BY <1>4
<1>6. x - 1 \in T  BY <1>4, <1>5
<1>. QED  BY <1>2, <1>3, <1>4, <1>5, <1>6

LEMMA Upwards ==
    ASSUME NEW n \in Nat, NEW S, 0 \in S, \A i \in 1..n : i - 1 \in S => i \in S
    PROVE  \A i \in 0..n : i \in S
<1>. DEFINE R == {k \in Nat : k <= n => k \in S}
<1>1. 0 \in R  OBVIOUS
<1>2. ASSUME NEW k \in Nat, k \in R  PROVE k + 1 \in R
  <2>. SUFFICES ASSUME k + 1 <= n  PROVE k + 1 \in S
    OBVIOUS
  <2>1. k \in S  BY <1>2
  <2>2. PICK i \in 1..n : i = k + 1 /\ i - 1 = k  OBVIOUS
  <2>. QED  BY <2>1, <2>2
<1>3. Nat \subseteq R
  <2>. HIDE DEF R
  <2>. QED  BY <1>1, <1>2, NatSet
<1>. SUFFICES ASSUME NEW i \in 0..n  PROVE i \in S
  OBVIOUS
<1>4. i \in R  BY <1>3
<1>. QED  BY <1>4

LEMMA WiderSeq ==
    ASSUME NEW S, NEW seq \in Seq(S), NEW R, S \subseteq R
    PROVE  seq \in Seq(R)
OBVIOUS

LEMMA FrontElements ==
    ASSUME NEW S, NEW seq \in Seq(S), Len(seq) >= 1
    PROVE  /\ Front(seq) \in Seq(S) /\ Len(Front(seq)) = Len(seq) - 1
           /\ DOMAIN Front(seq) = 1..(Len(seq) - 1)
           /\ \A i \in 1..(Len(seq) - 1) : Front(seq)[i] = seq[i]
<1>1. \A i \in 1..(Len(seq) - 1) : seq[i] \in S  OBVIOUS
<1>2. Len(seq) - 1 \in Int /\ 1 \in Int /\ Len(seq) \in Nat  OBVIOUS
<1>. DEFINE k == Len(seq) - 1
<1>3. /\ Front(seq) \in Seq(S)
      /\ Len(Front(seq)) = IF 1 <= k THEN k - 1 + 1 ELSE 0
      /\ \A i \in 1..(k - 1 + 1) : Front(seq)[i] = seq[1 + i - 1]
  <2>. HIDE DEF k
  <2>1. Front(seq) = SubSeq(seq, 1, k)  BY DEF Front, k
  <2>2. k \in Int /\ \A i \in 1..k : seq[i] \in S  BY <1>1, <1>2 DEF k
  <2>3. \A i \in 1..(k - 1 + 1) : i \in Int /\ 1 + i - 1 = i  BY <2>2
  <2>. QED  BY <2>1, <2>2, <2>3, SubSeqProperties
<1>4. Len(Front(seq)) = k /\ k - 1 + 1 = k
  <2>1. k \in Nat  BY <1>2
  <2>. HIDE DEF k
  <2>. QED  BY <1>3, <2>1
<1>. QED  BY <1>2, <1>3, <1>4

LEMMA LeastOfNaturals ==
    ASSUME NEW S \in SUBSET Nat, S # {}
    PROVE  /\ Min(S) \in S
           /\ \A k \in S : Min(S) <= k
<1>. DEFINE LT == {p \in Nat \X Nat : p[1] < p[2]}
<1>1. OpToRel(<, Nat) = LT  BY DEF OpToRel
<1>2. IsWellFoundedOn(LT, Nat)  BY <1>1, NatLessThanWellFounded
<1>3. \A x, y \in Nat : y < x => <<y, x>> \in LT  OBVIOUS
<1>. HIDE DEF LT
<1>4. \E x \in S : \A y \in S : x <= y
  <2>1. PICK x \in S : \A y \in S : ~(<<y, x>> \in LT)  BY <1>2, WFMin
  <2>2. \A y \in S : x \in Nat /\ y \in Nat /\ ~(y < x)  BY <1>3, <2>1
  <2>. QED  BY <2>1, <2>2
<1>. QED  BY <1>4 DEF Min

-----------------------------------------------------------------------------
(* One name more in a list.                                                 *)

LEMMA TimesIsNat ==
    ASSUME NEW S, NEW names \in Seq(S), NEW name
    PROVE  /\ Times(names, name) \in Nat
           /\ IsFiniteSet({i \in DOMAIN names : names[i] = name})
<1>1. IsFiniteSet(1..Len(names))
  <2>1. Len(names) \in Int /\ 1 \in Int  OBVIOUS
  <2>. QED  BY <2>1, FS_Interval
<1>2. {i \in DOMAIN names : names[i] = name} \in SUBSET (1..Len(names))  OBVIOUS
<1>. QED  BY <1>1, <1>2, FS_Subset, FS_CardinalityType DEF Times

OneMore(names, more, name, k) ==
    /\ k \in 1..(Len(names) + 1)
    /\ Len(more) = Len(names) + 1 /\ more[k] = name
    /\ \A i \in 1..(k - 1) : more[i] = names[i]
    /\ \A i \in k..Len(names) : more[i + 1] = names[i]

LEMMA TimesOneMore ==
    ASSUME NEW S, NEW names \in Seq(S), NEW more \in Seq(S), NEW name, NEW k,
           OneMore(names, more, name, k)
    PROVE  /\ Times(more, name) = Times(names, name) + 1
           /\ \A n : n # name => Times(more, n) = Times(names, n)
<1>. USE DEF OneMore
<1>. SUFFICES ASSUME NEW n
     PROVE  /\ n = name => Times(more, n) = Times(names, n) + 1
            /\ n # name => Times(more, n) = Times(names, n)
  OBVIOUS
<1>. DEFINE A == {i \in DOMAIN names : names[i] = n}
            B == {i \in DOMAIN more : more[i] = n}
            C == B \ {k}
            f == [i \in A |-> IF i < k THEN i ELSE i + 1]
<1>1. /\ Len(names) \in Nat /\ k \in Nat
      /\ DOMAIN names = 1..Len(names) /\ DOMAIN more = 1..(Len(names) + 1)
  OBVIOUS
<1>2. IsFiniteSet(A) /\ IsFiniteSet(B)  BY TimesIsNat
<1>3. f \in [A -> C]
  <2>. SUFFICES ASSUME NEW i \in A  PROVE f[i] \in C
    OBVIOUS
  <2>1. i \in 1..Len(names) /\ names[i] = n  BY <1>1
  <2>2. CASE i < k
    <3>1. i \in 1..(k - 1) /\ i \in 1..(Len(names) + 1) /\ i # k  BY <1>1, <2>1, <2>2
    <3>. QED  BY <1>1, <2>1, <2>2, <3>1
  <2>3. CASE ~(i < k)
    <3>1. i \in k..Len(names) /\ i + 1 \in 1..(Len(names) + 1) /\ i + 1 # k
      BY <1>1, <2>1, <2>3
    <3>. QED  BY <1>1, <2>1, <2>3, <3>1
  <2>. QED  BY <2>2, <2>3
<1>4. \A i, j \in A : f[i] = f[j] => i = j
  <2>. SUFFICES ASSUME NEW i \in A, NEW j \in A, f[i] = f[j]  PROVE i = j
    OBVIOUS
  <2>1. i \in Nat /\ j \in Nat  BY <1>1
  <2>2. f[i] = (IF i < k THEN i ELSE i + 1) /\ f[j] = (IF j < k THEN j ELSE j + 1)
    OBVIOUS
  <2>3. CASE i < k /\ j < k  BY <2>2, <2>3
  <2>4. CASE i < k /\ ~(j < k)  BY <1>1, <2>1, <2>2, <2>4
  <2>5. CASE ~(i < k) /\ j < k  BY <1>1, <2>1, <2>2, <2>5
  <2>6. CASE ~(i < k) /\ ~(j < k)  BY <1>1, <2>1, <2>2, <2>6
  <2>. QED  BY <2>3, <2>4, <2>5, <2>6
<1>5. \A j \in C : \E i \in A : f[i] = j
  <2>. SUFFICES ASSUME NEW j \in C  PROVE \E i \in A : f[i] = j
    OBVIOUS
  <2>1. j \in 1..(Len(names) + 1) /\ more[j] = n /\ j # k  BY <1>1
  <2>2. CASE j < k
    <3>1. j \in 1..(k - 1) /\ j \in 1..Len(names)  BY <1>1, <2>1, <2>2
    <3>2. j \in A  BY <1>1, <2>1, <3>1
    <3>. QED  BY <2>2, <3>2
  <2>3. CASE ~(j < k)
    <3>1. j - 1 \in k..Len(names) /\ j - 1 \in 1..Len(names) /\ j - 1 + 1 = j
          /\ ~(j - 1 < k)
      BY <1>1, <2>1, <2>3
    <3>2. j - 1 \in A  BY <1>1, <2>1, <3>1
    <3>. QED  BY <3>1, <3>2
  <2>. QED  BY <2>2, <2>3
<1>6. ExistsBijection(A, C)
  <2>. HIDE DEF A, C, f
  <2>1. DOMAIN f = A  BY <1>3
  <2>2. f \in Bijection(A, C)
    BY <1>3, <1>4, <1>5, <2>1 DEF Bijection, Injection, Surjection, IsInjective
  <2>. QED  BY <2>2 DEF ExistsBijection
<1>7. Cardinality(C) = Cardinality(A)
  <2>. HIDE DEF A, C
  <2>. QED  BY <1>2, <1>6, FS_Bijection
<1>8. k \in B <=> n = name  BY <1>1
<1>9. /\ k \in B => Cardinality(C) = Cardinality(B) - 1
      /\ k \notin B => Cardinality(C) = Cardinality(B)
  <2>. HIDE DEF A, B
  <2>. QED  BY <1>2, FS_RemoveElement
<1>10. Cardinality(A) \in Nat /\ Cardinality(B) \in Nat
  <2>. HIDE DEF A, B
  <2>. QED  BY <1>2, FS_CardinalityType
<1>11. Times(names, n) = Cardinality(A) /\ Times(more, n) = Cardinality(B)
  BY DEF Times
<1>. HIDE DEF A, B, C, f
<1>. QED  BY <1>7, <1>8, <1>9, <1>10, <1>11

LEMMA InsertAddsOne ==
    ASSUME NEW S, NEW names \in Seq(S), NEW name \in S, NEW k \in 1..(Len(names) + 1)
    PROVE  LET more == InsertAt(names, k, name)
           IN  /\ more \in Seq(S)
               /\ Times(more, name) = Times(names, name) + 1
               /\ \A n : n # name => Times(more, n) = Times(names, n)
               /\ OneMore(names, more, name, k)
<1>. DEFINE more == InsertAt(names, k, name)
            before == SubSeq(names, 1, k - 1)
            after == SubSeq(names, k, Len(names))
            len == Len(names)
<1>1. len \in Nat /\ k \in Int /\ k - 1 \in Int /\ 1 <= k /\ k <= len + 1
      /\ \A i \in 1..len : names[i] \in S
  OBVIOUS
<1>2. /\ before \in Seq(S) /\ Len(before) = k - 1
      /\ \A i \in 1..(k - 1) : before[i] = names[i]
  <2>1. \A i \in 1..(k - 1) : names[i] \in S  BY <1>1
  <2>2. /\ before \in Seq(S)
        /\ Len(before) = IF 1 <= k - 1 THEN k - 1 - 1 + 1 ELSE 0
        /\ \A i \in 1..(k - 1 - 1 + 1) : before[i] = names[1 + i - 1]
    BY <1>1, <2>1, SubSeqProperties
  <2>3. k - 1 - 1 + 1 = k - 1 /\ \A i \in 1..(k - 1) : 1 + i - 1 = i  BY <1>1
  <2>. HIDE DEF before
  <2>. QED  BY <1>1, <2>2, <2>3
<1>3. /\ after \in Seq(S) /\ Len(after) = len - k + 1
      /\ \A i \in 1..(len - k + 1) : after[i] = names[k + i - 1]
  <2>1. \A i \in k..len : names[i] \in S  BY <1>1
  <2>2. /\ after \in Seq(S)
        /\ Len(after) = IF k <= len THEN len - k + 1 ELSE 0
        /\ \A i \in 1..(len - k + 1) : after[i] = names[k + i - 1]
    BY <1>1, <2>1, SubSeqProperties
  <2>. HIDE DEF after, len
  <2>. QED  BY <1>1, <2>2
<1>. DEFINE front == before \o <<name>>
<1>4. more = front \o after  BY DEF InsertAt
<1>. HIDE DEF before, after, more
<1>5. /\ front \in Seq(S) /\ Len(front) = k
      /\ \A i \in 1..(k - 1) : front[i] = names[i]
      /\ front[k] = name
  BY <1>1, <1>2
<1>. HIDE DEF front, len
<1>6. /\ more \in Seq(S) /\ Len(more) = len + 1
      /\ \A i \in 1..k : more[i] = front[i]
      /\ \A i \in (k + 1)..(len + 1) : more[i] = after[i - k]
  <2>1. front \in Seq(S) /\ after \in Seq(S)  BY <1>3, <1>5
  <2>2. /\ more \in Seq(S) /\ Len(more) = Len(front) + Len(after)
        /\ \A i \in 1..(Len(front) + Len(after)) :
                more[i] = IF i <= Len(front) THEN front[i] ELSE after[i - Len(front)]
    BY <1>4, <2>1, ConcatProperties
  <2>3. Len(front) + Len(after) = len + 1  BY <1>1, <1>3, <1>5
  <2>. QED  BY <1>1, <1>5, <2>2, <2>3
<1>7. more[k] = name /\ \A i \in 1..(k - 1) : more[i] = names[i]
  BY <1>1, <1>5, <1>6
<1>8. \A i \in k..len : more[i + 1] = names[i]
  <2>. SUFFICES ASSUME NEW i \in k..len  PROVE more[i + 1] = names[i]
    OBVIOUS
  <2>1. i + 1 \in (k + 1)..(len + 1) /\ i + 1 - k \in 1..(len - k + 1)
        /\ k + (i + 1 - k) - 1 = i
    BY <1>1
  <2>. QED  BY <1>3, <1>6, <2>1
<1>9. Len(more) = Len(names) + 1 /\ \A i \in k..Len(names) : more[i + 1] = names[i]
  BY <1>6, <1>8 DEF len
<1>10. OneMore(names, more, name, k)  BY <1>7, <1>9 DEF OneMore
<1>11. /\ Times(more, name) = Times(names, name) + 1
       /\ \A n : n # name => Times(more, n) = Times(names, n)
  BY <1>6, <1>10, TimesOneMore
<1>. QED  BY <1>6, <1>10, <1>11 DEF more

LEMMA RemoveTakesOne ==
    ASSUME NEW S, NEW names \in Seq(S), NEW name \in S, Contains(names, name)
    PROVE  LET less == RemoveFirst(names, name)
           IN  /\ less \in Seq(S)
               /\ Times(names, name) = Times(less, name) + 1
               /\ \A n : n # name => Times(names, n) = Times(less, n)
               /\ OneMore(less, names, name,
                          Min({i \in 1..Len(names) : names[i] = name}))
<1>. DEFINE less == RemoveFirst(names, name)
            I == {i \in 1..Len(names) : names[i] = name}
            k == Min(I)
            before == SubSeq(names, 1, k - 1)
            after == SubSeq(names, k + 1, Len(names))
            len == Len(names)
<1>1. I # {} /\ I \in SUBSET Nat  BY DEF Contains
<1>2. k \in I
  <2>. HIDE DEF I
  <2>. QED  BY <1>1, LeastOfNaturals
<1>3. /\ len \in Nat /\ k \in 1..len /\ names[k] = name
      /\ \A i \in 1..len : names[i] \in S
  BY <1>2
<1>4. less = before \o after
  BY <1>1 DEF RemoveFirst, RemoveAt, SelectInSeq, Contains
<1>. HIDE DEF I, k
<1>5. /\ before \in Seq(S) /\ Len(before) = k - 1
      /\ \A i \in 1..(k - 1) : before[i] = names[i]
  <2>1. \A i \in 1..(k - 1) : names[i] \in S  BY <1>3
  <2>2. /\ before \in Seq(S)
        /\ Len(before) = IF 1 <= k - 1 THEN k - 1 - 1 + 1 ELSE 0
        /\ \A i \in 1..(k - 1 - 1 + 1) : before[i] = names[1 + i - 1]
    BY <1>3, <2>1, SubSeqProperties
  <2>3. k - 1 - 1 + 1 = k - 1 /\ \A i \in 1..(k - 1) : 1 + i - 1 = i  BY <1>3
  <2>. HIDE DEF before
  <2>. QED  BY <1>3, <2>2, <2>3
<1>6. /\ after \in Seq(S) /\ Len(after) = len - k
      /\ \A i \in 1..(len - k) : after[i] = names[k + i]
  <2>1. \A i \in (k + 1)..len : names[i] \in S  BY <1>3
  <2>2. /\ after \in Seq(S)
        /\ Len(after) = IF k + 1 <= len THEN len - (k + 1) + 1 ELSE 0
        /\ \A i \in 1..(len - (k + 1) + 1) : after[i] = names[(k + 1) + i - 1]
    BY <1>3, <2>1, SubSeqProperties
  <2>3. len - (k + 1) + 1 = len - k /\ \A i \in 1..(len - k) : (k + 1) + i - 1 = k + i
    BY <1>3
  <2>. HIDE DEF after, len
  <2>. QED  BY <1>3, <2>2, <2>3
<1>. HIDE DEF before, after, less
<1>7. /\ less \in Seq(S) /\ Len(less) + 1 = len
      /\ \A i \in 1..(k - 1) : less[i] = before[i]
      /\ \A i \in k..(len - 1) : less[i] = after[i - k + 1]
  <2>. HIDE DEF len
  <2>1. less \in Seq(S) /\ Len(less) = Len(before) + Len(after)
    BY <1>4, <1>5, <1>6, ConcatProperties
  <2>2. Len(less) + 1 = len  BY <1>3, <1>5, <1>6, <2>1
  <2>3. \A i \in 1..(k - 1) : less[i] = before[i]  BY <1>3, <1>4, <1>5, <1>6
  <2>4. \A i \in k..(len - 1) : less[i] = after[i - k + 1]
    <3>. SUFFICES ASSUME NEW i \in k..(len - 1)  PROVE less[i] = after[i - k + 1]
      OBVIOUS
    <3>1. i \in (Len(before) + 1)..(Len(before) + Len(after)) /\ i - Len(before) = i - k + 1
      BY <1>3, <1>5, <1>6
    <3>2. less[i] = after[i - Len(before)]  BY <1>4, <1>5, <1>6, <3>1
    <3>. QED  BY <3>1, <3>2
  <2>. QED  BY <2>1, <2>2, <2>3, <2>4
<1>8. \A i \in 1..(k - 1) : names[i] = less[i]
  BY <1>5, <1>7
<1>9. \A i \in k..Len(less) : names[i + 1] = less[i]
  <2>. SUFFICES ASSUME NEW i \in k..Len(less)  PROVE names[i + 1] = less[i]
    OBVIOUS
  <2>1. i \in k..(len - 1) /\ i - k + 1 \in 1..(len - k) /\ k + (i - k + 1) = i + 1
    BY <1>3, <1>7
  <2>. QED  BY <1>6, <1>7, <2>1
<1>10. k \in 1..(Len(less) + 1) /\ Len(names) = Len(less) + 1  BY <1>3, <1>7
<1>11. less \in Seq(S)  BY <1>7
<1>. HIDE DEF len
<1>12. OneMore(less, names, name, k)  BY <1>3, <1>8, <1>9, <1>10 DEF OneMore
<1>13. /\ Times(names, name) = Times(less, name) + 1
       /\ \A n : n # name => Times(names, n) = Times(less, n)
  BY <1>11, <1>12, TimesOneMore
<1>. QED  BY <1>11, <1>12, <1>13 DEF less, k, I

LEMMA ListedIfAny ==
    ASSUME NEW S, NEW names \in Seq(S), NEW name
    PROVE  Contains(names, name) <=> Times(names, name) > 0
<1>. DEFINE A == {i \in DOMAIN names : names[i] = name}
<1>1. IsFiniteSet(A) /\ Cardinality(A) \in Nat /\ Times(names, name) = Cardinality(A)
  BY TimesIsNat DEF Times
<1>2. Contains(names, name) <=> A # {}  BY DEF Contains
<1>. HIDE DEF A
<1>. QED  BY <1>1, <1>2, FS_EmptySet

(* What was added, and where, tells one list from the other.                *)
LEMMA MoreIsUnique ==
    ASSUME NEW S, NEW names \in Seq(S), NEW one \in Seq(S), NEW other \in Seq(S),
           NEW name, NEW k, OneMore(names, one, name, k), OneMore(names, other, name, k)
    PROVE  one = other
<1>. DEFINE n == Len(names)
<1>1. /\ n \in Nat /\ k \in 1..(n + 1) /\ Len(one) = n + 1 /\ Len(other) = n + 1
      /\ one[k] = name /\ other[k] = name
      /\ \A i \in 1..(k - 1) : one[i] = names[i] /\ other[i] = names[i]
      /\ \A i \in k..n : one[i + 1] = names[i] /\ other[i + 1] = names[i]
  BY DEF OneMore
<1>. HIDE DEF n
<1>2. ASSUME NEW i \in 1..(n + 1)  PROVE one[i] = other[i]
  <2>1. CASE i < k
    <3>1. i \in 1..(k - 1)  BY <1>1, <2>1
    <3>. QED  BY <1>1, <3>1
  <2>2. CASE i = k  BY <1>1, <2>2
  <2>3. CASE i > k
    <3>1. i - 1 \in k..n /\ i - 1 + 1 = i  BY <1>1, <2>3
    <3>2. one[i - 1 + 1] = other[i - 1 + 1]  BY <1>1, <3>1
    <3>. QED  BY <3>1, <3>2
  <2>. QED  BY <1>1, <2>1, <2>2, <2>3
<1>. QED  BY <1>1, <1>2, SeqEqual

LEMMA LessIsUnique ==
    ASSUME NEW S, NEW one \in Seq(S), NEW other \in Seq(S), NEW more \in Seq(S),
           NEW name, NEW k, OneMore(one, more, name, k), OneMore(other, more, name, k)
    PROVE  one = other
<1>. DEFINE n == Len(one)
<1>1. n \in Nat /\ k \in 1..(n + 1) /\ Len(more) = n + 1 /\ Len(other) = n
  <2>1. Len(one) \in Nat /\ Len(other) \in Nat  OBVIOUS
  <2>. QED  BY <2>1 DEF OneMore
<1>2. /\ \A i \in 1..(k - 1) : one[i] = more[i] /\ other[i] = more[i]
      /\ \A i \in k..n : one[i] = more[i + 1] /\ other[i] = more[i + 1]
  BY <1>1 DEF OneMore
<1>. HIDE DEF n
<1>3. ASSUME NEW i \in 1..n  PROVE one[i] = other[i]
  <2>1. i \in 1..(k - 1) \/ i \in k..n  BY <1>1
  <2>. QED  BY <1>2, <2>1
<1>. QED  BY <1>1, <1>3, SeqEqual DEF n

(* The only place of a name.                                                *)
LEMMA OnlyPlace ==
    ASSUME NEW S, NEW names \in Seq(S), NEW name, Times(names, name) <= 1,
           NEW i \in DOMAIN names, NEW k \in DOMAIN names,
           names[i] = name, names[k] = name
    PROVE  i = k
<1>. DEFINE A == {n \in DOMAIN names : names[n] = name}
<1>1. IsFiniteSet(A) /\ Times(names, name) = Cardinality(A) /\ Times(names, name) \in Nat
  BY TimesIsNat DEF Times
<1>2. i \in A /\ k \in A  OBVIOUS
<1>. HIDE DEF A
<1>3. Cardinality(A) # 0
  <2>1. A # {}  BY <1>2
  <2>. QED  BY <1>1, <2>1, FS_EmptySet
<1>4. Cardinality(A) = 1  BY <1>1, <1>3
<1>5. PICK x : A = {x}  BY <1>1, <1>4, FS_Singleton
<1>. QED  BY <1>2, <1>5

-----------------------------------------------------------------------------
(* Layers, storage steps, and what a step leaves.                           *)

FiniteWays == {P \in SUBSET Paths : IsFiniteSet(P)}
Layers == UNION {[P -> Specs] : P \in FiniteWays}
Positions == Nat \ {0}

PrimSteps ==
    [slot : {"prim"}, at : Paths, name : {None}, to : Specs \cup {None}]
ChildSteps ==
    [slot : {"child"}, at : Paths, name : Names, to : Positions \cup {None}]
FieldSteps ==
    [slot : {"field"}, at : Paths, name : {None}, to : Values \cup {None}]
StorageSteps == PrimSteps \cup ChildSteps \cup FieldSteps

LEMMA LayerFacts ==
    ASSUME NEW l \in Layers
    PROVE  /\ l \in [DOMAIN l -> Specs]
           /\ DOMAIN l \subseteq Paths /\ IsFiniteSet(DOMAIN l)
           /\ \A p \in DOMAIN l :
                /\ l[p] \in Specs
                /\ l[p].children \in Seq(Names) /\ l[p].field \in Values \cup {None}
                /\ l[p] = [children |-> l[p].children, field |-> l[p].field]
<1>1. PICK P \in FiniteWays : l \in [P -> Specs]  BY DEF Layers
<1>2. DOMAIN l = P  BY <1>1
<1>. QED  BY <1>1, <1>2 DEF FiniteWays, Specs

LEMMA IsALayer ==
    ASSUME NEW P \in FiniteWays, NEW l \in [P -> Specs]
    PROVE  l \in Layers
BY DEF Layers

LEMMA SpecsAreNotNone ==
    /\ None \notin Specs /\ None \notin Values /\ None \notin Positions
    /\ \A s \in Specs : s # None
BY NoneAssumption DEF Positions

LEMMA PutIs ==
    ASSUME NEW l \in Layers, NEW p \in Paths, NEW spec \in Specs \cup {None}
    PROVE  /\ Put(l, p, spec) \in Layers
           /\ spec = None => Put(l, p, spec) = [q \in DOMAIN l \ {p} |-> l[q]]
           /\ spec # None => Put(l, p, spec) =
                    [q \in DOMAIN l \cup {p} |-> IF q = p THEN spec ELSE l[q]]
<1>. DEFINE P == DOMAIN l \ {p}
            Q == DOMAIN l \cup {p}
<1>1. /\ l \in [DOMAIN l -> Specs] /\ DOMAIN l \subseteq Paths
      /\ IsFiniteSet(DOMAIN l)
  BY LayerFacts
<1>2. P \in FiniteWays /\ Q \in FiniteWays
  <2>1. IsFiniteSet(P) /\ IsFiniteSet(Q)
    <3>. DEFINE D == DOMAIN l
    <3>. HIDE DEF D
    <3>1. IsFiniteSet(D)  BY <1>1 DEF D
    <3>2. IsFiniteSet(D \ {p}) /\ IsFiniteSet(D \cup {p})
      BY <3>1, FS_AddElement, FS_RemoveElement
    <3>. QED  BY <3>2 DEF D
  <2>. QED  BY <1>1, <2>1 DEF FiniteWays
<1>3. CASE spec = None
  <2>1. Put(l, p, spec) = [q \in P |-> l[q]]  BY <1>3 DEF Put
  <2>2. [q \in P |-> l[q]] \in [P -> Specs]  BY <1>1
  <2>. QED  BY <1>2, <1>3, <2>1, <2>2, IsALayer
<1>4. CASE spec # None
  <2>1. Put(l, p, spec) = [q \in Q |-> IF q = p THEN spec ELSE l[q]]
    BY <1>4 DEF Put
  <2>2. [q \in Q |-> IF q = p THEN spec ELSE l[q]] \in [Q -> Specs]
    BY <1>1, <1>4
  <2>. QED  BY <1>2, <1>4, <2>1, <2>2, IsALayer
<1>. QED  BY <1>3, <1>4

LEMMA ListedIs ==
    ASSUME NEW names \in Seq(Names), NEW s \in ChildSteps,
           s.to = None => Contains(names, s.name)
    PROVE  /\ Listed(names, s) \in Seq(Names)
           /\ s.to # None => Times(Listed(names, s), s.name) = Times(names, s.name) + 1
           /\ s.to = None => Times(names, s.name) = Times(Listed(names, s), s.name) + 1
           /\ \A n : n # s.name => Times(Listed(names, s), n) = Times(names, n)
           /\ s.to # None =>
                OneMore(names, Listed(names, s), s.name, Min({s.to, Len(names) + 1}))
           /\ s.to = None =>
                OneMore(Listed(names, s), names, s.name,
                        Min({i \in 1..Len(names) : names[i] = s.name}))
<1>1. s.name \in Names /\ s.to \in Positions \cup {None}  BY DEF ChildSteps
<1>2. CASE s.to = None
  <2>1. Listed(names, s) = RemoveFirst(names, s.name)  BY <1>2 DEF Listed
  <2>. QED  BY <1>1, <1>2, <2>1, RemoveTakesOne
<1>3. CASE s.to # None
  <2>. DEFINE k == Min({s.to, Len(names) + 1})
  <2>1. s.to \in Nat /\ s.to >= 1 /\ Len(names) + 1 \in Nat /\ Len(names) \in Nat
    BY <1>1, <1>3 DEF Positions
  <2>2. k \in {s.to, Len(names) + 1} /\ k <= Len(names) + 1
    BY <2>1, LeastOfNaturals
  <2>3. k \in 1..(Len(names) + 1)  BY <2>1, <2>2
  <2>4. Listed(names, s) = InsertAt(names, k, s.name)  BY <1>3 DEF Listed
  <2>. HIDE DEF k
  <2>5. /\ InsertAt(names, k, s.name) \in Seq(Names)
        /\ Times(InsertAt(names, k, s.name), s.name) = Times(names, s.name) + 1
        /\ \A n : n # s.name => Times(InsertAt(names, k, s.name), n) = Times(names, n)
        /\ OneMore(names, InsertAt(names, k, s.name), s.name, k)
    BY <1>1, <2>3, InsertAddsOne
  <2>6. OneMore(names, Listed(names, s), s.name, Min({s.to, Len(names) + 1}))
    BY <2>4, <2>5 DEF k
  <2>. QED  BY <1>3, <2>4, <2>5, <2>6
<1>. QED  BY <1>2, <1>3

LEMMA ChildWritten ==
    ASSUME NEW l \in Layers, NEW s \in ChildSteps, Has(l, s.at),
           s.to = None => Lists(l, s.at, s.name)
    PROVE  /\ Written(l, s) \in Layers
           /\ Written(l, s) = [q \in DOMAIN l |->
                IF q = s.at
                THEN [children |-> Listed(l[q].children, s), field |-> l[q].field]
                ELSE l[q]]
           /\ s.to = None => Contains(l[s.at].children, s.name)
           /\ Listed(l[s.at].children, s) \in Seq(Names)
<1>1. s.slot = "child" /\ s.at \in DOMAIN l  BY DEF ChildSteps, Has
<1>2. /\ l \in [DOMAIN l -> Specs] /\ DOMAIN l \in FiniteWays
      /\ l[s.at].children \in Seq(Names) /\ l[s.at].field \in Values \cup {None}
      /\ l[s.at] = [children |-> l[s.at].children, field |-> l[s.at].field]
  BY <1>1, LayerFacts DEF FiniteWays
<1>3. s.to = None => Contains(l[s.at].children, s.name)
  BY <1>1 DEF Lists, ChildrenAt, Has
<1>4. Listed(l[s.at].children, s) \in Seq(Names)  BY <1>2, <1>3, ListedIs
<1>. DEFINE spec == [children |-> Listed(l[s.at].children, s), field |-> l[s.at].field]
<1>5. Written(l, s) = [l EXCEPT ![s.at].children = Listed(@, s)]
  BY <1>1 DEF Written
<1>6. [l[s.at] EXCEPT !.children = Listed(@, s)] = spec  BY <1>2
<1>7. Written(l, s) = [q \in DOMAIN l |-> IF q = s.at THEN spec ELSE l[q]]
  BY <1>1, <1>2, <1>5, <1>6
<1>8. spec \in Specs  BY <1>2, <1>4 DEF Specs
<1>. HIDE DEF spec
<1>9. Written(l, s) \in [DOMAIN l -> Specs]  BY <1>2, <1>7, <1>8
<1>10. Written(l, s) \in Layers  BY <1>2, <1>9, IsALayer
<1>. QED  BY <1>3, <1>4, <1>7, <1>10 DEF spec

LEMMA FieldWritten ==
    ASSUME NEW l \in Layers, NEW s \in FieldSteps, Has(l, s.at)
    PROVE  /\ Written(l, s) \in Layers
           /\ Written(l, s) = [q \in DOMAIN l |->
                IF q = s.at THEN [children |-> l[q].children, field |-> s.to] ELSE l[q]]
<1>1. s.slot = "field" /\ s.at \in DOMAIN l /\ s.to \in Values \cup {None}
  BY DEF FieldSteps, Has
<1>2. /\ l \in [DOMAIN l -> Specs] /\ DOMAIN l \in FiniteWays
      /\ l[s.at].children \in Seq(Names)
      /\ l[s.at] = [children |-> l[s.at].children, field |-> l[s.at].field]
  BY <1>1, LayerFacts DEF FiniteWays
<1>. DEFINE spec == [children |-> l[s.at].children, field |-> s.to]
<1>3. Written(l, s) = [l EXCEPT ![s.at].field = s.to]  BY <1>1 DEF Written
<1>4. [l[s.at] EXCEPT !.field = s.to] = spec  BY <1>2
<1>5. Written(l, s) = [q \in DOMAIN l |-> IF q = s.at THEN spec ELSE l[q]]
  BY <1>1, <1>2, <1>3, <1>4
<1>6. spec \in Specs  BY <1>1, <1>2 DEF Specs
<1>. HIDE DEF spec
<1>7. Written(l, s) \in [DOMAIN l -> Specs]  BY <1>2, <1>5, <1>6
<1>8. Written(l, s) \in Layers  BY <1>2, <1>7, IsALayer
<1>. QED  BY <1>5, <1>8 DEF spec

LEMMA PrimWritten ==
    ASSUME NEW l \in Layers, NEW s \in PrimSteps
    PROVE  /\ Written(l, s) \in Layers
           /\ s.to = None => Written(l, s) = [q \in DOMAIN l \ {s.at} |-> l[q]]
           /\ s.to # None => Written(l, s) =
                [q \in DOMAIN l \cup {s.at} |-> IF q = s.at THEN s.to ELSE l[q]]
<1>1. s.slot = "prim" /\ s.at \in Paths /\ s.to \in Specs \cup {None}
  BY DEF PrimSteps
<1>2. Written(l, s) = Put(l, s.at, s.to)  BY <1>1 DEF Written
<1>. DEFINE p == s.at
            spec == s.to
<1>3. p \in Paths /\ spec \in Specs \cup {None}  BY <1>1
<1>. HIDE DEF p, spec
<1>4. /\ Put(l, p, spec) \in Layers
      /\ spec = None => Put(l, p, spec) = [q \in DOMAIN l \ {p} |-> l[q]]
      /\ spec # None => Put(l, p, spec) =
                    [q \in DOMAIN l \cup {p} |-> IF q = p THEN spec ELSE l[q]]
  BY <1>3, PutIs
<1>. QED  BY <1>2, <1>4 DEF p, spec

LEMMA KindsOfSteps ==
    ASSUME NEW s \in StorageSteps
    PROVE  /\ s \in PrimSteps \/ s \in ChildSteps \/ s \in FieldSteps
           /\ s \in PrimSteps <=> s.slot = "prim"
           /\ s \in ChildSteps <=> s.slot = "child"
           /\ s \in FieldSteps <=> s.slot = "field"
           /\ s.at \in Paths
BY DEF StorageSteps, PrimSteps, ChildSteps, FieldSteps

(* A step that has what it needs: its holder, and what it removes.          *)
Applicable(l, s) ==
    /\ s.slot # "prim" => Has(l, s.at)
    /\ s.slot = "child" /\ s.to = None => Lists(l, s.at, s.name)
    /\ s.slot = "field" /\ s.to = None => FieldAt(l, s.at) # None

LEMMA NotDivergedIsApplicable ==
    ASSUME NEW l, NEW s
    PROVE  ~Diverged(l, s) <=> Applicable(l, s)
BY DEF Diverged, Applicable

LEMMA WrittenIsALayer ==
    ASSUME NEW l \in Layers, NEW s \in StorageSteps, Applicable(l, s)
    PROVE  Written(l, s) \in Layers
<1>1. CASE s \in PrimSteps  BY <1>1, PrimWritten
<1>2. CASE s \in ChildSteps
  <2>1. Has(l, s.at) /\ (s.to = None => Lists(l, s.at, s.name))
    BY <1>2 DEF ChildSteps, Applicable
  <2>. QED  BY <1>2, <2>1, ChildWritten
<1>3. CASE s \in FieldSteps
  <2>1. Has(l, s.at)  BY <1>3 DEF FieldSteps, Applicable
  <2>. QED  BY <1>3, <2>1, FieldWritten
<1>. QED  BY <1>1, <1>2, <1>3, KindsOfSteps

LEMMA UnlistingHolds ==
    ASSUME NEW l \in Layers, NEW s \in ChildSteps, Applicable(l, s), s.to = None
    PROVE  Held(l, s) \in Positions /\ Held(l, s) # None
<1>. DEFINE names == l[s.at].children
            I == {i \in 1..Len(names) : names[i] = s.name}
<1>1. s.slot = "child" /\ s.at \in Paths /\ s.name \in Names  BY DEF ChildSteps
<1>2. Contains(names, s.name) /\ names \in Seq(Names)
  BY <1>1, ChildWritten, LayerFacts DEF Applicable, Has
<1>3. I # {} /\ I \in SUBSET Nat /\ I \subseteq Positions  BY <1>2 DEF Contains, Positions
<1>4. Held(l, s) = Min(I)  BY <1>1, <1>3 DEF Held, SelectInSeq
<1>5. Min(I) \in I
  <2>. HIDE DEF I
  <2>. QED  BY <1>3, LeastOfNaturals
<1>6. Held(l, s) \in Positions  BY <1>3, <1>4, <1>5
<1>. QED  BY <1>6, SpecsAreNotNone

(* The step that undoes one is a storage step too.                          *)
Undoing(l, s) == [s EXCEPT !.to = Held(l, s)]

LEMMA UndoingIsAStep ==
    ASSUME NEW l \in Layers, NEW s \in StorageSteps, Applicable(l, s)
    PROVE  /\ s \in PrimSteps => Undoing(l, s) \in PrimSteps
           /\ s \in ChildSteps => Undoing(l, s) \in ChildSteps
           /\ s \in FieldSteps => Undoing(l, s) \in FieldSteps
           /\ Undoing(l, s) \in StorageSteps
           /\ Undoing(l, s) =
                [slot |-> s.slot, at |-> s.at, name |-> s.name, to |-> Held(l, s)]
<1>0. /\ s = [slot |-> s.slot, at |-> s.at, name |-> s.name, to |-> s.to]
      /\ Undoing(l, s) =
            [slot |-> s.slot, at |-> s.at, name |-> s.name, to |-> Held(l, s)]
  BY DEF Undoing, StorageSteps, PrimSteps, ChildSteps, FieldSteps
<1>1. ASSUME s \in PrimSteps  PROVE Undoing(l, s) \in PrimSteps
  <2>1. s.slot = "prim" /\ s.at \in Paths /\ s.name = None  BY <1>1 DEF PrimSteps
  <2>2. Held(l, s) = SpecAt(l, s.at)  BY <2>1 DEF Held
  <2>3. SpecAt(l, s.at) \in Specs \cup {None}  BY LayerFacts DEF SpecAt, Has
  <2>. QED  BY <1>0, <2>1, <2>2, <2>3 DEF PrimSteps
<1>2. ASSUME s \in FieldSteps  PROVE Undoing(l, s) \in FieldSteps
  <2>1. s.slot = "field" /\ s.at \in Paths /\ s.name = None  BY <1>2 DEF FieldSteps
  <2>2. Held(l, s) = FieldAt(l, s.at)  BY <2>1 DEF Held
  <2>3. FieldAt(l, s.at) \in Values \cup {None}  BY LayerFacts DEF FieldAt, Has
  <2>. QED  BY <1>0, <2>1, <2>2, <2>3 DEF FieldSteps
<1>3. ASSUME s \in ChildSteps  PROVE Undoing(l, s) \in ChildSteps
  <2>1. s.slot = "child" /\ s.at \in Paths /\ s.name \in Names  BY <1>3 DEF ChildSteps
  <2>2. Held(l, s) \in Positions \cup {None}
    <3>1. CASE s.to # None  BY <2>1, <3>1 DEF Held
    <3>2. CASE s.to = None  BY <1>3, <3>2, UnlistingHolds
    <3>. QED  BY <3>1, <3>2
  <2>. QED  BY <1>0, <2>1, <2>2 DEF ChildSteps
<1>. QED  BY <1>0, <1>1, <1>2, <1>3, KindsOfSteps DEF StorageSteps

-----------------------------------------------------------------------------
(* Layers that are the same but for the order of children.                  *)

LEMMA SameIsTransitive ==
    ASSUME NEW k, NEW l, NEW m, SameButOrder(k, l), SameButOrder(l, m)
    PROVE  SameButOrder(k, m)
BY DEF SameButOrder

LEMMA SameIsSymmetric ==
    ASSUME NEW k, NEW l, SameButOrder(k, l)
    PROVE  SameButOrder(l, k)
BY DEF SameButOrder

LEMMA SameIsReflexive == \A l : SameButOrder(l, l)
BY DEF SameButOrder

LEMMA SameLists ==
    ASSUME NEW l \in Layers, NEW m \in Layers, SameButOrder(l, m),
           NEW p, NEW name \in Names, Lists(l, p, name)
    PROVE  Lists(m, p, name)
<1>1. Has(l, p)
  <2>. SUFFICES ASSUME ~Has(l, p)  PROVE FALSE
    OBVIOUS
  <2>1. Contains(<<>>, name)  BY DEF Lists, ChildrenAt
  <2>. QED  BY <2>1 DEF Contains
<1>2. /\ p \in DOMAIN l /\ p \in DOMAIN m
      /\ l[p].children \in Seq(Names) /\ m[p].children \in Seq(Names)
      /\ Times(l[p].children, name) = Times(m[p].children, name)
  BY <1>1, LayerFacts DEF Has, SameButOrder
<1>3. Contains(l[p].children, name)  BY <1>1 DEF Lists, ChildrenAt
<1>4. Contains(m[p].children, name)  BY <1>2, <1>3, ListedIfAny
<1>. QED  BY <1>2, <1>4 DEF Lists, ChildrenAt, Has

(* A step leaves such layers such layers.                                   *)
LEMMA StepsRespectSame ==
    ASSUME NEW l \in Layers, NEW m \in Layers, SameButOrder(l, m),
           NEW s \in StorageSteps, Applicable(l, s)
    PROVE  Applicable(m, s) /\ SameButOrder(Written(l, s), Written(m, s))
<1>. DEFINE L == Written(l, s)
            M == Written(m, s)
<1>1. DOMAIN l = DOMAIN m  BY DEF SameButOrder
<1>2. Applicable(m, s)
  <2>1. s.slot # "prim" => Has(m, s.at)  BY <1>1 DEF Applicable, Has
  <2>2. s.slot = "child" /\ s.to = None => Lists(m, s.at, s.name)
    <3>. SUFFICES ASSUME s.slot = "child", s.to = None  PROVE Lists(m, s.at, s.name)
      OBVIOUS
    <3>1. s.name \in Names  BY KindsOfSteps DEF ChildSteps
    <3>2. Lists(l, s.at, s.name)  BY DEF Applicable
    <3>. QED  BY <3>1, <3>2, SameLists
  <2>3. s.slot = "field" => FieldAt(m, s.at) = FieldAt(l, s.at)
    <3>1. s.slot = "field" => s.at \in DOMAIN l  BY DEF Applicable, Has
    <3>. QED  BY <1>1, <3>1 DEF SameButOrder, FieldAt, Has
  <2>. QED  BY <2>1, <2>2, <2>3 DEF Applicable
<1>3. CASE s \in PrimSteps
  <2>1. CASE s.to = None
    <3>1. /\ L = [q \in DOMAIN l \ {s.at} |-> l[q]]
          /\ M = [q \in DOMAIN m \ {s.at} |-> m[q]]
      BY <1>3, <2>1, PrimWritten
    <3>. HIDE DEF L, M
    <3>2. DOMAIN L = DOMAIN M /\ \A q \in DOMAIN L : q \in DOMAIN l /\ L[q] = l[q] /\ M[q] = m[q]
      BY <1>1, <3>1
    <3>3. SameButOrder(L, M)  BY <3>2 DEF SameButOrder
    <3>. QED  BY <1>2, <3>3 DEF L, M
  <2>2. CASE s.to # None
    <3>1. /\ L = [q \in DOMAIN l \cup {s.at} |-> IF q = s.at THEN s.to ELSE l[q]]
          /\ M = [q \in DOMAIN m \cup {s.at} |-> IF q = s.at THEN s.to ELSE m[q]]
      BY <1>3, <2>2, PrimWritten
    <3>. HIDE DEF L, M
    <3>2. /\ DOMAIN L = DOMAIN M
          /\ \A q \in DOMAIN L : \/ L[q] = M[q]
                                 \/ q \in DOMAIN l /\ L[q] = l[q] /\ M[q] = m[q]
      BY <1>1, <3>1
    <3>3. SameButOrder(L, M)  BY <3>2 DEF SameButOrder
    <3>. QED  BY <1>2, <3>3 DEF L, M
  <2>. QED  BY <2>1, <2>2
<1>4. CASE s \in FieldSteps
  <2>1. s.slot = "field"  BY <1>4 DEF FieldSteps
  <2>2. /\ L = [q \in DOMAIN l |-> IF q = s.at
                    THEN [children |-> l[q].children, field |-> s.to] ELSE l[q]]
        /\ M = [q \in DOMAIN m |-> IF q = s.at
                    THEN [children |-> m[q].children, field |-> s.to] ELSE m[q]]
    BY <1>2, <1>4, <2>1, FieldWritten DEF Applicable
  <2>. HIDE DEF L, M
  <2>3. /\ DOMAIN L = DOMAIN M /\ DOMAIN L = DOMAIN l
        /\ \A q \in DOMAIN L :
                /\ L[q].children = l[q].children /\ M[q].children = m[q].children
                /\ \/ L[q].field = M[q].field
                   \/ L[q].field = l[q].field /\ M[q].field = m[q].field
    BY <1>1, <2>2
  <2>4. SameButOrder(L, M)  BY <2>3 DEF SameButOrder
  <2>. QED  BY <1>2, <2>4 DEF L, M
<1>5. CASE s \in ChildSteps
  <2>1. s.slot = "child" /\ s.name \in Names  BY <1>5 DEF ChildSteps
  <2>2. /\ Has(l, s.at) /\ (s.to = None => Lists(l, s.at, s.name))
        /\ Has(m, s.at) /\ (s.to = None => Lists(m, s.at, s.name))
    BY <1>2, <2>1 DEF Applicable
  <2>3. /\ L = [q \in DOMAIN l |-> IF q = s.at
                    THEN [children |-> Listed(l[q].children, s), field |-> l[q].field]
                    ELSE l[q]]
        /\ s.to = None => Contains(l[s.at].children, s.name)
    BY <1>5, <2>2, ChildWritten
  <2>4. /\ M = [q \in DOMAIN m |-> IF q = s.at
                    THEN [children |-> Listed(m[q].children, s), field |-> m[q].field]
                    ELSE m[q]]
        /\ s.to = None => Contains(m[s.at].children, s.name)
    BY <1>5, <2>2, ChildWritten
  <2>. HIDE DEF L, M
  <2>5. \A n \in Names : Times(Listed(l[s.at].children, s), n)
                       = Times(Listed(m[s.at].children, s), n)
    <3>. DEFINE a == l[s.at].children
                b == m[s.at].children
    <3>1. a \in Seq(Names) /\ b \in Seq(Names)  BY <2>2, LayerFacts DEF Has
    <3>2. \A n \in Names : Times(a, n) = Times(b, n)
      BY <2>2 DEF SameButOrder, Has
    <3>3. (s.to = None => Contains(a, s.name)) /\ (s.to = None => Contains(b, s.name))
      BY <2>3, <2>4
    <3>. HIDE DEF a, b
    <3>4. /\ Listed(a, s) \in Seq(Names)
          /\ s.to # None => Times(Listed(a, s), s.name) = Times(a, s.name) + 1
          /\ s.to = None => Times(a, s.name) = Times(Listed(a, s), s.name) + 1
          /\ \A n : n # s.name => Times(Listed(a, s), n) = Times(a, n)
      BY <1>5, <3>1, <3>3, ListedIs
    <3>5. /\ Listed(b, s) \in Seq(Names)
          /\ s.to # None => Times(Listed(b, s), s.name) = Times(b, s.name) + 1
          /\ s.to = None => Times(b, s.name) = Times(Listed(b, s), s.name) + 1
          /\ \A n : n # s.name => Times(Listed(b, s), n) = Times(b, n)
      BY <1>5, <3>1, <3>3, ListedIs
    <3>6. Times(Listed(a, s), s.name) \in Nat /\ Times(Listed(b, s), s.name) \in Nat
      BY <3>4, <3>5, TimesIsNat
    <3>7. Times(Listed(a, s), s.name) = Times(Listed(b, s), s.name)
      BY <2>1, <3>2, <3>4, <3>5, <3>6
    <3>8. \A n \in Names : Times(Listed(a, s), n) = Times(Listed(b, s), n)
      BY <3>2, <3>4, <3>5, <3>7
    <3>. QED  BY <3>8 DEF a, b
  <2>6. /\ DOMAIN L = DOMAIN M /\ DOMAIN L = DOMAIN l
        /\ \A q \in DOMAIN L :
            /\ L[q].field = l[q].field /\ M[q].field = m[q].field
            /\ q # s.at => L[q].children = l[q].children /\ M[q].children = m[q].children
            /\ q = s.at => /\ L[q].children = Listed(l[s.at].children, s)
                           /\ M[q].children = Listed(m[s.at].children, s)
    BY <1>1, <2>3, <2>4
  <2>7. SameButOrder(L, M)  BY <2>5, <2>6 DEF SameButOrder
  <2>. QED  BY <1>2, <2>7 DEF L, M
<1>. QED  BY <1>3, <1>4, <1>5, KindsOfSteps

(* Layers whose lists have no name twice.                                   *)
Once(l) == \A q \in DOMAIN l, name \in Names : Times(l[q].children, name) <= 1

(* Undoing a step takes it back; to the order of children, if the name it   *)
(* unlists was not listed before.                                           *)
LEMMA UndoingTakesBack ==
    ASSUME NEW l \in Layers, NEW s \in StorageSteps, Applicable(l, s)
    PROVE  LET w == Written(l, s)
               u == Undoing(l, s)
           IN  /\ Applicable(w, u) /\ SameButOrder(l, Written(w, u))
               /\ Once(w) => Written(w, u) = l
<1>. DEFINE w == Written(l, s)
            u == Undoing(l, s)
<1>1. w \in Layers  BY WrittenIsALayer
<1>2. /\ u = [slot |-> s.slot, at |-> s.at, name |-> s.name, to |-> Held(l, s)]
      /\ s \in PrimSteps => u \in PrimSteps
      /\ s \in ChildSteps => u \in ChildSteps
      /\ s \in FieldSteps => u \in FieldSteps
  BY UndoingIsAStep
<1>3. u.slot = s.slot /\ u.at = s.at /\ u.name = s.name /\ u.to = Held(l, s)
  BY <1>2
<1>4. /\ l \in [DOMAIN l -> Specs]
      /\ \A p \in DOMAIN l :
            /\ l[p] \in Specs
            /\ l[p].children \in Seq(Names)
            /\ l[p] = [children |-> l[p].children, field |-> l[p].field]
  BY LayerFacts
<1>5. CASE s \in PrimSteps
  <2>1. s.slot = "prim"  BY <1>5 DEF PrimSteps
  <2>2. Applicable(w, u)  BY <1>3, <2>1 DEF Applicable
  <2>3. Held(l, s) = SpecAt(l, s.at)  BY <2>1 DEF Held
  <2>4. /\ s.to = None => w = [q \in DOMAIN l \ {s.at} |-> l[q]]
        /\ s.to # None => w = [q \in DOMAIN l \cup {s.at} |->
                                    IF q = s.at THEN s.to ELSE l[q]]
    BY <1>5, PrimWritten
  <2>. HIDE DEF w, u
  <2>5. /\ u.to = None => Written(w, u) = [q \in DOMAIN w \ {s.at} |-> w[q]]
        /\ u.to # None => Written(w, u) = [q \in DOMAIN w \cup {s.at} |->
                                    IF q = s.at THEN u.to ELSE w[q]]
    <3>1. u \in PrimSteps  BY <1>2, <1>5
    <3>2. u.at = s.at  BY <1>3
    <3>3. /\ u.to = None => Written(w, u) = [q \in DOMAIN w \ {u.at} |-> w[q]]
          /\ u.to # None => Written(w, u) = [q \in DOMAIN w \cup {u.at} |->
                                    IF q = u.at THEN u.to ELSE w[q]]
      BY <1>1, <3>1, PrimWritten
    <3>. QED  BY <3>2, <3>3
  <2>6. DOMAIN w \ {s.at} = DOMAIN l \ {s.at}
        /\ \A q \in DOMAIN l \ {s.at} : w[q] = l[q]
    BY <2>4
  <2>7. CASE s.at \in DOMAIN l
    <3>1. u.to = l[s.at] /\ u.to # None
      BY <1>3, <1>4, <2>3, <2>7, SpecsAreNotNone DEF SpecAt, Has
    <3>2. DOMAIN w \cup {s.at} = DOMAIN l  BY <2>6, <2>7
    <3>3. Written(w, u) = [q \in DOMAIN l |-> l[q]]  BY <2>5, <2>6, <3>1, <3>2
    <3>4. Written(w, u) = l  BY <1>4, <3>3
    <3>. QED  BY <2>2, <3>4, SameIsReflexive DEF w, u
  <2>8. CASE s.at \notin DOMAIN l
    <3>1. u.to = None  BY <1>3, <2>3, <2>8 DEF SpecAt, Has
    <3>2. DOMAIN w \ {s.at} = DOMAIN l /\ \A q \in DOMAIN l : w[q] = l[q]
      BY <2>6, <2>8
    <3>3. Written(w, u) = [q \in DOMAIN l |-> l[q]]  BY <2>5, <3>1, <3>2
    <3>4. Written(w, u) = l  BY <1>4, <3>3
    <3>. QED  BY <2>2, <3>4, SameIsReflexive DEF w, u
  <2>. QED  BY <2>7, <2>8
<1>6. CASE s \in FieldSteps
  <2>1. s.slot = "field" /\ Has(l, s.at)  BY <1>6 DEF FieldSteps, Applicable
  <2>2. Held(l, s) = l[s.at].field  BY <2>1 DEF Held, FieldAt
  <2>3. w = [q \in DOMAIN l |->
                IF q = s.at THEN [children |-> l[q].children, field |-> s.to] ELSE l[q]]
    BY <1>6, <2>1, FieldWritten
  <2>4. Has(w, u.at)  BY <1>3, <2>1, <2>3 DEF Has
  <2>5. Applicable(w, u)
    <3>1. w[s.at].field = s.to  BY <2>1, <2>3 DEF Has
    <3>2. FieldAt(w, u.at) = s.to  BY <1>3, <2>4, <3>1 DEF FieldAt
    <3>3. u.to = None => s.to # None
      BY <1>3, <2>1, <2>2 DEF Applicable, FieldAt
    <3>. QED  BY <1>3, <2>1, <2>4, <3>2, <3>3 DEF Applicable
  <2>6. Written(w, u) = [q \in DOMAIN w |->
                IF q = u.at THEN [children |-> w[q].children, field |-> u.to] ELSE w[q]]
    BY <1>1, <1>2, <1>6, <2>4, FieldWritten
  <2>. HIDE DEF w, u
  <2>7. DOMAIN w = DOMAIN l /\ \A q \in DOMAIN l :
            /\ w[q].children = l[q].children
            /\ q # s.at => w[q] = l[q]
    BY <2>3
  <2>8. Written(w, u) = [q \in DOMAIN l |-> l[q]]
    <3>1. \A q \in DOMAIN l :
            (IF q = u.at THEN [children |-> w[q].children, field |-> u.to] ELSE w[q]) = l[q]
      BY <1>3, <1>4, <2>2, <2>7
    <3>. QED  BY <2>6, <2>7, <3>1
  <2>9. Written(w, u) = l  BY <1>4, <2>8
  <2>. QED  BY <2>5, <2>9, SameIsReflexive DEF w, u
<1>7. CASE s \in ChildSteps
  <2>1. /\ s.slot = "child" /\ s.name \in Names /\ Has(l, s.at)
        /\ s.to = None => Lists(l, s.at, s.name)
    BY <1>7 DEF ChildSteps, Applicable
  <2>. DEFINE a == l[s.at].children
              b == Listed(a, s)
              c == Listed(b, u)
  <2>2. /\ w = [q \in DOMAIN l |-> IF q = s.at
                    THEN [children |-> Listed(l[q].children, s), field |-> l[q].field]
                    ELSE l[q]]
        /\ s.to = None => Contains(a, s.name)
        /\ b \in Seq(Names)
    BY <1>7, <2>1, ChildWritten
  <2>3. a \in Seq(Names) /\ s.at \in DOMAIN l  BY <1>4, <2>1 DEF Has
  <2>4. s.to = None <=> u.to # None
    <3>1. CASE s.to # None  BY <1>3, <2>1, <3>1 DEF Held
    <3>2. CASE s.to = None
      <4>. DEFINE I == {i \in 1..Len(a) : a[i] = s.name}
      <4>1. I # {} /\ I \in SUBSET Nat  BY <2>2, <3>2 DEF Contains
      <4>2. Held(l, s) = Min(I)  BY <2>1, <3>2, <4>1 DEF Held, SelectInSeq
      <4>3. Min(I) \in Nat
        <5>. HIDE DEF I
        <5>. QED  BY <4>1, LeastOfNaturals
      <4>4. u.to # None  BY <1>3, <4>2, <4>3, NoneAssumption
      <4>. QED  BY <3>2, <4>4
    <3>. QED  BY <3>1, <3>2
  <2>5. /\ s.to # None => Times(b, s.name) = Times(a, s.name) + 1
        /\ s.to = None => Times(a, s.name) = Times(b, s.name) + 1
        /\ \A n : n # s.name => Times(b, n) = Times(a, n)
    BY <1>7, <2>2, <2>3, ListedIs
  <2>6. Times(a, s.name) \in Nat /\ Times(b, s.name) \in Nat
    BY <2>2, <2>3, TimesIsNat
  <2>7. u.to = None => Contains(b, s.name)
    BY <2>2, <2>4, <2>5, <2>6, ListedIfAny
  <2>8. w[s.at].children = b /\ s.at \in DOMAIN w /\ DOMAIN w = DOMAIN l
    BY <2>2, <2>3
  <2>9. Has(w, u.at) /\ (u.to = None => Lists(w, u.at, u.name))
    BY <1>3, <2>7, <2>8 DEF Has, Lists, ChildrenAt
  <2>10. Applicable(w, u)  BY <1>3, <2>1, <2>9 DEF Applicable
  <2>11. u.name = s.name /\ u \in ChildSteps  BY <1>2, <1>3, <1>7
  <2>. HIDE DEF u
  <2>12. /\ u.to # None => Times(c, s.name) = Times(b, s.name) + 1
         /\ u.to = None => Times(b, s.name) = Times(c, s.name) + 1
         /\ \A n : n # s.name => Times(c, n) = Times(b, n)
         /\ c \in Seq(Names)
    <3>. HIDE DEF b
    <3>1. b \in Seq(Names) /\ (u.to = None => Contains(b, u.name))  BY <2>2, <2>7, <2>11
    <3>2. c \in Seq(Names)  BY <2>11, <3>1, ListedIs
    <3>3. u.to # None => Times(c, s.name) = Times(b, s.name) + 1  BY <2>11, <3>1, ListedIs
    <3>4. u.to = None => Times(b, s.name) = Times(c, s.name) + 1  BY <2>11, <3>1, ListedIs
    <3>5. \A n : n # s.name => Times(c, n) = Times(b, n)  BY <2>11, <3>1, ListedIs
    <3>. QED  BY <3>2, <3>3, <3>4, <3>5
  <2>13. Times(c, s.name) \in Nat  BY <2>12, TimesIsNat
  <2>14. \A n : Times(c, n) = Times(a, n)
    <3>. HIDE DEF a, b, c
    <3>1. Times(c, s.name) = Times(a, s.name)
      BY <2>4, <2>5, <2>6, <2>12, <2>13
    <3>. QED  BY <2>5, <2>12, <3>1
  <2>. HIDE DEF w
  <2>15. Written(w, u) = [q \in DOMAIN w |-> IF q = u.at
                    THEN [children |-> Listed(w[q].children, u), field |-> w[q].field]
                    ELSE w[q]]
    BY <1>1, <2>9, <2>11, ChildWritten
  <2>16. /\ DOMAIN Written(w, u) = DOMAIN l
         /\ \A q \in DOMAIN l :
                /\ Written(w, u)[q].field = l[q].field
                /\ q # s.at => Written(w, u)[q].children = l[q].children
                /\ q = s.at => /\ l[q].children = a
                               /\ Written(w, u)[q].children = c
    BY <1>3, <2>2, <2>8, <2>15
  <2>17. SameButOrder(l, Written(w, u))
    <3>. HIDE DEF a, b, c
    <3>. QED  BY <2>14, <2>16 DEF SameButOrder
  <2>18. ASSUME Once(w)  PROVE c = a
    <3>1. \A name \in Names : Times(b, name) <= 1  BY <2>8, <2>18 DEF Once
    <3>2. Times(b, s.name) <= 1  BY <2>1, <3>1
    <3>3. /\ s.to # None => OneMore(a, b, s.name, Min({s.to, Len(a) + 1}))
          /\ s.to = None => OneMore(b, a, s.name, Min({i \in 1..Len(a) : a[i] = s.name}))
      BY <1>7, <2>2, <2>3, ListedIs
    <3>4. /\ u.to # None => OneMore(b, c, s.name, Min({u.to, Len(b) + 1}))
          /\ u.to = None => OneMore(c, b, s.name, Min({i \in 1..Len(b) : b[i] = s.name}))
      <4>. HIDE DEF b
      <4>. QED  BY <2>2, <2>7, <2>11, ListedIs
    <3>5. CASE s.to # None
      <4>. DEFINE k == Min({s.to, Len(a) + 1})
                  h == Min({i \in 1..Len(b) : b[i] = s.name})
      <4>1. OneMore(a, b, s.name, k) /\ OneMore(c, b, s.name, h)
        BY <2>4, <3>3, <3>4, <3>5
      <4>. HIDE DEF a, b, c, k, h
      <4>2. /\ k \in DOMAIN b /\ b[k] = s.name /\ h \in DOMAIN b /\ b[h] = s.name
        BY <2>2, <2>3, <2>12, <4>1 DEF OneMore
      <4>3. k = h  BY <2>2, <3>2, <4>2, OnlyPlace
      <4>. QED  BY <2>2, <2>3, <2>12, <4>1, <4>3, LessIsUnique
    <3>6. CASE s.to = None
      <4>. DEFINE I == {i \in 1..Len(a) : a[i] = s.name}
                  k == Min(I)
                  h == Min({u.to, Len(b) + 1})
      <4>1. OneMore(b, a, s.name, k) /\ OneMore(b, c, s.name, h)
        BY <2>4, <3>3, <3>4, <3>6
      <4>2. I # {}  BY <2>2, <3>6 DEF Contains
      <4>3. u.to = k  BY <1>3, <2>1, <3>6, <4>2 DEF Held, SelectInSeq
      <4>. HIDE DEF a, b, c, I, k
      <4>4. k \in Nat /\ Len(b) + 1 \in Nat /\ k <= Len(b) + 1
        BY <2>2, <4>1 DEF OneMore
      <4>5. h = k
        <5>1. h \in {k, Len(b) + 1} /\ h <= k /\ h <= Len(b) + 1
          BY <4>3, <4>4, LeastOfNaturals
        <5>. HIDE DEF h
        <5>. QED  BY <4>4, <5>1
      <4>. HIDE DEF h
      <4>. QED  BY <2>2, <2>3, <2>12, <4>1, <4>5, MoreIsUnique
    <3>. QED  BY <3>5, <3>6
  <2>19. ASSUME Once(w)  PROVE Written(w, u) = l
    <3>1. /\ Written(w, u) = [q \in DOMAIN l |-> IF q = s.at
                    THEN [children |-> c, field |-> l[q].field] ELSE l[q]]
      BY <1>3, <2>2, <2>8, <2>15
    <3>2. \A q \in DOMAIN l : (IF q = s.at
                    THEN [children |-> c, field |-> l[q].field] ELSE l[q]) = l[q]
      <4>1. c = l[s.at].children  BY <2>18, <2>19
      <4>. HIDE DEF c
      <4>. QED  BY <1>4, <4>1
    <3>. HIDE DEF c
    <3>3. Written(w, u) = [q \in DOMAIN l |-> l[q]]  BY <3>1, <3>2
    <3>. QED  BY <1>4, <3>3
  <2>. QED  BY <2>10, <2>17, <2>19 DEF w, u
<1>. QED  BY <1>5, <1>6, <1>7, KindsOfSteps

-----------------------------------------------------------------------------
(* Folds of operators over sequences.                                       *)

One(S) == CHOOSE x \in S : TRUE

LEMMA OneOfOne == \A x : One({x}) = x
BY DEF One

(* The values one after the other that moves F within D reach in n steps.   *)
Moves(n, D) == [1..n -> [D -> D]]
IsTrace(at, n, D, from, F) ==
    /\ at \in [0..n -> D]
    /\ at[0] = from
    /\ \A i \in 1..n : at[i] = F[i][at[i - 1]]

LEMMA TraceExists ==
    ASSUME NEW n \in Nat, NEW D, NEW from \in D, NEW F, F \in Moves(n, D)
    PROVE  \E at : IsTrace(at, n, D, from, F)
<1>. USE DEF Moves, IsTrace
<1>. DEFINE Traced(k) == \E at \in [0..k -> D] :
                at[0] = from /\ \A i \in 1..k : at[i] = F[i][at[i - 1]]
            S == {k \in Nat : k <= n => Traced(k)}
<1>1. 0 \in S
  <2>1. [i \in 0..0 |-> from] \in [0..0 -> D]  OBVIOUS
  <2>2. [i \in 0..0 |-> from][0] = from /\ 1..0 = {}  OBVIOUS
  <2>. QED  BY <2>1, <2>2
<1>2. ASSUME NEW k \in Nat, k \in S  PROVE k + 1 \in S
  <2>. SUFFICES ASSUME k + 1 <= n  PROVE Traced(k + 1)
    OBVIOUS
  <2>1. PICK at \in [0..k -> D] :
            at[0] = from /\ \A i \in 1..k : at[i] = F[i][at[i - 1]]
    BY <1>2
  <2>. DEFINE next == [i \in 0..(k + 1) |-> IF i <= k THEN at[i] ELSE F[k + 1][at[k]]]
  <2>2. at[k] \in D /\ k + 1 \in 1..n  BY <2>1
  <2>3. F[k + 1][at[k]] \in D  BY <2>2
  <2>4. next \in [0..(k + 1) -> D]  BY <2>1, <2>3
  <2>5. next[0] = from /\ \A i \in 0..k : next[i] = at[i]  BY <2>1
  <2>6. next[k + 1] = F[k + 1][next[k]]
    <3>1. next[k + 1] = F[k + 1][at[k]]  OBVIOUS
    <3>2. next[k] = at[k]  BY <2>5
    <3>. QED  BY <3>1, <3>2
  <2>7. \A i \in 1..(k + 1) : next[i] = F[i][next[i - 1]]
    <3>. SUFFICES ASSUME NEW i \in 1..(k + 1)  PROVE next[i] = F[i][next[i - 1]]
      OBVIOUS
    <3>. HIDE DEF next
    <3>1. CASE i = k + 1
      <4>1. i - 1 = k  BY <3>1
      <4>. QED  BY <2>6, <3>1, <4>1
    <3>2. CASE i # k + 1
      <4>1. i \in 1..k /\ i \in 0..k /\ i - 1 \in 0..k  BY <3>2
      <4>. QED  BY <2>1, <2>5, <4>1
    <3>. QED  BY <3>1, <3>2
  <2>. HIDE DEF next
  <2>. QED  BY <2>4, <2>5, <2>7
<1>3. \A k \in Nat : k \in S => k + 1 \in S  BY <1>2
<1>. HIDE DEF Traced
<1>4. n \in S
  <2>. HIDE DEF S
  <2>. QED  BY <1>1, <1>3, NatSet
<1>5. Traced(n)  BY <1>4
<1>. QED  BY <1>5 DEF Traced

Follows(f, g, n) == \A i \in 1..n : f[i - 1] = g[i - 1] => f[i] = g[i]

StartsAt(at, n, from) == at = [i \in 0..n |-> at[i]] /\ at[0] = from

LEMMA TracesAgree ==
    ASSUME NEW n \in Nat, NEW f, NEW g, f[0] = g[0], Follows(f, g, n)
    PROVE  \A i \in 0..n : f[i] = g[i]
<1>. USE DEF Follows
<1>. DEFINE S == {i \in Nat : i <= n => f[i] = g[i]}
<1>1. 0 \in S  OBVIOUS
<1>2. \A k \in Nat : k \in S => k + 1 \in S
  <2>. SUFFICES ASSUME NEW k \in Nat, k \in S, k + 1 <= n  PROVE f[k + 1] = g[k + 1]
    OBVIOUS
  <2>1. k + 1 \in 1..n /\ k + 1 - 1 = k /\ f[k] = g[k]  OBVIOUS
  <2>. QED  BY <2>1
<1>. HIDE DEF S
<1>3. Nat \subseteq S  BY <1>1, <1>2, NatSet
<1>. QED  BY <1>3 DEF S

(* Every value of a trace is in a set its first is in and its steps keep.   *)
Stays(at, D, n) == \A i \in 1..n : at[i - 1] \in D => at[i] \in D

LEMMA TraceStays ==
    ASSUME NEW n \in Nat, NEW D, NEW at, at[0] \in D, Stays(at, D, n)
    PROVE  \A i \in 0..n : at[i] \in D
<1>. USE DEF Stays
<1>. DEFINE S == {i \in Nat : i <= n => at[i] \in D}
<1>1. 0 \in S  OBVIOUS
<1>2. \A k \in Nat : k \in S => k + 1 \in S
  <2>. SUFFICES ASSUME NEW k \in Nat, k \in S, k + 1 <= n  PROVE at[k + 1] \in D
    OBVIOUS
  <2>1. k + 1 \in 1..n /\ k + 1 - 1 = k /\ at[k] \in D  OBVIOUS
  <2>. QED  BY <2>1
<1>. HIDE DEF S
<1>3. Nat \subseteq S  BY <1>1, <1>2, NatSet
<1>. QED  BY <1>3 DEF S

LEMMA RunAlong ==
    ASSUME NEW T, NEW steps \in Seq(T), NEW j, NEW at,
           StartsAt(at, Len(steps), j),
           \A i \in 1..Len(steps) : at[i] = RunStep(at[i - 1], steps[i])
    PROVE  Run(j, steps) = at[Len(steps)]
<1>. DEFINE n == Len(steps)
            Is(g) == g = [i \in 0..n |-> IF i = 0 THEN j
                            ELSE One({RunStep(x, steps[i]) : x \in {g[i - 1]}})]
            run == CHOOSE g : Is(g)
<1>1. n \in Nat  OBVIOUS
<1>2. Is(at)
  <2>1. at = [i \in 0..n |-> at[i]] /\ at[0] = j  BY DEF StartsAt
  <2>2. ASSUME NEW i \in 0..n
        PROVE  at[i] = IF i = 0 THEN j ELSE One({RunStep(x, steps[i]) : x \in {at[i - 1]}})
    <3>1. CASE i = 0  BY <2>1, <3>1
    <3>2. CASE i # 0
      <4>1. i \in 1..n  BY <1>1, <3>2
      <4>2. {RunStep(x, steps[i]) : x \in {at[i - 1]}} = {at[i]}  BY <4>1
      <4>. QED  BY <3>2, <4>2, OneOfOne
    <3>. QED  BY <3>1, <3>2
  <2>. QED  BY <2>1, <2>2
<1>3. \A i \in 0..n : run[i] = IF i = 0 THEN j
                            ELSE One({RunStep(x, steps[i]) : x \in {run[i - 1]}})
  <2>1. Is(run)  BY <1>2
  <2>. HIDE DEF run
  <2>. QED  BY <2>1
<1>4. Run(j, steps) = run[n]  BY Zenon DEF Run, Through, With, One, n
<1>. HIDE DEF run, n
<1>5. run[0] = at[0]
  <2>1. 0 \in 0..n  BY <1>1
  <2>2. run[0] = j  BY <1>3, <2>1
  <2>. QED  BY <2>2 DEF StartsAt
<1>6. Follows(run, at, n)
  <2>. SUFFICES ASSUME NEW i \in 1..n, run[i - 1] = at[i - 1]  PROVE run[i] = at[i]
    BY DEF Follows
  <2>1. i \in 0..n /\ i # 0  BY <1>1
  <2>2. {RunStep(x, steps[i]) : x \in {run[i - 1]}} = {at[i]}  BY DEF n
  <2>. QED  BY <1>3, <2>1, <2>2, OneOfOne
<1>. QED  BY <1>1, <1>4, <1>5, <1>6, TracesAgree DEF n

LEMMA EnsureAlong ==
    ASSUME NEW T, NEW way \in Seq(T), NEW j, NEW at,
           StartsAt(at, Len(way), j),
           \A i \in 1..Len(way) : at[i] = InsertSpec(at[i - 1], way[i])
    PROVE  Through(InsertSpec, j, way) = at[Len(way)]
<1>. DEFINE n == Len(way)
            Is(g) == g = [i \in 0..n |-> IF i = 0 THEN j
                            ELSE One({InsertSpec(x, way[i]) : x \in {g[i - 1]}})]
            run == CHOOSE g : Is(g)
<1>1. n \in Nat  OBVIOUS
<1>2. Is(at)
  <2>1. at = [i \in 0..n |-> at[i]] /\ at[0] = j  BY DEF StartsAt
  <2>2. ASSUME NEW i \in 0..n
        PROVE  at[i] = IF i = 0 THEN j ELSE One({InsertSpec(x, way[i]) : x \in {at[i - 1]}})
    <3>1. CASE i = 0  BY <2>1, <3>1
    <3>2. CASE i # 0
      <4>1. i \in 1..n  BY <1>1, <3>2
      <4>2. {InsertSpec(x, way[i]) : x \in {at[i - 1]}} = {at[i]}  BY <4>1
      <4>. QED  BY <3>2, <4>2, OneOfOne
    <3>. QED  BY <3>1, <3>2
  <2>. QED  BY <2>1, <2>2
<1>3. \A i \in 0..n : run[i] = IF i = 0 THEN j
                            ELSE One({InsertSpec(x, way[i]) : x \in {run[i - 1]}})
  <2>1. Is(run)  BY <1>2
  <2>. HIDE DEF run
  <2>. QED  BY <2>1
<1>4. Through(InsertSpec, j, way) = run[n]  BY Zenon DEF Through, With, One, n
<1>. HIDE DEF run, n
<1>5. run[0] = at[0]
  <2>1. 0 \in 0..n  BY <1>1
  <2>2. run[0] = j  BY <1>3, <2>1
  <2>. QED  BY <2>2 DEF StartsAt
<1>6. Follows(run, at, n)
  <2>. SUFFICES ASSUME NEW i \in 1..n, run[i - 1] = at[i - 1]  PROVE run[i] = at[i]
    BY DEF Follows
  <2>1. i \in 0..n /\ i # 0  BY <1>1
  <2>2. {InsertSpec(x, way[i]) : x \in {run[i - 1]}} = {at[i]}  BY DEF n
  <2>. QED  BY <1>3, <2>1, <2>2, OneOfOne
<1>. QED  BY <1>1, <1>4, <1>5, <1>6, TracesAgree DEF n

LEMMA ApplyAlong ==
    ASSUME NEW T, NEW txn \in Seq(T), NEW j, NEW at,
           StartsAt(at, Len(txn), j),
           \A i \in 1..Len(txn) : at[i] = ApplyOp(at[i - 1], txn[i])
    PROVE  Through(ApplyOp, j, txn) = at[Len(txn)]
<1>. DEFINE n == Len(txn)
            Is(g) == g = [i \in 0..n |-> IF i = 0 THEN j
                            ELSE One({ApplyOp(x, txn[i]) : x \in {g[i - 1]}})]
            run == CHOOSE g : Is(g)
<1>1. n \in Nat  OBVIOUS
<1>2. Is(at)
  <2>1. at = [i \in 0..n |-> at[i]] /\ at[0] = j  BY DEF StartsAt
  <2>2. ASSUME NEW i \in 0..n
        PROVE  at[i] = IF i = 0 THEN j ELSE One({ApplyOp(x, txn[i]) : x \in {at[i - 1]}})
    <3>1. CASE i = 0  BY <2>1, <3>1
    <3>2. CASE i # 0
      <4>1. i \in 1..n  BY <1>1, <3>2
      <4>2. {ApplyOp(x, txn[i]) : x \in {at[i - 1]}} = {at[i]}  BY <4>1
      <4>. QED  BY <3>2, <4>2, OneOfOne
    <3>. QED  BY <3>1, <3>2
  <2>. QED  BY <2>1, <2>2
<1>3. \A i \in 0..n : run[i] = IF i = 0 THEN j
                            ELSE One({ApplyOp(x, txn[i]) : x \in {run[i - 1]}})
  <2>1. Is(run)  BY <1>2
  <2>. HIDE DEF run
  <2>. QED  BY <2>1
<1>4. Through(ApplyOp, j, txn) = run[n]  BY Zenon DEF Through, With, One, n
<1>. HIDE DEF run, n
<1>5. run[0] = at[0]
  <2>1. 0 \in 0..n  BY <1>1
  <2>2. run[0] = j  BY <1>3, <2>1
  <2>. QED  BY <2>2 DEF StartsAt
<1>6. Follows(run, at, n)
  <2>. SUFFICES ASSUME NEW i \in 1..n, run[i - 1] = at[i - 1]  PROVE run[i] = at[i]
    BY DEF Follows
  <2>1. i \in 0..n /\ i # 0  BY <1>1
  <2>2. {ApplyOp(x, txn[i]) : x \in {run[i - 1]}} = {at[i]}  BY DEF n
  <2>. QED  BY <1>3, <2>1, <2>2, OneOfOne
<1>. QED  BY <1>1, <1>4, <1>5, <1>6, TracesAgree DEF n

LEMMA RollBackAlong ==
    ASSUME NEW T, NEW j, j.steps \in Seq(T), NEW at,
           StartsAt(at, Len(j.steps), j.layer),
           \A i \in 1..Len(j.steps) :
                at[i] = Written(at[i - 1], Reverse(j.steps)[i].step)
    PROVE  RollBack(j) = at[Len(j.steps)]
<1>. DEFINE guards == Reverse(j.steps)
            from == j.layer
            n == Len(j.steps)
            Is(g) == g = [i \in 0..n |-> IF i = 0 THEN from
                            ELSE One({Written(x, guards[i].step) : x \in {g[i - 1]}})]
            run == CHOOSE g : Is(g)
<1>1. n \in Nat  OBVIOUS
<1>2. Is(at)
  <2>1. at = [i \in 0..n |-> at[i]] /\ at[0] = from  BY DEF StartsAt
  <2>2. ASSUME NEW i \in 0..n
        PROVE  at[i] = IF i = 0 THEN from ELSE One({Written(x, guards[i].step) : x \in {at[i - 1]}})
    <3>1. CASE i = 0  BY <2>1, <3>1
    <3>2. CASE i # 0
      <4>1. i \in 1..n  BY <1>1, <3>2
      <4>2. {Written(x, guards[i].step) : x \in {at[i - 1]}} = {at[i]}  BY <4>1
      <4>. QED  BY <3>2, <4>2, OneOfOne
    <3>. QED  BY <3>1, <3>2
  <2>. QED  BY <2>1, <2>2
<1>3. \A i \in 0..n : run[i] = IF i = 0 THEN from
                            ELSE One({Written(x, guards[i].step) : x \in {run[i - 1]}})
  <2>1. Is(run)  BY <1>2
  <2>. HIDE DEF run
  <2>. QED  BY <2>1
<1>4. RollBack(j) = run[n]
  <2>1. Len(guards) = n  BY DEF Reverse
  <2>2. RollBack(j) = (CHOOSE g : g = [i \in 0..Len(guards) |-> IF i = 0 THEN from
                ELSE One({Written(x, guards[i].step) : x \in {g[i - 1]}})])[Len(guards)]
    BY Zenon DEF RollBack, Through, With, One
  <2>. QED  BY <2>1, <2>2
<1>. HIDE DEF run
<1>5. run[0] = at[0]
  <2>1. 0 \in 0..n  BY <1>1
  <2>2. run[0] = from  BY <1>3, <2>1
  <2>. QED  BY <2>2 DEF StartsAt
<1>6. Follows(run, at, n)
  <2>. SUFFICES ASSUME NEW i \in 1..n, run[i - 1] = at[i - 1]  PROVE run[i] = at[i]
    BY DEF Follows
  <2>1. i \in 0..n /\ i # 0  BY <1>1
  <2>2. {Written(x, guards[i].step) : x \in {run[i - 1]}} = {at[i]}  BY DEF n
  <2>. QED  BY <1>3, <2>1, <2>2, OneOfOne
<1>. QED  BY <1>1, <1>4, <1>5, <1>6, TracesAgree DEF n

-----------------------------------------------------------------------------
(* Journals that a transaction over a layer can come to: the layers it      *)
(* went through, each step undone by the one the journal has of it.         *)

Guards == [step : StorageSteps, written : StorageSteps]
Refusals == {"no", "stale", "rejected"}
Journals == [layer : Layers, steps : Seq(Guards), refused : Refusals]

Did(before, after, guarded) ==
    /\ Applicable(before, guarded.written)
    /\ after = Written(before, guarded.written)
    /\ guarded.step = Undoing(before, guarded.written)

WentThrough(at, l, j) ==
    /\ at \in [0..Len(j.steps) -> Layers]
    /\ at[0] = l /\ at[Len(j.steps)] = j.layer
    /\ \A i \in 1..Len(j.steps) : Did(at[i - 1], at[i], j.steps[i])

JournalsOver(l) == {j \in Journals : \E at : WentThrough(at, l, j)}

LEMMA JournalFacts ==
    ASSUME NEW j \in Journals
    PROVE  /\ j.layer \in Layers /\ j.steps \in Seq(Guards) /\ j.refused \in Refusals
           /\ j = [layer |-> j.layer, steps |-> j.steps, refused |-> j.refused]
           /\ Len(j.steps) \in Nat
BY DEF Journals

LEMMA OpenedIsOver ==
    ASSUME NEW l \in Layers
    PROVE  Opened(l) \in JournalsOver(l)
<1>. DEFINE at == [i \in 0..0 |-> l]
<1>1. /\ Opened(l).layer = l /\ Opened(l).steps = <<>> /\ Opened(l).refused = "no"
      /\ Opened(l) \in Journals
  BY DEF Opened, Journals, Refusals
<1>2. at \in [0..0 -> Layers] /\ at[0] = l /\ 1..0 = {}  OBVIOUS
<1>3. WentThrough(at, l, Opened(l))
  <2>. HIDE DEF at
  <2>. QED  BY <1>1, <1>2 DEF WentThrough
<1>. QED  BY <1>1, <1>3 DEF JournalsOver

LEMMA RefuseIsOver ==
    ASSUME NEW l, NEW j \in JournalsOver(l), NEW why \in Refusals
    PROVE  Refuse(j, why) \in JournalsOver(l)
<1>1. j \in Journals /\ \E at : WentThrough(at, l, j)  BY DEF JournalsOver
<1>2. /\ Refuse(j, why).layer = j.layer /\ Refuse(j, why).steps = j.steps
      /\ Refuse(j, why) \in Journals
  BY <1>1 DEF Refuse, Journals
<1>. QED  BY <1>1, <1>2 DEF WentThrough, JournalsOver

(* A storage step that is not stale is done, and journalled.                *)
Journalled(j, s) == [step |-> Undoing(j.layer, s), written |-> s]

LEMMA RunStepIs ==
    ASSUME NEW j \in Journals, NEW s \in StorageSteps
    PROVE  /\ j.refused # "no" => RunStep(j, s) = j
           /\ j.refused = "no" /\ Diverged(j.layer, s) =>
                RunStep(j, s) = Refuse(j, "stale")
           /\ j.refused = "no" /\ ~Diverged(j.layer, s) =>
                RunStep(j, s) = [layer |-> Written(j.layer, s),
                                 steps |-> Append(j.steps, Journalled(j, s)),
                                 refused |-> "no"]
<1>1. j = [layer |-> j.layer, steps |-> j.steps, refused |-> j.refused]
  BY JournalFacts
<1>2. ASSUME j.refused = "no", ~Diverged(j.layer, s)
      PROVE  RunStep(j, s) = [layer |-> Written(j.layer, s),
                              steps |-> Append(j.steps, Journalled(j, s)),
                              refused |-> "no"]
  BY <1>1, <1>2 DEF RunStep, Journalled, Undoing
<1>. QED  BY <1>2 DEF RunStep

LEMMA RunStepIsOver ==
    ASSUME NEW l, NEW j \in JournalsOver(l), NEW s \in StorageSteps
    PROVE  RunStep(j, s) \in JournalsOver(l)
<1>1. j \in Journals  BY DEF JournalsOver
<1>2. CASE j.refused # "no"  BY <1>1, <1>2, RunStepIs
<1>3. CASE j.refused = "no" /\ Diverged(j.layer, s)
  BY <1>1, <1>3, RunStepIs, RefuseIsOver DEF Refusals
<1>4. CASE j.refused = "no" /\ ~Diverged(j.layer, s)
  <2>. DEFINE n == Len(j.steps)
              g == Journalled(j, s)
              w == Written(j.layer, s)
              k == [layer |-> w, steps |-> Append(j.steps, g), refused |-> "no"]
  <2>1. RunStep(j, s) = k  BY <1>1, <1>4, RunStepIs
  <2>2. /\ j.layer \in Layers /\ j.steps \in Seq(Guards) /\ n \in Nat
        /\ Applicable(j.layer, s)
    BY <1>1, <1>4, JournalFacts, NotDivergedIsApplicable
  <2>3. w \in Layers  BY <2>2, WrittenIsALayer
  <2>4. g \in Guards  BY <2>2, UndoingIsAStep DEF Journalled, Guards
  <2>5. g.step = Undoing(j.layer, s) /\ g.written = s  BY DEF Journalled
  <2>. HIDE DEF w, g
  <2>6. /\ k.layer = w /\ k.steps = Append(j.steps, g)
        /\ k.steps \in Seq(Guards) /\ Len(k.steps) = n + 1
        /\ \A i \in 1..n : k.steps[i] = j.steps[i]
        /\ k.steps[n + 1] = g
    BY <2>2, <2>4, AppendProperties
  <2>7. k \in Journals  BY <2>3, <2>6 DEF Journals, Refusals
  <2>8. PICK at : WentThrough(at, l, j)  BY DEF JournalsOver
  <2>. DEFINE next == [i \in 0..(n + 1) |-> IF i <= n THEN at[i] ELSE w]
  <2>9. /\ at \in [0..n -> Layers] /\ at[0] = l /\ at[n] = j.layer
        /\ \A i \in 1..n : Did(at[i - 1], at[i], j.steps[i])
    BY <2>8 DEF WentThrough
  <2>10. next \in [0..(n + 1) -> Layers]  BY <2>2, <2>3, <2>9
  <2>11. (\A i \in 0..n : next[i] = at[i]) /\ next[n + 1] = w  BY <2>2
  <2>. HIDE DEF next, k
  <2>12. Did(next[n], next[n + 1], k.steps[n + 1])
    <3>1. n \in 0..n  BY <2>2
    <3>. QED  BY <2>2, <2>5, <2>6, <2>9, <2>11, <3>1 DEF Did, w
  <2>13. \A i \in 1..(n + 1) : Did(next[i - 1], next[i], k.steps[i])
    <3>. SUFFICES ASSUME NEW i \in 1..(n + 1)  PROVE Did(next[i - 1], next[i], k.steps[i])
      OBVIOUS
    <3>1. CASE i = n + 1
      <4>1. i - 1 = n  BY <2>2, <3>1
      <4>. QED  BY <2>12, <3>1, <4>1
    <3>2. CASE i # n + 1
      <4>1. i \in 1..n /\ i \in 0..n /\ i - 1 \in 0..n  BY <2>2, <3>2
      <4>. QED  BY <2>6, <2>9, <2>11, <4>1
    <3>. QED  BY <3>1, <3>2
  <2>14. next[0] = l /\ next[Len(k.steps)] = k.layer
    BY <2>2, <2>6, <2>9, <2>11
  <2>15. WentThrough(next, l, k)
    BY <2>6, <2>10, <2>13, <2>14 DEF WentThrough
  <2>. QED  BY <2>1, <2>7, <2>15 DEF JournalsOver
<1>. QED  BY <1>2, <1>3, <1>4

(* A step that ran.                                                         *)
LEMMA RanIs ==
    ASSUME NEW j \in Journals, NEW s \in StorageSteps, RunStep(j, s).refused = "no"
    PROVE  /\ j.refused = "no" /\ ~Diverged(j.layer, s)
           /\ RunStep(j, s).layer = Written(j.layer, s)
           /\ RunStep(j, s).steps = j.steps \o <<Journalled(j, s)>>
           /\ Journalled(j, s) \in Guards
           /\ Did(j.layer, Written(j.layer, s), Journalled(j, s))
<1>1. j.refused = "no"  BY RunStepIs
<1>2. ~Diverged(j.layer, s)
  <2>. SUFFICES ASSUME Diverged(j.layer, s)  PROVE FALSE
    OBVIOUS
  <2>1. RunStep(j, s) = Refuse(j, "stale")  BY <1>1, RunStepIs
  <2>. QED  BY <2>1 DEF Refuse, Journals
<1>3. RunStep(j, s) = [layer |-> Written(j.layer, s),
                       steps |-> Append(j.steps, Journalled(j, s)), refused |-> "no"]
  BY <1>1, <1>2, RunStepIs
<1>4. j.layer \in Layers /\ j.steps \in Seq(Guards) /\ Applicable(j.layer, s)
  BY <1>2, JournalFacts, NotDivergedIsApplicable
<1>5. Journalled(j, s) \in Guards  BY <1>4, UndoingIsAStep DEF Journalled, Guards
<1>6. Append(j.steps, Journalled(j, s)) = j.steps \o <<Journalled(j, s)>>
  BY <1>4, <1>5, AppendIsConcat
<1>7. Did(j.layer, Written(j.layer, s), Journalled(j, s))
  BY <1>4 DEF Did, Journalled
<1>. QED  BY <1>1, <1>2, <1>3, <1>5, <1>6, <1>7

LEMMA ReverseIs ==
    ASSUME NEW S, NEW seq \in Seq(S)
    PROVE  /\ Reverse(seq) \in Seq(S) /\ Len(Reverse(seq)) = Len(seq)
           /\ \A i \in 1..Len(seq) :
                /\ Len(seq) - i + 1 \in 1..Len(seq)
                /\ Reverse(seq)[i] = seq[Len(seq) - i + 1]
BY DEF Reverse

(* Rolling back comes to the layer the journal was opened over, but for the *)
(* order of children.                                                       *)
LEMMA RollingBack ==
    ASSUME NEW l, NEW j \in JournalsOver(l)
    PROVE  RollBack(j) \in Layers /\ SameButOrder(l, RollBack(j))
<1>. DEFINE n == Len(j.steps)
            guards == Reverse(j.steps)
<1>1. /\ j.layer \in Layers /\ j.steps \in Seq(Guards) /\ n \in Nat
  BY JournalFacts DEF JournalsOver
<1>2. PICK at : WentThrough(at, l, j)  BY DEF JournalsOver
<1>3. /\ at \in [0..n -> Layers] /\ at[0] = l /\ at[n] = j.layer
      /\ \A i \in 1..n : Did(at[i - 1], at[i], j.steps[i])
  BY <1>2 DEF WentThrough
<1>4. \A i \in 1..n : n - i + 1 \in 1..n /\ guards[i] = j.steps[n - i + 1]
  BY <1>1, ReverseIs
\* A restoring step where it has what it needs.
<1>. DEFINE Back(m, u) == IF Applicable(m, u) THEN Written(m, u) ELSE m
            F == [i \in 1..n |-> [m \in Layers |-> Back(m, guards[i].step)]]
<1>5. F \in Moves(n, Layers)
  <2>1. ASSUME NEW i \in 1..n  PROVE guards[i].step \in StorageSteps
    <3>1. guards[i] = j.steps[n - i + 1] /\ n - i + 1 \in 1..n  BY <1>4
    <3>2. j.steps[n - i + 1] \in Guards  BY <1>1, <3>1
    <3>. QED  BY <3>1, <3>2 DEF Guards
  <2>2. \A i \in 1..n : \A m \in Layers : Back(m, guards[i].step) \in Layers
    BY <2>1, WrittenIsALayer
  <2>. HIDE DEF Back, guards
  <2>. QED  BY <2>2 DEF Moves
<1>6. PICK back : IsTrace(back, n, Layers, j.layer, F)
  <2>. HIDE DEF F, n
  <2>. QED  BY <1>1, <1>5, TraceExists
<1>7. /\ back \in [0..n -> Layers] /\ back[0] = j.layer
      /\ \A i \in 1..n : back[i] = F[i][back[i - 1]]
  <2>. HIDE DEF F
  <2>. QED  BY <1>6 DEF IsTrace
<1>8. \A i \in 1..n : back[i] = Back(back[i - 1], guards[i].step)
  <2>. SUFFICES ASSUME NEW i \in 1..n  PROVE back[i] = Back(back[i - 1], guards[i].step)
    OBVIOUS
  <2>1. back[i] = F[i][back[i - 1]] /\ i - 1 \in 0..n
    <3>. HIDE DEF F
    <3>. QED  BY <1>1, <1>7
  <2>2. back[i - 1] \in Layers  BY <1>7, <2>1
  <2>. HIDE DEF Back, guards
  <2>. QED  BY <2>1, <2>2
<1>. HIDE DEF F
\* One step back.
<1>9. ASSUME NEW i \in 1..n, SameButOrder(at[n - (i - 1)], back[i - 1])
      PROVE  /\ SameButOrder(at[n - i], back[i])
             /\ back[i] = Written(back[i - 1], guards[i].step)
  <2>. DEFINE k == n - i + 1
              g == j.steps[k]
  <2>1. /\ k \in 1..n /\ guards[i] = g /\ k - 1 = n - i /\ n - (i - 1) = k
        /\ k - 1 \in 0..n /\ k \in 0..n /\ i - 1 \in 0..n
    BY <1>1, <1>4
  <2>2. Did(at[k - 1], at[k], g)  BY <1>3, <2>1
  <2>3. g \in Guards  BY <1>1, <2>1
  <2>4. g.step \in StorageSteps /\ g.written \in StorageSteps  BY <2>3 DEF Guards
  <2>5. at[k - 1] \in Layers /\ at[k] \in Layers /\ back[i - 1] \in Layers
    BY <1>3, <1>7, <2>1
  <2>6. SameButOrder(at[k], back[i - 1])  BY <1>9, <2>1
  <2>7. back[i] = Back(back[i - 1], g.step)  BY <1>8, <2>1
  <2>. HIDE DEF k, g, guards, Back
  <2>8. Applicable(at[k], g.step) /\ SameButOrder(at[k - 1], Written(at[k], g.step))
    BY <2>2, <2>4, <2>5, UndoingTakesBack DEF Did
  <2>9. /\ Applicable(back[i - 1], g.step)
        /\ SameButOrder(Written(at[k], g.step), Written(back[i - 1], g.step))
    BY <2>4, <2>5, <2>6, <2>8, StepsRespectSame
  <2>10. back[i] = Written(back[i - 1], g.step)  BY <2>7, <2>9 DEF Back
  <2>11. SameButOrder(at[k - 1], back[i])  BY <2>8, <2>9, <2>10, SameIsTransitive
  <2>. QED  BY <2>1, <2>10, <2>11
<1>10. \A i \in 0..n : SameButOrder(at[n - i], back[i])
  <2>. DEFINE D == {i \in 0..n : SameButOrder(at[n - i], back[i])}
              id == [i \in 0..n |-> i]
  <2>1. id[0] \in D
    <3>1. 0 \in 0..n /\ n - 0 = n  BY <1>1
    <3>. QED  BY <1>3, <1>7, <3>1, SameIsReflexive
  <2>2. Stays(id, D, n)
    <3>. SUFFICES ASSUME NEW i \in 1..n, id[i - 1] \in D  PROVE id[i] \in D
      BY DEF Stays
    <3>1. i \in 0..n /\ i - 1 \in 0..n /\ id[i - 1] = i - 1 /\ id[i] = i  BY <1>1
    <3>. QED  BY <1>9, <3>1
  <2>. HIDE DEF D
  <2>3. \A i \in 0..n : id[i] \in D
    <3>. HIDE DEF id
    <3>. QED  BY <1>1, <2>1, <2>2, TraceStays
  <2>. QED  BY <2>3 DEF D
<1>11. \A i \in 1..n : back[i] = Written(back[i - 1], guards[i].step)
  <2>. TAKE i \in 1..n
  <2>1. i - 1 \in 0..n  BY <1>1
  <2>. QED  BY <1>9, <1>10, <2>1
<1>12. RollBack(j) = back[n]
  <2>1. StartsAt(back, n, j.layer)  BY <1>7 DEF StartsAt
  <2>. QED  BY <1>1, <1>11, <2>1, RollBackAlong
<1>13. n \in 0..n /\ n - n = 0  BY <1>1
<1>. QED  BY <1>3, <1>7, <1>10, <1>12, <1>13

-----------------------------------------------------------------------------
(* Edits: whatever one does to a journal over a layer, it stays one.        *)

RawEdits == [edit : {"raw"}, guarded : Guards]
AllEdits == Edits \cup RawEdits

LEMMA GreatestOfNaturals ==
    ASSUME NEW n \in Nat, NEW S \in SUBSET (1..n), S # {}
    PROVE  Max(S) \in S /\ \A k \in S : k <= Max(S)
<1>. DEFINE T == {n - k : k \in S}
            m == Min(T)
<1>1. T # {} /\ T \in SUBSET Nat
  <2>1. \A k \in S : n - k \in Nat  OBVIOUS
  <2>. QED  BY <2>1
<1>2. m \in T /\ \A k \in T : m <= k
  <2>. HIDE DEF T
  <2>. QED  BY <1>1, LeastOfNaturals
<1>. HIDE DEF m
<1>3. PICK x \in S : m = n - x  BY <1>2
<1>4. \A k \in S : x >= k
  <2>. TAKE k \in S
  <2>1. n - k \in T  OBVIOUS
  <2>2. n - x <= n - k /\ x \in Nat /\ k \in Nat  BY <1>2, <1>3, <2>1
  <2>. QED  BY <2>2
<1>. DEFINE Greatest(y) == \A k \in S : y >= k
<1>5. Max(S) = CHOOSE y \in S : Greatest(y)  BY DEF Max
<1>6. \E y \in S : Greatest(y)  BY <1>4
<1>7. Max(S) \in S /\ Greatest(Max(S))
  <2>. HIDE DEF Greatest
  <2>. QED  BY <1>5, <1>6
<1>. QED  BY <1>7

LEMMA PrefixesArePaths ==
    ASSUME NEW p \in Paths, NEW k \in 0..Len(p)
    PROVE  SubSeq(p, 1, k) \in Paths
<1>. DEFINE n == Len(p)
            way == [i \in 0..n |-> SubSeq(p, 1, n - i)]
<1>1. p \in Seq(Names) /\ n \in Nat  BY PathsAssumption
<1>2. way[0] \in Paths
  <2>1. n - 0 = n /\ 0 \in 0..n  BY <1>1
  <2>2. SubSeq(p, 1, n) = p  BY <1>1, SubSeqFull
  <2>. QED  BY <2>1, <2>2
<1>3. Stays(way, Paths, n)
  <2>. SUFFICES ASSUME NEW i \in 1..n, way[i - 1] \in Paths  PROVE way[i] \in Paths
    BY DEF Stays
  <2>. DEFINE m == n - i + 1
              q == SubSeq(p, 1, m)
  <2>1. m \in 1..n /\ n - (i - 1) = m /\ i - 1 \in 0..n /\ i \in 0..n /\ n - i = m - 1
        /\ m \in Int /\ m - 1 \in Int
    BY <1>1
  <2>2. q \in Paths  BY <2>1
  <2>3. way[i] = SubSeq(p, 1, m - 1)  BY <2>1
  <2>. HIDE DEF m, way
  <2>4. \A x \in 1..m : p[x] \in Names  BY <1>1, <2>1
  <2>5. q \in Seq(Names) /\ Len(q) = m /\ \A x \in 1..m : q[x] = p[x]
    <3>1. /\ q \in Seq(Names) /\ Len(q) = IF 1 <= m THEN m - 1 + 1 ELSE 0
          /\ \A x \in 1..(m - 1 + 1) : q[x] = p[1 + x - 1]
      BY <2>1, <2>4, SubSeqProperties
    <3>2. m - 1 + 1 = m /\ 1 <= m /\ \A x \in 1..m : 1 + x - 1 = x  BY <2>1
    <3>. HIDE DEF q
    <3>. QED  BY <3>1, <3>2
  <2>6. Front(q) \in Paths
    <3>1. q # <<>>  BY <2>1, <2>5
    <3>. QED  BY <2>2, <3>1, PathsAssumption
  <2>7. Front(q) = SubSeq(p, 1, m - 1)
    <3>. DEFINE a == SubSeq(q, 1, m - 1)
                b == SubSeq(p, 1, m - 1)
    <3>1. Front(q) = a  BY <2>5 DEF Front
    <3>2. \A x \in 1..(m - 1) : q[x] \in Names /\ p[x] \in Names /\ q[x] = p[x]
      BY <2>1, <2>4, <2>5
    <3>. HIDE DEF q
    <3>3. /\ a \in Seq(Names) /\ Len(a) = IF 1 <= m - 1 THEN m - 1 - 1 + 1 ELSE 0
          /\ \A x \in 1..(m - 1 - 1 + 1) : a[x] = q[1 + x - 1]
      BY <2>1, <3>2, SubSeqProperties
    <3>4. /\ b \in Seq(Names) /\ Len(b) = IF 1 <= m - 1 THEN m - 1 - 1 + 1 ELSE 0
          /\ \A x \in 1..(m - 1 - 1 + 1) : b[x] = p[1 + x - 1]
      BY <2>1, <3>2, SubSeqProperties
    <3>5. m - 1 - 1 + 1 = m - 1 /\ \A x \in 1..(m - 1) : 1 + x - 1 = x  BY <2>1
    <3>. HIDE DEF a, b
    <3>6. Len(a) = Len(b) /\ Len(a) = m - 1  BY <2>1, <3>3, <3>4, <3>5
    <3>7. \A x \in 1..Len(a) : a[x] = b[x]  BY <3>2, <3>3, <3>4, <3>5, <3>6
    <3>8. a = b  BY <3>3, <3>4, <3>6, <3>7, SeqEqual
    <3>. QED  BY <3>1, <3>8 DEF b
  <2>. QED  BY <2>3, <2>6, <2>7
<1>4. \A i \in 0..n : way[i] \in Paths
  <2>. HIDE DEF way, n
  <2>. QED  BY <1>1, <1>2, <1>3, TraceStays
<1>5. n - k \in 0..n /\ n - (n - k) = k  BY <1>1
<1>6. way[n - k] = SubSeq(p, 1, k)  BY <1>5
<1>. HIDE DEF way
<1>. QED  BY <1>4, <1>5, <1>6

LEMMA MissingArePaths ==
    ASSUME NEW l, NEW p \in Paths
    PROVE  Missing(l, p) \in Seq(Paths)
<1>. DEFINE n == Len(p) + 1
            way == [i \in 1..n |-> SubSeq(p, 1, i - 1)]
            held == {i \in DOMAIN way : Has(l, way[i])}
            m == IF held = {} THEN 1 ELSE Max(held) + 1
<1>1. Len(p) \in Nat /\ n \in Nat  BY PathsAssumption
<1>2. \A i \in 1..n : way[i] \in Paths
  <2>. TAKE i \in 1..n
  <2>1. i - 1 \in 0..Len(p)  BY <1>1
  <2>. QED  BY <2>1, PrefixesArePaths
<1>3. held \in SUBSET (1..n)  OBVIOUS
<1>4. m \in Nat /\ 1 <= m
  <2>1. CASE held = {}  BY <2>1
  <2>2. CASE held # {}
    <3>1. Max(held) \in held
      <4>. HIDE DEF held, n
      <4>. QED  BY <1>1, <1>3, <2>2, GreatestOfNaturals
    <3>2. Max(held) \in 1..n  BY <1>3, <3>1
    <3>. QED  BY <2>2, <3>2
  <2>. QED  BY <2>1, <2>2
<1>5. Len(way) = n  BY <1>1
<1>6. Missing(l, p) = SubSeq(way, m, n)  BY <1>5 DEF Missing
<1>. HIDE DEF m, way, n
<1>7. \A i \in m..n : way[i] \in Paths
  <2>. TAKE i \in m..n
  <2>1. i \in 1..n  BY <1>1, <1>4
  <2>. QED  BY <1>2, <2>1
<1>8. SubSeq(way, m, n) \in Seq(Paths)
  <2>1. m \in Int /\ n \in Int  BY <1>1, <1>4
  <2>. QED  BY <1>7, <2>1, SubSeqProperties
<1>. QED  BY <1>6, <1>8

LEMMA RunIsOver ==
    ASSUME NEW l, NEW j \in JournalsOver(l), NEW steps \in Seq(StorageSteps)
    PROVE  Run(j, steps) \in JournalsOver(l)
<1>. DEFINE D == JournalsOver(l)
            n == Len(steps)
            F == [i \in 1..n |-> [x \in D |-> RunStep(x, steps[i])]]
<1>1. n \in Nat /\ \A i \in 1..n : steps[i] \in StorageSteps  OBVIOUS
<1>2. F \in Moves(n, D)  BY <1>1, RunStepIsOver DEF Moves
<1>3. PICK at : IsTrace(at, n, D, j, F)
  <2>. HIDE DEF F, n, D
  <2>1. n \in Nat  BY <1>1
  <2>2. j \in D  BY DEF D
  <2>. QED  BY <1>2, <2>1, <2>2, TraceExists
<1>4. at \in [0..n -> D] /\ at[0] = j /\ \A i \in 1..n : at[i] = F[i][at[i - 1]]
  <2>. HIDE DEF F
  <2>. QED  BY <1>3 DEF IsTrace
<1>5. \A i \in 1..n : at[i] = RunStep(at[i - 1], steps[i])
  <2>. TAKE i \in 1..n
  <2>1. at[i - 1] \in D  BY <1>1, <1>4
  <2>2. at[i] = F[i][at[i - 1]]  BY <1>4
  <2>. QED  BY <2>1, <2>2
<1>6. StartsAt(at, n, j)  BY <1>4 DEF StartsAt
<1>7. Run(j, steps) = at[n]  BY <1>5, <1>6, RunAlong
<1>. QED  BY <1>1, <1>4, <1>7

LEMMA NamesOnTheWay ==
    ASSUME NEW p \in Paths, p # <<>>
    PROVE  Front(p) \in Paths /\ Last(p) \in Names
BY PathsAssumption DEF Names

LEMMA AddChildIsOver ==
    ASSUME NEW l, NEW j \in JournalsOver(l), NEW p \in Paths, p # <<>>
    PROVE  AddChild(j, p) \in JournalsOver(l)
<1>. DEFINE names == ChildrenAt(j.layer, Front(p))
            s == Child(Front(p), Last(p), Len(names) + 1)
<1>1. j.layer \in Layers  BY JournalFacts DEF JournalsOver
<1>2. names \in Seq(Names)  BY <1>1, LayerFacts DEF ChildrenAt, Has
<1>3. Len(names) + 1 \in Positions
  <2>. HIDE DEF names
  <2>1. Len(names) \in Nat  BY <1>2
  <2>. QED  BY <2>1 DEF Positions
<1>4. s \in StorageSteps
  <2>. HIDE DEF names
  <2>. QED  BY <1>3, NamesOnTheWay DEF Child, StorageSteps, ChildSteps
<1>5. AddChild(j, p) = j \/ AddChild(j, p) = RunStep(j, s)  BY DEF AddChild
<1>. QED  BY <1>4, <1>5, RunStepIsOver

LEMMA InsertSpecIsOver ==
    ASSUME NEW l, NEW j \in JournalsOver(l), NEW p \in Paths
    PROVE  InsertSpec(j, p) \in JournalsOver(l)
<1>. DEFINE s == PrimSlots(p, [children |-> <<>>, field |-> None])
<1>1. s \in StorageSteps
  <2>1. [children |-> <<>>, field |-> None] \in Specs  BY DEF Specs
  <2>. QED  BY <2>1 DEF PrimSlots, StorageSteps, PrimSteps
<1>2. RunStep(j, s) \in JournalsOver(l)  BY <1>1, RunStepIsOver
<1>3. \/ InsertSpec(j, p) = RunStep(j, s)
      \/ p # <<>> /\ InsertSpec(j, p) = AddChild(RunStep(j, s), p)
  BY DEF InsertSpec
<1>. QED  BY <1>2, <1>3, AddChildIsOver

LEMMA EnsureIsOver ==
    ASSUME NEW l, NEW j \in JournalsOver(l), NEW p \in Paths
    PROVE  Ensure(j, p) \in JournalsOver(l)
<1>. DEFINE D == JournalsOver(l)
            way == Missing(j.layer, p)
            n == Len(way)
            F == [i \in 1..n |-> [x \in D |-> InsertSpec(x, way[i])]]
<1>0. way \in Seq(Paths)  BY MissingArePaths
<1>. HIDE DEF way
<1>1. n \in Nat /\ \A i \in 1..n : way[i] \in Paths  BY <1>0
<1>2. F \in Moves(n, D)  BY <1>1, InsertSpecIsOver DEF Moves
<1>3. PICK at : IsTrace(at, n, D, j, F)
  <2>. HIDE DEF F, n, D
  <2>1. n \in Nat  BY <1>1
  <2>2. j \in D  BY DEF D
  <2>. QED  BY <1>2, <2>1, <2>2, TraceExists
<1>4. at \in [0..n -> D] /\ at[0] = j /\ \A i \in 1..n : at[i] = F[i][at[i - 1]]
  <2>. HIDE DEF F
  <2>. QED  BY <1>3 DEF IsTrace
<1>5. \A i \in 1..n : at[i] = InsertSpec(at[i - 1], way[i])
  <2>. TAKE i \in 1..n
  <2>1. at[i - 1] \in D  BY <1>1, <1>4
  <2>2. at[i] = F[i][at[i - 1]]  BY <1>4
  <2>. QED  BY <2>1, <2>2
<1>6. StartsAt(at, n, j)  BY <1>4 DEF StartsAt
<1>7. Through(InsertSpec, j, way) = at[n]  BY <1>0, <1>5, <1>6, EnsureAlong
<1>8. Ensure(j, p) = at[n]  BY <1>7 DEF Ensure, way
<1>. QED  BY <1>1, <1>4, <1>8

LEMMA CreatePrimIsOver ==
    ASSUME NEW l, NEW j \in JournalsOver(l), NEW p \in Paths, p # <<>>
    PROVE  CreatePrim(j, p) \in JournalsOver(l)
<1>1. InsertSpec(Ensure(j, Front(p)), p) \in JournalsOver(l)
  BY NamesOnTheWay, EnsureIsOver, InsertSpecIsOver
<1>. QED  BY <1>1, RefuseIsOver DEF CreatePrim, Refusals

LEMMA ListingEach ==
    ASSUME NEW S, IsFiniteSet(S)
    PROVE  /\ SetToSeq(S) \in Seq(S)
           /\ \A i, k \in 1..Len(SetToSeq(S)) : SetToSeq(S)[i] = SetToSeq(S)[k] => i = k
           /\ \A x \in S : \E i \in 1..Len(SetToSeq(S)) : SetToSeq(S)[i] = x
<1>. DEFINE c == Cardinality(S)
            f == SetToSeq(S)
<1>1. c \in Nat /\ ExistsBijection(1..c, S)  BY FS_CardinalityType
<1>2. \E g \in [1..c -> S] : IsInjective(g)
  BY <1>1 DEF ExistsBijection, Bijection, Injection
<1>3. f \in [1..c -> S] /\ IsInjective(f)
  <2>. DEFINE g == CHOOSE g \in [1..c -> S] : IsInjective(g)
  <2>1. g \in [1..c -> S] /\ IsInjective(g)  BY <1>2
  <2>. QED  BY <2>1 DEF SetToSeq
<1>. HIDE DEF f
<1>4. f \in Seq(S) /\ Len(f) = c /\ DOMAIN f = 1..c  BY <1>1, <1>3
<1>5. \A i, k \in 1..c : f[i] = f[k] => i = k  BY <1>3, <1>4 DEF IsInjective
<1>6. \A x \in S : \E i \in 1..c : f[i] = x
  <2>1. IsFiniteSet(1..c) /\ Cardinality(1..c) = c  BY <1>1, FS_Interval
  <2>2. f \in Injection(1..c, S)  BY <1>3, <1>5 DEF Injection
  <2>3. f \in Surjection(1..c, S)  BY <2>1, <2>2, FS_Injection
  <2>. QED  BY <2>3 DEF Surjection
<1>. QED  BY <1>4, <1>5, <1>6 DEF f

LEMMA RemoveSpecIsOver ==
    ASSUME NEW l, NEW j \in JournalsOver(l), NEW p \in Paths, p # <<>>
    PROVE  RemoveSpec(j, p) \in JournalsOver(l)
<1>. DEFINE S == {q \in DOMAIN j.layer : IsPrefix(p, q)}
            beneath == SetToSeq(S)
            gone == [i \in DOMAIN beneath |-> PrimSlots(beneath[i], None)]
            rest == IF Lists(j.layer, Front(p), Last(p))
                    THEN <<Child(Front(p), Last(p), None)>> ELSE <<>>
<1>1. j.layer \in Layers  BY JournalFacts DEF JournalsOver
<1>2. S \subseteq Paths /\ IsFiniteSet(S)
  <2>1. DOMAIN j.layer \subseteq Paths /\ IsFiniteSet(DOMAIN j.layer) /\ S \in SUBSET (DOMAIN j.layer)
    BY <1>1, LayerFacts
  <2>. HIDE DEF S
  <2>. QED  BY <2>1, FS_Subset
<1>3. beneath \in Seq(S)
  <2>. HIDE DEF S
  <2>. QED  BY <1>2, ListingEach
<1>. HIDE DEF beneath
<1>4. DOMAIN beneath = 1..Len(beneath) /\ Len(beneath) \in Nat
      /\ \A i \in 1..Len(beneath) : beneath[i] \in Paths
  <2>. HIDE DEF S
  <2>. QED  BY <1>2, <1>3
<1>5. \A q \in Paths : PrimSlots(q, None) \in StorageSteps
  BY DEF PrimSlots, StorageSteps, PrimSteps
<1>6. gone \in Seq(StorageSteps)
  <2>1. \A i \in DOMAIN beneath : PrimSlots(beneath[i], None) \in StorageSteps
    BY <1>4, <1>5
  <2>2. gone \in [1..Len(beneath) -> StorageSteps]  BY <1>4, <2>1
  <2>. HIDE DEF gone
  <2>. QED  BY <1>4, <2>2
<1>7. rest \in Seq(StorageSteps)
  <2>1. Child(Front(p), Last(p), None) \in StorageSteps
    BY NamesOnTheWay DEF Child, StorageSteps, ChildSteps
  <2>. QED  BY <2>1
<1>8. RemoveSpec(j, p) = j \/ RemoveSpec(j, p) = Run(j, gone \o rest)
  BY DEF RemoveSpec, beneath
<1>. HIDE DEF gone, rest
<1>9. gone \o rest \in Seq(StorageSteps)  BY <1>6, <1>7, ConcatProperties
<1>. QED  BY <1>8, <1>9, RunIsOver

LEMMA SetMetadataIsOver ==
    ASSUME NEW l, NEW j \in JournalsOver(l), NEW p \in Paths, NEW value \in Values
    PROVE  SetMetadata(j, p, value) \in JournalsOver(l)
<1>1. Field(p, value) \in StorageSteps  BY DEF Field, StorageSteps, FieldSteps
<1>. QED  BY <1>1, EnsureIsOver, RunStepIsOver DEF SetMetadata

LEMMA ClearMetadataIsOver ==
    ASSUME NEW l, NEW j \in JournalsOver(l), NEW p \in Paths
    PROVE  ClearMetadata(j, p) \in JournalsOver(l)
<1>1. Field(p, None) \in StorageSteps  BY DEF Field, StorageSteps, FieldSteps
<1>. QED  BY <1>1, RunStepIsOver DEF ClearMetadata

LEMMA RunGuardedIsOver ==
    ASSUME NEW l, NEW j \in JournalsOver(l), NEW g \in Guards
    PROVE  RunGuarded(j, g) \in JournalsOver(l)
<1>. DEFINE ran == RunStep(j, g.step)
            Judge(x) == IF x.refused = "no" /\ ~SameState(Last(x.steps).step, g.written)
                        THEN Refuse(x, "stale") ELSE x
<1>1. RunGuarded(j, g) = One({Judge(x) : x \in {ran}})
  BY Zenon DEF RunGuarded, With, One
<1>2. {Judge(x) : x \in {ran}} = {Judge(ran)}  OBVIOUS
<1>3. RunGuarded(j, g) = Judge(ran)  BY <1>1, <1>2, OneOfOne
<1>4. g.step \in StorageSteps  BY DEF Guards
<1>5. ran \in JournalsOver(l)  BY <1>4, RunStepIsOver
<1>. HIDE DEF ran
<1>6. Judge(ran) = ran \/ Judge(ran) = Refuse(ran, "stale")  OBVIOUS
<1>7. Refuse(ran, "stale") \in JournalsOver(l)  BY <1>5, RefuseIsOver DEF Refusals
<1>. HIDE DEF Judge
<1>. QED  BY <1>3, <1>5, <1>6, <1>7

LEMMA ApplyOpIsOver ==
    ASSUME NEW l, NEW j \in JournalsOver(l), NEW op \in AllEdits
    PROVE  ApplyOp(j, op) \in JournalsOver(l)
<1>1. CASE j.refused # "no"  BY <1>1 DEF ApplyOp
<1>2. CASE j.refused = "no"
  <2>1. CASE op \in [edit : {"create"}, at : Paths \ {<<>>}]
    <3>1. ApplyOp(j, op) = CreatePrim(j, op.at) /\ op.at \in Paths /\ op.at # <<>>
      BY <1>2, <2>1 DEF ApplyOp
    <3>. QED  BY <3>1, CreatePrimIsOver
  <2>2. CASE op \in [edit : {"remove"}, at : Paths \ {<<>>}]
    <3>1. ApplyOp(j, op) = RemoveSpec(j, op.at) /\ op.at \in Paths /\ op.at # <<>>
      BY <1>2, <2>2 DEF ApplyOp
    <3>. QED  BY <3>1, RemoveSpecIsOver
  <2>3. CASE op \in [edit : {"set"}, at : Paths \ {<<>>}, value : Values]
    <3>1. /\ ApplyOp(j, op) = SetMetadata(j, op.at, op.value)
          /\ op.at \in Paths /\ op.value \in Values
      BY <1>2, <2>3 DEF ApplyOp
    <3>. QED  BY <3>1, SetMetadataIsOver
  <2>4. CASE op \in [edit : {"clear"}, at : Paths \ {<<>>}]
    <3>1. ApplyOp(j, op) = ClearMetadata(j, op.at) /\ op.at \in Paths
      BY <1>2, <2>4 DEF ApplyOp
    <3>. QED  BY <3>1, ClearMetadataIsOver
  <2>5. CASE op \in RawEdits
    <3>1. ApplyOp(j, op) = RunGuarded(j, op.guarded) /\ op.guarded \in Guards
      BY <1>2, <2>5 DEF ApplyOp, RawEdits
    <3>. QED  BY <3>1, RunGuardedIsOver
  <2>6. \/ op \in [edit : {"create"}, at : Paths \ {<<>>}]
        \/ op \in [edit : {"remove"}, at : Paths \ {<<>>}]
        \/ op \in [edit : {"set"}, at : Paths \ {<<>>}, value : Values]
        \/ op \in [edit : {"clear"}, at : Paths \ {<<>>}]
        \/ op \in RawEdits
    BY DEF AllEdits, Edits
  <2>. QED  BY <2>1, <2>2, <2>3, <2>4, <2>5, <2>6
<1>. QED  BY <1>1, <1>2

(* The journals a transaction comes through.                                *)
Applying(at, l, txn) ==
    /\ \A i \in 0..Len(txn) : at[i] \in JournalsOver(l)
    /\ at[0] = Opened(l)
    /\ \A i \in 1..Len(txn) : at[i] = ApplyOp(at[i - 1], txn[i])
    /\ Apply(l, txn) = Settle(at[Len(txn)])

LEMMA ApplyingIs ==
    ASSUME NEW l \in Layers, NEW txn \in Seq(AllEdits)
    PROVE  \E at : Applying(at, l, txn)
<1>. DEFINE D == JournalsOver(l)
            n == Len(txn)
            F == [i \in 1..n |-> [x \in D |-> ApplyOp(x, txn[i])]]
            j == Through(ApplyOp, Opened(l), txn)
<1>1. n \in Nat /\ \A i \in 1..n : txn[i] \in AllEdits  OBVIOUS
<1>2. F \in Moves(n, D)  BY <1>1, ApplyOpIsOver DEF Moves
<1>3. PICK at : IsTrace(at, n, D, Opened(l), F)
  <2>. HIDE DEF F, n, D
  <2>1. n \in Nat  BY <1>1
  <2>2. Opened(l) \in D  BY OpenedIsOver DEF D
  <2>. QED  BY <1>2, <2>1, <2>2, TraceExists
<1>4. at \in [0..n -> D] /\ at[0] = Opened(l) /\ \A i \in 1..n : at[i] = F[i][at[i - 1]]
  <2>. HIDE DEF F
  <2>. QED  BY <1>3 DEF IsTrace
<1>5. \A i \in 1..n : at[i] = ApplyOp(at[i - 1], txn[i])
  <2>. TAKE i \in 1..n
  <2>1. at[i - 1] \in D  BY <1>1, <1>4
  <2>2. at[i] = F[i][at[i - 1]]  BY <1>4
  <2>. QED  BY <2>1, <2>2
<1>6. StartsAt(at, n, Opened(l))  BY <1>4 DEF StartsAt
<1>7. j = at[n]  BY <1>5, <1>6, ApplyAlong
<1>8. Apply(l, txn) = Settle(j)
  <2>1. Apply(l, txn) = One({Settle(x) : x \in {j}})  BY Zenon DEF Apply, With, One
  <2>2. {Settle(x) : x \in {j}} = {Settle(j)}  OBVIOUS
  <2>. QED  BY <2>1, <2>2, OneOfOne
<1>. HIDE DEF F, j
<1>9. Apply(l, txn) = Settle(at[n])  BY <1>7, <1>8
<1>10. \A i \in 0..n : at[i] \in D  BY <1>4
<1>. QED  BY <1>4, <1>5, <1>9, <1>10 DEF Applying

(* The journal of undoing one: each step undone was written, in a state     *)
(* like the one it left.                                                    *)
Undid(hs, gs) ==
    /\ Len(hs) = Len(gs)
    /\ \A i \in 1..Len(gs) :
          hs[i].written = gs[i].step /\ SameState(hs[i].step, gs[i].written)

(* Raw edits run the steps they guard: what they add to a journal undoes    *)
(* what the journal they come from did.                                     *)
LEMMA RunGuardedAdds ==
    ASSUME NEW j \in Journals, NEW g \in Guards, RunGuarded(j, g).refused = "no"
    PROVE  /\ j.refused = "no"
           /\ \E h \in Guards :
                /\ RunGuarded(j, g).steps = j.steps \o <<h>>
                /\ h.written = g.step /\ SameState(h.step, g.written)
<1>. DEFINE ran == RunStep(j, g.step)
            Judge(x) == IF x.refused = "no" /\ ~SameState(Last(x.steps).step, g.written)
                        THEN Refuse(x, "stale") ELSE x
            h == Journalled(j, g.step)
<1>1. RunGuarded(j, g) = One({Judge(x) : x \in {ran}})
  BY Zenon DEF RunGuarded, With, One
<1>2. {Judge(x) : x \in {ran}} = {Judge(ran)}  OBVIOUS
<1>3. RunGuarded(j, g) = Judge(ran)  BY <1>1, <1>2, OneOfOne
<1>4. g.step \in StorageSteps  BY DEF Guards
<1>5. ran \in Journals
  <2>1. j.layer \in Layers /\ j.steps \in Seq(Guards)  BY JournalFacts
  <2>2. CASE j.refused # "no"  BY <1>4, <2>2, RunStepIs
  <2>3. CASE j.refused = "no" /\ Diverged(j.layer, g.step)
    <3>1. ran = Refuse(j, "stale")  BY <1>4, <2>3, RunStepIs
    <3>. QED  BY <3>1 DEF Refuse, Journals, Refusals
  <2>4. CASE j.refused = "no" /\ ~Diverged(j.layer, g.step)
    <3>. DEFINE w == Written(j.layer, g.step)
    <3>1. ran = [layer |-> w, steps |-> Append(j.steps, h), refused |-> "no"]
      BY <1>4, <2>4, RunStepIs
    <3>2. Applicable(j.layer, g.step)  BY <2>4, NotDivergedIsApplicable
    <3>3. w \in Layers  BY <1>4, <2>1, <3>2, WrittenIsALayer
    <3>4. h \in Guards  BY <1>4, <2>1, <3>2, UndoingIsAStep DEF Journalled, Guards
    <3>. HIDE DEF w, h, ran
    <3>5. Append(j.steps, h) \in Seq(Guards)  BY <2>1, <3>4, AppendProperties
    <3>. QED  BY <3>1, <3>3, <3>5 DEF Journals, Refusals
  <2>. QED  BY <2>2, <2>3, <2>4
<1>6. RunGuarded(j, g) = ran /\ ran.refused = "no" /\ SameState(Last(ran.steps).step, g.written)
  <2>. DEFINE same == SameState(Last(ran.steps).step, g.written)
  <2>1. Refuse(ran, "stale").refused = "stale"  BY <1>5 DEF Refuse, Journals
  <2>2. RunGuarded(j, g) = IF ran.refused = "no" /\ ~same THEN Refuse(ran, "stale") ELSE ran
    BY <1>3
  <2>. HIDE DEF ran, same, Judge
  <2>3. ~(ran.refused = "no" /\ ~same)
    <3>. SUFFICES ASSUME ran.refused = "no" /\ ~same  PROVE FALSE
      OBVIOUS
    <3>1. RunGuarded(j, g) = Refuse(ran, "stale")  BY <2>2
    <3>2. RunGuarded(j, g).refused = "stale"  BY <2>1, <3>1
    <3>. QED  BY <3>2
  <2>4. RunGuarded(j, g) = ran  BY <2>2, <2>3
  <2>. QED  BY <2>3, <2>4 DEF same
<1>7. /\ j.refused = "no" /\ h \in Guards /\ ran.steps = j.steps \o <<h>>
  BY <1>4, <1>6, RanIs
<1>8. h.written = g.step  BY DEF Journalled
<1>. HIDE DEF h, Judge, ran
<1>9. Last(ran.steps) = h
  <2>. DEFINE a == Append(j.steps, h)
  <2>1. j.steps \in Seq(Guards)  BY JournalFacts
  <2>2. a = j.steps \o <<h>>  BY <1>7, <2>1, AppendIsConcat
  <2>3. Len(a) = Len(j.steps) + 1 /\ a[Len(j.steps) + 1] = h  BY <1>7, <2>1, AppendProperties
  <2>. HIDE DEF a
  <2>4. a[Len(a)] = h  BY <2>3
  <2>. QED  BY <1>7, <2>2, <2>4 DEF Last
<1>. QED  BY <1>6, <1>7, <1>8, <1>9

(* The guarded steps of a raw transaction.                                  *)
GuardsOf(txn) == [i \in DOMAIN txn |-> txn[i].guarded]

LEMMA GuardsOfIs ==
    ASSUME NEW txn \in Seq(RawEdits)
    PROVE  /\ GuardsOf(txn) \in Seq(Guards) /\ Len(GuardsOf(txn)) = Len(txn)
           /\ Len(txn) \in Nat
           /\ \A i \in 1..Len(txn) :
                /\ txn[i].edit = "raw" /\ txn[i].guarded \in Guards
                /\ GuardsOf(txn)[i] = txn[i].guarded
<1>1. Len(txn) \in Nat /\ DOMAIN txn = 1..Len(txn)  OBVIOUS
<1>2. \A i \in 1..Len(txn) : txn[i].edit = "raw" /\ txn[i].guarded \in Guards
  <2>. TAKE i \in 1..Len(txn)
  <2>1. txn[i] \in RawEdits  OBVIOUS
  <2>. QED  BY <2>1 DEF RawEdits
<1>3. GuardsOf(txn) \in [1..Len(txn) -> Guards]  BY <1>1, <1>2 DEF GuardsOf
<1>4. \A i \in 1..Len(txn) : GuardsOf(txn)[i] = txn[i].guarded  BY <1>1 DEF GuardsOf
<1>. QED  BY <1>1, <1>2, <1>3, <1>4

LEMMA UndidNext ==
    ASSUME NEW hs \in Seq(Guards), NEW h \in Guards, NEW gs \in Seq(Guards),
           NEW i \in 1..Len(gs), Len(hs) = i - 1,
           \A k \in 1..(i - 1) :
                hs[k].written = gs[k].step /\ SameState(hs[k].step, gs[k].written),
           h.written = gs[i].step /\ SameState(h.step, gs[i].written)
    PROVE  /\ hs \o <<h>> \in Seq(Guards) /\ Len(hs \o <<h>>) = i
           /\ \A k \in 1..i : /\ (hs \o <<h>>)[k].written = gs[k].step
                              /\ SameState((hs \o <<h>>)[k].step, gs[k].written)
<1>. DEFINE a == Append(hs, h)
<1>1. a = hs \o <<h>>  BY AppendIsConcat
<1>2. /\ a \in Seq(Guards) /\ Len(a) = Len(hs) + 1 /\ a[Len(hs) + 1] = h
      /\ \A k \in 1..Len(hs) : a[k] = hs[k]
  BY AppendProperties
<1>3. Len(hs) + 1 = i /\ i \in Nat  OBVIOUS
<1>. HIDE DEF a
<1>4. a[i] = h /\ \A k \in 1..(i - 1) : a[k] = hs[k]  BY <1>2, <1>3
<1>5. ASSUME NEW k \in 1..i
      PROVE  a[k].written = gs[k].step /\ SameState(a[k].step, gs[k].written)
  <2>1. k = i \/ k \in 1..(i - 1)  BY <1>3
  <2>. QED  BY <1>4, <2>1
<1>. QED  BY <1>1, <1>2, <1>3, <1>5

LEMMA RawEditsUndo ==
    ASSUME NEW l \in Layers, NEW txn \in Seq(RawEdits), NEW at, Applying(at, l, txn),
           at[Len(txn)].refused = "no"
    PROVE  Undid(at[Len(txn)].steps, GuardsOf(txn))
<1>. DEFINE n == Len(txn)
            gs == GuardsOf(txn)
<1>1. /\ gs \in Seq(Guards) /\ Len(gs) = n /\ n \in Nat
      /\ \A i \in 1..n :
            txn[i].edit = "raw" /\ txn[i].guarded \in Guards /\ gs[i] = txn[i].guarded
  BY GuardsOfIs
<1>2. /\ at[0] = Opened(l) /\ \A i \in 1..n : at[i] = ApplyOp(at[i - 1], txn[i])
      /\ \A i \in 0..n : at[i] \in Journals
  BY DEF Applying, JournalsOver
<1>. HIDE DEF gs
<1>. DEFINE So(hs, i) ==
                /\ hs \in Seq(Guards) /\ Len(hs) = i
                /\ \A k \in 1..i :
                      hs[k].written = gs[k].step /\ SameState(hs[k].step, gs[k].written)
            S == {i \in 0..n : at[i].refused = "no" => So(at[i].steps, i)}
<1>3. 0 \in S
  <2>1. at[0].steps = <<>>  BY <1>2 DEF Opened
  <2>2. <<>> \in Seq(Guards) /\ Len(<<>>) = 0 /\ 1..0 = {}  OBVIOUS
  <2>3. So(<<>>, 0)  BY <2>2
  <2>. HIDE DEF So
  <2>. QED  BY <1>1, <2>1, <2>3
<1>4. ASSUME NEW i \in 1..n, i - 1 \in S  PROVE i \in S
  <2>1. i \in 0..n /\ i - 1 \in 0..n  BY <1>1
  <2>. SUFFICES ASSUME at[i].refused = "no"  PROVE So(at[i].steps, i)
    BY <2>1
  <2>. DEFINE g == txn[i].guarded
              j == at[i - 1]
  <2>2. /\ at[i] = ApplyOp(j, txn[i]) /\ txn[i].edit = "raw" /\ g \in Guards
        /\ gs[i] = g /\ j \in Journals
    BY <1>1, <1>2, <2>1
  <2>3. at[i] = RunGuarded(j, g)
    <3>1. j.refused # "no" => at[i] = j  BY <2>2 DEF ApplyOp
    <3>2. j.refused = "no"  BY <3>1
    <3>. QED  BY <2>2, <3>2 DEF ApplyOp
  <2>. HIDE DEF g, j
  <2>4. /\ j.refused = "no"
        /\ \E h \in Guards : /\ RunGuarded(j, g).steps = j.steps \o <<h>>
                             /\ h.written = g.step /\ SameState(h.step, g.written)
    <3>1. RunGuarded(j, g).refused = "no"  BY <2>3
    <3>. QED  BY <2>2, <3>1, RunGuardedAdds
  <2>5. PICK h \in Guards : /\ at[i].steps = j.steps \o <<h>>
                            /\ h.written = gs[i].step /\ SameState(h.step, gs[i].written)
    BY <2>2, <2>3, <2>4
  <2>6. So(j.steps, i - 1)  BY <1>4, <2>4 DEF j
  <2>7. i \in 1..Len(gs)  BY <1>1
  <2>8. So(j.steps \o <<h>>, i)  BY <1>1, <2>5, <2>6, <2>7, UndidNext
  <2>. QED  BY <2>5, <2>8
<1>5. \A i \in 0..n : i \in S
  <2>. HIDE DEF S
  <2>1. n \in Nat  BY <1>1
  <2>. QED  BY <1>3, <1>4, <2>1, Upwards
<1>6. n \in S
  <2>1. n \in 0..n  BY <1>1
  <2>. QED  BY <1>5, <2>1
<1>7. So(at[n].steps, n)  BY <1>6
<1>. QED  BY <1>1, <1>7 DEF Undid, gs

(* What applying a transaction comes to: refused, it leaves the layer as it *)
(* was but for the order of children; and to every guarded step of one that *)
(* is not there is a step of its inverse.                                   *)
LEMMA ApplyIs ==
    ASSUME NEW l \in Layers, NEW txn \in Seq(AllEdits)
    PROVE  /\ Apply(l, txn).refused \in Refusals
           /\ Apply(l, txn).layer \in Layers
           /\ Apply(l, txn).refused # "no" => SameButOrder(l, Apply(l, txn).layer)
           /\ Apply(l, txn).inverse \in Seq(RawEdits)
           /\ txn \in Seq(RawEdits) /\ Apply(l, txn).refused = "no" =>
                Len(Apply(l, txn).inverse) = Len(txn)
<1>. DEFINE n == Len(txn)
            a == Apply(l, txn)
<1>1. PICK at : Applying(at, l, txn)  BY ApplyingIs
<1>. DEFINE j == at[n]
<1>2. n \in Nat  OBVIOUS
<1>3. a = Settle(j)  BY <1>1 DEF Applying
<1>9. j \in JournalsOver(l)  BY <1>1, <1>2 DEF Applying
<1>. HIDE DEF a
<1>10. /\ j.layer \in Layers /\ j.steps \in Seq(Guards) /\ j.refused \in Refusals
       /\ Len(j.steps) \in Nat
  BY <1>9, JournalFacts DEF JournalsOver
<1>11. /\ a.refused = j.refused
       /\ a.layer = IF j.refused = "no" THEN j.layer ELSE RollBack(j)
       /\ a.inverse = Reverse([i \in DOMAIN j.steps |-> Raw(j.steps[i])])
  BY <1>3 DEF Settle
<1>. HIDE DEF j
<1>12. RollBack(j) \in Layers /\ SameButOrder(l, RollBack(j))  BY <1>9, RollingBack
<1>13. a.inverse \in Seq(RawEdits) /\ Len(a.inverse) = Len(j.steps)
  <2>. DEFINE raws == [i \in DOMAIN j.steps |-> Raw(j.steps[i])]
  <2>1. DOMAIN j.steps = 1..Len(j.steps) /\ \A i \in 1..Len(j.steps) : Raw(j.steps[i]) \in RawEdits
    BY <1>10 DEF Raw, RawEdits
  <2>2. raws \in Seq(RawEdits) /\ Len(raws) = Len(j.steps)  BY <1>10, <2>1
  <2>. HIDE DEF raws
  <2>3. Reverse(raws) \in Seq(RawEdits) /\ Len(Reverse(raws)) = Len(raws)
    BY <2>2, ReverseIs
  <2>. QED  BY <1>11, <2>2, <2>3 DEF raws
<1>14. ASSUME txn \in Seq(RawEdits), j.refused = "no"  PROVE Len(j.steps) = n
  <2>1. Undid(j.steps, GuardsOf(txn))  BY <1>1, <1>14, RawEditsUndo DEF j
  <2>. QED  BY <1>14, <2>1, GuardsOfIs DEF Undid
<1>15. a.refused \in Refusals  BY <1>10, <1>11
<1>16. a.layer \in Layers /\ (a.refused # "no" => SameButOrder(l, a.layer))
  BY <1>10, <1>11, <1>12
<1>17. txn \in Seq(RawEdits) /\ a.refused = "no" => Len(a.inverse) = Len(txn)
  BY <1>11, <1>13, <1>14
<1>. QED  BY <1>13, <1>15, <1>16, <1>17 DEF a

-----------------------------------------------------------------------------
(* Layers whose specs form a tree, and parts of a journal that take one to  *)
(* another.                                                                 *)

Tree(l) ==
    \A q \in DOMAIN l :
        /\ q # <<>> => Front(q) \in DOMAIN l
        /\ \A name \in Names :
              Times(l[q].children, name) = IF Append(q, name) \in DOMAIN l THEN 1 ELSE 0

LEMMA EmptyIsATree == Tree(EmptyLayer)
<1>1. DOMAIN EmptyLayer = {}  BY DEF EmptyLayer
<1>. QED  BY <1>1 DEF Tree

LEMMA SameIsATree ==
    ASSUME NEW l, NEW m, SameButOrder(l, m), Tree(l)
    PROVE  Tree(m)
BY DEF SameButOrder, Tree

(* A path and the name it ends in.                                          *)
LEMMA AppendIs ==
    ASSUME NEW q \in Seq(Names), NEW name \in Names
    PROVE  /\ Append(q, name) \in Seq(Names) /\ Append(q, name) # <<>>
           /\ Last(Append(q, name)) = name /\ Front(Append(q, name)) = q
           /\ Len(Append(q, name)) = Len(q) + 1
<1>. DEFINE r == Append(q, name)
<1>1. /\ r \in Seq(Names) /\ Len(r) = Len(q) + 1 /\ r[Len(r)] = name
      /\ Len(q) \in Nat /\ \A i \in 1..Len(q) : r[i] = q[i]
  OBVIOUS
<1>. HIDE DEF r
<1>2. r # <<>>
  <2>1. Len(<<>>) = 0  OBVIOUS
  <2>. QED  BY <1>1, <2>1
<1>3. Last(r) = name  BY <1>1 DEF Last
<1>4. /\ Front(r) \in Seq(Names) /\ Len(Front(r)) = Len(q)
      /\ \A i \in 1..Len(q) : Front(r)[i] = r[i]
  <2>1. Len(r) >= 1 /\ Len(r) - 1 = Len(q)  BY <1>1
  <2>. QED  BY <1>1, <2>1, FrontElements
<1>5. Front(r) = q  BY <1>1, <1>4
<1>. QED  BY <1>1, <1>2, <1>3, <1>5 DEF r

LEMMA FrontIs ==
    ASSUME NEW q \in Seq(Names), q # <<>>
    PROVE  /\ Front(q) \in Seq(Names) /\ Last(q) \in Names
           /\ Append(Front(q), Last(q)) = q /\ Front(q) # q
           /\ Len(Front(q)) = Len(q) - 1 /\ Len(q) >= 1
<1>1. Len(q) \in Nat /\ Len(q) >= 1 /\ Last(q) = q[Len(q)] /\ Last(q) \in Names
  BY DEF Last
<1>2. /\ Front(q) \in Seq(Names) /\ Len(Front(q)) = Len(q) - 1
      /\ \A i \in 1..(Len(q) - 1) : Front(q)[i] = q[i]
  BY <1>1, FrontElements
<1>. DEFINE r == Append(Front(q), Last(q))
<1>3. /\ r \in Seq(Names) /\ Len(r) = Len(q) /\ r[Len(q)] = q[Len(q)]
      /\ \A i \in 1..(Len(q) - 1) : r[i] = q[i]
  BY <1>1, <1>2
<1>. HIDE DEF r
<1>4. \A i \in 1..Len(q) : r[i] = q[i]
  <2>. SUFFICES ASSUME NEW i \in 1..Len(q)  PROVE r[i] = q[i]
    OBVIOUS
  <2>1. i = Len(q) \/ i \in 1..(Len(q) - 1)  BY <1>1
  <2>. QED  BY <1>3, <2>1
<1>5. r = q  BY <1>3, <1>4
<1>6. Front(q) # q  BY <1>1, <1>2
<1>. QED  BY <1>1, <1>2, <1>5, <1>6 DEF r

LEMMA PathIs == \A q \in Paths : q \in Seq(Names)
BY PathsAssumption

(* A list that names nothing twice.                                         *)
LEMMA OnceIsInjective ==
    ASSUME NEW names \in Seq(Names), \A name \in Names : Times(names, name) <= 1
    PROVE  IsInjective(names)
<1>. SUFFICES ASSUME NEW i \in DOMAIN names, NEW k \in DOMAIN names, names[i] = names[k]
     PROVE  i = k
  BY DEF IsInjective
<1>1. names[i] \in Names  OBVIOUS
<1>. QED  BY <1>1, OnlyPlace

-----------------------------------------------------------------------------
(* A guarded step that puts a spec of T where none was ("up"), or takes it  *)
(* from where it was ("down"); one that lists or unlists the last name of   *)
(* p; and one that writes a field.                                          *)

PrimOf(g, T, way) ==
    /\ g.step.slot = "prim" /\ g.written.slot = "prim"
    /\ g.step.at = g.written.at /\ g.written.at \in DOMAIN T
    /\ way = "up" => g.written.to = T[g.written.at] /\ g.step.to = None
    /\ way = "down" => g.step.to = T[g.written.at] /\ g.written.to = None

ChildOf(g, p, way) ==
    /\ g.step.slot = "child" /\ g.written.slot = "child"
    /\ g.step.at = Front(p) /\ g.written.at = Front(p)
    /\ g.step.name = Last(p) /\ g.written.name = Last(p)
    /\ way = "up" => g.written.to # None /\ g.step.to = None
    /\ way = "down" => g.step.to # None /\ g.written.to = None

FieldOf(g) == g.step.slot = "field" /\ g.written.slot = "field"

(* The specs of T are a tree under p.                                       *)
Branch(p, T) ==
    /\ p \in DOMAIN T
    /\ p # <<>> => Front(p) \notin DOMAIN T
    /\ \A q \in DOMAIN T : q # p => q # <<>> /\ Front(q) \in DOMAIN T
    /\ \A q \in DOMAIN T, name \in Names :
          Times(T[q].children, name) = IF Append(q, name) \in DOMAIN T THEN 1 ELSE 0

(* The steps of gs take each spec of T up or down once, and that at c the   *)
(* name of p, unless p is the pseudo-root.                                  *)
BranchPart(gs, p, T, way, c) ==
    /\ Branch(p, T)
    /\ p # <<>> => c \in 1..Len(gs) /\ ChildOf(gs[c], p, way)
    /\ p = <<>> => c = 0
    /\ \A i \in 1..Len(gs) : i # c => PrimOf(gs[i], T, way)
    /\ \A i, k \in 1..Len(gs) :
          i # c /\ k # c /\ gs[i].written.at = gs[k].written.at => i = k
    /\ \A q \in DOMAIN T : \E i \in 1..Len(gs) : i # c /\ gs[i].written.at = q

(* Parts of a journal: a branch taken up or down, or a field written.       *)
Parts ==
    {gs \in Seq(Guards) :
        \/ \E p \in Paths, T \in Layers, way \in {"up", "down"}, c \in Nat :
              BranchPart(gs, p, T, way, c)
        \/ Len(gs) = 1 /\ FieldOf(gs[1])}

(* The steps of gs led through the layers `at`.                             *)
Led(at, gs) ==
    /\ \A i \in 0..Len(gs) : at[i] \in Layers
    /\ \A i \in 1..Len(gs) : Did(at[i - 1], at[i], gs[i])


(* What one such step does.                                                 *)
LEMMA PrimGoesUp ==
    ASSUME NEW l \in Layers, NEW m, NEW g \in Guards, NEW T \in Layers,
           Did(l, m, g), PrimOf(g, T, "up")
    PROVE  /\ g.written.at \in DOMAIN T /\ g.written.at \notin DOMAIN l
           /\ DOMAIN m = DOMAIN l \cup {g.written.at}
           /\ m[g.written.at] = T[g.written.at]
           /\ \A r \in DOMAIN l : m[r] = l[r]
<1>. DEFINE q == g.written.at
<1>1. /\ g.written \in StorageSteps /\ g.written.slot = "prim" /\ q \in DOMAIN T
      /\ g.written.to = T[q] /\ g.step.to = None
  BY DEF Guards, PrimOf
<1>2. g.written \in PrimSteps  BY <1>1, KindsOfSteps
<1>3. m = Written(l, g.written) /\ g.step = Undoing(l, g.written) /\ Applicable(l, g.written)
  BY DEF Did
<1>4. T[q] # None /\ T[q] \in Specs  BY <1>1, LayerFacts, SpecsAreNotNone
<1>5. m = [r \in DOMAIN l \cup {q} |-> IF r = q THEN T[q] ELSE l[r]]
  <2>. DEFINE s == g.written
  <2>1. s.to # None /\ s \in PrimSteps /\ s.at = q /\ s.to = T[q] /\ m = Written(l, s)
    BY <1>1, <1>2, <1>3, <1>4
  <2>. HIDE DEF s, q
  <2>2. Written(l, s) = [r \in DOMAIN l \cup {s.at} |-> IF r = s.at THEN s.to ELSE l[r]]
    BY <2>1, PrimWritten
  <2>. QED  BY <2>1, <2>2
<1>6. q \notin DOMAIN l
  <2>1. Held(l, g.written) = None  BY <1>1, <1>3, UndoingIsAStep
  <2>2. Held(l, g.written) = SpecAt(l, q)  BY <1>1 DEF Held
  <2>3. \A r \in DOMAIN l : l[r] # None  BY LayerFacts, SpecsAreNotNone
  <2>. QED  BY <2>1, <2>2, <2>3 DEF SpecAt, Has
<1>. QED  BY <1>1, <1>5, <1>6

LEMMA WasOfTheBranch ==
    ASSUME NEW l \in Layers, NEW m, NEW g \in Guards, NEW T \in Layers,
           Did(l, m, g), PrimOf(g, T, "down")
    PROVE  g.written.at \in DOMAIN l /\ l[g.written.at] = T[g.written.at]
<1>. DEFINE q == g.written.at
<1>1. /\ g.written \in StorageSteps /\ g.written.slot = "prim" /\ q \in DOMAIN T
      /\ g.step.to = T[q]
  BY DEF Guards, PrimOf
<1>2. g.step = Undoing(l, g.written) /\ Applicable(l, g.written)  BY DEF Did
<1>3. T[q] # None  BY <1>1, LayerFacts, SpecsAreNotNone
<1>4. Held(l, g.written) = T[q]  BY <1>1, <1>2, UndoingIsAStep
<1>5. Held(l, g.written) = SpecAt(l, q)  BY <1>1 DEF Held
<1>. QED  BY <1>3, <1>4, <1>5 DEF SpecAt, Has

LEMMA PrimGoesDown ==
    ASSUME NEW l \in Layers, NEW m, NEW g \in Guards, NEW T \in Layers,
           Did(l, m, g), PrimOf(g, T, "down")
    PROVE  /\ g.written.at \in DOMAIN T
           /\ DOMAIN m = DOMAIN l \ {g.written.at}
           /\ \A r \in DOMAIN m : m[r] = l[r]
<1>. DEFINE q == g.written.at
<1>1. g.written \in StorageSteps /\ g.written.slot = "prim" /\ q \in DOMAIN T
      /\ g.written.to = None
  BY DEF Guards, PrimOf
<1>2. g.written \in PrimSteps /\ m = Written(l, g.written)  BY <1>1, KindsOfSteps DEF Did
<1>3. m = [r \in DOMAIN l \ {q} |-> l[r]]  BY <1>1, <1>2, PrimWritten
<1>. QED  BY <1>1, <1>3

LEMMA ChildGoes ==
    ASSUME NEW l \in Layers, NEW m, NEW g \in Guards, NEW p,
           NEW way \in {"up", "down"}, Did(l, m, g), ChildOf(g, p, way)
    PROVE  /\ Front(p) \in DOMAIN l /\ DOMAIN m = DOMAIN l
           /\ \A r \in DOMAIN l : r # Front(p) => m[r] = l[r]
           /\ \A name : name # Last(p) =>
                Times(m[Front(p)].children, name) = Times(l[Front(p)].children, name)
           /\ way = "up" => Times(m[Front(p)].children, Last(p)) =
                                Times(l[Front(p)].children, Last(p)) + 1
           /\ way = "down" => Times(l[Front(p)].children, Last(p)) =
                                Times(m[Front(p)].children, Last(p)) + 1
<1>. DEFINE f == Front(p)
            s == g.written
<1>1. s \in StorageSteps /\ s.slot = "child" /\ s.at = f /\ s.name = Last(p)
  BY DEF Guards, ChildOf
<1>2. s \in ChildSteps  BY <1>1, KindsOfSteps
<1>3. m = Written(l, s) /\ Applicable(l, s)  BY DEF Did
<1>4. f \in DOMAIN l /\ (s.to = None => Lists(l, f, s.name))
  BY <1>1, <1>3 DEF Applicable, Has
<1>5. m = [q \in DOMAIN l |->
             IF q = f THEN [children |-> Listed(l[q].children, s), field |-> l[q].field]
             ELSE l[q]]
  <2>1. Has(l, s.at) /\ (s.to = None => Lists(l, s.at, s.name)) /\ s.at = f
    BY <1>1, <1>4 DEF Has
  <2>. HIDE DEF s, f
  <2>2. Written(l, s) = [q \in DOMAIN l |->
             IF q = s.at THEN [children |-> Listed(l[q].children, s), field |-> l[q].field]
             ELSE l[q]]
    BY <1>2, <2>1, ChildWritten
  <2>. QED  BY <1>3, <2>1, <2>2
<1>6. l[f].children \in Seq(Names)  BY <1>4, LayerFacts
<1>7. s.to = None => Contains(l[f].children, s.name)
  BY <1>4 DEF Lists, ChildrenAt, Has
<1>. DEFINE now == Listed(l[f].children, s)
<1>8. m[f].children = now  BY <1>4, <1>5
<1>. HIDE DEF now
<1>9. /\ s.to # None => Times(now, s.name) = Times(l[f].children, s.name) + 1
      /\ s.to = None => Times(l[f].children, s.name) = Times(now, s.name) + 1
      /\ \A n : n # s.name => Times(now, n) = Times(l[f].children, n)
  BY <1>2, <1>6, <1>7, ListedIs DEF now
<1>10. (way = "up" => s.to # None) /\ (way = "down" => s.to = None)  BY DEF ChildOf
<1>. QED  BY <1>1, <1>4, <1>5, <1>8, <1>9, <1>10

LEMMA FieldKeepsTree ==
    ASSUME NEW l \in Layers, NEW m, NEW g \in Guards, Did(l, m, g), FieldOf(g), Tree(l)
    PROVE  Tree(m)
<1>. DEFINE s == g.written
<1>1. s \in StorageSteps /\ s.slot = "field"  BY DEF Guards, FieldOf
<1>2. s \in FieldSteps  BY <1>1, KindsOfSteps
<1>3. m = Written(l, s) /\ Applicable(l, s)  BY DEF Did
<1>4. Has(l, s.at)  BY <1>1, <1>3 DEF Applicable
<1>. HIDE DEF s
<1>5. m = [q \in DOMAIN l |->
             IF q = s.at THEN [children |-> l[q].children, field |-> s.to] ELSE l[q]]
  BY <1>2, <1>3, <1>4, FieldWritten
<1>6. DOMAIN m = DOMAIN l /\ \A q \in DOMAIN l : m[q].children = l[q].children
  BY <1>5
<1>. QED  BY <1>6 DEF Tree

-----------------------------------------------------------------------------
(* What such steps come to: the specs of `seen` were put, or taken, as T    *)
(* has them, and the name of p was listed or unlisted, or not yet.          *)

Seen(gs, i, c) == {gs[k].written.at : k \in {j \in 1..i : j # c}}
Turn(i, c) == IF c \in 1..i THEN "done" ELSE "to do"

More(m, l, p) ==
    \A name \in Names : Times(m[Front(p)].children, name) =
        IF name = Last(p) THEN Times(l[Front(p)].children, name) + 1
        ELSE Times(l[Front(p)].children, name)

Risen(l, m, seen, T, p, turn) ==
    /\ DOMAIN m = DOMAIN l \cup seen
    /\ \A q \in seen : q \notin DOMAIN l /\ m[q] = T[q]
    /\ \A q \in DOMAIN l : q # Front(p) \/ turn # "done" => m[q] = l[q]
    /\ turn = "done" => Front(p) \in DOMAIN l /\ More(m, l, p)

Sunk(l, m, seen, T, p, turn) ==
    /\ DOMAIN m = DOMAIN l \ seen
    /\ \A q \in seen : q \in DOMAIN l /\ l[q] = T[q]
    /\ \A q \in DOMAIN m : q # Front(p) \/ turn # "done" => m[q] = l[q]
    /\ turn = "done" => Front(p) \in DOMAIN m /\ More(l, m, p)

LEMMA SeenNothing ==
    ASSUME NEW gs, NEW c
    PROVE  Seen(gs, 0, c) = {} /\ Turn(0, c) = "to do"
<1>1. 1..0 = {}  OBVIOUS
<1>. QED  BY <1>1 DEF Seen, Turn

LEMMA SeenTurn ==
    ASSUME NEW gs, NEW c, NEW i \in Nat, i > 0, i = c
    PROVE  /\ Seen(gs, i, c) = Seen(gs, i - 1, c)
           /\ Turn(i, c) = "done" /\ Turn(i - 1, c) = "to do"
<1>. DEFINE A == 1..i
            B == 1..(i - 1)
<1>1. A = B \cup {i} /\ i \notin B /\ i \in A  OBVIOUS
<1>2. /\ Seen(gs, i, c) = {gs[k].written.at : k \in {j \in A : j # c}}
      /\ Seen(gs, i - 1, c) = {gs[k].written.at : k \in {j \in B : j # c}}
      /\ Turn(i, c) = (IF c \in A THEN "done" ELSE "to do")
      /\ Turn(i - 1, c) = (IF c \in B THEN "done" ELSE "to do")
  BY DEF Seen, Turn
<1>. HIDE DEF A, B
<1>3. {j \in A : j # c} = {j \in B : j # c}  BY <1>1
<1>. QED  BY <1>1, <1>2, <1>3

LEMMA SeenNext ==
    ASSUME NEW gs, NEW c, NEW i \in Nat, i > 0, i # c
    PROVE  /\ Seen(gs, i, c) = Seen(gs, i - 1, c) \cup {gs[i].written.at}
           /\ Turn(i, c) = Turn(i - 1, c)
<1>. DEFINE A == 1..i
            B == 1..(i - 1)
<1>1. A = B \cup {i} /\ i \notin B /\ i \in A  OBVIOUS
<1>2. /\ Seen(gs, i, c) = {gs[k].written.at : k \in {j \in A : j # c}}
      /\ Seen(gs, i - 1, c) = {gs[k].written.at : k \in {j \in B : j # c}}
      /\ Turn(i, c) = (IF c \in A THEN "done" ELSE "to do")
      /\ Turn(i - 1, c) = (IF c \in B THEN "done" ELSE "to do")
  BY DEF Seen, Turn
<1>. HIDE DEF A, B
<1>3. {j \in A : j # c} = {j \in B : j # c} \cup {i}  BY <1>1
<1>4. c \in A <=> c \in B  BY <1>1
<1>. QED  BY <1>2, <1>3, <1>4

LEMMA RisesAlong ==
    ASSUME NEW gs \in Seq(Guards), NEW at, NEW c \in Nat, NEW p \in Paths, NEW T \in Layers,
           Led(at, gs), BranchPart(gs, p, T, "up", c)
    PROVE  \A i \in 0..Len(gs) : /\ Risen(at[0], at[i], Seen(gs, i, c), T, p, Turn(i, c))
                                 /\ Seen(gs, i, c) \subseteq DOMAIN T
<1>. DEFINE n == Len(gs)
<1>0. n \in Nat  OBVIOUS
<1>. DEFINE S == {i \in 0..n :
                    /\ Risen(at[0], at[i], Seen(gs, i, c), T, p, Turn(i, c))
                    /\ Seen(gs, i, c) \subseteq DOMAIN T}
            l == at[0]
<1>1. 0 \in S
  <2>1. Seen(gs, 0, c) = {} /\ Turn(0, c) = "to do"  BY SeenNothing
  <2>2. 0 \in 0..n  BY <1>0
  <2>. HIDE DEF n
  <2>. QED  BY <2>1, <2>2 DEF Risen
<1>2. \A i \in 1..n : i - 1 \in S => i \in S
  <2>. SUFFICES ASSUME NEW i \in 1..n, i - 1 \in S  PROVE i \in S
    OBVIOUS
  <2>. DEFINE seen == Seen(gs, i - 1, c)
              turn == Turn(i - 1, c)
              k == at[i - 1]
              m == at[i]
              g == gs[i]
  <2>1. i \in Nat /\ i > 0 /\ i \in 0..n /\ i - 1 \in 0..n  BY <1>0
  <2>2. Risen(l, k, seen, T, p, turn) /\ seen \subseteq DOMAIN T  OBVIOUS
  <2>3. k \in Layers /\ Did(k, m, g) /\ g \in Guards  BY <2>1 DEF Led
  <2>. HIDE DEF l, k, m, g, seen, turn
  <2>4. CASE i # c
    <3>1. PrimOf(g, T, "up")  BY <2>4 DEF BranchPart, g
    <3>. DEFINE q == g.written.at
    <3>2. /\ q \in DOMAIN T /\ q \notin DOMAIN k
          /\ DOMAIN m = DOMAIN k \cup {q} /\ m[q] = T[q]
          /\ \A r \in DOMAIN k : m[r] = k[r]
      BY <2>3, <3>1, PrimGoesUp
    <3>3. /\ Seen(gs, i, c) = seen \cup {q} /\ Turn(i, c) = turn
      BY <2>1, <2>4, SeenNext DEF seen, turn, g
    <3>. HIDE DEF q
    <3>4. Risen(l, m, seen \cup {q}, T, p, turn)
      <4>. USE <2>2 DEF Risen
      <4>1. DOMAIN m = DOMAIN l \cup (seen \cup {q})  BY <3>2
      <4>2. \A r \in seen \cup {q} : r \notin DOMAIN l /\ m[r] = T[r]  BY <3>2
      <4>3. \A r \in DOMAIN l : r # Front(p) \/ turn # "done" => m[r] = l[r]  BY <3>2
      <4>4. turn = "done" => Front(p) \in DOMAIN l /\ More(m, l, p)
        BY <3>2 DEF More
      <4>. QED  BY <4>1, <4>2, <4>3, <4>4
    <3>. QED  BY <2>1, <2>2, <3>2, <3>3, <3>4 DEF l, m
  <2>5. CASE i = c
    <3>1. p # <<>> /\ ChildOf(g, p, "up") /\ Front(p) \notin DOMAIN T
      <4>1. p # <<>>  BY <2>1, <2>5 DEF BranchPart
      <4>. QED  BY <4>1, <2>5 DEF BranchPart, Branch, g
    <3>2. /\ Front(p) \in DOMAIN k /\ DOMAIN m = DOMAIN k
          /\ \A r \in DOMAIN k : r # Front(p) => m[r] = k[r]
          /\ \A name : name # Last(p) =>
                Times(m[Front(p)].children, name) = Times(k[Front(p)].children, name)
          /\ Times(m[Front(p)].children, Last(p)) =
                Times(k[Front(p)].children, Last(p)) + 1
      BY <2>3, <3>1, ChildGoes
    <3>3. /\ Seen(gs, i, c) = seen /\ Turn(i, c) = "done" /\ turn = "to do"
      BY <2>1, <2>5, SeenTurn DEF seen, turn
    <3>4. Front(p) \in DOMAIN l /\ k[Front(p)] = l[Front(p)]
      BY <2>2, <3>1, <3>2, <3>3 DEF Risen
    <3>5. Risen(l, m, seen, T, p, "done")
      <4>. USE <2>2 DEF Risen
      <4>1. DOMAIN m = DOMAIN l \cup seen  BY <3>2
      <4>2. \A r \in seen : r \notin DOMAIN l /\ m[r] = T[r]  BY <3>1, <3>2
      <4>3. \A r \in DOMAIN l : r # Front(p) => m[r] = l[r]  BY <3>2, <3>3
      <4>4. More(m, l, p)  BY <3>2, <3>4 DEF More
      <4>. QED  BY <3>4, <4>1, <4>2, <4>3, <4>4
    <3>. QED  BY <2>1, <2>2, <3>3, <3>5 DEF l, m
  <2>. QED  BY <2>4, <2>5
<1>3. \A i \in 0..n : i \in S
  <2>. HIDE DEF S, n
  <2>. QED  BY <1>0, <1>1, <1>2, Upwards
<1>. QED  BY <1>3

LEMMA SinksAlong ==
    ASSUME NEW gs \in Seq(Guards), NEW at, NEW c \in Nat, NEW p \in Paths, NEW T \in Layers,
           Led(at, gs), BranchPart(gs, p, T, "down", c)
    PROVE  \A i \in 0..Len(gs) : /\ Sunk(at[0], at[i], Seen(gs, i, c), T, p, Turn(i, c))
                                 /\ Seen(gs, i, c) \subseteq DOMAIN T
<1>. DEFINE n == Len(gs)
<1>0. n \in Nat  OBVIOUS
<1>. DEFINE S == {i \in 0..n :
                    /\ Sunk(at[0], at[i], Seen(gs, i, c), T, p, Turn(i, c))
                    /\ Seen(gs, i, c) \subseteq DOMAIN T}
            l == at[0]
<1>1. 0 \in S
  <2>1. Seen(gs, 0, c) = {} /\ Turn(0, c) = "to do"  BY SeenNothing
  <2>2. 0 \in 0..n  BY <1>0
  <2>. HIDE DEF n
  <2>. QED  BY <2>1, <2>2 DEF Sunk
<1>2. \A i \in 1..n : i - 1 \in S => i \in S
  <2>. SUFFICES ASSUME NEW i \in 1..n, i - 1 \in S  PROVE i \in S
    OBVIOUS
  <2>. DEFINE seen == Seen(gs, i - 1, c)
              turn == Turn(i - 1, c)
              k == at[i - 1]
              m == at[i]
              g == gs[i]
  <2>1. i \in Nat /\ i > 0 /\ i \in 0..n /\ i - 1 \in 0..n  BY <1>0
  <2>2. Sunk(l, k, seen, T, p, turn) /\ seen \subseteq DOMAIN T  OBVIOUS
  <2>3. k \in Layers /\ Did(k, m, g) /\ g \in Guards  BY <2>1 DEF Led
  <2>6. p # <<>> \/ c = 0  BY DEF BranchPart
  <2>7. p # <<>> => Front(p) \notin DOMAIN T  BY DEF BranchPart, Branch
  <2>. HIDE DEF l, k, m, g, seen, turn
  <2>4. CASE i # c
    <3>1. PrimOf(g, T, "down")  BY <2>4 DEF BranchPart, g
    <3>. DEFINE q == g.written.at
    <3>2. /\ q \in DOMAIN T /\ q \in DOMAIN k /\ k[q] = T[q]
          /\ DOMAIN m = DOMAIN k \ {q}
          /\ \A r \in DOMAIN m : m[r] = k[r]
      <4>1. q \in DOMAIN T  BY <2>3, <3>1, PrimGoesDown
      <4>2. q \in DOMAIN k /\ k[q] = T[q]  BY <2>3, <3>1, WasOfTheBranch
      <4>3. DOMAIN m = DOMAIN k \ {q}  BY <2>3, <3>1, PrimGoesDown
      <4>4. \A r \in DOMAIN m : m[r] = k[r]  BY <2>3, <3>1, PrimGoesDown
      <4>. QED  BY <4>1, <4>2, <4>3, <4>4
    <3>3. /\ Seen(gs, i, c) = seen \cup {q} /\ Turn(i, c) = turn
      BY <2>1, <2>4, SeenNext DEF seen, turn, g
    <3>4. turn = "done" => p # <<>>
      <4>1. 0 \notin 1..(i - 1)  OBVIOUS
      <4>2. turn = "done" => c \in 1..(i - 1)  BY DEF turn, Turn
      <4>. QED  BY <2>6, <4>1, <4>2
    <3>. HIDE DEF q
    <3>5. Sunk(l, m, seen \cup {q}, T, p, turn)
      <4>. USE <2>2 DEF Sunk
      <4>1. DOMAIN m = DOMAIN l \ (seen \cup {q})  BY <3>2
      <4>2. k[q] = l[q]  BY <2>7, <3>2, <3>4
      <4>3. \A r \in seen \cup {q} : r \in DOMAIN l /\ l[r] = T[r]  BY <3>2, <4>2
      <4>4. \A r \in DOMAIN m : r # Front(p) \/ turn # "done" => m[r] = l[r]  BY <3>2
      <4>5. turn = "done" => Front(p) \in DOMAIN m /\ More(l, m, p)
        BY <2>7, <3>2, <3>4 DEF More
      <4>. QED  BY <4>1, <4>3, <4>4, <4>5
    <3>. QED  BY <2>1, <2>2, <3>2, <3>3, <3>5 DEF l, m
  <2>5. CASE i = c
    <3>1. p # <<>> /\ ChildOf(g, p, "down") /\ Front(p) \notin DOMAIN T
      <4>1. p # <<>>  BY <2>1, <2>5, <2>6
      <4>. QED  BY <4>1, <2>5 DEF BranchPart, Branch, g
    <3>2. /\ Front(p) \in DOMAIN k /\ DOMAIN m = DOMAIN k
          /\ \A r \in DOMAIN k : r # Front(p) => m[r] = k[r]
          /\ \A name : name # Last(p) =>
                Times(m[Front(p)].children, name) = Times(k[Front(p)].children, name)
          /\ Times(k[Front(p)].children, Last(p)) =
                Times(m[Front(p)].children, Last(p)) + 1
      BY <2>3, <3>1, ChildGoes
    <3>3. /\ Seen(gs, i, c) = seen /\ Turn(i, c) = "done" /\ turn = "to do"
      BY <2>1, <2>5, SeenTurn DEF seen, turn
    <3>4. k[Front(p)] = l[Front(p)]
      BY <2>2, <3>1, <3>2, <3>3 DEF Sunk
    <3>5. Sunk(l, m, seen, T, p, "done")
      <4>. USE <2>2 DEF Sunk
      <4>1. DOMAIN m = DOMAIN l \ seen  BY <3>2
      <4>2. \A r \in seen : r \in DOMAIN l /\ l[r] = T[r]  OBVIOUS
      <4>3. \A r \in DOMAIN m : r # Front(p) => m[r] = l[r]  BY <3>2, <3>3
      <4>4. More(l, m, p)  BY <3>2, <3>4 DEF More
      <4>. QED  BY <3>2, <4>1, <4>2, <4>3, <4>4
    <3>. QED  BY <2>1, <2>2, <3>3, <3>5 DEF l, m
  <2>. QED  BY <2>4, <2>5
<1>3. \A i \in 0..n : i \in S
  <2>. HIDE DEF S, n
  <2>. QED  BY <1>0, <1>1, <1>2, Upwards
<1>. QED  BY <1>3

\* The turn of the name of p when the whole branch is done.
Ended(p) == IF p = <<>> THEN "to do" ELSE "done"

(* A branch taken up into a tree, or down from one, leaves a tree.          *)
LEMMA BranchUp ==
    ASSUME NEW l \in Layers, NEW m \in Layers, NEW T \in Layers, NEW p \in Paths,
           Branch(p, T), Tree(l), Risen(l, m, DOMAIN T, T, p, Ended(p))
    PROVE  Tree(m)
<1>1. /\ DOMAIN m = DOMAIN l \cup DOMAIN T
      /\ \A q \in DOMAIN T : q \notin DOMAIN l /\ m[q] = T[q]
      /\ \A q \in DOMAIN l : q # Front(p) \/ p = <<>> => m[q] = l[q]
      /\ p # <<>> => Front(p) \in DOMAIN l /\ More(m, l, p)
  BY DEF Risen, Ended
<1>2. /\ p \in DOMAIN T
      /\ \A q \in DOMAIN T : q # p => q # <<>> /\ Front(q) \in DOMAIN T
      /\ \A q \in DOMAIN T, name \in Names :
            Times(T[q].children, name) = IF Append(q, name) \in DOMAIN T THEN 1 ELSE 0
  BY DEF Branch
<1>. SUFFICES ASSUME NEW q \in DOMAIN m
     PROVE  /\ q # <<>> => Front(q) \in DOMAIN m
            /\ \A name \in Names : Times(m[q].children, name) =
                  IF Append(q, name) \in DOMAIN m THEN 1 ELSE 0
  BY DEF Tree
<1>3. q # <<>> => Front(q) \in DOMAIN m
  <2>1. CASE q \in DOMAIN l  BY <1>1, <2>1 DEF Tree
  <2>2. CASE q \in DOMAIN T /\ q # p  BY <1>1, <1>2, <2>2
  <2>3. CASE q = p  BY <1>1, <2>3
  <2>. QED  BY <1>1, <2>1, <2>2, <2>3
<1>4. ASSUME NEW name \in Names
      PROVE  Times(m[q].children, name) = IF Append(q, name) \in DOMAIN m THEN 1 ELSE 0
  <2>. DEFINE r == Append(q, name)
  <2>1. q \in Seq(Names) /\ p \in Seq(Names)  BY LayerFacts, PathIs
  <2>2. r # <<>> /\ Last(r) = name /\ Front(r) = q  BY <2>1, AppendIs
  <2>3. r \in DOMAIN l => q \in DOMAIN l  BY <2>2 DEF Tree
  <2>4. r \in DOMAIN T /\ r # p => q \in DOMAIN T  BY <1>2, <2>2
  <2>5. CASE q \in DOMAIN T
    <3>1. r \in DOMAIN m <=> r \in DOMAIN T  BY <1>1, <2>3, <2>5
    <3>2. Times(m[q].children, name) = IF r \in DOMAIN T THEN 1 ELSE 0
      BY <1>1, <1>2, <2>5
    <3>. QED  BY <3>1, <3>2
  <2>6. CASE q \in DOMAIN l
    <3>1. r \in DOMAIN T => r = p  BY <1>1, <2>4, <2>6
    <3>2. Times(l[q].children, name) = IF r \in DOMAIN l THEN 1 ELSE 0
      BY <2>6 DEF Tree
    <3>3. CASE r = p
      <4>1. p # <<>> /\ Front(p) = q /\ Last(p) = name  BY <2>2, <3>3
      <4>2. Times(m[q].children, name) = Times(l[q].children, name) + 1
        BY <1>1, <4>1 DEF More
      <4>3. r \notin DOMAIN l /\ r \in DOMAIN m  BY <1>1, <1>2, <3>3
      <4>4. Times(l[q].children, name) = 0  BY <3>2, <4>3
      <4>. DEFINE was == Times(l[q].children, name)
                  now == Times(m[q].children, name)
      <4>5. now = was + 1 /\ was = 0  BY <4>2, <4>4
      <4>. HIDE DEF was, now
      <4>6. now = 1  BY <4>5
      <4>. QED  BY <4>3, <4>6 DEF now
    <3>4. CASE r # p
      <4>1. r \in DOMAIN m <=> r \in DOMAIN l  BY <1>1, <3>1, <3>4
      <4>2. Times(m[q].children, name) = Times(l[q].children, name)
        <5>1. CASE q # Front(p) \/ p = <<>>  BY <1>1, <2>6, <5>1
        <5>2. CASE q = Front(p) /\ p # <<>>
          <6>1. name # Last(p)  BY <2>1, <3>4, <5>2, FrontIs
          <6>. QED  BY <1>1, <5>2, <6>1 DEF More
        <5>. QED  BY <5>1, <5>2
      <4>. QED  BY <3>2, <4>1, <4>2
    <3>. QED  BY <3>3, <3>4
  <2>. QED  BY <1>1, <2>5, <2>6
<1>. QED  BY <1>3, <1>4

LEMMA BranchDown ==
    ASSUME NEW l \in Layers, NEW m \in Layers, NEW T \in Layers, NEW p \in Paths,
           Branch(p, T), Tree(l), Sunk(l, m, DOMAIN T, T, p, Ended(p))
    PROVE  Tree(m)
<1>1. /\ DOMAIN m = DOMAIN l \ DOMAIN T
      /\ \A q \in DOMAIN T : q \in DOMAIN l /\ l[q] = T[q]
      /\ \A q \in DOMAIN m : q # Front(p) \/ p = <<>> => m[q] = l[q]
      /\ p # <<>> => Front(p) \in DOMAIN m /\ More(l, m, p)
  BY DEF Sunk, Ended
<1>2. /\ p \in DOMAIN T
      /\ \A q \in DOMAIN T : q # p => q # <<>> /\ Front(q) \in DOMAIN T
      /\ \A q \in DOMAIN T, name \in Names :
            Times(T[q].children, name) = IF Append(q, name) \in DOMAIN T THEN 1 ELSE 0
  BY DEF Branch
<1>. SUFFICES ASSUME NEW q \in DOMAIN m
     PROVE  /\ q # <<>> => Front(q) \in DOMAIN m
            /\ \A name \in Names : Times(m[q].children, name) =
                  IF Append(q, name) \in DOMAIN m THEN 1 ELSE 0
  BY DEF Tree
<1>3. q # <<>> => Front(q) \in DOMAIN m
  <2>. SUFFICES ASSUME q # <<>>, Front(q) \in DOMAIN T  PROVE FALSE
    BY <1>1 DEF Tree
  <2>1. q \in Seq(Names)  BY LayerFacts, PathIs
  <2>2. Last(q) \in Names /\ Append(Front(q), Last(q)) = q  BY <2>1, FrontIs
  <2>3. Front(q) \in DOMAIN l /\ l[Front(q)] = T[Front(q)]  BY <1>1
  <2>4. Times(l[Front(q)].children, Last(q)) = 1  BY <1>1, <2>2, <2>3 DEF Tree
  <2>5. Times(T[Front(q)].children, Last(q)) =
            IF Append(Front(q), Last(q)) \in DOMAIN T THEN 1 ELSE 0
    BY <1>2, <2>2
  <2>6. 1 = IF q \in DOMAIN T THEN 1 ELSE 0  BY Zenon, <2>2, <2>3, <2>4, <2>5
  <2>7. q \in DOMAIN T  BY <2>6
  <2>. QED  BY <1>1, <2>7
<1>4. ASSUME NEW name \in Names
      PROVE  Times(m[q].children, name) = IF Append(q, name) \in DOMAIN m THEN 1 ELSE 0
  <2>. DEFINE r == Append(q, name)
  <2>1. q \in Seq(Names) /\ p \in Seq(Names)  BY LayerFacts, PathIs
  <2>2. r # <<>> /\ Last(r) = name /\ Front(r) = q  BY <2>1, AppendIs
  <2>3. r \in DOMAIN T => r = p  BY <1>1, <1>2, <2>2
  <2>4. Times(l[q].children, name) = IF r \in DOMAIN l THEN 1 ELSE 0
    BY <1>1 DEF Tree
  <2>5. CASE r = p
    <3>1. p # <<>> /\ Front(p) = q /\ Last(p) = name  BY <2>2, <2>5
    <3>2. Times(l[q].children, name) = Times(m[q].children, name) + 1
      BY <1>1, <3>1 DEF More
    <3>3. m[q].children \in Seq(Names)  BY LayerFacts
    <3>4. Times(m[q].children, name) \in Nat  BY <3>3, TimesIsNat
    <3>5. r \notin DOMAIN m  BY <1>1, <1>2, <2>5
    <3>6. Times(l[q].children, name) = 0 \/ Times(l[q].children, name) = 1  BY <2>4
    <3>. DEFINE was == Times(l[q].children, name)
                now == Times(m[q].children, name)
    <3>7. was = now + 1 /\ now \in Nat /\ (was = 0 \/ was = 1)
      BY Zenon, <3>2, <3>4, <3>6
    <3>. HIDE DEF was, now
    <3>8. now = 0  BY <3>7
    <3>. QED  BY <3>5, <3>8 DEF now
  <2>6. CASE r # p
    <3>1. r \in DOMAIN m <=> r \in DOMAIN l  BY <1>1, <2>3, <2>6
    <3>2. Times(m[q].children, name) = Times(l[q].children, name)
      <4>1. CASE q # Front(p) \/ p = <<>>  BY <1>1, <4>1
      <4>2. CASE q = Front(p) /\ p # <<>>
        <5>1. name # Last(p)  BY <2>1, <2>6, <4>2, FrontIs
        <5>. QED  BY <1>1, <4>2, <5>1 DEF More
      <4>. QED  BY <4>1, <4>2
    <3>. QED  BY <2>4, <3>1, <3>2
  <2>. QED  BY <2>5, <2>6
<1>. QED  BY <1>3, <1>4

LEMMA SeenAll ==
    ASSUME NEW gs \in Seq(Guards), NEW c \in Nat, NEW p, NEW T, NEW way,
           way \in {"up", "down"}, BranchPart(gs, p, T, way, c)
    PROVE  /\ Seen(gs, Len(gs), c) = DOMAIN T
           /\ Turn(Len(gs), c) = Ended(p)
<1>. DEFINE n == Len(gs)
<1>1. n \in Nat  OBVIOUS
<1>2. \A i \in 1..n : i # c => gs[i].written.at \in DOMAIN T
  BY DEF BranchPart, PrimOf
<1>3. \A q \in DOMAIN T : \E i \in 1..n : i # c /\ gs[i].written.at = q
  BY DEF BranchPart
<1>4. (p # <<>> => c \in 1..n) /\ (p = <<>> => c = 0)  BY DEF BranchPart
<1>. HIDE DEF n
<1>5. Seen(gs, n, c) = DOMAIN T  BY <1>2, <1>3 DEF Seen
<1>6. 0 \notin 1..n  BY <1>1
<1>7. Turn(n, c) = Ended(p)  BY <1>4, <1>6 DEF Turn, Ended
<1>. QED  BY <1>5, <1>7 DEF n

LEMMA PartKeepsTree ==
    ASSUME NEW gs \in Parts, NEW at, Led(at, gs), Tree(at[0])
    PROVE  Tree(at[Len(gs)])
<1>. DEFINE n == Len(gs)
<1>1. gs \in Seq(Guards) /\ n \in Nat  BY DEF Parts
<1>2. 0 \in 0..n /\ n \in 0..n  BY <1>1
<1>3. at[0] \in Layers /\ at[n] \in Layers  BY <1>2 DEF Led
<1>4. ASSUME NEW p \in Paths, NEW T \in Layers, NEW way \in {"up", "down"}, NEW c \in Nat,
             BranchPart(gs, p, T, way, c)
      PROVE  Tree(at[n])
  <2>1. Branch(p, T)  BY <1>4 DEF BranchPart
  <2>2. Seen(gs, n, c) = DOMAIN T /\ Turn(n, c) = Ended(p)  BY <1>1, <1>4, SeenAll
  <2>3. CASE way = "up"
    <3>1. BranchPart(gs, p, T, "up", c)  BY <1>4, <2>3
    <3>2. Risen(at[0], at[n], Seen(gs, n, c), T, p, Turn(n, c))
      BY <1>1, <1>2, <3>1, RisesAlong
    <3>3. Risen(at[0], at[n], DOMAIN T, T, p, Ended(p))  BY <2>2, <3>2
    <3>. HIDE DEF n
    <3>. QED  BY <1>3, <2>1, <3>3, BranchUp
  <2>4. CASE way = "down"
    <3>1. BranchPart(gs, p, T, "down", c)  BY <1>4, <2>4
    <3>2. Sunk(at[0], at[n], Seen(gs, n, c), T, p, Turn(n, c))
      BY <1>1, <1>2, <3>1, SinksAlong
    <3>3. Sunk(at[0], at[n], DOMAIN T, T, p, Ended(p))  BY <2>2, <3>2
    <3>. HIDE DEF n
    <3>. QED  BY <1>3, <2>1, <3>3, BranchDown
  <2>. QED  BY <2>3, <2>4
<1>5. ASSUME n = 1, FieldOf(gs[1])
      PROVE  Tree(at[n])
  <2>1. 1 \in 1..n /\ 1 - 1 = 0 /\ gs[1] \in Guards  BY <1>1, <1>5
  <2>2. Did(at[0], at[1], gs[1])
    <3>1. Did(at[1 - 1], at[1], gs[1])  BY <2>1 DEF Led
    <3>. QED  BY <2>1, <3>1
  <2>3. Tree(at[1])  BY <1>3, <1>5, <2>1, <2>2, FieldKeepsTree
  <2>. QED  BY <1>5, <2>3
<1>. QED  BY <1>4, <1>5 DEF Parts

(* On the way no list has a name twice.                                     *)
LEMMA TreeIsOnce == \A l : Tree(l) => Once(l)
BY DEF Tree, Once

LEMMA RisenIsOnce ==
    ASSUME NEW l \in Layers, NEW m, NEW seen, NEW T \in Layers, NEW p \in Paths, NEW turn,
           Tree(l), Branch(p, T), seen \subseteq DOMAIN T, p \notin DOMAIN l,
           turn = "done" => p # <<>>, Risen(l, m, seen, T, p, turn)
    PROVE  Once(m)
<1>. SUFFICES ASSUME NEW q \in DOMAIN m, NEW name \in Names
     PROVE  Times(m[q].children, name) <= 1
  BY DEF Once
<1>1. Once(l)  BY TreeIsOnce
<1>2. CASE q \in seen
  <2>1. m[q] = T[q] /\ q \in DOMAIN T  BY <1>2 DEF Risen
  <2>. QED  BY <2>1 DEF Branch
<1>3. CASE q \in DOMAIN l /\ (q # Front(p) \/ turn # "done")
  <2>1. m[q] = l[q]  BY <1>3 DEF Risen
  <2>. QED  BY <1>1, <1>3, <2>1 DEF Once
<1>4. CASE q = Front(p) /\ turn = "done"
  <2>1. q \in DOMAIN l /\ More(m, l, p)  BY <1>4 DEF Risen
  <2>2. Append(q, Last(p)) = p /\ Last(p) \in Names  BY <1>4, PathIs, FrontIs
  <2>3. Times(l[q].children, Last(p)) = 0  BY <2>1, <2>2 DEF Tree
  <2>4. Times(m[q].children, name) = IF name = Last(p) THEN Times(l[q].children, name) + 1
                                     ELSE Times(l[q].children, name)
    BY <1>4, <2>1 DEF More
  <2>5. CASE name = Last(p)  BY <2>3, <2>4, <2>5
  <2>6. CASE name # Last(p)  BY <1>1, <2>1, <2>4, <2>6 DEF Once
  <2>. QED  BY <2>5, <2>6
<1>. QED  BY <1>2, <1>3, <1>4 DEF Risen

LEMMA SunkIsOnce ==
    ASSUME NEW l \in Layers, NEW m \in Layers, NEW seen, NEW T, NEW p, NEW turn,
           Tree(l), Sunk(l, m, seen, T, p, turn)
    PROVE  Once(m)
<1>. SUFFICES ASSUME NEW q \in DOMAIN m, NEW name \in Names
     PROVE  Times(m[q].children, name) <= 1
  BY DEF Once
<1>1. Once(l) /\ q \in DOMAIN l  BY TreeIsOnce DEF Sunk
<1>2. Times(l[q].children, name) <= 1  BY <1>1 DEF Once
<1>3. CASE q # Front(p) \/ turn # "done"
  <2>1. m[q] = l[q]  BY <1>3 DEF Sunk
  <2>. QED  BY <1>2, <2>1
<1>4. CASE q = Front(p) /\ turn = "done"
  <2>1. More(l, m, p)  BY <1>4 DEF Sunk
  <2>2. Times(l[q].children, name) = IF name = Last(p) THEN Times(m[q].children, name) + 1
                                     ELSE Times(m[q].children, name)
    BY <1>4, <2>1 DEF More
  <2>3. m[q].children \in Seq(Names)  BY LayerFacts
  <2>4. Times(m[q].children, name) \in Nat  BY <2>3, TimesIsNat
  <2>. QED  BY <1>2, <2>2, <2>4
<1>. QED  BY <1>3, <1>4

LEMMA PartIsOnce ==
    ASSUME NEW gs \in Parts, NEW at, Led(at, gs), Tree(at[0])
    PROVE  \A i \in 0..Len(gs) : Once(at[i])
<1>. DEFINE n == Len(gs)
<1>1. gs \in Seq(Guards) /\ n \in Nat  BY DEF Parts
<1>2. at[0] \in Layers /\ \A i \in 0..n : at[i] \in Layers  BY <1>1 DEF Led
<1>3. ASSUME NEW p \in Paths, NEW T \in Layers, NEW way \in {"up", "down"}, NEW c \in Nat,
             BranchPart(gs, p, T, way, c), NEW i \in 0..n
      PROVE  Once(at[i])
  <2>1. Branch(p, T) /\ (p = <<>> => c = 0)  BY <1>3 DEF BranchPart
  <2>2. Seen(gs, n, c) = DOMAIN T  BY <1>1, <1>3, SeenAll
  <2>3. Turn(i, c) = "done" => p # <<>>  BY <1>1, <2>1 DEF Turn
  <2>4. CASE way = "up"
    <3>1. BranchPart(gs, p, T, "up", c)  BY <1>3, <2>4
    <3>2. \A k \in 0..n : /\ Risen(at[0], at[k], Seen(gs, k, c), T, p, Turn(k, c))
                          /\ Seen(gs, k, c) \subseteq DOMAIN T
      BY <1>1, <3>1, RisesAlong
    <3>3. Risen(at[0], at[n], Seen(gs, n, c), T, p, Turn(n, c))  BY <1>1, <3>2
    <3>4. p \notin DOMAIN at[0]
      <4>1. p \in DOMAIN T  BY <2>1 DEF Branch
      <4>. QED  BY <2>2, <3>3, <4>1 DEF Risen
    <3>. HIDE DEF n
    <3>. QED  BY <1>2, <2>1, <2>3, <3>2, <3>4, RisenIsOnce
  <2>5. CASE way = "down"
    <3>1. BranchPart(gs, p, T, "down", c)  BY <1>3, <2>5
    <3>2. Sunk(at[0], at[i], Seen(gs, i, c), T, p, Turn(i, c))
      BY <1>1, <3>1, SinksAlong
    <3>. HIDE DEF n
    <3>. QED  BY <1>2, <3>2, SunkIsOnce
  <2>. QED  BY <2>4, <2>5
<1>4. ASSUME n = 1, NEW i \in 0..n  PROVE Once(at[i])
  <2>1. Tree(at[n])  BY PartKeepsTree
  <2>2. i = 0 \/ i = n  BY <1>4
  <2>. QED  BY <2>1, <2>2, TreeIsOnce
<1>. QED  BY <1>3, <1>4 DEF Parts

-----------------------------------------------------------------------------
(* Journals grown of whole parts: those in every set that has the empty one *)
(* and, with a journal, what a part added to it makes.                      *)

Growing ==
    {S \in SUBSET Seq(Guards) : <<>> \in S /\ \A a \in S, b \in Parts : a \o b \in S}
Grown == {gs \in Seq(Guards) : \A S \in Growing : gs \in S}

LEMMA GrownIsWithin ==
    ASSUME NEW S, S \subseteq Seq(Guards), <<>> \in S,
           \A a \in S, b \in Parts : a \o b \in S
    PROVE  Grown \subseteq S
BY DEF Growing, Grown

LEMMA GrownFacts ==
    /\ Grown \subseteq Seq(Guards) /\ Parts \subseteq Seq(Guards) /\ <<>> \in Grown
    /\ \A a \in Grown, b \in Parts : a \o b \in Grown
    /\ Parts \subseteq Grown
<1>1. Grown \subseteq Seq(Guards) /\ Parts \subseteq Seq(Guards)  BY DEF Grown, Parts
<1>2. <<>> \in Grown
  <2>1. <<>> \in Seq(Guards)  OBVIOUS
  <2>. QED  BY <2>1 DEF Grown, Growing
<1>3. ASSUME NEW a \in Grown, NEW b \in Parts  PROVE a \o b \in Grown
  <2>1. a \in Seq(Guards) /\ b \in Seq(Guards)  BY <1>1
  <2>2. a \o b \in Seq(Guards)  BY <2>1, ConcatProperties
  <2>3. \A S \in Growing : a \o b \in S  BY DEF Grown, Growing
  <2>. QED  BY <2>2, <2>3 DEF Grown
<1>4. ASSUME NEW b \in Parts  PROVE b \in Grown
  <2>1. <<>> \o b = b  BY <1>1, ConcatEmptySeq
  <2>2. <<>> \o b \in Grown  BY <1>2, <1>3
  <2>. QED  BY <2>1, <2>2
<1>. QED  BY <1>1, <1>2, <1>3, <1>4

LEMMA ConcatIs ==
    ASSUME NEW S, NEW a \in Seq(S), NEW b \in Seq(S)
    PROVE  /\ a \o b \in Seq(S) /\ Len(a \o b) = Len(a) + Len(b)
           /\ Len(a) \in Nat /\ Len(b) \in Nat
           /\ \A i \in 1..Len(a) : (a \o b)[i] = a[i]
           /\ \A i \in 1..Len(b) : (a \o b)[Len(a) + i] = b[i]
<1>. DEFINE c == a \o b
            n == Len(a)
            m == Len(b)
<1>1. /\ c \in Seq(S) /\ Len(c) = n + m
      /\ \A i \in 1..(n + m) : c[i] = IF i <= n THEN a[i] ELSE b[i - n]
  BY ConcatProperties
<1>2. n \in Nat /\ m \in Nat  OBVIOUS
<1>. HIDE DEF c, n, m
<1>3. \A i \in 1..n : c[i] = a[i]  BY <1>1, <1>2
<1>4. \A i \in 1..m : c[n + i] = b[i]
  <2>. TAKE i \in 1..m
  <2>1. PICK k \in Int : k = n + i  BY <1>2
  <2>2. k \in 1..(n + m) /\ ~(k <= n) /\ k - n = i  BY <1>2, <2>1
  <2>3. c[k] = b[k - n]  BY <1>1, <2>2
  <2>. QED  BY Zenon, <2>1, <2>2, <2>3
<1>. QED  BY <1>1, <1>2, <1>3, <1>4 DEF c, n, m

LEMMA GrownConcat ==
    ASSUME NEW a \in Grown, NEW b \in Grown
    PROVE  a \o b \in Grown
<1>. DEFINE S == {c \in Seq(Guards) : a \o c \in Grown}
<1>1. a \in Seq(Guards) /\ b \in Seq(Guards)  BY GrownFacts
<1>2. <<>> \in S
  <2>1. a \o <<>> = a /\ <<>> \in Seq(Guards)  BY <1>1, ConcatEmptySeq
  <2>. QED  BY <2>1
<1>3. ASSUME NEW c \in S, NEW d \in Parts  PROVE c \o d \in S
  <2>1. c \in Seq(Guards) /\ d \in Seq(Guards) /\ a \o c \in Grown  BY GrownFacts
  <2>2. (a \o c) \o d \in Grown  BY <2>1, GrownFacts
  <2>3. (a \o c) \o d = a \o (c \o d)  BY <1>1, <2>1, ConcatAssociative
  <2>4. c \o d \in Seq(Guards)  BY <2>1, ConcatProperties
  <2>. QED  BY <2>2, <2>3, <2>4
<1>4. S \subseteq Seq(Guards)  OBVIOUS
<1>5. Grown \subseteq S
  <2>. HIDE DEF S
  <2>. QED  BY <1>2, <1>3, <1>4, GrownIsWithin
<1>. QED  BY <1>5

LEMMA LedByBoth ==
    ASSUME NEW a \in Seq(Guards), NEW b \in Seq(Guards), NEW at, Led(at, a \o b)
    PROVE  /\ Led(at, a)
           /\ Led([i \in 0..Len(b) |-> at[Len(a) + i]], b)
<1>. DEFINE n == Len(a)
            m == Len(b)
            then == [i \in 0..m |-> at[n + i]]
            c == a \o b
<1>1. /\ Len(c) = n + m /\ n \in Nat /\ m \in Nat
      /\ \A i \in 1..n : c[i] = a[i]
      /\ \A i \in 1..m : c[n + i] = b[i]
  BY ConcatIs
<1>. HIDE DEF c
<1>2. /\ \A i \in 0..(n + m) : at[i] \in Layers
      /\ \A i \in 1..(n + m) : Did(at[i - 1], at[i], c[i])
  BY <1>1 DEF Led, c
<1>. HIDE DEF n, m
<1>3. \A i \in 0..n : at[i] \in Layers  BY <1>1, <1>2
<1>4. \A i \in 1..n : Did(at[i - 1], at[i], a[i])
  <2>. TAKE i \in 1..n
  <2>1. i \in 1..(n + m)  BY <1>1
  <2>. QED  BY <1>1, <1>2, <2>1
<1>5. \A i \in 0..m : then[i] \in Layers
  <2>. TAKE i \in 0..m
  <2>1. n + i \in 0..(n + m)  BY <1>1
  <2>. QED  BY <1>2, <2>1
<1>6. \A i \in 1..m : Did(then[i - 1], then[i], b[i])
  <2>. TAKE i \in 1..m
  <2>1. PICK k \in Int : k = n + i  BY <1>1
  <2>2. k \in 1..(n + m) /\ k - 1 = n + (i - 1) /\ i - 1 \in 0..m /\ i \in 0..m
    BY <1>1, <2>1
  <2>3. Did(at[k - 1], at[k], c[k])  BY <1>2, <2>2
  <2>4. at[k - 1] = then[i - 1] /\ at[k] = then[i] /\ c[k] = b[i]  BY <1>1, <2>1, <2>2
  <2>. QED  BY <2>3, <2>4
<1>. QED  BY <1>3, <1>4, <1>5, <1>6 DEF Led, n, m

(* A journal grown of parts took a tree to a tree.                          *)
LEMMA GrownKeepsTree ==
    ASSUME NEW gs \in Grown, NEW at, Led(at, gs), Tree(at[0])
    PROVE  Tree(at[Len(gs)])
<1>. DEFINE Keeps(a) == \A t : Led(t, a) /\ Tree(t[0]) => Tree(t[Len(a)])
            S == {a \in Seq(Guards) : Keeps(a)}
<1>1. <<>> \in S
  <2>1. Len(<<>>) = 0 /\ <<>> \in Seq(Guards)  OBVIOUS
  <2>. QED  BY <2>1
<1>2. ASSUME NEW a \in S, NEW b \in Parts  PROVE a \o b \in S
  <2>1. a \in Seq(Guards) /\ b \in Seq(Guards) /\ Keeps(a)  BY GrownFacts
  <2>2. a \o b \in Seq(Guards) /\ Len(a \o b) = Len(a) + Len(b)
        /\ Len(a) \in Nat /\ Len(b) \in Nat
    BY <2>1, ConcatIs
  <2>3. ASSUME NEW t, Led(t, a \o b), Tree(t[0])  PROVE Tree(t[Len(a \o b)])
    <3>. DEFINE n == Len(a)
                m == Len(b)
                then == [i \in 0..m |-> t[n + i]]
    <3>1. Led(t, a) /\ Led(then, b)  BY <2>1, <2>3, LedByBoth
    <3>2. Tree(t[n])  BY <2>1, <2>3, <3>1
    <3>3. then[0] = t[n] /\ then[m] = t[n + m]
      <4>1. 0 \in 0..m /\ m \in 0..m /\ n + 0 = n  BY <2>2
      <4>. HIDE DEF n, m
      <4>. QED  BY <4>1
    <3>. HIDE DEF then
    <3>4. Tree(then[m])  BY <3>1, <3>2, <3>3, PartKeepsTree
    <3>. QED  BY <2>2, <3>3, <3>4
  <2>. QED  BY <2>2, <2>3
<1>3. S \subseteq Seq(Guards)  OBVIOUS
<1>4. Grown \subseteq S
  <2>. HIDE DEF S
  <2>. QED  BY <1>1, <1>2, <1>3, GrownIsWithin
<1>5. Keeps(gs)  BY <1>4
<1>. QED  BY <1>5

LEMMA GrownIsOnce ==
    ASSUME NEW gs \in Grown, NEW at, Led(at, gs), Tree(at[0])
    PROVE  \A i \in 0..Len(gs) : Once(at[i])
<1>. DEFINE Keeps(a) == \A t : Led(t, a) /\ Tree(t[0]) => \A i \in 0..Len(a) : Once(t[i])
            S == {a \in Grown : Keeps(a)}
<1>1. <<>> \in S
  <2>1. Len(<<>>) = 0 /\ <<>> \in Grown  BY GrownFacts
  <2>2. ASSUME NEW t, Tree(t[0]), NEW i \in 0..0  PROVE Once(t[i])
    BY <2>2, TreeIsOnce
  <2>. QED  BY <2>1, <2>2
<1>2. ASSUME NEW a \in S, NEW b \in Parts  PROVE a \o b \in S
  <2>1. a \in Seq(Guards) /\ b \in Seq(Guards) /\ Keeps(a) /\ a \in Grown  BY GrownFacts
  <2>2. a \o b \in Grown /\ Len(a \o b) = Len(a) + Len(b)
        /\ Len(a) \in Nat /\ Len(b) \in Nat
    BY <2>1, ConcatIs, GrownFacts
  <2>3. ASSUME NEW t, Led(t, a \o b), Tree(t[0]), NEW i \in 0..Len(a \o b)
        PROVE  Once(t[i])
    <3>. DEFINE n == Len(a)
                m == Len(b)
                then == [k \in 0..m |-> t[n + k]]
    <3>1. Led(t, a) /\ Led(then, b)  BY <2>1, <2>3, LedByBoth
    <3>2. Tree(t[n])  BY <2>1, <2>3, <3>1, GrownKeepsTree
    <3>3. then[0] = t[n]
      <4>1. 0 \in 0..m /\ n + 0 = n  BY <2>2
      <4>. HIDE DEF n, m
      <4>. QED  BY <4>1
    <3>4. CASE i <= n
      <4>1. i \in 0..n  BY <2>2, <3>4
      <4>. QED  BY <2>1, <2>3, <3>1, <4>1
    <3>5. CASE ~(i <= n)
      <4>. DEFINE k == i - n
      <4>1. i \in 0..(n + m) /\ n \in Nat /\ m \in Nat  BY <2>2
      <4>2. k \in 0..m /\ n + k = i
        <5>. HIDE DEF n, m
        <5>. QED  BY <3>5, <4>1
      <4>. HIDE DEF k
      <4>3. then[k] = t[i]
        <5>. HIDE DEF n, m
        <5>. QED  BY <4>2
      <4>. HIDE DEF then
      <4>4. Once(then[k])  BY <3>1, <3>2, <3>3, <4>2, PartIsOnce
      <4>. QED  BY <4>3, <4>4
    <3>. QED  BY <3>4, <3>5
  <2>. QED  BY <2>2, <2>3
<1>3. S \subseteq Seq(Guards)  BY GrownFacts
<1>4. Grown \subseteq S
  <2>. HIDE DEF S
  <2>. QED  BY <1>1, <1>2, <1>3, GrownIsWithin
<1>5. Keeps(gs)  BY <1>4
<1>. QED  BY <1>5

(* Such a journal reversed is grown of parts as well.                       *)
LEMMA ReverseConcat ==
    ASSUME NEW S, NEW a \in Seq(S), NEW b \in Seq(S)
    PROVE  Reverse(a \o b) = Reverse(b) \o Reverse(a)
<1>. DEFINE n == Len(a)
            m == Len(b)
            c == a \o b
            x == Reverse(c)
            ra == Reverse(a)
            rb == Reverse(b)
            y == rb \o ra
<1>1. /\ c \in Seq(S) /\ Len(c) = n + m /\ n \in Nat /\ m \in Nat
      /\ \A i \in 1..n : c[i] = a[i]
      /\ \A i \in 1..m : c[n + i] = b[i]
  BY ConcatIs
<1>2. /\ ra \in Seq(S) /\ Len(ra) = n /\ rb \in Seq(S) /\ Len(rb) = m
      /\ \A i \in 1..n : ra[i] = a[n - i + 1]
      /\ \A i \in 1..m : rb[i] = b[m - i + 1]
  BY ReverseIs
<1>. HIDE DEF c, ra, rb
<1>3. /\ x \in Seq(S) /\ Len(x) = Len(c)
      /\ \A i \in 1..Len(c) : x[i] = c[Len(c) - i + 1]
  BY <1>1, ReverseIs
<1>4. /\ y \in Seq(S) /\ Len(y) = Len(rb) + Len(ra)
      /\ \A i \in 1..Len(rb) : y[i] = rb[i]
      /\ \A i \in 1..Len(ra) : y[Len(rb) + i] = ra[i]
  <2>1. rb \in Seq(S) /\ ra \in Seq(S)  BY <1>2
  <2>2. y \in Seq(S) /\ Len(y) = Len(rb) + Len(ra)  BY <2>1, ConcatIs
  <2>3. \A i \in 1..Len(rb) : y[i] = rb[i]  BY <2>1, ConcatIs
  <2>4. \A i \in 1..Len(ra) : y[Len(rb) + i] = ra[i]  BY <2>1, ConcatIs
  <2>. QED  BY <2>2, <2>3, <2>4
<1>. HIDE DEF x, y, n, m
<1>5. Len(x) = m + n /\ Len(y) = m + n  BY <1>1, <1>2, <1>3, <1>4
<1>6. ASSUME NEW i \in 1..Len(x)  PROVE x[i] = y[i]
  <2>0. x[i] = c[n + m - i + 1]
    <3>1. Len(x) = Len(c) /\ Len(c) = n + m /\ n \in Nat /\ m \in Nat
      BY <1>1, <1>3, <1>5
    <3>2. i \in 1..Len(c)  BY <3>1
    <3>3. x[i] = c[Len(c) - i + 1]  BY Zenon, <1>3, <3>2
    <3>4. Len(c) - i + 1 = n + m - i + 1  BY <3>1
    <3>. QED  BY Zenon, <3>3, <3>4
  <2>1. CASE i \in 1..m
    <3>1. PICK k \in Int : k = m - i + 1  BY <1>1
    <3>2. k \in 1..m /\ n + m - i + 1 = n + k  BY <1>1, <2>1, <3>1
    <3>3. c[n + k] = b[k]  BY <1>1, <3>2
    <3>4. y[i] = rb[i] /\ rb[i] = b[m - i + 1]  BY <1>2, <1>4, <2>1
    <3>. QED  BY Zenon, <2>0, <3>1, <3>2, <3>3, <3>4
  <2>2. CASE i \notin 1..m
    <3>1. PICK k \in Int : k = i - m  BY <1>1
    <3>2. k \in 1..n /\ m + k = i /\ n + m - i + 1 = n - k + 1  BY <1>1, <1>5, <2>2, <3>1
    <3>3. y[m + k] = ra[k] /\ ra[k] = a[n - k + 1]  BY <1>2, <1>4, <3>2
    <3>4. PICK h \in Int : h = n - k + 1  BY <1>1
    <3>5. h \in 1..n  BY <1>1, <3>2, <3>4
    <3>6. c[h] = a[h]  BY <1>1, <3>5
    <3>. QED  BY Zenon, <2>0, <3>2, <3>3, <3>4, <3>6
  <2>. QED  BY <2>1, <2>2
<1>7. x = y  BY <1>3, <1>4, <1>5, <1>6, SeqEqual
<1>. QED  BY <1>7 DEF x, y, c, ra, rb

LEMMA ReversePart ==
    ASSUME NEW gs \in Parts
    PROVE  Reverse(gs) \in Parts
<1>. DEFINE n == Len(gs)
            hs == Reverse(gs)
<1>1. gs \in Seq(Guards) /\ n \in Nat  BY DEF Parts
<1>2. /\ hs \in Seq(Guards) /\ Len(hs) = n
      /\ \A i \in 1..n : n - i + 1 \in 1..n /\ hs[i] = gs[n - i + 1]
  BY <1>1, ReverseIs
<1>. HIDE DEF hs
<1>3. CASE n = 1 /\ FieldOf(gs[1])
  <2>1. hs[1] = gs[1]
    <3>1. 1 \in 1..n /\ n - 1 + 1 = 1  BY <1>3
    <3>. QED  BY <1>2, <3>1
  <2>. QED  BY <1>2, <1>3, <2>1 DEF Parts, hs
<1>4. ASSUME NEW p \in Paths, NEW T \in Layers, NEW way \in {"up", "down"}, NEW c \in Nat,
             BranchPart(gs, p, T, way, c)
      PROVE  Reverse(gs) \in Parts
  <2>. DEFINE d == IF c = 0 THEN 0 ELSE n - c + 1
  <2>1. /\ Branch(p, T)
        /\ p # <<>> => c \in 1..n /\ ChildOf(gs[c], p, way)
        /\ p = <<>> => c = 0
        /\ \A i \in 1..n : i # c => PrimOf(gs[i], T, way)
        /\ \A i, k \in 1..n :
              i # c /\ k # c /\ gs[i].written.at = gs[k].written.at => i = k
        /\ \A q \in DOMAIN T : \E i \in 1..n : i # c /\ gs[i].written.at = q
    BY <1>4 DEF BranchPart
  <2>. HIDE DEF n
  <2>2. c \in 0..n  BY <1>1, <2>1
  <2>3. \A i \in 1..n : i # d <=> n - i + 1 # c  BY <1>1, <2>2
  <2>4. p # <<>> => d \in 1..n /\ ChildOf(hs[d], p, way)
    <3>. SUFFICES ASSUME p # <<>>  PROVE d \in 1..n /\ ChildOf(hs[d], p, way)
      OBVIOUS
    <3>1. c \in 1..n /\ ChildOf(gs[c], p, way)  BY <2>1
    <3>2. d \in 1..n /\ n - d + 1 = c  BY <1>1, <3>1
    <3>3. hs[d] = gs[n - d + 1]  BY <1>2, <3>2
    <3>. QED  BY Zenon, <3>1, <3>2, <3>3
  <2>5. p = <<>> => d = 0  BY <2>1
  <2>. HIDE DEF d
  <2>6. \A i \in 1..n : i # d => PrimOf(hs[i], T, way)
    <3>. SUFFICES ASSUME NEW i \in 1..n, i # d  PROVE PrimOf(hs[i], T, way)
      OBVIOUS
    <3>1. n - i + 1 \in 1..n /\ n - i + 1 # c /\ hs[i] = gs[n - i + 1]  BY <1>2, <2>3
    <3>2. PrimOf(gs[n - i + 1], T, way)  BY <2>1, <3>1
    <3>. QED  BY <3>1, <3>2
  <2>7. ASSUME NEW i \in 1..n, NEW k \in 1..n, i # d, k # d,
               hs[i].written.at = hs[k].written.at
        PROVE  i = k
    <3>1. PICK x \in 1..n : x = n - i + 1 /\ x # c /\ hs[i] = gs[x]  BY <1>2, <2>3, <2>7
    <3>2. PICK y \in 1..n : y = n - k + 1 /\ y # c /\ hs[k] = gs[y]  BY <1>2, <2>3, <2>7
    <3>3. x = y  BY <2>1, <2>7, <3>1, <3>2
    <3>. QED  BY <1>1, <3>1, <3>2, <3>3
  <2>8. ASSUME NEW q \in DOMAIN T  PROVE \E i \in 1..n : i # d /\ hs[i].written.at = q
    <3>1. PICK x \in 1..n : x # c /\ gs[x].written.at = q  BY <2>1
    <3>2. PICK i \in 1..n : x = n - i + 1
      <4>1. n - x + 1 \in 1..n /\ n - (n - x + 1) + 1 = x  BY <1>1
      <4>. QED  BY <4>1
    <3>3. i # d /\ hs[i] = gs[x]  BY <1>2, <2>3, <3>1, <3>2
    <3>. QED  BY <3>1, <3>3
  <2>9. d \in Nat  BY <1>1, <2>2 DEF d
  <2>10. BranchPart(hs, p, T, way, d)
    BY <1>2, <2>1, <2>4, <2>5, <2>6, <2>7, <2>8 DEF BranchPart
  <2>11. hs \in Parts  BY <1>2, <2>9, <2>10 DEF Parts
  <2>. QED  BY <2>11 DEF hs
<1>. QED  BY <1>3, <1>4 DEF Parts

LEMMA GrownReverse ==
    ASSUME NEW gs \in Grown
    PROVE  Reverse(gs) \in Grown
<1>. DEFINE S == {a \in Seq(Guards) : Reverse(a) \in Grown}
<1>1. <<>> \in S
  <2>1. <<>> \in Seq(Guards)  OBVIOUS
  <2>2. Reverse(<<>>) \in Seq(Guards) /\ Len(Reverse(<<>>)) = 0
    BY <2>1, ReverseIs
  <2>3. Reverse(<<>>) = <<>>  BY <2>2
  <2>. QED  BY <2>1, <2>3, GrownFacts
<1>2. ASSUME NEW a \in S, NEW b \in Parts  PROVE a \o b \in S
  <2>1. a \in Seq(Guards) /\ b \in Seq(Guards) /\ Reverse(a) \in Grown  BY GrownFacts
  <2>2. Reverse(b) \in Grown  BY ReversePart, GrownFacts
  <2>3. Reverse(b) \o Reverse(a) \in Grown  BY <2>1, <2>2, GrownConcat
  <2>4. Reverse(a \o b) = Reverse(b) \o Reverse(a)  BY <2>1, ReverseConcat
  <2>5. a \o b \in Seq(Guards)  BY <2>1, ConcatProperties
  <2>. QED  BY <2>3, <2>4, <2>5
<1>3. S \subseteq Seq(Guards)  OBVIOUS
<1>4. Grown \subseteq S
  <2>. HIDE DEF S
  <2>. QED  BY <1>1, <1>2, <1>3, GrownIsWithin
<1>. QED  BY <1>4

LEMMA UndidPart ==
    ASSUME NEW gs \in Parts, NEW hs \in Seq(Guards), Undid(hs, gs)
    PROVE  hs \in Parts
<1>. DEFINE n == Len(gs)
<1>1. gs \in Seq(Guards) /\ n \in Nat /\ Len(hs) = n  BY DEF Parts, Undid
<1>2. \A i \in 1..n : hs[i].written = gs[i].step /\ SameState(hs[i].step, gs[i].written)
  BY DEF Undid
<1>3. CASE n = 1 /\ FieldOf(gs[1])
  <2>1. 1 \in 1..n  BY <1>3
  <2>2. FieldOf(hs[1])  BY <1>2, <1>3, <2>1 DEF FieldOf, SameState
  <2>. QED  BY <1>1, <1>3, <2>2 DEF Parts
<1>4. ASSUME NEW p \in Paths, NEW T \in Layers, NEW way \in {"up", "down"}, NEW c \in Nat,
             BranchPart(gs, p, T, way, c)
      PROVE  hs \in Parts
  <2>. DEFINE back == IF way = "up" THEN "down" ELSE "up"
  <2>1. /\ Branch(p, T)
        /\ p # <<>> => c \in 1..n /\ ChildOf(gs[c], p, way)
        /\ p = <<>> => c = 0
        /\ \A i \in 1..n : i # c => PrimOf(gs[i], T, way)
        /\ \A i, k \in 1..n :
              i # c /\ k # c /\ gs[i].written.at = gs[k].written.at => i = k
        /\ \A q \in DOMAIN T : \E i \in 1..n : i # c /\ gs[i].written.at = q
    BY <1>4 DEF BranchPart
  <2>2. /\ back \in {"up", "down"}
        /\ way = "up" => back = "down" 
        /\ way = "down" => back = "up"
    OBVIOUS
  <2>. HIDE DEF n, back
  <2>3. ASSUME NEW i \in 1..n, i # c
        PROVE  PrimOf(hs[i], T, back) /\ hs[i].written.at = gs[i].written.at
    <3>1. PrimOf(gs[i], T, way)  BY <2>1, <2>3
    <3>. DEFINE g == gs[i]
                h == hs[i]
    <3>2. h.written = g.step /\ SameState(h.step, g.written)  BY <1>2
    <3>3. /\ g.step.slot = "prim" /\ g.written.slot = "prim" /\ g.step.at = g.written.at
          /\ g.written.at \in DOMAIN T
      BY <3>1 DEF PrimOf
    <3>. HIDE DEF g, h
    <3>4. h.step.slot = "prim" /\ h.step.at = g.written.at /\ h.step.to = g.written.to
      BY <3>2, <3>3 DEF SameState
    <3>5. CASE way = "up"
      <4>1. g.written.to = T[g.written.at] /\ g.step.to = None  BY <3>1, <3>5 DEF PrimOf, g
      <4>2. PrimOf(h, T, "down")  BY <3>2, <3>3, <3>4, <4>1 DEF PrimOf
      <4>. QED  BY <2>2, <3>2, <3>3, <3>5, <4>2 DEF g, h
    <3>6. CASE way = "down"
      <4>1. g.step.to = T[g.written.at] /\ g.written.to = None  BY <3>1, <3>6 DEF PrimOf, g
      <4>2. PrimOf(h, T, "up")  BY <3>2, <3>3, <3>4, <4>1 DEF PrimOf
      <4>. QED  BY <2>2, <3>2, <3>3, <3>6, <4>2 DEF g, h
    <3>. QED  BY <3>5, <3>6
  <2>4. ASSUME p # <<>>  PROVE c \in 1..n /\ ChildOf(hs[c], p, back)
    <3>1. c \in 1..n /\ ChildOf(gs[c], p, way)  BY <2>1, <2>4
    <3>. DEFINE g == gs[c]
                h == hs[c]
    <3>2. h.written = g.step /\ SameState(h.step, g.written)  BY <1>2, <3>1
    <3>3. /\ g.step.slot = "child" /\ g.written.slot = "child"
          /\ g.step.at = Front(p) /\ g.written.at = Front(p)
          /\ g.step.name = Last(p) /\ g.written.name = Last(p)
      BY <3>1 DEF ChildOf
    <3>. HIDE DEF g, h
    <3>4. /\ h.step.slot = "child" /\ h.step.at = Front(p) /\ h.step.name = Last(p)
          /\ h.step.to = None <=> g.written.to = None
      BY <3>2, <3>3 DEF SameState
    <3>5. CASE way = "up"
      <4>1. g.written.to # None /\ g.step.to = None  BY <3>1, <3>5 DEF ChildOf, g
      <4>2. ChildOf(h, p, "down")  BY <3>2, <3>3, <3>4, <4>1 DEF ChildOf
      <4>. QED  BY <2>2, <3>1, <3>5, <4>2 DEF h
    <3>6. CASE way = "down"
      <4>1. g.step.to # None /\ g.written.to = None  BY <3>1, <3>6 DEF ChildOf, g
      <4>2. ChildOf(h, p, "up")  BY <3>2, <3>3, <3>4, <4>1 DEF ChildOf
      <4>. QED  BY <2>2, <3>1, <3>6, <4>2 DEF h
    <3>. QED  BY <3>5, <3>6
  <2>5. \A i, k \in 1..n :
              i # c /\ k # c /\ hs[i].written.at = hs[k].written.at => i = k
    BY <2>1, <2>3
  <2>6. \A q \in DOMAIN T : \E i \in 1..n : i # c /\ hs[i].written.at = q
    <3>. TAKE q \in DOMAIN T
    <3>1. PICK i \in 1..n : i # c /\ gs[i].written.at = q  BY <2>1
    <3>. QED  BY <2>3, <3>1
  <2>7. BranchPart(hs, p, T, back, c)
    BY <1>1, <2>1, <2>3, <2>4, <2>5, <2>6 DEF BranchPart
  <2>. QED  BY <2>2, <2>7 DEF Parts
<1>. QED  BY <1>3, <1>4 DEF Parts

LEMMA GrownUndid ==
    ASSUME NEW gs \in Grown, NEW hs \in Seq(Guards), Undid(hs, gs)
    PROVE  hs \in Grown
<1>. DEFINE S == {a \in Seq(Guards) : \A x \in Seq(Guards) : Undid(x, a) => x \in Grown}
<1>1. <<>> \in S
  <2>1. <<>> \in Seq(Guards) /\ Len(<<>>) = 0  OBVIOUS
  <2>2. \A x \in Seq(Guards) : Len(x) = 0 => x = <<>>  OBVIOUS
  <2>. QED  BY <2>1, <2>2, GrownFacts DEF Undid
<1>2. ASSUME NEW a \in S, NEW b \in Parts  PROVE a \o b \in S
  <2>1. a \in Seq(Guards) /\ b \in Seq(Guards)  BY GrownFacts
  <2>2. /\ a \o b \in Seq(Guards) /\ Len(a \o b) = Len(a) + Len(b)
        /\ Len(a) \in Nat /\ Len(b) \in Nat
        /\ \A i \in 1..Len(a) : (a \o b)[i] = a[i]
        /\ \A i \in 1..Len(b) : (a \o b)[Len(a) + i] = b[i]
    BY <2>1, ConcatIs
  <2>3. ASSUME NEW x \in Seq(Guards), Undid(x, a \o b)  PROVE x \in Grown
    <3>. DEFINE n == Len(a)
                m == Len(b)
                c == a \o b
                y == SubSeq(x, 1, n)
                z == SubSeq(x, n + 1, n + m)
    <3>1. /\ Len(x) = n + m
          /\ \A i \in 1..(n + m) :
                x[i].written = c[i].step /\ SameState(x[i].step, c[i].written)
      BY <2>2, <2>3 DEF Undid
    <3>2. y \in Seq(Guards) /\ Len(y) = n /\ \A i \in 1..n : y[i] = x[i]
      <4>1. \A i \in 1..n : x[i] \in Guards  BY <2>2, <3>1
      <4>2. /\ y \in Seq(Guards) /\ Len(y) = IF 1 <= n THEN n - 1 + 1 ELSE 0
            /\ \A i \in 1..(n - 1 + 1) : y[i] = x[1 + i - 1]
        BY <2>2, <4>1, SubSeqProperties
      <4>3. n - 1 + 1 = n /\ \A i \in 1..n : 1 + i - 1 = i  BY <2>2
      <4>. HIDE DEF y, n
      <4>. QED  BY <2>2, <4>2, <4>3 DEF n
    <3>3. z \in Seq(Guards) /\ Len(z) = m /\ \A i \in 1..m : z[i] = x[n + i]
      <4>1. \A i \in (n + 1)..(n + m) : x[i] \in Guards  BY <2>2, <3>1
      <4>2. n + 1 \in Int /\ n + m \in Int  BY <2>2
      <4>3. /\ z \in Seq(Guards)
            /\ Len(z) = IF n + 1 <= n + m THEN n + m - (n + 1) + 1 ELSE 0
            /\ \A i \in 1..(n + m - (n + 1) + 1) : z[i] = x[n + 1 + i - 1]
        BY <4>1, <4>2, SubSeqProperties
      <4>4. n + m - (n + 1) + 1 = m /\ \A i \in 1..m : n + 1 + i - 1 = n + i  BY <2>2
      <4>. HIDE DEF z, n, m
      <4>. QED  BY <2>2, <4>3, <4>4 DEF n, m
    <3>4. y \o z = x
      <4>1. n \in 0..Len(x) /\ n + m = Len(x)  BY <2>2, <3>1
      <4>2. SubSeq(x, 1, n) \o SubSeq(x, n + 1, Len(x)) = SubSeq(x, 1, Len(x))
        <5>. HIDE DEF n
        <5>1. 1 \in 1..(Len(x) + 1) /\ n \in (1 - 1)..Len(x) /\ Len(x) \in n..Len(x)
          BY <4>1
        <5>. QED  BY <5>1, ConcatAdjacentSubSeq
      <4>. QED  BY <4>1, <4>2, SubSeqFull
    <3>. HIDE DEF y, z, c
    <3>5. Undid(y, a)
      <4>. SUFFICES ASSUME NEW i \in 1..n
           PROVE  y[i].written = a[i].step /\ SameState(y[i].step, a[i].written)
        BY <3>2 DEF Undid
      <4>1. i \in 1..(n + m) /\ c[i] = a[i] /\ y[i] = x[i]  BY <2>2, <3>2 DEF c
      <4>. QED  BY <3>1, <4>1
    <3>6. Undid(z, b)
      <4>. SUFFICES ASSUME NEW i \in 1..m
           PROVE  z[i].written = b[i].step /\ SameState(z[i].step, b[i].written)
        BY <3>3 DEF Undid
      <4>1. PICK k \in Int : k = n + i  BY <2>2
      <4>2. k \in 1..(n + m)  BY <2>2, <4>1
      <4>3. c[k] = b[i] /\ z[i] = x[k]  BY <2>2, <3>3, <4>1 DEF c
      <4>. QED  BY <3>1, <4>2, <4>3
    <3>7. y \in Grown  BY <3>2, <3>5
    <3>8. z \in Parts  BY <3>3, <3>6, UndidPart
    <3>. QED  BY <3>4, <3>7, <3>8, GrownFacts
  <2>. QED  BY <2>2, <2>3
<1>3. S \subseteq Seq(Guards)  OBVIOUS
<1>4. Grown \subseteq S
  <2>. HIDE DEF S
  <2>. QED  BY <1>1, <1>2, <1>3, GrownIsWithin
<1>. QED  BY <1>4

-----------------------------------------------------------------------------
(* What a host may ask for adds whole parts to a journal over a tree.       *)

Growths(l) == {j \in JournalsOver(l) : j.refused = "no" => j.steps \in Grown}

LEMMA GrowthFacts ==
    ASSUME NEW l, NEW j \in Growths(l)
    PROVE  /\ j \in JournalsOver(l) /\ j \in Journals
           /\ j.layer \in Layers /\ j.steps \in Seq(Guards)
           /\ j.refused = "no" => j.steps \in Grown
BY JournalFacts DEF Growths, JournalsOver

LEMMA GrowthIsATree ==
    ASSUME NEW l, Tree(l), NEW j \in Growths(l), j.refused = "no"
    PROVE  Tree(j.layer)
<1>1. PICK at : WentThrough(at, l, j)  BY DEF Growths, JournalsOver
<1>2. /\ at \in [0..Len(j.steps) -> Layers] /\ at[0] = l /\ at[Len(j.steps)] = j.layer
      /\ \A i \in 1..Len(j.steps) : Did(at[i - 1], at[i], j.steps[i])
  BY <1>1 DEF WentThrough
<1>3. Led(at, j.steps)  BY <1>2 DEF Led
<1>4. j.steps \in Grown  BY GrowthFacts
<1>5. Tree(at[Len(j.steps)])  BY <1>2, <1>3, <1>4, GrownKeepsTree
<1>. QED  BY <1>2, <1>5

LEMMA OpenedGrows ==
    ASSUME NEW l \in Layers
    PROVE  Opened(l) \in Growths(l)
BY OpenedIsOver, GrownFacts DEF Growths, Opened

LEMMA RefusedGrows ==
    ASSUME NEW l, NEW j \in Growths(l), NEW why \in Refusals \ {"no"}
    PROVE  Refuse(j, why) \in Growths(l) /\ Refuse(j, why).refused # "no"
<1>1. Refuse(j, why).refused = why  BY GrowthFacts DEF Refuse, Journals
<1>. QED  BY <1>1, GrowthFacts, RefuseIsOver DEF Growths

LEMMA FieldGrows ==
    ASSUME NEW l, NEW j \in Growths(l), NEW s \in FieldSteps
    PROVE  RunStep(j, s) \in Growths(l)
<1>. DEFINE r == RunStep(j, s)
            g == Journalled(j, s)
<1>1. s \in StorageSteps /\ j \in Journals  BY GrowthFacts DEF StorageSteps
<1>2. r \in JournalsOver(l)  BY <1>1, GrowthFacts, RunStepIsOver
<1>. SUFFICES ASSUME r.refused = "no"  PROVE r.steps \in Grown
  BY <1>2 DEF Growths
<1>3. j.refused = "no" /\ r.steps = j.steps \o <<g>> /\ g \in Guards  BY <1>1, RanIs
<1>4. g.written = s /\ g.step = Undoing(j.layer, s) /\ s.slot = "field"
  BY DEF Journalled, FieldSteps
<1>5. g.step.slot = "field"  BY <1>1, <1>4, GrowthFacts DEF Undoing, FieldSteps
<1>. HIDE DEF g, r
<1>6. <<g>> \in Parts
  <2>1. <<g>> \in Seq(Guards) /\ Len(<<g>>) = 1 /\ <<g>>[1] = g  BY <1>3
  <2>. QED  BY <1>4, <1>5, <2>1 DEF Parts, FieldOf
<1>. QED  BY <1>3, <1>6, GrowthFacts, GrownFacts

(* A new spec, as a branch.                                                 *)
Sprout(p) == [q \in {p} |-> [children |-> <<>>, field |-> None]]

LEMMA SproutIs ==
    ASSUME NEW p \in Paths
    PROVE  /\ Sprout(p) \in Layers /\ DOMAIN Sprout(p) = {p} /\ Branch(p, Sprout(p))
           /\ Sprout(p)[p] = [children |-> <<>>, field |-> None]
<1>. DEFINE T == Sprout(p)
<1>1. DOMAIN T = {p} /\ T[p] = [children |-> <<>>, field |-> None]  BY DEF Sprout
<1>2. [children |-> <<>>, field |-> None] \in Specs  BY DEF Specs
<1>3. {p} \in FiniteWays  BY FS_Singleton DEF FiniteWays
<1>4. T \in Layers
  <2>1. T \in [{p} -> Specs]  BY <1>2 DEF Sprout
  <2>. QED  BY <1>3, <2>1, IsALayer
<1>5. p # <<>> => Front(p) # p  BY PathIs, FrontIs
<1>6. ASSUME NEW name \in Names
      PROVE  Times(<<>>, name) = 0 /\ Append(p, name) # p
  <2>1. Times(<<>>, name) = 0
    <3>1. {i \in DOMAIN <<>> : <<>>[i] = name} = {}  OBVIOUS
    <3>. QED  BY <3>1, FS_EmptySet DEF Times
  <2>2. Append(p, name) # p
    <3>1. Len(Append(p, name)) = Len(p) + 1 /\ Len(p) \in Nat  BY PathIs, AppendIs
    <3>. QED  BY <3>1
  <2>. QED  BY <2>1, <2>2
<1>. HIDE DEF T
<1>7. Branch(p, T)
  <2>1. \A name \in Names : Times(T[p].children, name) = 0  BY <1>1, <1>6
  <2>. QED  BY <1>1, <1>5, <1>6, <2>1 DEF Branch
<1>. QED  BY <1>1, <1>4, <1>7 DEF T

LEMMA InsertGrows ==
    ASSUME NEW l \in Layers, Tree(l), NEW j \in Growths(l), NEW p \in Paths,
           j.refused = "no" => ~Has(j.layer, p) /\ (p # <<>> => Has(j.layer, Front(p)))
    PROVE  /\ InsertSpec(j, p) \in Growths(l)
           /\ InsertSpec(j, p).refused = "no" =>
                j.refused = "no" /\ DOMAIN InsertSpec(j, p).layer = DOMAIN j.layer \cup {p}
<1>. DEFINE r == InsertSpec(j, p)
            s1 == PrimSlots(p, [children |-> <<>>, field |-> None])
            stored == RunStep(j, s1)
            g1 == Journalled(j, s1)
            T == Sprout(p)
<1>1. r \in JournalsOver(l) /\ j \in Journals  BY GrowthFacts, InsertSpecIsOver
<1>. SUFFICES ASSUME r.refused = "no"
     PROVE  j.refused = "no" /\ r.steps \in Grown /\ DOMAIN r.layer = DOMAIN j.layer \cup {p}
  BY <1>1 DEF Growths
<1>2. s1 \in PrimSteps /\ s1 \in StorageSteps
  <2>1. [children |-> <<>>, field |-> None] \in Specs  BY DEF Specs
  <2>. QED  BY <2>1 DEF PrimSlots, StorageSteps, PrimSteps
<1>3. stored.refused = "no"  BY DEF InsertSpec, AddChild
<1>4. /\ j.refused = "no" /\ g1 \in Guards
      /\ stored.layer = Written(j.layer, s1) /\ stored.steps = j.steps \o <<g1>>
      /\ Did(j.layer, stored.layer, g1)
  BY <1>1, <1>2, <1>3, RanIs
<1>5. /\ T \in Layers /\ DOMAIN T = {p} /\ Branch(p, T)
      /\ T[p] = [children |-> <<>>, field |-> None]
  BY SproutIs
<1>6. s1.slot = "prim" /\ s1.at = p /\ s1.to = T[p]  BY <1>5 DEF PrimSlots
<1>7. stored \in JournalsOver(l) /\ stored \in Journals
  BY <1>2, GrowthFacts, RunStepIsOver DEF JournalsOver
<1>. HIDE DEF s1, stored, T
<1>8. g1.written = s1 /\ g1.step = Undoing(j.layer, s1)  BY DEF Journalled
<1>9. PrimOf(g1, T, "up")
  <2>1. g1.step = [slot |-> s1.slot, at |-> s1.at, name |-> s1.name, to |-> Held(j.layer, s1)]
    BY <1>2, <1>4, <1>8, GrowthFacts, UndoingIsAStep DEF Did
  <2>2. Held(j.layer, s1) = None  BY <1>4, <1>6 DEF Held, SpecAt
  <2>. QED  BY <1>5, <1>6, <1>8, <2>1, <2>2 DEF PrimOf
<1>. HIDE DEF g1
<1>10. /\ DOMAIN stored.layer = DOMAIN j.layer \cup {p}
       /\ \A q \in DOMAIN j.layer : stored.layer[q] = j.layer[q]
       /\ g1.written.at = p
  <2>1. g1.written.at = p  BY <1>6, <1>8
  <2>2. DOMAIN stored.layer = DOMAIN j.layer \cup {g1.written.at}
    BY <1>4, <1>5, <1>9, GrowthFacts, PrimGoesUp
  <2>3. \A q \in DOMAIN j.layer : stored.layer[q] = j.layer[q]
    BY <1>4, <1>5, <1>9, GrowthFacts, PrimGoesUp
  <2>. QED  BY <2>1, <2>2, <2>3
<1>11. CASE p = <<>>
  <2>1. r = stored  BY <1>11 DEF InsertSpec, stored, s1
  <2>2. <<g1>> \in Parts
    <3>1. <<g1>> \in Seq(Guards) /\ Len(<<g1>>) = 1 /\ <<g1>>[1] = g1 /\ 1..1 = {1}  BY <1>4
    <3>2. BranchPart(<<g1>>, p, T, "up", 0)
      <4>. DEFINE gs == <<g1>>
      <4>1. \A i \in 1..Len(gs) : gs[i] = g1 /\ i = 1  BY <3>1
      <4>2. 1 \in 1..Len(gs) /\ gs[1] = g1  BY <3>1
      <4>. HIDE DEF gs
      <4>3. BranchPart(gs, p, T, "up", 0)
        BY <1>5, <1>9, <1>10, <1>11, <4>1, <4>2 DEF BranchPart
      <4>. QED  BY <4>3 DEF gs
    <3>. QED  BY <1>5, <3>1, <3>2 DEF Parts
  <2>. QED  BY <1>4, <1>10, <2>1, <2>2, GrowthFacts, GrownFacts
<1>12. CASE p # <<>>
  <2>. DEFINE f == Front(p)
              s2 == Child(f, Last(p), Len(ChildrenAt(stored.layer, f)) + 1)
              g2 == Journalled(stored, s2)
  <2>1. r = AddChild(stored, p)  BY <1>12 DEF InsertSpec, stored, s1
  <2>2. /\ f \in Seq(Names) /\ Last(p) \in Names /\ Append(f, Last(p)) = p /\ f # p
        /\ f \in Paths /\ f \in DOMAIN j.layer
    BY <1>4, <1>12, PathIs, FrontIs, NamesOnTheWay DEF Has
  <2>3. stored.layer[f] = j.layer[f]  BY <1>10, <2>2
  <2>4. ~Lists(stored.layer, f, Last(p))
    <3>. DEFINE names == j.layer[f].children
    <3>1. Tree(j.layer)  BY <1>4, GrowthIsATree
    <3>2. Times(names, Last(p)) = IF Append(f, Last(p)) \in DOMAIN j.layer THEN 1 ELSE 0
      BY <2>2, <3>1 DEF Tree
    <3>3. Times(names, Last(p)) = 0  BY <1>4, <2>2, <3>2 DEF Has
    <3>4. names \in Seq(Names)  BY <2>2, GrowthFacts, LayerFacts
    <3>5. ~Contains(names, Last(p))  BY <3>3, <3>4, ListedIfAny
    <3>. QED  BY <1>10, <2>2, <2>3, <3>5 DEF Lists, ChildrenAt, Has
  <2>5. r = RunStep(stored, s2)  BY <1>3, <2>1, <2>4 DEF AddChild
  <2>6. ChildrenAt(stored.layer, f) \in Seq(Names)
    <3>1. stored.layer \in Layers /\ f \in DOMAIN stored.layer
      BY <1>7, <1>10, <2>2, JournalFacts
    <3>. QED  BY <3>1, LayerFacts DEF ChildrenAt, Has
  <2>7. /\ s2 \in ChildSteps /\ s2 \in StorageSteps /\ s2.to # None
        /\ s2.slot = "child" /\ s2.at = f /\ s2.name = Last(p)
    <3>. DEFINE k == Len(ChildrenAt(stored.layer, f)) + 1
    <3>1. k \in Positions
      <4>1. Len(ChildrenAt(stored.layer, f)) \in Nat  BY <2>6
      <4>. QED  BY <4>1 DEF Positions
    <3>. HIDE DEF k, f
    <3>2. Child(f, Last(p), k) \in ChildSteps  BY <2>2, <3>1 DEF Child, ChildSteps
    <3>3. k # None  BY <3>1, SpecsAreNotNone
    <3>. QED  BY <3>2, <3>3 DEF Child, k, StorageSteps
  <2>. HIDE DEF s2
  <2>8. /\ g2 \in Guards /\ r.layer = Written(stored.layer, s2)
        /\ r.steps = stored.steps \o <<g2>> /\ Did(stored.layer, r.layer, g2)
    BY <1>7, <2>5, <2>7, RanIs
  <2>9. g2.written = s2 /\ g2.step = Undoing(stored.layer, s2)  BY DEF Journalled
  <2>. HIDE DEF g2, f
  <2>10. ChildOf(g2, p, "up")
    <3>1. g2.step = [slot |-> s2.slot, at |-> s2.at, name |-> s2.name,
                     to |-> Held(stored.layer, s2)]
      BY <1>7, <2>7, <2>8, <2>9, JournalFacts, UndoingIsAStep DEF Did
    <3>2. Held(stored.layer, s2) = None  BY <2>7 DEF Held
    <3>. QED  BY <2>7, <2>9, <3>1, <3>2 DEF ChildOf, f
  <2>11. DOMAIN r.layer = DOMAIN stored.layer
    BY <1>7, <2>8, <2>10, JournalFacts, ChildGoes
  <2>12. <<g1, g2>> \in Parts
    <3>. DEFINE gs == <<g1, g2>>
    <3>1. gs \in Seq(Guards) /\ Len(gs) = 2 /\ gs[1] = g1 /\ gs[2] = g2  BY <1>4, <2>8
    <3>2. \A i \in 1..Len(gs) : i # 2 => i = 1  BY <3>1
    <3>3. 1 \in 1..Len(gs) /\ 2 \in 1..Len(gs) /\ 1 # 2  BY <3>1
    <3>. HIDE DEF gs
    <3>4. BranchPart(gs, p, T, "up", 2)
      BY <1>5, <1>9, <1>10, <1>12, <2>10, <3>1, <3>2, <3>3 DEF BranchPart
    <3>5. gs \in Parts  BY <1>5, <3>1, <3>4 DEF Parts
    <3>. QED  BY <3>5 DEF gs
  <2>13. r.steps = j.steps \o <<g1, g2>>
    <3>1. <<g1>> \in Seq(Guards) /\ <<g2>> \in Seq(Guards) /\ <<g1>> \o <<g2>> = <<g1, g2>>
      <4>1. <<g1>> \in Seq(Guards) /\ <<g2>> \in Seq(Guards)  BY <1>4, <2>8
      <4>2. Append(<<g1>>, g2) = <<g1>> \o <<g2>>  BY <2>8, <4>1, AppendIsConcat
      <4>. DEFINE a == Append(<<g1>>, g2)
                  b == <<g1, g2>>
      <4>3. a \in Seq(Guards) /\ Len(a) = 2 /\ a[1] = g1 /\ a[2] = g2
        <5>1. Len(<<g1>>) = 1 /\ <<g1>>[1] = g1 /\ 1 + 1 = 2 /\ 1 \in 1..1  OBVIOUS
        <5>. QED  BY <2>8, <4>1, <5>1, AppendProperties
      <4>4. b \in Seq(Guards) /\ Len(b) = 2 /\ b[1] = g1 /\ b[2] = g2  BY <1>4, <2>8
      <4>. HIDE DEF a, b
      <4>5. \A i \in 1..Len(a) : a[i] = b[i]
        <5>1. \A i \in 1..Len(a) : i = 1 \/ i = 2  BY <4>3
        <5>. QED  BY <4>3, <4>4, <5>1
      <4>6. a = b  BY <4>3, <4>4, <4>5, SeqEqual
      <4>. QED  BY <4>1, <4>2, <4>6 DEF a, b
    <3>2. (j.steps \o <<g1>>) \o <<g2>> = j.steps \o (<<g1>> \o <<g2>>)
      BY <3>1, GrowthFacts, ConcatAssociative
    <3>. QED  BY <1>4, <2>8, <3>1, <3>2
  <2>. QED  BY <1>4, <1>10, <2>11, <2>12, <2>13, GrowthFacts, GrownFacts
<1>. QED  BY <1>11, <1>12

(* Where its holder is, and it is not, a spec is inserted.                  *)
LEMMA InsertRuns ==
    ASSUME NEW l, NEW j \in Growths(l), j.refused = "no", NEW p \in Paths,
           p # <<>> => Has(j.layer, Front(p))
    PROVE  InsertSpec(j, p).refused = "no"
<1>. DEFINE s1 == PrimSlots(p, [children |-> <<>>, field |-> None])
            stored == RunStep(j, s1)
            f == Front(p)
            s2 == Child(f, Last(p), Len(ChildrenAt(stored.layer, f)) + 1)
<1>1. j \in JournalsOver(l) /\ j \in Journals  BY GrowthFacts
<1>2. s1 \in StorageSteps /\ s1.slot = "prim" /\ s1.at = p
      /\ s1.to = [children |-> <<>>, field |-> None]
  <2>1. [children |-> <<>>, field |-> None] \in Specs  BY DEF Specs
  <2>. QED  BY <2>1 DEF PrimSlots, StorageSteps, PrimSteps
<1>3. ~Diverged(j.layer, s1)  BY <1>2 DEF Diverged
<1>4. stored.refused = "no" /\ stored.layer = Written(j.layer, s1)
  BY <1>1, <1>2, <1>3, RunStepIs
<1>5. stored \in Journals  BY <1>1, <1>2, RunStepIsOver DEF JournalsOver
<1>6. \A q \in DOMAIN j.layer : q \in DOMAIN stored.layer
  <2>1. s1.to # None
    <3>1. [children |-> <<>>, field |-> None] \in Specs  BY DEF Specs
    <3>. QED  BY <1>2, <3>1, SpecsAreNotNone
  <2>2. stored.layer = Put(j.layer, p, s1.to)  BY <1>2, <1>4 DEF Written
  <2>. HIDE DEF stored, s1
  <2>. QED  BY <2>1, <2>2 DEF Put
<1>7. InsertSpec(j, p) = IF p = <<>> THEN stored ELSE AddChild(stored, p)
  BY DEF InsertSpec
<1>. HIDE DEF stored
<1>8. AddChild(stored, p).refused = "no" \/ p = <<>>
  <2>. SUFFICES ASSUME p # <<>>, ~Lists(stored.layer, f, Last(p))
       PROVE  AddChild(stored, p).refused = "no"
    BY <1>4 DEF AddChild
  <2>1. AddChild(stored, p) = RunStep(stored, s2)  BY <1>4 DEF AddChild
  <2>2. f \in DOMAIN stored.layer /\ f \in Paths /\ Last(p) \in Names
    BY <1>6, NamesOnTheWay DEF Has
  <2>3. stored.layer[f].children \in Seq(Names)  BY <1>5, <2>2, JournalFacts, LayerFacts
  <2>4. Len(ChildrenAt(stored.layer, f)) + 1 \in Positions
    BY <2>2, <2>3 DEF ChildrenAt, Has, Positions
  <2>5. s2 \in StorageSteps /\ s2.slot = "child" /\ s2.at = f /\ s2.to # None
    <3>. DEFINE k == Len(ChildrenAt(stored.layer, f)) + 1
    <3>1. k \in Positions /\ k # None  BY <2>4, SpecsAreNotNone
    <3>. HIDE DEF k, f
    <3>. QED  BY <2>2, <3>1 DEF k, Child, StorageSteps, ChildSteps
  <2>. HIDE DEF s2, f
  <2>6. ~Diverged(stored.layer, s2)  BY <2>2, <2>5 DEF Diverged, Has
  <2>. QED  BY <1>4, <1>5, <2>1, <2>5, <2>6, RunStepIs
<1>. QED  BY <1>4, <1>7, <1>8

LEMMA PrefixIs ==
    ASSUME NEW p \in Paths, NEW i \in 0..Len(p)
    PROVE  /\ SubSeq(p, 1, i) \in Paths /\ Len(SubSeq(p, 1, i)) = i
           /\ i = 0 => SubSeq(p, 1, i) = <<>>
           /\ i > 0 => Front(SubSeq(p, 1, i)) = SubSeq(p, 1, i - 1)
<1>. DEFINE q == SubSeq(p, 1, i)
<1>1. p \in Seq(Names) /\ Len(p) \in Nat  BY PathIs
<1>2. q \in Paths  BY PrefixesArePaths
<1>3. \A x \in 1..i : p[x] \in Names  BY <1>1
<1>4. q \in Seq(Names) /\ Len(q) = i /\ \A x \in 1..i : q[x] = p[x]
  <2>1. /\ q \in Seq(Names) /\ Len(q) = IF 1 <= i THEN i - 1 + 1 ELSE 0
        /\ \A x \in 1..(i - 1 + 1) : q[x] = p[1 + x - 1]
    BY <1>1, <1>3, SubSeqProperties
  <2>2. i - 1 + 1 = i /\ \A x \in 1..i : 1 + x - 1 = x  BY <1>1
  <2>. HIDE DEF q
  <2>. QED  BY <1>1, <2>1, <2>2
<1>5. ASSUME i > 0  PROVE Front(q) = SubSeq(p, 1, i - 1)
  <2>. DEFINE a == SubSeq(q, 1, i - 1)
              b == SubSeq(p, 1, i - 1)
  <2>1. Front(q) = a  BY <1>4 DEF Front
  <2>2. \A x \in 1..(i - 1) : q[x] \in Names /\ p[x] \in Names /\ q[x] = p[x]
    BY <1>3, <1>4
  <2>. HIDE DEF q
  <2>3. /\ a \in Seq(Names) /\ Len(a) = IF 1 <= i - 1 THEN i - 1 - 1 + 1 ELSE 0
        /\ \A x \in 1..(i - 1 - 1 + 1) : a[x] = q[1 + x - 1]
    BY <1>1, <2>2, SubSeqProperties
  <2>4. /\ b \in Seq(Names) /\ Len(b) = IF 1 <= i - 1 THEN i - 1 - 1 + 1 ELSE 0
        /\ \A x \in 1..(i - 1 - 1 + 1) : b[x] = p[1 + x - 1]
    BY <1>1, <2>2, SubSeqProperties
  <2>5. i - 1 - 1 + 1 = i - 1 /\ \A x \in 1..(i - 1) : 1 + x - 1 = x  BY <1>1
  <2>. HIDE DEF a, b
  <2>6. Len(a) = Len(b) /\ Len(a) = i - 1  BY <1>1, <1>5, <2>3, <2>4, <2>5
  <2>7. \A x \in 1..Len(a) : a[x] = b[x]  BY <2>2, <2>3, <2>4, <2>5, <2>6
  <2>8. a = b  BY <2>3, <2>4, <2>6, <2>7, SeqEqual
  <2>. QED  BY <2>1, <2>8 DEF b
<1>6. i = 0 => q = <<>>
  <2>. HIDE DEF q
  <2>. QED  BY <1>4
<1>. QED  BY <1>2, <1>4, <1>5, <1>6

(* The specs missing on the way to p: from depth d on.                      *)
From(w, l, p, d) ==
    /\ d \in 0..(Len(p) + 1) /\ Len(w) = Len(p) + 1 - d
    /\ \A k \in 1..Len(w) : w[k] = SubSeq(p, 1, d + k - 1)
    /\ d > 0 => SubSeq(p, 1, d - 1) \in DOMAIN l
    /\ \A i \in d..Len(p) : SubSeq(p, 1, i) \notin DOMAIN l

LEMMA MissingIs ==
    ASSUME NEW l, NEW p \in Paths
    PROVE  \E d \in Nat : From(Missing(l, p), l, p, d)
<1>. DEFINE n == Len(p) + 1
            way == [i \in 1..n |-> SubSeq(p, 1, i - 1)]
            held == {i \in DOMAIN way : Has(l, way[i])}
            m == IF held = {} THEN 1 ELSE Max(held) + 1
            w == Missing(l, p)
            d == m - 1
<1>1. Len(p) \in Nat /\ n \in Nat  BY PathIs
<1>2. \A i \in 1..n : way[i] = SubSeq(p, 1, i - 1) /\ way[i] \in Paths
  <2>. TAKE i \in 1..n
  <2>1. i - 1 \in 0..Len(p)  BY <1>1
  <2>. QED  BY <2>1, PrefixesArePaths
<1>3. held \in SUBSET (1..n) /\ held = {i \in 1..n : way[i] \in DOMAIN l}  BY DEF Has
<1>. HIDE DEF way
<1>4. /\ m \in 1..(n + 1)
      /\ m > 1 => m - 1 \in held
      /\ \A i \in m..n : i \notin held
  <2>1. CASE held = {}  BY <1>1, <2>1
  <2>2. CASE held # {}
    <3>1. Max(held) \in held /\ \A k \in held : k <= Max(held)
      <4>. HIDE DEF held, n
      <4>. QED  BY <1>1, <1>3, <2>2, GreatestOfNaturals
    <3>2. Max(held) \in 1..n  BY <1>3, <3>1
    <3>. DEFINE x == Max(held)
    <3>3. m = x + 1 /\ x \in 1..n /\ x \in held /\ \A k \in held : k <= x
      BY <2>2, <3>1, <3>2
    <3>. HIDE DEF x, m, held, n
    <3>4. \A i \in m..n : i \notin held  BY <1>1, <3>3
    <3>. QED  BY <1>1, <3>3, <3>4
  <2>. QED  BY <2>1, <2>2
<1>5. Len(way) = n  BY <1>1 DEF way
<1>6. w = SubSeq(way, m, n)  BY <1>5 DEF Missing, way
<1>. HIDE DEF m, w
<1>7. \A i \in m..n : way[i] \in Paths
  <2>. TAKE i \in m..n
  <2>1. i \in 1..n  BY <1>1, <1>4
  <2>. QED  BY <1>2, <2>1
<1>8. /\ w \in Seq(Paths) /\ Len(w) = IF m <= n THEN n - m + 1 ELSE 0
      /\ \A i \in 1..(n - m + 1) : w[i] = way[m + i - 1]
  <2>1. m \in Int /\ n \in Int  BY <1>1, <1>4
  <2>. QED  BY <1>6, <1>7, <2>1, SubSeqProperties
<1>9. Len(w) = n - m + 1 /\ Len(w) = Len(p) + 1 - d /\ d \in 0..(Len(p) + 1)
  BY <1>1, <1>4, <1>8
<1>10. \A k \in 1..Len(w) : w[k] = SubSeq(p, 1, d + k - 1)
  <2>. TAKE k \in 1..Len(w)
  <2>1. PICK i \in Int : i = m + k - 1  BY <1>1, <1>4, <1>9
  <2>2. i \in 1..n /\ i - 1 = d + k - 1  BY <1>1, <1>4, <1>9, <2>1
  <2>3. w[k] = way[i]  BY <1>8, <1>9, <2>1
  <2>4. way[i] = SubSeq(p, 1, i - 1)  BY <1>2, <2>2
  <2>. QED  BY <2>2, <2>3, <2>4
<1>11. d > 0 => SubSeq(p, 1, d - 1) \in DOMAIN l
  <2>. SUFFICES ASSUME d > 0  PROVE SubSeq(p, 1, d - 1) \in DOMAIN l
    OBVIOUS
  <2>1. m - 1 \in held /\ m > 1  BY <1>1, <1>4
  <2>2. d \in 1..n /\ way[d] \in DOMAIN l  BY <1>3, <2>1
  <2>. QED  BY <1>2, <2>2
<1>12. \A i \in d..Len(p) : SubSeq(p, 1, i) \notin DOMAIN l
  <2>. TAKE i \in d..Len(p)
  <2>1. PICK k \in Int : k = i + 1  BY <1>1, <1>4
  <2>2. k \in m..n /\ k \in 1..n /\ k - 1 = i  BY <1>1, <1>4, <2>1
  <2>3. way[k] \notin DOMAIN l  BY <1>3, <1>4, <2>2
  <2>. QED  BY <1>2, <2>2, <2>3
<1>. HIDE DEF n, held
<1>13. From(w, l, p, d)  BY <1>9, <1>10, <1>11, <1>12 DEF From
<1>14. d \in Nat  BY <1>1, <1>4
<1>. QED  BY <1>13, <1>14 DEF w

LEMMA EnsureGrows ==
    ASSUME NEW l \in Layers, Tree(l), NEW j \in Growths(l), j.refused = "no", NEW p \in Paths
    PROVE  /\ Ensure(j, p) \in Growths(l) /\ Ensure(j, p).refused = "no"
           /\ p \in DOMAIN Ensure(j, p).layer
           /\ \A q \in DOMAIN Ensure(j, p).layer :
                   q \in DOMAIN j.layer \/ Len(q) <= Len(p)
<1>. DEFINE D == JournalsOver(l)
            w == Missing(j.layer, p)
            n == Len(w)
            F == [i \in 1..n |-> [x \in D |-> InsertSpec(x, w[i])]]
<1>0. w \in Seq(Paths)  BY MissingArePaths
<1>1. PICK d \in Nat : From(w, j.layer, p, d)  BY MissingIs
<1>. HIDE DEF w
<1>2. n \in Nat /\ (\A i \in 1..n : w[i] \in Paths) /\ Len(p) \in Nat /\ j \in D
  BY <1>0, PathIs, GrowthFacts
<1>3. F \in Moves(n, D)  BY <1>2, InsertSpecIsOver DEF Moves
<1>4. PICK at : IsTrace(at, n, D, j, F)
  <2>. HIDE DEF F, n, D
  <2>. QED  BY <1>2, <1>3, TraceExists
<1>5. at \in [0..n -> D] /\ at[0] = j /\ \A i \in 1..n : at[i] = F[i][at[i - 1]]
  <2>. HIDE DEF F
  <2>. QED  BY <1>4 DEF IsTrace
<1>6. \A i \in 1..n : at[i] = InsertSpec(at[i - 1], w[i])
  <2>. TAKE i \in 1..n
  <2>1. at[i - 1] \in D  BY <1>2, <1>5
  <2>2. at[i] = F[i][at[i - 1]]  BY <1>5
  <2>. QED  BY <2>1, <2>2
<1>7. StartsAt(at, n, j)  BY <1>5 DEF StartsAt
<1>8. Through(InsertSpec, j, w) = at[n]  BY <1>0, <1>6, <1>7, EnsureAlong
<1>9. Ensure(j, p) = at[n]  BY <1>8 DEF Ensure, w
<1>. HIDE DEF F, n
<1>10. /\ d \in 0..(Len(p) + 1) /\ n = Len(p) + 1 - d
       /\ \A k \in 1..n : w[k] = SubSeq(p, 1, d + k - 1)
       /\ d > 0 => SubSeq(p, 1, d - 1) \in DOMAIN j.layer
       /\ \A i \in d..Len(p) : SubSeq(p, 1, i) \notin DOMAIN j.layer
  BY <1>1 DEF From, n
<1>. DEFINE Laid(k) == {SubSeq(p, 1, d + x - 1) : x \in 1..k}
            S == {k \in 0..n : /\ at[k] \in Growths(l) /\ at[k].refused = "no"
                               /\ DOMAIN at[k].layer = DOMAIN j.layer \cup Laid(k)}
<1>11. 0 \in S
  <2>1. Laid(0) = {}
    <3>1. 1..0 = {}  OBVIOUS
    <3>. QED  BY <3>1
  <2>. HIDE DEF Laid
  <2>2. 0 \in 0..n  BY <1>2 DEF n
  <2>. QED  BY <1>5, <2>1, <2>2
<1>12. ASSUME NEW k \in 1..n, k - 1 \in S  PROVE k \in S
  <2>. DEFINE a == at[k - 1]
              q == SubSeq(p, 1, d + k - 1)
  <2>1. n \in Nat /\ k \in 0..n /\ k - 1 \in 0..n  BY <1>2 DEF n
  <2>2. d + k - 1 \in d..Len(p) /\ d + k - 1 \in 0..Len(p)  BY <1>2, <1>10
  <2>3. w[k] = q /\ q \in Paths /\ Len(q) = d + k - 1  BY <1>10, <2>2, PrefixIs
  <2>4. a \in Growths(l) /\ a.refused = "no" /\ DOMAIN a.layer = DOMAIN j.layer \cup Laid(k - 1)
    BY <1>12
  <2>5. Laid(k) = Laid(k - 1) \cup {q}
    <3>1. 1..k = 1..(k - 1) \cup {k}  BY <2>1
    <3>. QED  BY <3>1
  <2>6. q \notin Laid(k - 1)
    <3>. SUFFICES ASSUME NEW x \in 1..(k - 1), q = SubSeq(p, 1, d + x - 1)  PROVE FALSE
      OBVIOUS
    <3>1. d + x - 1 \in 0..Len(p)  BY <1>2, <1>10, <2>1
    <3>2. Len(q) = d + x - 1  BY <3>1, PrefixIs
    <3>. HIDE DEF q
    <3>. QED  BY <1>2, <2>1, <2>3, <3>2
  <2>7. q \notin DOMAIN j.layer  BY <1>10, <2>2
  <2>8. q # <<>> => Front(q) \in DOMAIN j.layer \cup Laid(k - 1)
    <3>. SUFFICES ASSUME q # <<>>  PROVE Front(q) \in DOMAIN j.layer \cup Laid(k - 1)
      OBVIOUS
    <3>1. d + k - 1 > 0
      <4>1. d + k - 1 = 0 => q = <<>>  BY <2>2, PrefixIs
      <4>. HIDE DEF q
      <4>. QED  BY <2>2, <4>1
    <3>2. Front(q) = SubSeq(p, 1, d + k - 1 - 1)  BY <2>2, <3>1, PrefixIs
    <3>3. CASE k = 1
      <4>1. d + k - 1 - 1 = d - 1 /\ d > 0  BY <3>1, <3>3
      <4>. QED  BY <1>10, <3>2, <4>1
    <3>4. CASE k # 1
      <4>1. k - 1 \in 1..(k - 1) /\ d + k - 1 - 1 = d + (k - 1) - 1  BY <2>1, <3>4
      <4>. QED  BY <3>2, <4>1
    <3>. QED  BY <3>3, <3>4
  <2>. HIDE DEF Laid, q, S
  <2>9. a.refused = "no" => ~Has(a.layer, q) /\ (q # <<>> => Has(a.layer, Front(q)))
    BY <2>4, <2>6, <2>7, <2>8 DEF Has
  <2>10. /\ InsertSpec(a, q) \in Growths(l)
         /\ InsertSpec(a, q).refused = "no" =>
              a.refused = "no" /\ DOMAIN InsertSpec(a, q).layer = DOMAIN a.layer \cup {q}
    BY <2>3, <2>4, <2>9, InsertGrows
  <2>11. at[k] = InsertSpec(a, q)  BY <1>6, <2>3 DEF n
  <2>12. at[k].refused = "no"  BY <2>3, <2>4, <2>9, <2>11, InsertRuns
  <2>13. DOMAIN at[k].layer = DOMAIN j.layer \cup Laid(k)
    BY <2>4, <2>5, <2>10, <2>11, <2>12
  <2>. QED  BY <2>1, <2>10, <2>11, <2>12, <2>13 DEF S
<1>13. \A k \in 0..n : k \in S
  <2>. HIDE DEF S
  <2>1. n \in Nat  BY <1>2 DEF n
  <2>. QED  BY <1>11, <1>12, <2>1, Upwards
<1>14. n \in S
  <2>1. n \in 0..n  BY <1>2 DEF n
  <2>. QED  BY <1>13, <2>1
<1>15. at[n] \in Growths(l) /\ at[n].refused = "no" /\ DOMAIN at[n].layer = DOMAIN j.layer \cup Laid(n)
  BY <1>14
<1>16. p \in DOMAIN j.layer \cup Laid(n)
  <2>1. SubSeq(p, 1, Len(p)) = p  BY PathIs, SubSeqFull
  <2>2. CASE n = 0
    <3>1. d > 0 /\ d - 1 = Len(p)  BY <1>2, <1>10, <2>2
    <3>. QED  BY <1>10, <2>1, <3>1
  <2>3. CASE n # 0
    <3>1. n \in 1..n /\ d + n - 1 = Len(p)  BY <1>2, <1>10, <2>3 DEF n
    <3>. QED  BY <2>1, <3>1
  <2>. QED  BY <2>2, <2>3
<1>17. \A q \in Laid(n) : Len(q) <= Len(p)
  <2>. SUFFICES ASSUME NEW x \in 1..n  PROVE Len(SubSeq(p, 1, d + x - 1)) <= Len(p)
    OBVIOUS
  <2>1. d + x - 1 \in 0..Len(p)  BY <1>2, <1>10
  <2>2. Len(SubSeq(p, 1, d + x - 1)) = d + x - 1  BY <2>1, PrefixIs
  <2>. QED  BY <2>1, <2>2
<1>. HIDE DEF Laid
<1>. QED  BY <1>9, <1>15, <1>16, <1>17

LEMMA CreateGrows ==
    ASSUME NEW l \in Layers, Tree(l), NEW j \in Growths(l), j.refused = "no",
           NEW p \in Paths, p # <<>>
    PROVE  /\ CreatePrim(j, p) \in Growths(l)
           /\ CreatePrim(j, p).refused = "no" \/ CreatePrim(j, p) = Refuse(j, "rejected")
<1>1. CASE Has(j.layer, p)
  <2>1. CreatePrim(j, p) = Refuse(j, "rejected")  BY <1>1 DEF CreatePrim
  <2>. QED  BY <2>1, RefusedGrows DEF Refusals
<1>2. CASE ~Has(j.layer, p)
  <2>. DEFINE e == Ensure(j, Front(p))
  <2>1. CreatePrim(j, p) = InsertSpec(e, p)  BY <1>2 DEF CreatePrim
  <2>2. Front(p) \in Paths /\ Len(Front(p)) = Len(p) - 1 /\ Len(p) \in Nat
    BY NamesOnTheWay, PathIs, FrontIs
  <2>3. /\ e \in Growths(l) /\ e.refused = "no"
        /\ Front(p) \in DOMAIN e.layer
        /\ \A q \in DOMAIN e.layer : q \in DOMAIN j.layer \/ Len(q) <= Len(Front(p))
    BY <2>2, EnsureGrows
  <2>. HIDE DEF e
  <2>4. ~(Len(p) <= Len(Front(p)))  BY <2>2
  <2>5. ~Has(e.layer, p) /\ Has(e.layer, Front(p))
    BY <1>2, <2>3, <2>4 DEF Has
  <2>. QED  BY <2>1, <2>3, <2>5, InsertGrows, InsertRuns
<1>. QED  BY <1>1, <1>2

LEMMA SetGrows ==
    ASSUME NEW l \in Layers, Tree(l), NEW j \in Growths(l), j.refused = "no",
           NEW p \in Paths, NEW value \in Values
    PROVE  /\ SetMetadata(j, p, value) \in Growths(l)
           /\ SetMetadata(j, p, value).refused = "no"
<1>. DEFINE e == Ensure(j, p)
            s == Field(p, value)
<1>1. s \in FieldSteps /\ s \in StorageSteps /\ s.at = p /\ s.slot = "field" /\ s.to # None
  BY NoneAssumption DEF Field, FieldSteps, StorageSteps
<1>2. e \in Growths(l) /\ e.refused = "no" /\ p \in DOMAIN e.layer  BY EnsureGrows
<1>3. SetMetadata(j, p, value) = RunStep(e, s)  BY DEF SetMetadata
<1>. HIDE DEF e, s
<1>4. ~Diverged(e.layer, s)  BY <1>1, <1>2 DEF Diverged, Has
<1>5. RunStep(e, s).refused = "no"  BY <1>1, <1>2, <1>4, GrowthFacts, RunStepIs
<1>. QED  BY <1>1, <1>2, <1>3, <1>5, FieldGrows

LEMMA ClearGrows ==
    ASSUME NEW l, NEW j \in Growths(l), j.refused = "no", NEW p \in Paths
    PROVE  /\ ClearMetadata(j, p) \in Growths(l)
           /\ ClearMetadata(j, p).refused = "no"
<1>. DEFINE s == Field(p, None)
<1>1. s \in FieldSteps /\ s \in StorageSteps /\ s.at = p /\ s.slot = "field"
  BY DEF Field, FieldSteps, StorageSteps
<1>2. ClearMetadata(j, p) = IF FieldAt(j.layer, p) = None THEN j ELSE RunStep(j, s)
  BY DEF ClearMetadata
<1>. HIDE DEF s
<1>3. ASSUME FieldAt(j.layer, p) # None  PROVE RunStep(j, s).refused = "no"
  <2>1. Has(j.layer, p)  BY <1>3 DEF FieldAt
  <2>2. ~Diverged(j.layer, s)  BY <1>1, <1>3, <2>1 DEF Diverged
  <2>. QED  BY <1>1, <2>2, GrowthFacts, RunStepIs
<1>. QED  BY <1>1, <1>2, <1>3, FieldGrows

LEMMA StartIs ==
    ASSUME NEW p \in Seq(Names), NEW q \in Seq(Names)
    PROVE  IsPrefix(p, q) <=> Len(p) <= Len(q) /\ \A i \in 1..Len(p) : p[i] = q[i]
<1>. DEFINE n == Len(p)
            a == SubSeq(p, 1, n)
            b == SubSeq(q, 1, n)
<1>1. n \in Nat /\ Len(q) \in Nat  OBVIOUS
<1>. SUFFICES ASSUME n <= Len(q)  PROVE a = b <=> \A i \in 1..n : p[i] = q[i]
  BY DEF IsPrefix
<1>2. \A i \in 1..n : p[i] \in Names /\ q[i] \in Names  BY <1>1
<1>3. /\ a \in Seq(Names) /\ Len(a) = IF 1 <= n THEN n - 1 + 1 ELSE 0
      /\ \A i \in 1..(n - 1 + 1) : a[i] = p[1 + i - 1]
  BY <1>1, <1>2, SubSeqProperties
<1>4. /\ b \in Seq(Names) /\ Len(b) = IF 1 <= n THEN n - 1 + 1 ELSE 0
      /\ \A i \in 1..(n - 1 + 1) : b[i] = q[1 + i - 1]
  BY <1>1, <1>2, SubSeqProperties
<1>5. n - 1 + 1 = n /\ \A i \in 1..n : 1 + i - 1 = i  BY <1>1
<1>. HIDE DEF a, b
<1>6. Len(a) = n /\ Len(b) = n  BY <1>1, <1>3, <1>4, <1>5
<1>7. \A i \in 1..n : a[i] = p[i] /\ b[i] = q[i]  BY <1>3, <1>4, <1>5
<1>8. ASSUME \A i \in 1..n : p[i] = q[i]  PROVE a = b
  <2>1. \A i \in 1..Len(a) : a[i] = b[i]  BY <1>6, <1>7, <1>8
  <2>. QED  BY <1>3, <1>4, <1>6, <2>1, SeqEqual
<1>. QED  BY <1>7, <1>8

(* What is beneath p, and what is not.                                      *)
LEMMA BeneathIs ==
    ASSUME NEW p \in Seq(Names), p # <<>>
    PROVE  /\ IsPrefix(p, p) /\ ~IsPrefix(p, Front(p))
           /\ \A q \in Seq(Names) : IsPrefix(p, q) /\ q # p =>
                q # <<>> /\ IsPrefix(p, Front(q))
           /\ \A q \in Seq(Names), name \in Names : IsPrefix(p, q) =>
                IsPrefix(p, Append(q, name))
<1>. DEFINE n == Len(p)
<1>1. n \in Nat /\ n >= 1 /\ Front(p) \in Seq(Names) /\ Len(Front(p)) = n - 1
  BY FrontIs
<1>2. IsPrefix(p, p)  BY StartIs
<1>3. ~IsPrefix(p, Front(p))
  <2>1. ~(Len(p) <= Len(Front(p)))  BY <1>1
  <2>. QED  BY <1>1, <2>1, StartIs
<1>4. ASSUME NEW q \in Seq(Names), IsPrefix(p, q), q # p
      PROVE  q # <<>> /\ IsPrefix(p, Front(q))
  <2>1. n <= Len(q) /\ (\A i \in 1..n : p[i] = q[i]) /\ Len(q) \in Nat  BY <1>4, StartIs
  <2>2. q # <<>>
    <3>1. Len(<<>>) = 0  OBVIOUS
    <3>. QED  BY <1>1, <2>1, <3>1
  <2>3. n # Len(q)
    <3>1. n = Len(q) => q = p  BY <2>1
    <3>. QED  BY <1>4, <3>1
  <2>4. /\ Front(q) \in Seq(Names) /\ Len(Front(q)) = Len(q) - 1
        /\ \A i \in 1..(Len(q) - 1) : Front(q)[i] = q[i]
    BY <2>1, <2>2, <1>1, FrontElements
  <2>5. n <= Len(q) - 1 /\ \A i \in 1..n : i \in 1..(Len(q) - 1)  BY <1>1, <2>1, <2>3
  <2>6. \A i \in 1..n : p[i] = Front(q)[i]  BY <2>1, <2>4, <2>5
  <2>7. IsPrefix(p, Front(q))  BY <2>4, <2>5, <2>6, StartIs
  <2>. QED  BY <2>2, <2>7
<1>5. ASSUME NEW q \in Seq(Names), NEW name \in Names, IsPrefix(p, q)
      PROVE  IsPrefix(p, Append(q, name))
  <2>. DEFINE r == Append(q, name)
  <2>1. n <= Len(q) /\ (\A i \in 1..n : p[i] = q[i]) /\ Len(q) \in Nat  BY <1>5, StartIs
  <2>2. /\ r \in Seq(Names) /\ Len(r) = Len(q) + 1
        /\ \A i \in 1..Len(q) : r[i] = q[i]
    BY AppendProperties
  <2>. HIDE DEF r
  <2>3. Len(p) <= Len(r) /\ \A i \in 1..n : p[i] = r[i]  BY <1>1, <2>1, <2>2
  <2>4. IsPrefix(p, r)  BY <2>2, <2>3, StartIs
  <2>. QED  BY <2>4 DEF r
<1>. QED  BY <1>2, <1>3, <1>4, <1>5

(* Steps that all ran: what they add to the journal.                        *)
RanTo(gs, at, i, j, now, steps) ==
    /\ gs \in Seq(Guards) /\ Len(gs) = i /\ now.steps = j.steps \o gs
    /\ Led(at, gs) /\ at[0] = j.layer /\ at[i] = now.layer
    /\ \A k \in 1..i : gs[k].written = steps[k]

LEMMA ConcatAppend ==
    ASSUME NEW S, NEW a \in Seq(S), NEW b \in Seq(S), NEW x \in S
    PROVE  (a \o b) \o <<x>> = a \o Append(b, x)
<1>1. <<x>> \in Seq(S)  OBVIOUS
<1>2. (a \o b) \o <<x>> = a \o (b \o <<x>>)  BY <1>1, ConcatAssociative
<1>. QED  BY <1>2, AppendIsConcat

LEMMA RanToNext ==
    ASSUME NEW j \in Journals, NEW now \in Journals, NEW steps \in Seq(StorageSteps),
           NEW i \in 1..Len(steps), NEW gs, NEW at, RanTo(gs, at, i - 1, j, now, steps),
           RunStep(now, steps[i]).refused = "no"
    PROVE  \E hs, there : RanTo(hs, there, i, j, RunStep(now, steps[i]), steps)
<1>. DEFINE s == steps[i]
            g == Journalled(now, s)
            next == RunStep(now, s)
            hs == Append(gs, g)
            there == [k \in 0..i |-> IF k = i THEN next.layer ELSE at[k]]
<1>1. s \in StorageSteps /\ i \in Nat /\ i >= 1 /\ i - 1 \in Nat  OBVIOUS
<1>2. /\ next.layer = Written(now.layer, s) /\ next.steps = now.steps \o <<g>> /\ g \in Guards
      /\ ~Diverged(now.layer, s)
      /\ Did(now.layer, Written(now.layer, s), g) /\ g.written = s
  BY <1>1, RanIs DEF Journalled
<1>3. /\ gs \in Seq(Guards) /\ Len(gs) = i - 1 /\ now.steps = j.steps \o gs
      /\ Led(at, gs) /\ at[0] = j.layer /\ at[i - 1] = now.layer
      /\ \A k \in 1..(i - 1) : gs[k].written = steps[k]
  BY DEF RanTo
<1>4. Written(now.layer, s) \in Layers
  BY <1>1, <1>2, JournalFacts, NotDivergedIsApplicable, WrittenIsALayer
<1>. HIDE DEF g, s, next
<1>5. /\ hs \in Seq(Guards) /\ Len(hs) = i /\ hs[i] = g
      /\ \A k \in 1..(i - 1) : hs[k] = gs[k]
  <2>1. Len(hs) = Len(gs) + 1 /\ hs[Len(gs) + 1] = g  BY <1>2, <1>3, AppendProperties
  <2>2. Len(gs) + 1 = i  BY <1>1, <1>3
  <2>. QED  BY <1>2, <1>3, <2>1, <2>2, AppendProperties
<1>. HIDE DEF hs, there
<1>6. next.steps = j.steps \o hs
  <2>1. gs \in Seq(Guards) /\ g \in Guards /\ j.steps \in Seq(Guards)
    BY <1>2, <1>3, JournalFacts
  <2>2. (j.steps \o gs) \o <<g>> = j.steps \o Append(gs, g)  
    <3>1. \A a, b \in Seq(Guards), x \in Guards : (a \o b) \o <<x>> = a \o Append(b, x)
      BY ConcatAppend
    <3>. QED  BY Zenon, <2>1, <3>1
  <2>3. next.steps = (j.steps \o gs) \o <<g>>  BY <1>2, <1>3
  <2>. QED  BY <2>2, <2>3 DEF hs
<1>7. there[i] = next.layer /\ (\A k \in 0..(i - 1) : there[k] = at[k])  BY <1>1 DEF there
<1>8. there[0] = j.layer
  <2>1. 0 \in 0..(i - 1)  BY <1>1
  <2>. QED  BY <1>3, <1>7, <2>1
<1>9. Led(there, hs)
  <2>1. ASSUME NEW k \in 0..i  PROVE there[k] \in Layers
    <3>1. CASE k = i  BY <1>2, <1>4, <1>7, <3>1
    <3>2. CASE k # i
      <4>1. k \in 0..(i - 1)  BY <1>1, <3>2
      <4>. QED  BY <1>3, <1>7, <4>1 DEF Led
    <3>. QED  BY <3>1, <3>2
  <2>2. ASSUME NEW k \in 1..i  PROVE Did(there[k - 1], there[k], hs[k])
    <3>1. CASE k = i
      <4>1. i - 1 \in 0..(i - 1) /\ k - 1 = i - 1  BY <1>1, <3>1
      <4>2. there[k - 1] = now.layer  BY <1>3, <1>7, <4>1
      <4>3. there[k] = Written(now.layer, s) /\ hs[k] = g  BY <1>2, <1>5, <1>7, <3>1
      <4>. QED  BY <1>2, <4>2, <4>3
    <3>2. CASE k # i
      <4>1. k \in 1..(i - 1) /\ k \in 0..(i - 1) /\ k - 1 \in 0..(i - 1)  BY <1>1, <3>2
      <4>2. Did(at[k - 1], at[k], gs[k])  BY <1>3, <4>1 DEF Led
      <4>. QED  BY <1>5, <1>7, <4>1, <4>2
    <3>. QED  BY <3>1, <3>2
  <2>. QED  BY <1>5, <2>1, <2>2 DEF Led
<1>10. ASSUME NEW k \in 1..i  PROVE hs[k].written = steps[k]
  <2>1. k = i \/ k \in 1..(i - 1)  BY <1>1
  <2>. QED  BY <1>2, <1>3, <1>5, <2>1 DEF s
<1>11. RanTo(hs, there, i, j, next, steps)
  BY <1>5, <1>6, <1>7, <1>8, <1>9, <1>10 DEF RanTo
<1>. QED  BY <1>11 DEF next, s

LEMMA RunAdds ==
    ASSUME NEW l, NEW j \in JournalsOver(l), NEW steps \in Seq(StorageSteps),
           Run(j, steps).refused = "no"
    PROVE  \E gs, at : RanTo(gs, at, Len(steps), j, Run(j, steps), steps)
<1>. DEFINE D == JournalsOver(l)
            n == Len(steps)
            F == [i \in 1..n |-> [x \in D |-> RunStep(x, steps[i])]]
<1>1. n \in Nat /\ \A i \in 1..n : steps[i] \in StorageSteps  OBVIOUS
<1>2. F \in Moves(n, D)  BY <1>1, RunStepIsOver DEF Moves
<1>3. PICK tr : IsTrace(tr, n, D, j, F)
  <2>. HIDE DEF F, n, D
  <2>1. n \in Nat  BY <1>1
  <2>2. j \in D  BY DEF D
  <2>. QED  BY <1>2, <2>1, <2>2, TraceExists
<1>4. tr \in [0..n -> D] /\ tr[0] = j /\ \A i \in 1..n : tr[i] = F[i][tr[i - 1]]
  <2>. HIDE DEF F
  <2>. QED  BY <1>3 DEF IsTrace
<1>5. \A i \in 1..n : tr[i] = RunStep(tr[i - 1], steps[i])
  <2>. TAKE i \in 1..n
  <2>1. tr[i - 1] \in D  BY <1>1, <1>4
  <2>2. tr[i] = F[i][tr[i - 1]]  BY <1>4
  <2>. QED  BY <2>1, <2>2
<1>6. StartsAt(tr, n, j)  BY <1>4 DEF StartsAt
<1>7. Run(j, steps) = tr[n]  BY <1>5, <1>6, RunAlong
<1>. HIDE DEF F
<1>8. \A i \in 0..n : tr[i] \in Journals  BY <1>4 DEF JournalsOver
<1>9. j \in Journals /\ j.steps \in Seq(Guards) /\ j.layer \in Layers
  BY JournalFacts DEF JournalsOver
<1>. DEFINE S == {i \in 0..n : tr[i].refused = "no" =>
                    \E gs, at : RanTo(gs, at, i, j, tr[i], steps)}
<1>10. 0 \in S
  <2>. DEFINE at == [i \in 0..0 |-> j.layer]
  <2>1. <<>> \in Seq(Guards) /\ Len(<<>>) = 0 /\ 1..0 = {} /\ 0 \in 0..n  BY <1>1
  <2>2. at[0] = j.layer /\ \A i \in 0..0 : at[i] \in Layers  BY <1>9
  <2>3. j.steps \o <<>> = j.steps  BY <1>9, ConcatEmptySeq
  <2>. HIDE DEF at, n
  <2>4. Led(at, <<>>)  BY <2>1, <2>2 DEF Led
  <2>5. RanTo(<<>>, at, 0, j, tr[0], steps)  BY <1>4, <2>1, <2>2, <2>3, <2>4 DEF RanTo
  <2>. QED  BY <2>1, <2>5
<1>11. ASSUME NEW i \in 1..n, i - 1 \in S  PROVE i \in S
  <2>1. i \in 0..n /\ i - 1 \in 0..n  BY <1>1
  <2>. SUFFICES ASSUME tr[i].refused = "no"
       PROVE  \E gs, at : RanTo(gs, at, i, j, tr[i], steps)
    BY <2>1
  <2>2. tr[i] = RunStep(tr[i - 1], steps[i])  BY <1>5
  <2>3. tr[i - 1].refused = "no"  BY <1>1, <1>8, <2>1, <2>2, RanIs
  <2>4. PICK gs, at : RanTo(gs, at, i - 1, j, tr[i - 1], steps)  BY <1>11, <2>3
  <2>. QED  BY <1>8, <1>9, <2>1, <2>2, <2>4, RanToNext
<1>12. \A i \in 0..n : i \in S
  <2>. HIDE DEF S
  <2>1. n \in Nat  BY <1>1
  <2>. QED  BY <1>10, <1>11, <2>1, Upwards
<1>13. n \in S
  <2>1. n \in 0..n  BY <1>1
  <2>. QED  BY <1>12, <2>1
<1>. QED  BY <1>7, <1>13

(* Steps that all run: specs taken away elsewhere, then a name off the list *)
(* of p that has it.                                                        *)
LEMMA RunsThrough ==
    ASSUME NEW l, NEW j \in JournalsOver(l), j.refused = "no", NEW n \in Nat,
           NEW steps \in Seq(StorageSteps), Len(steps) = n + 1, NEW p, NEW name,
           \A i \in 1..n : steps[i].slot = "prim" /\ steps[i].at # p,
           steps[n + 1] = Child(p, name, None), Lists(j.layer, p, name)
    PROVE  Run(j, steps).refused = "no"
<1>. DEFINE D == JournalsOver(l)
            m == n + 1
            F == [i \in 1..m |-> [x \in D |-> RunStep(x, steps[i])]]
<1>1. m \in Nat /\ \A i \in 1..m : steps[i] \in StorageSteps  OBVIOUS
<1>2. F \in Moves(m, D)  BY <1>1, RunStepIsOver DEF Moves
<1>3. PICK tr : IsTrace(tr, m, D, j, F)
  <2>. HIDE DEF F, m, D
  <2>1. j \in D  BY DEF D
  <2>. QED  BY <1>1, <1>2, <2>1, TraceExists
<1>4. tr \in [0..m -> D] /\ tr[0] = j /\ \A i \in 1..m : tr[i] = F[i][tr[i - 1]]
  <2>. HIDE DEF F
  <2>. QED  BY <1>3 DEF IsTrace
<1>5. \A i \in 1..m : tr[i] = RunStep(tr[i - 1], steps[i])
  <2>. TAKE i \in 1..m
  <2>1. tr[i - 1] \in D  BY <1>1, <1>4
  <2>2. tr[i] = F[i][tr[i - 1]]  BY <1>4
  <2>. QED  BY <2>1, <2>2
<1>6. StartsAt(tr, m, j)  BY <1>4 DEF StartsAt
<1>7. Run(j, steps) = tr[m]  BY <1>5, <1>6, RunAlong
<1>. HIDE DEF F
<1>8. \A i \in 0..m : tr[i] \in Journals  BY <1>4 DEF JournalsOver
<1>. DEFINE Fit(x) == x.refused = "no" /\ Lists(x.layer, p, name)
            S == {i \in 0..n : Fit(tr[i])}
<1>9. 0 \in S  BY <1>4
<1>10. ASSUME NEW i \in 1..n, i - 1 \in S  PROVE i \in S
  <2>. DEFINE x == tr[i - 1]
              s == steps[i]
  <2>1. i \in 1..m /\ i \in 0..n /\ i - 1 \in 0..m  OBVIOUS
  <2>2. x \in Journals /\ s \in StorageSteps /\ tr[i] = RunStep(x, s)
    BY <1>1, <1>5, <1>8, <2>1
  <2>3. s.slot = "prim" /\ s.at # p /\ Fit(x)  BY <1>10
  <2>. HIDE DEF x, s
  <2>4. ~Diverged(x.layer, s)  BY <2>3 DEF Diverged
  <2>5. tr[i].refused = "no" /\ tr[i].layer = Put(x.layer, s.at, s.to)
    <3>1. RunStep(x, s) = [layer |-> Written(x.layer, s),
                           steps |-> Append(x.steps, Journalled(x, s)), refused |-> "no"]
      BY <2>2, <2>3, <2>4, RunStepIs
    <3>2. Written(x.layer, s) = Put(x.layer, s.at, s.to)  BY <2>3 DEF Written
    <3>3. RunStep(x, s).refused = "no" /\ RunStep(x, s).layer = Written(x.layer, s)
      BY <3>1
    <3>. QED  BY <2>2, <3>2, <3>3
  <2>6. ChildrenAt(tr[i].layer, p) = ChildrenAt(x.layer, p)
    <3>1. CASE s.to = None  BY <2>3, <2>5, <3>1 DEF Put, ChildrenAt, Has
    <3>2. CASE s.to # None  BY <2>3, <2>5, <3>2 DEF Put, ChildrenAt, Has
    <3>. QED  BY <3>1, <3>2
  <2>7. Lists(tr[i].layer, p, name)  BY <2>3, <2>6 DEF Lists
  <2>. QED  BY <2>1, <2>5, <2>7
<1>11. \A i \in 0..n : i \in S
  <2>. HIDE DEF S
  <2>. QED  BY <1>9, <1>10, Upwards
<1>12. Fit(tr[n])
  <2>1. n \in S  BY <1>11
  <2>. QED  BY <2>1
<1>13. tr[m] = RunStep(tr[n], Child(p, name, None)) /\ Child(p, name, None) \in StorageSteps
  <2>1. m \in 1..m /\ m - 1 = n  OBVIOUS
  <2>2. tr[m] = RunStep(tr[m - 1], steps[m])  BY <1>5, <2>1
  <2>. QED  BY <1>1, <2>1, <2>2
<1>14. ~Diverged(tr[n].layer, Child(p, name, None))
  <2>1. Has(tr[n].layer, p)
    <3>. SUFFICES ASSUME ~Has(tr[n].layer, p)  PROVE FALSE
      OBVIOUS
    <3>1. Contains(<<>>, name)  BY <1>12 DEF Lists, ChildrenAt
    <3>. QED  BY <3>1 DEF Contains
  <2>. QED  BY <1>12, <2>1 DEF Diverged, Child
<1>15. tr[n] \in Journals
  <2>1. n \in 0..m  OBVIOUS
  <2>. QED  BY <1>8, <2>1
<1>16. tr[m].refused = "no"  BY <1>12, <1>13, <1>14, <1>15, RunStepIs
<1>. QED  BY <1>7, <1>16

(* The branch under p.                                                      *)
Beneath(l, p) == {q \in DOMAIN l : IsPrefix(p, q)}
Cut(l, p) == [q \in Beneath(l, p) |-> l[q]]

LEMMA CutIs ==
    ASSUME NEW l \in Layers, Tree(l), NEW p \in Paths, p # <<>>, p \in DOMAIN l
    PROVE  /\ Cut(l, p) \in Layers /\ DOMAIN Cut(l, p) = Beneath(l, p)
           /\ \A q \in Beneath(l, p) : q \in DOMAIN l /\ Cut(l, p)[q] = l[q]
           /\ IsFiniteSet(Beneath(l, p)) /\ Beneath(l, p) \subseteq Paths
           /\ Branch(p, Cut(l, p))
<1>. DEFINE S == Beneath(l, p)
            T == Cut(l, p)
<1>1. l \in [DOMAIN l -> Specs] /\ DOMAIN l \subseteq Paths /\ IsFiniteSet(DOMAIN l)
  BY LayerFacts
<1>2. S \subseteq DOMAIN l /\ \A q \in DOMAIN l : q \in S <=> IsPrefix(p, q)
  BY DEF Beneath
<1>3. DOMAIN T = S /\ \A q \in S : T[q] = l[q]  BY DEF Cut
<1>. HIDE DEF S
<1>4. IsFiniteSet(S) /\ S \subseteq Paths /\ S \in FiniteWays
  <2>1. IsFiniteSet(S)  BY <1>1, <1>2, FS_Subset
  <2>. QED  BY <1>1, <1>2, <2>1 DEF FiniteWays
<1>5. T \in Layers
  <2>1. T \in [S -> Specs]  BY <1>1, <1>2 DEF Cut, S
  <2>. QED  BY <1>4, <2>1, IsALayer
<1>. HIDE DEF T
<1>6. p \in Seq(Names) /\ \A q \in S : q \in Seq(Names)  BY <1>4, PathIs
<1>7. /\ IsPrefix(p, p) /\ ~IsPrefix(p, Front(p))
      /\ \A q \in Seq(Names) : IsPrefix(p, q) /\ q # p =>
              q # <<>> /\ IsPrefix(p, Front(q))
      /\ \A q \in Seq(Names), name \in Names : IsPrefix(p, q) =>
              IsPrefix(p, Append(q, name))
  BY <1>6, BeneathIs
<1>8. p \in DOMAIN T  BY <1>2, <1>3, <1>7
<1>9. Front(p) \notin DOMAIN T  BY <1>2, <1>3, <1>7
<1>10. ASSUME NEW q \in S, q # p  PROVE q # <<>> /\ Front(q) \in S
  <2>1. IsPrefix(p, q) /\ q \in DOMAIN l  BY <1>2
  <2>2. q # <<>> /\ IsPrefix(p, Front(q))  BY <1>6, <1>7, <1>10, <2>1
  <2>3. Front(q) \in DOMAIN l  BY <2>1, <2>2 DEF Tree
  <2>. QED  BY <1>2, <2>2, <2>3
<1>11. ASSUME NEW q \in S, NEW name \in Names
       PROVE  Times(T[q].children, name) = IF Append(q, name) \in S THEN 1 ELSE 0
  <2>1. IsPrefix(p, q) /\ q \in DOMAIN l  BY <1>2
  <2>2. IsPrefix(p, Append(q, name))  BY <1>6, <1>7, <2>1
  <2>3. Append(q, name) \in S <=> Append(q, name) \in DOMAIN l  BY <1>2, <2>2
  <2>4. Times(l[q].children, name) = IF Append(q, name) \in DOMAIN l THEN 1 ELSE 0
    BY <2>1 DEF Tree
  <2>. QED  BY <1>3, <2>3, <2>4
<1>12. Branch(p, T)  BY <1>3, <1>8, <1>9, <1>10, <1>11 DEF Branch
<1>. QED  BY <1>2, <1>3, <1>4, <1>5, <1>12 DEF S, T

(* The steps of gs remove the n specs beneath p, each once, then the name.  *)
Cuts(gs, at, n, names, l, p) ==
    /\ gs \in Seq(Guards) /\ Led(at, gs) /\ at[0] = l /\ Len(gs) = n + 1
    /\ \A i \in 1..n : names[i] \in Beneath(l, p)
    /\ \A i, k \in 1..n : names[i] = names[k] => i = k
    /\ \A q \in Beneath(l, p) : \E i \in 1..n : names[i] = q
    /\ \A i \in 1..n : gs[i].written = PrimSlots(names[i], None)
    /\ gs[n + 1].written = Child(Front(p), Last(p), None)

LEMMA CuttingIsAPart ==
    ASSUME NEW l \in Layers, Tree(l), NEW p \in Paths, p # <<>>, p \in DOMAIN l,
           NEW n \in Nat, NEW names, NEW gs, NEW at, Cuts(gs, at, n, names, l, p)
    PROVE  gs \in Parts
<1>. SUFFICES ASSUME gs \in Seq(Guards), Led(at, gs), at[0] = l, Len(gs) = n + 1,
                     \A i \in 1..n : names[i] \in Beneath(l, p),
                     \A i, k \in 1..n : names[i] = names[k] => i = k,
                     \A q \in Beneath(l, p) : \E i \in 1..n : names[i] = q,
                     \A i \in 1..n : gs[i].written = PrimSlots(names[i], None),
                     gs[n + 1].written = Child(Front(p), Last(p), None)
     PROVE  gs \in Parts
  BY DEF Cuts
<1>. DEFINE T == Cut(l, p)
            c == n + 1
<1>1. /\ T \in Layers /\ DOMAIN T = Beneath(l, p) /\ Branch(p, T)
      /\ \A q \in Beneath(l, p) : q \in DOMAIN l /\ T[q] = l[q]
      /\ Beneath(l, p) \subseteq Paths
  BY CutIs
<1>. HIDE DEF T
<1>2. c \in Nat /\ c \in 1..Len(gs) /\ \A i \in 1..Len(gs) : i # c => i \in 1..n
  OBVIOUS
<1>3. ASSUME NEW i \in 1..n
      PROVE  /\ gs[i].written.slot = "prim" /\ gs[i].written.at = names[i]
             /\ gs[i].written.to = None
  <2>. DEFINE w == gs[i].written
              q == names[i]
  <2>1. w = PrimSlots(q, None)  OBVIOUS
  <2>2. \A r : PrimSlots(r, None) = [slot |-> "prim", at |-> r, name |-> None, to |-> None]
    BY DEF PrimSlots
  <2>. HIDE DEF w, q
  <2>3. w.slot = "prim" /\ w.at = q /\ w.to = None  BY <2>1, <2>2
  <2>. QED  BY <2>3 DEF w, q
<1>4. ASSUME NEW i \in 1..n
      PROVE  /\ at[i - 1] \in Layers /\ Did(at[i - 1], at[i], gs[i])
             /\ gs[i] \in Guards /\ gs[i].written \in PrimSteps
  <2>1. i \in 1..Len(gs) /\ i - 1 \in 0..Len(gs)  OBVIOUS
  <2>2. gs[i] \in Guards  BY <2>1
  <2>3. gs[i].written \in StorageSteps  BY <2>2 DEF Guards
  <2>4. gs[i].written \in PrimSteps  BY <1>3, <2>3, KindsOfSteps
  <2>. QED  BY <2>1, <2>2, <2>4 DEF Led
<1>. DEFINE Off(i) == {names[k] : k \in 1..i}
            S == {i \in 0..n : /\ DOMAIN at[i] = DOMAIN l \ Off(i)
                               /\ \A q \in DOMAIN at[i] : at[i][q] = l[q]}
<1>5. 0 \in S
  <2>1. Off(0) = {}
    <3>1. 1..0 = {}  OBVIOUS
    <3>. QED  BY <3>1
  <2>. HIDE DEF Off
  <2>. QED  BY <2>1
<1>6. ASSUME NEW i \in 1..n, i - 1 \in S  PROVE i \in S
  <2>1. i \in 0..n /\ i - 1 \in 0..n  OBVIOUS
  <2>2. Off(i) = Off(i - 1) \cup {names[i]}
    <3>1. 1..i = 1..(i - 1) \cup {i}  OBVIOUS
    <3>. QED  BY <3>1
  <2>3. /\ DOMAIN at[i - 1] = DOMAIN l \ Off(i - 1)
        /\ \A q \in DOMAIN at[i - 1] : at[i - 1][q] = l[q]
    BY <1>6
  <2>. HIDE DEF Off
  <2>. DEFINE s == gs[i].written
              before == at[i - 1]
  <2>4. before \in Layers /\ s \in PrimSteps /\ s.to = None /\ s.at = names[i]
        /\ at[i] = Written(before, s)
    BY <1>3, <1>4 DEF Did
  <2>. HIDE DEF s, before
  <2>5. Written(before, s) = [q \in DOMAIN before \ {s.at} |-> before[q]]
    BY <2>4, PrimWritten
  <2>6. DOMAIN at[i] = DOMAIN before \ {names[i]} /\ \A q \in DOMAIN at[i] : at[i][q] = before[q]
    BY <2>4, <2>5
  <2>7. DOMAIN at[i] = DOMAIN l \ Off(i) /\ \A q \in DOMAIN at[i] : at[i][q] = l[q]
    BY <2>2, <2>3, <2>6 DEF before
  <2>. QED  BY <2>1, <2>7
<1>7. \A i \in 0..n : i \in S
  <2>. HIDE DEF S
  <2>. QED  BY <1>5, <1>6, Upwards
<1>8. ASSUME NEW i \in 1..n  PROVE PrimOf(gs[i], T, "down")
  <2>1. i - 1 \in 0..n  OBVIOUS
  <2>2. /\ DOMAIN at[i - 1] = DOMAIN l \ Off(i - 1)
        /\ \A q \in DOMAIN at[i - 1] : at[i - 1][q] = l[q]
    BY <1>7, <2>1
  <2>3. names[i] \notin Off(i - 1)
    <3>. SUFFICES ASSUME NEW k \in 1..(i - 1), names[i] = names[k]  PROVE FALSE
      OBVIOUS
    <3>1. k \in 1..n /\ k # i  OBVIOUS
    <3>. QED  BY <3>1
  <2>. HIDE DEF Off, S
  <2>4. names[i] \in DOMAIN at[i - 1] /\ at[i - 1][names[i]] = T[names[i]]
    <3>1. names[i] \in DOMAIN l /\ T[names[i]] = l[names[i]]  BY <1>1
    <3>. QED  BY <2>2, <2>3, <3>1
  <2>. DEFINE s == gs[i].written
              before == at[i - 1]
  <2>5. before \in Layers /\ s \in StorageSteps /\ Applicable(before, s)
        /\ gs[i].step = Undoing(before, s)
    BY <1>4 DEF Did, StorageSteps
  <2>6. s.slot = "prim" /\ s.at = names[i] /\ s.to = None  BY <1>3
  <2>7. names[i] \in DOMAIN before /\ before[names[i]] = T[names[i]]  BY <2>4
  <2>. HIDE DEF s, before
  <2>8. gs[i].step = [slot |-> s.slot, at |-> s.at, name |-> s.name, to |-> Held(before, s)]
    BY <2>5, UndoingIsAStep
  <2>9. Held(before, s) = T[names[i]]  BY <2>6, <2>7 DEF Held, SpecAt, Has
  <2>10. names[i] \in DOMAIN T  BY <1>1
  <2>11. gs[i].written = s  BY DEF s
  <2>. QED  BY <2>6, <2>8, <2>9, <2>10, <2>11 DEF PrimOf
<1>9. ChildOf(gs[c], p, "down")
  <2>. DEFINE s == gs[c].written
              before == at[n]
  <2>1. n \in 0..Len(gs) /\ c - 1 = n /\ gs[c] \in Guards  BY <1>2
  <2>2. before \in Layers /\ Did(before, at[c], gs[c])  BY <1>2, <2>1 DEF Led
  <2>3. s.slot = "child" /\ s.at = Front(p) /\ s.name = Last(p) /\ s.to = None
    BY DEF Child
  <2>4. s \in StorageSteps  BY <2>1 DEF Guards
  <2>5. Applicable(before, s) /\ gs[c].step = Undoing(before, s)  BY <2>2 DEF Did
  <2>6. gs[c].written = s  OBVIOUS
  <2>. HIDE DEF s, before, c
  <2>7. s \in ChildSteps  BY <2>3, <2>4, KindsOfSteps
  <2>8. gs[c].step = [slot |-> s.slot, at |-> s.at, name |-> s.name, to |-> Held(before, s)]
    BY <2>2, <2>4, <2>5, UndoingIsAStep
  <2>9. Held(before, s) # None  BY <2>2, <2>3, <2>5, <2>7, UnlistingHolds
  <2>. QED  BY <2>3, <2>6, <2>8, <2>9 DEF ChildOf
<1>. HIDE DEF S, Off, c
<1>10. \A i \in 1..Len(gs) : i # c => PrimOf(gs[i], T, "down")  BY <1>2, <1>8
<1>11. \A i, k \in 1..Len(gs) :
          i # c /\ k # c /\ gs[i].written.at = gs[k].written.at => i = k
  BY <1>2, <1>3
<1>12. \A q \in DOMAIN T : \E i \in 1..Len(gs) : i # c /\ gs[i].written.at = q
  <2>. SUFFICES ASSUME NEW q \in Beneath(l, p)
       PROVE  \E i \in 1..Len(gs) : i # c /\ gs[i].written.at = q
    BY <1>1
  <2>1. PICK i \in 1..n : names[i] = q  OBVIOUS
  <2>2. i \in 1..Len(gs) /\ i # c  BY DEF c
  <2>. QED  BY <1>3, <2>1, <2>2
<1>13. BranchPart(gs, p, T, "down", c)
  BY <1>1, <1>2, <1>9, <1>10, <1>11, <1>12 DEF BranchPart
<1>. QED  BY <1>1, <1>2, <1>13 DEF Parts

LEMMA RemoveGrows ==
    ASSUME NEW l \in Layers, Tree(l), NEW j \in Growths(l), j.refused = "no",
           NEW p \in Paths, p # <<>>
    PROVE  /\ RemoveSpec(j, p) \in Growths(l)
           /\ RemoveSpec(j, p).refused = "no"
<1>. DEFINE now == j.layer
            b == SetToSeq(Beneath(now, p))
            n == Len(b)
            gone == [i \in DOMAIN b |-> PrimSlots(b[i], None)]
            last == Child(Front(p), Last(p), None)
            steps == gone \o <<last>>
            r == RemoveSpec(j, p)
<1>1. now \in Layers /\ Tree(now) /\ j \in JournalsOver(l) /\ j \in Journals
  BY GrowthFacts, GrowthIsATree
<1>2. r \in JournalsOver(l)  BY <1>1, RemoveSpecIsOver
<1>. SUFFICES ASSUME p \in DOMAIN now
     PROVE  r.refused = "no" /\ (r.refused = "no" => r.steps \in Grown)
  BY <1>2, GrowthFacts DEF Growths, RemoveSpec, Has
<1>3. Lists(now, Front(p), Last(p))
  <2>1. Last(p) \in Names /\ Append(Front(p), Last(p)) = p  BY PathIs, FrontIs
  <2>2. Front(p) \in DOMAIN now  BY <1>1 DEF Tree
  <2>3. now[Front(p)].children \in Seq(Names)  BY <1>1, <2>2, LayerFacts
  <2>4. Times(now[Front(p)].children, Last(p)) = 1  BY <1>1, <2>1, <2>2 DEF Tree
  <2>5. Contains(now[Front(p)].children, Last(p))  BY <2>3, <2>4, ListedIfAny
  <2>. QED  BY <2>2, <2>5 DEF Lists, ChildrenAt, Has
<1>4. r = Run(j, steps)  BY <1>3 DEF RemoveSpec, Beneath, Has
<1>5. IsFiniteSet(Beneath(now, p)) /\ Beneath(now, p) \subseteq Paths  BY <1>1, CutIs
<1>6. /\ b \in Seq(Beneath(now, p)) /\ n \in Nat /\ DOMAIN b = 1..n
      /\ \A i, k \in 1..n : b[i] = b[k] => i = k
      /\ \A q \in Beneath(now, p) : \E i \in 1..n : b[i] = q
  BY <1>5, ListingEach
<1>. HIDE DEF b, now
<1>7. \A i \in 1..n : b[i] \in Beneath(now, p) /\ b[i] \in Paths  BY <1>5, <1>6
<1>8. gone \in Seq(StorageSteps) /\ Len(gone) = n /\ \A i \in 1..n : gone[i] = PrimSlots(b[i], None)
  <2>1. \A q \in Paths : PrimSlots(q, None) \in StorageSteps
    BY DEF PrimSlots, StorageSteps, PrimSteps
  <2>2. gone \in [1..n -> StorageSteps]  BY <1>6, <1>7, <2>1
  <2>3. \A i \in 1..n : gone[i] = PrimSlots(b[i], None)  BY <1>6
  <2>. HIDE DEF gone
  <2>. QED  BY <1>6, <2>2, <2>3
<1>9. last \in StorageSteps
  BY NamesOnTheWay DEF Child, StorageSteps, ChildSteps
<1>. HIDE DEF gone, last
<1>10. /\ steps \in Seq(StorageSteps) /\ Len(steps) = n + 1 /\ steps[n + 1] = last
       /\ \A i \in 1..n : steps[i] = PrimSlots(b[i], None)
  <2>. DEFINE a == Append(gone, last)
  <2>1. a = steps  BY <1>8, <1>9, AppendIsConcat
  <2>2. a \in Seq(StorageSteps) /\ Len(a) = Len(gone) + 1 /\ a[Len(gone) + 1] = last
        /\ \A i \in 1..Len(gone) : a[i] = gone[i]
    BY <1>8, <1>9, AppendProperties
  <2>. HIDE DEF a, steps
  <2>. QED  BY <1>8, <2>1, <2>2
<1>. HIDE DEF steps, r
<1>14. r.refused = "no"
  <2>1. last = Child(Front(p), Last(p), None)  BY DEF last
  <2>2. Lists(j.layer, Front(p), Last(p))  BY <1>3 DEF now
  <2>3. \A i \in 1..n : steps[i].slot = "prim" /\ steps[i].at # Front(p)
    <3>. TAKE i \in 1..n
    <3>1. IsPrefix(p, b[i])  BY <1>7 DEF Beneath
    <3>2. b[i] # Front(p)  BY <3>1, PathIs, BeneathIs
    <3>3. steps[i] = PrimSlots(b[i], None)  BY <1>10
    <3>. QED  BY <3>2, <3>3 DEF PrimSlots
  <2>4. n \in Nat  BY <1>6
  <2>. HIDE DEF n
  <2>. QED  BY <1>1, <1>4, <1>10, <2>1, <2>2, <2>3, <2>4, RunsThrough
<1>. SUFFICES r.steps \in Grown
  BY <1>14
<1>11. PICK gs, at : RanTo(gs, at, n + 1, j, r, steps)
  BY <1>1, <1>4, <1>10, <1>14, RunAdds
<1>12. /\ gs \in Seq(Guards) /\ Len(gs) = n + 1 /\ r.steps = j.steps \o gs
       /\ Led(at, gs) /\ at[0] = now
       /\ \A i \in 1..(n + 1) : gs[i].written = steps[i]
  BY <1>11 DEF RanTo, now
<1>13. gs \in Parts
  <2>1. \A i \in 1..n : gs[i].written = PrimSlots(b[i], None)
    <3>1. \A i \in 1..n : i \in 1..(n + 1)  BY <1>6
    <3>. QED  BY <1>10, <1>12, <3>1
  <2>2. gs[n + 1].written = Child(Front(p), Last(p), None)
    <3>1. n + 1 \in 1..(n + 1)  BY <1>6
    <3>. QED  BY <1>10, <1>12, <3>1 DEF last
  <2>3. n \in Nat  BY <1>6
  <2>. HIDE DEF n
  <2>4. Cuts(gs, at, n, b, now, p)  BY <1>6, <1>7, <1>12, <2>1, <2>2 DEF Cuts
  <2>. QED  BY <1>1, <2>3, <2>4, CuttingIsAPart
<1>. QED  BY <1>12, <1>13, GrowthFacts, GrownFacts

LEMMA HostEditGrows ==
    ASSUME NEW l \in Layers, Tree(l), NEW j \in Growths(l), NEW op \in Edits
    PROVE  /\ ApplyOp(j, op) \in Growths(l)
           /\ ApplyOp(j, op).refused = "no" \/ ApplyOp(j, op) = j
                \/ ApplyOp(j, op) = Refuse(j, "rejected")
<1>1. CASE j.refused # "no"  BY <1>1 DEF ApplyOp
<1>2. CASE j.refused = "no"
  <2>1. CASE op \in [edit : {"create"}, at : Paths \ {<<>>}]
    <3>1. ApplyOp(j, op) = CreatePrim(j, op.at) /\ op.at \in Paths /\ op.at # <<>>
      BY <1>2, <2>1 DEF ApplyOp
    <3>. QED  BY <1>2, <3>1, CreateGrows
  <2>2. CASE op \in [edit : {"remove"}, at : Paths \ {<<>>}]
    <3>1. ApplyOp(j, op) = RemoveSpec(j, op.at) /\ op.at \in Paths /\ op.at # <<>>
      BY <1>2, <2>2 DEF ApplyOp
    <3>. QED  BY <1>2, <3>1, RemoveGrows
  <2>3. CASE op \in [edit : {"set"}, at : Paths \ {<<>>}, value : Values]
    <3>1. /\ ApplyOp(j, op) = SetMetadata(j, op.at, op.value)
          /\ op.at \in Paths /\ op.value \in Values
      BY <1>2, <2>3 DEF ApplyOp
    <3>. QED  BY <1>2, <3>1, SetGrows
  <2>4. CASE op \in [edit : {"clear"}, at : Paths \ {<<>>}]
    <3>1. ApplyOp(j, op) = ClearMetadata(j, op.at) /\ op.at \in Paths
      BY <1>2, <2>4 DEF ApplyOp
    <3>. QED  BY <1>2, <3>1, ClearGrows
  <2>5. \/ op \in [edit : {"create"}, at : Paths \ {<<>>}]
        \/ op \in [edit : {"remove"}, at : Paths \ {<<>>}]
        \/ op \in [edit : {"set"}, at : Paths \ {<<>>}, value : Values]
        \/ op \in [edit : {"clear"}, at : Paths \ {<<>>}]
    BY DEF Edits
  <2>. QED  BY <2>1, <2>2, <2>3, <2>4, <2>5
<1>. QED  BY <1>1, <1>2

LEMMA InverseGuards ==
    ASSUME NEW gs \in Seq(Guards)
    PROVE  GuardsOf(Reverse([i \in DOMAIN gs |-> Raw(gs[i])])) = Reverse(gs)
<1>. DEFINE n == Len(gs)
            raws == [i \in DOMAIN gs |-> Raw(gs[i])]
            txn == Reverse(raws)
<1>1. n \in Nat /\ DOMAIN gs = 1..n  OBVIOUS
<1>2. \A i \in 1..n : Raw(gs[i]) \in RawEdits /\ Raw(gs[i]).guarded = gs[i]
  BY DEF Raw, RawEdits
<1>3. raws \in Seq(RawEdits) /\ Len(raws) = n /\ \A i \in 1..n : raws[i].guarded = gs[i]
  BY <1>1, <1>2
<1>. HIDE DEF raws
<1>4. /\ txn \in Seq(RawEdits) /\ Len(txn) = n
      /\ \A i \in 1..n : n - i + 1 \in 1..n /\ txn[i] = raws[n - i + 1]
  BY <1>3, ReverseIs
<1>5. /\ Reverse(gs) \in Seq(Guards) /\ Len(Reverse(gs)) = n
      /\ \A i \in 1..n : Reverse(gs)[i] = gs[n - i + 1]
  BY ReverseIs
<1>. HIDE DEF txn
<1>6. /\ GuardsOf(txn) \in Seq(Guards) /\ Len(GuardsOf(txn)) = n
      /\ \A i \in 1..n : GuardsOf(txn)[i] = txn[i].guarded
  BY <1>4, GuardsOfIs
<1>7. \A i \in 1..n : GuardsOf(txn)[i] = Reverse(gs)[i]
  <2>. TAKE i \in 1..n
  <2>1. PICK k \in 1..n : k = n - i + 1  BY <1>4
  <2>2. txn[i] = raws[k] /\ Reverse(gs)[i] = gs[k]  BY <1>4, <1>5, <2>1
  <2>. QED  BY <1>3, <1>6, <2>2
<1>8. GuardsOf(txn) = Reverse(gs)  BY <1>5, <1>6, <1>7, SeqEqual
<1>. QED  BY <1>8 DEF txn, raws

(* Raw transactions whose steps are parts, one after the other.             *)
GrownEdits == {txn \in Seq(RawEdits) : GuardsOf(txn) \in Grown}

(* Applied to a tree, what hosts and histories apply leaves one, with an    *)
(* inverse of whole parts.                                                  *)
LEMMA ApplyGrows ==
    ASSUME NEW l \in Layers, Tree(l), NEW txn, txn \in Seq(Edits) \/ txn \in GrownEdits
    PROVE  /\ Tree(Apply(l, txn).layer)
           /\ Apply(l, txn).refused = "no" => Apply(l, txn).inverse \in GrownEdits
<1>. DEFINE n == Len(txn)
            a == Apply(l, txn)
<1>1. txn \in Seq(AllEdits) /\ n \in Nat
  <2>1. Edits \subseteq AllEdits /\ RawEdits \subseteq AllEdits  BY DEF AllEdits
  <2>. QED  BY <2>1, WiderSeq DEF GrownEdits
<1>2. PICK at : Applying(at, l, txn)  BY <1>1, ApplyingIs
<1>. DEFINE j == at[n]
<1>3. /\ at[0] = Opened(l) /\ (\A i \in 0..n : at[i] \in JournalsOver(l))
      /\ \A i \in 1..n : at[i] = ApplyOp(at[i - 1], txn[i])
      /\ a = Settle(j)
  BY <1>2 DEF Applying
<1>4. j \in Growths(l)
  <2>1. CASE txn \in Seq(Edits)
    <3>. DEFINE S == {i \in 0..n : at[i] \in Growths(l)}
    <3>1. 0 \in S  BY <1>1, <1>3, OpenedGrows
    <3>2. ASSUME NEW i \in 1..n, i - 1 \in S  PROVE i \in S
      <4>1. i \in 0..n /\ txn[i] \in Edits  BY <1>1, <2>1
      <4>2. ApplyOp(at[i - 1], txn[i]) \in Growths(l)  BY <3>2, <4>1, HostEditGrows
      <4>. QED  BY <1>3, <4>1, <4>2
    <3>3. \A i \in 0..n : i \in S
      <4>. HIDE DEF S
      <4>. QED  BY <1>1, <3>1, <3>2, Upwards
    <3>. QED  BY <1>1, <3>3
  <2>2. CASE txn \in GrownEdits
    <3>1. txn \in Seq(RawEdits) /\ GuardsOf(txn) \in Grown  BY <2>2 DEF GrownEdits
    <3>2. j \in JournalsOver(l)  BY <1>1, <1>3
    <3>. SUFFICES ASSUME j.refused = "no"  PROVE j.steps \in Grown
      BY <3>2 DEF Growths
    <3>3. Undid(j.steps, GuardsOf(txn))  BY <1>2, <3>1, RawEditsUndo
    <3>4. j.steps \in Seq(Guards)  BY <3>2, JournalFacts DEF JournalsOver
    <3>. QED  BY <3>1, <3>3, <3>4, GrownUndid
  <2>. QED  BY <2>1, <2>2
<1>5. /\ a.refused = j.refused
      /\ a.layer = IF j.refused = "no" THEN j.layer ELSE RollBack(j)
      /\ a.inverse = Reverse([i \in DOMAIN j.steps |-> Raw(j.steps[i])])
  BY <1>3 DEF Settle
<1>. HIDE DEF j, a
<1>6. CASE j.refused = "no"
  <2>1. Tree(j.layer) /\ j.steps \in Grown /\ j.steps \in Seq(Guards)
    BY <1>4, <1>6, GrowthFacts, GrowthIsATree
  <2>2. GuardsOf(a.inverse) = Reverse(j.steps)  BY <1>5, <2>1, InverseGuards
  <2>3. GuardsOf(a.inverse) \in Grown  BY <2>1, <2>2, GrownReverse
  <2>4. a.inverse \in Seq(RawEdits)  BY <1>1, ApplyIs DEF a
  <2>. QED  BY <1>5, <1>6, <2>1, <2>3, <2>4 DEF GrownEdits, a
<1>7. CASE j.refused # "no"
  <2>1. a.refused # "no"  BY <1>5, <1>7
  <2>2. SameButOrder(l, a.layer)  BY <1>1, <2>1, ApplyIs DEF a
  <2>3. Tree(a.layer)  BY <2>2, SameIsATree
  <2>. QED  BY <2>1, <2>3 DEF a
<1>. QED  BY <1>6, <1>7

(* Such transactions, one after the other, are one.                         *)
LEMMA GrownEditsJoin ==
    /\ GrownEdits \subseteq Seq(RawEdits) /\ <<>> \in GrownEdits
    /\ \A x, y \in GrownEdits : x \o y \in GrownEdits
<1>1. <<>> \in GrownEdits
  <2>1. <<>> \in Seq(RawEdits) /\ Len(<<>>) = 0  OBVIOUS
  <2>2. GuardsOf(<<>>) \in Seq(Guards) /\ Len(GuardsOf(<<>>)) = 0  BY <2>1, GuardsOfIs
  <2>3. GuardsOf(<<>>) = <<>>  BY <2>2
  <2>. QED  BY <2>1, <2>3, GrownFacts DEF GrownEdits
<1>2. ASSUME NEW x \in GrownEdits, NEW y \in GrownEdits  PROVE x \o y \in GrownEdits
  <2>. DEFINE z == x \o y
              gs == GuardsOf(x)
              hs == GuardsOf(y)
              c == gs \o hs
              d == GuardsOf(z)
              n == Len(x)
              m == Len(y)
  <2>1. /\ x \in Seq(RawEdits) /\ y \in Seq(RawEdits) /\ gs \in Grown /\ hs \in Grown
    BY DEF GrownEdits
  <2>2. /\ gs \in Seq(Guards) /\ Len(gs) = n /\ n \in Nat
        /\ \A i \in 1..n : gs[i] = x[i].guarded
    BY <2>1, GuardsOfIs
  <2>3. /\ hs \in Seq(Guards) /\ Len(hs) = m /\ m \in Nat
        /\ \A i \in 1..m : hs[i] = y[i].guarded
    BY <2>1, GuardsOfIs
  <2>4. /\ z \in Seq(RawEdits) /\ Len(z) = n + m
        /\ \A i \in 1..n : z[i] = x[i]
        /\ \A i \in 1..m : z[n + i] = y[i]
    BY <2>1, ConcatIs
  <2>. HIDE DEF gs, hs, z, n, m
  <2>5. /\ c \in Seq(Guards) /\ Len(c) = n + m
        /\ \A i \in 1..n : c[i] = gs[i]
        /\ \A i \in 1..m : c[n + i] = hs[i]
    <3>0. gs \in Seq(Guards) /\ hs \in Seq(Guards)  BY <2>2, <2>3
    <3>1. gs \o hs \in Seq(Guards) /\ Len(gs \o hs) = Len(gs) + Len(hs)
      BY <3>0, ConcatIs
    <3>2. \A i \in 1..Len(gs) : (gs \o hs)[i] = gs[i]  BY <3>0, ConcatIs
    <3>3. \A i \in 1..Len(hs) : (gs \o hs)[Len(gs) + i] = hs[i]  BY <3>0, ConcatIs
    <3>4. c = gs \o hs  OBVIOUS
    <3>. HIDE DEF c
    <3>. QED  BY <2>2, <2>3, <3>1, <3>2, <3>3, <3>4
  <2>6. /\ d \in Seq(Guards) /\ Len(d) = n + m
        /\ \A i \in 1..(n + m) : d[i] = z[i].guarded
    BY <2>4, GuardsOfIs
  <2>. HIDE DEF c, d
  <2>7. ASSUME NEW i \in 1..(n + m)  PROVE c[i] = d[i]
    <3>1. CASE i \in 1..n
      <4>1. z[i] = x[i] /\ c[i] = gs[i]  BY <2>4, <2>5, <3>1
      <4>. QED  BY <2>2, <2>6, <3>1, <4>1
    <3>2. CASE i \notin 1..n
      <4>1. PICK k \in 1..m : i = n + k
        <5>1. i - n \in 1..m /\ i = n + (i - n)  BY <2>2, <2>3, <3>2
        <5>. QED  BY <5>1
      <4>2. z[i] = y[k] /\ c[i] = hs[k]  BY <2>4, <2>5, <4>1
      <4>. QED  BY <2>3, <2>6, <4>2
    <3>. QED  BY <3>1, <3>2
  <2>8. c = d  BY <2>5, <2>6, <2>7, SeqEqual
  <2>9. c \in Grown  BY <2>1, GrownConcat DEF c
  <2>10. z \in GrownEdits  BY <2>4, <2>8, <2>9 DEF d, GrownEdits
  <2>. QED  BY <2>10 DEF z
<1>. QED  BY <1>1, <1>2 DEF GrownEdits

-----------------------------------------------------------------------------
(* Raw transactions as moves between layers, and what leads back.           *)

(* The step of g takes l to m, and displaces what g was made to undo.       *)
Reverts(l, m, g) ==
    /\ Applicable(l, g.step)
    /\ m = Written(l, g.step)
    /\ SameState(Undoing(l, g.step), g.written)

(* What a step did the step undoing it reverts.                             *)
LEMMA UndoingFits ==
    ASSUME NEW l \in Layers, NEW s \in StorageSteps, Applicable(l, s)
    PROVE  SameState(Undoing(Written(l, s), Undoing(l, s)), s)
<1>. DEFINE w == Written(l, s)
            u == Undoing(l, s)
            v == Undoing(w, u)
<1>1. /\ u \in StorageSteps
      /\ u = [slot |-> s.slot, at |-> s.at, name |-> s.name, to |-> Held(l, s)]
      /\ s \in ChildSteps => u \in ChildSteps
  BY UndoingIsAStep
<1>2. w \in Layers /\ Applicable(w, u)  BY WrittenIsALayer, UndoingTakesBack
<1>. HIDE DEF w, u
<1>3. v = [slot |-> u.slot, at |-> u.at, name |-> u.name, to |-> Held(w, u)]
  BY <1>1, <1>2, UndoingIsAStep
<1>4. /\ u.slot = s.slot /\ u.at = s.at /\ u.name = s.name /\ u.to = Held(l, s)
      /\ v.slot = s.slot /\ v.at = s.at /\ v.name = s.name /\ v.to = Held(w, u)
  BY <1>1, <1>3
<1>. HIDE DEF v
<1>5. CASE s \in PrimSteps
  <2>1. s.slot = "prim" /\ s.at \in Paths /\ s.to \in Specs \cup {None}  BY <1>5 DEF PrimSteps
  <2>2. w = Put(l, s.at, s.to)  BY <2>1 DEF w, Written
  <2>3. Held(w, u) = SpecAt(w, s.at)  BY <1>4, <2>1 DEF Held
  <2>4. SpecAt(w, s.at) = s.to
    <3>1. CASE s.to = None  BY <2>2, <3>1 DEF Put, SpecAt, Has
    <3>2. CASE s.to # None  BY <2>2, <3>2 DEF Put, SpecAt, Has
    <3>. QED  BY <3>1, <3>2
  <2>. QED  BY <1>4, <2>1, <2>3, <2>4 DEF SameState, v, w, u
<1>6. CASE s \in FieldSteps
  <2>1. s.slot = "field" /\ s.at \in Paths  BY <1>6 DEF FieldSteps
  <2>2. Has(l, s.at)  BY <2>1 DEF Applicable
  <2>3. DOMAIN w = DOMAIN l /\ w[s.at].field = s.to
    <3>1. w = [q \in DOMAIN l |->
                IF q = s.at THEN [children |-> l[q].children, field |-> s.to] ELSE l[q]]
      BY <1>6, <2>2, FieldWritten DEF w
    <3>2. DOMAIN w = DOMAIN l  BY <3>1
    <3>3. w[s.at] = [children |-> l[s.at].children, field |-> s.to]  BY <2>2, <3>1 DEF Has
    <3>4. w[s.at].field = s.to  BY <3>3
    <3>. QED  BY <3>2, <3>4
  <2>4. Held(w, u) = FieldAt(w, s.at)  BY <1>4, <2>1 DEF Held
  <2>5. FieldAt(w, s.at) = s.to  BY <2>2, <2>3 DEF FieldAt, Has
  <2>. QED  BY <1>4, <2>1, <2>4, <2>5 DEF SameState, v, w, u
<1>7. CASE s \in ChildSteps
  <2>1. s.slot = "child"  BY <1>7 DEF ChildSteps
  <2>2. (s.to = None) <=> (Held(l, s) # None)
    <3>1. CASE s.to = None  BY <1>7, <3>1, UnlistingHolds
    <3>2. CASE s.to # None  BY <2>1, <3>2 DEF Held
    <3>. QED  BY <3>1, <3>2
  <2>3. (u.to = None) <=> (Held(w, u) # None)
    <3>1. CASE u.to = None  BY <1>1, <1>2, <1>7, <3>1, UnlistingHolds
    <3>2. CASE u.to # None  BY <1>4, <2>1, <3>2 DEF Held
    <3>. QED  BY <3>1, <3>2
  <2>4. (v.to = None) = (s.to = None)  BY <1>4, <2>2, <2>3
  <2>. QED  BY <1>4, <2>1, <2>4 DEF SameState, v, w, u
<1>. QED  BY <1>5, <1>6, <1>7, KindsOfSteps

LEMMA DidReverts ==
    ASSUME NEW l \in Layers, NEW m, NEW g \in Guards, Did(l, m, g), Once(m)
    PROVE  Reverts(m, l, g)
<1>. DEFINE s == g.written
<1>1. s \in StorageSteps /\ Applicable(l, s) /\ m = Written(l, s) /\ g.step = Undoing(l, s)
  BY DEF Did, Guards
<1>. HIDE DEF s
<1>2. Applicable(m, g.step)  BY <1>1, UndoingTakesBack
<1>3. Written(m, g.step) = l  BY <1>1, UndoingTakesBack
<1>4. SameState(Undoing(m, g.step), s)  BY <1>1, UndoingFits
<1>. QED  BY <1>2, <1>3, <1>4 DEF Reverts, s

(* A guarded step where it reverts runs, and it runs nowhere else.          *)
LEMMA RunGuardedIs ==
    ASSUME NEW j \in Journals, NEW g \in Guards
    PROVE  /\ j.refused = "no" /\ Reverts(j.layer, Written(j.layer, g.step), g) =>
                /\ RunGuarded(j, g).refused = "no"
                /\ RunGuarded(j, g).layer = Written(j.layer, g.step)
           /\ RunGuarded(j, g).refused = "no" =>
                /\ j.refused = "no"
                /\ Reverts(j.layer, RunGuarded(j, g).layer, g)
<1>. DEFINE ran == RunStep(j, g.step)
            same == SameState(Last(ran.steps).step, g.written)
            Judge(x) == IF x.refused = "no" /\ ~SameState(Last(x.steps).step, g.written)
                        THEN Refuse(x, "stale") ELSE x
            h == Journalled(j, g.step)
            r == RunGuarded(j, g)
<1>1. r = One({Judge(x) : x \in {ran}})
  BY Zenon DEF RunGuarded, With, One
<1>2. {Judge(x) : x \in {ran}} = {Judge(ran)}  OBVIOUS
<1>3. r = Judge(ran)  BY <1>1, <1>2, OneOfOne
<1>4. r = IF ran.refused = "no" /\ ~same THEN Refuse(ran, "stale") ELSE ran
  BY <1>3
<1>. HIDE DEF r, Judge
<1>5. g.step \in StorageSteps  BY DEF Guards
<1>6. ASSUME ran.refused = "no"
      PROVE  /\ j.refused = "no" /\ Applicable(j.layer, g.step)
             /\ ran.layer = Written(j.layer, g.step)
             /\ Last(ran.steps).step = Undoing(j.layer, g.step)
             /\ Refuse(ran, "stale").refused = "stale"
  <2>1. /\ j.refused = "no" /\ ~Diverged(j.layer, g.step) /\ h \in Guards
        /\ ran.layer = Written(j.layer, g.step) /\ ran.steps = j.steps \o <<h>>
    BY <1>5, <1>6, RanIs
  <2>2. Applicable(j.layer, g.step)  BY <2>1, NotDivergedIsApplicable
  <2>3. j.steps \in Seq(Guards)  BY JournalFacts
  <2>4. h.step = Undoing(j.layer, g.step)  BY DEF Journalled
  <2>5. ran = [layer |-> Written(j.layer, g.step),
               steps |-> Append(j.steps, h), refused |-> "no"]
    BY <1>5, <2>1, RunStepIs
  <2>. HIDE DEF h, ran
  <2>6. Len(Append(j.steps, h)) = Len(j.steps) + 1 /\ Append(j.steps, h)[Len(j.steps) + 1] = h
    BY <2>1, <2>3, AppendProperties
  <2>7. ran.steps = Append(j.steps, h)  BY <2>5
  <2>8. Last(ran.steps) = h  BY <2>6, <2>7 DEF Last
  <2>9. Refuse(ran, "stale").refused = "stale"  BY <2>5 DEF Refuse
  <2>. QED  BY <2>1, <2>2, <2>4, <2>8, <2>9
<1>7. ASSUME j.refused = "no", Applicable(j.layer, g.step)
      PROVE  ran.refused = "no"
  <2>1. ~Diverged(j.layer, g.step)  BY <1>7, NotDivergedIsApplicable
  <2>. QED  BY <1>5, <1>7, <2>1, RunStepIs
<1>. HIDE DEF ran
<1>8. ASSUME j.refused = "no", Reverts(j.layer, Written(j.layer, g.step), g)
      PROVE  r.refused = "no" /\ r.layer = Written(j.layer, g.step)
  <2>1. ran.refused = "no"  BY <1>7, <1>8 DEF Reverts
  <2>2. same  BY <1>6, <1>8, <2>1 DEF Reverts
  <2>3. r = ran  BY <1>4, <2>2
  <2>. QED  BY <1>6, <2>1, <2>3
<1>9. ASSUME r.refused = "no"
      PROVE  j.refused = "no" /\ Reverts(j.layer, r.layer, g)
  <2>1. ran.refused = "no"
    <3>. SUFFICES ASSUME ran.refused # "no"  PROVE FALSE
      OBVIOUS
    <3>1. r = ran  BY <1>4
    <3>. QED  BY <1>9, <3>1
  <2>2. same
    <3>. SUFFICES ASSUME ~same  PROVE FALSE
      OBVIOUS
    <3>1. r = Refuse(ran, "stale")  BY <1>4, <2>1
    <3>. QED  BY <1>6, <1>9, <2>1, <3>1
  <2>3. r = ran  BY <1>4, <2>2
  <2>. QED  BY <1>6, <2>1, <2>2, <2>3 DEF Reverts
<1>. QED  BY <1>8, <1>9 DEF r

(* The layers a raw transaction takes one after the other.                  *)
Along(at, txn) ==
    /\ \A i \in 0..Len(txn) : at[i] \in Layers
    /\ \A i \in 1..Len(txn) : Reverts(at[i - 1], at[i], txn[i].guarded)

Leads(l, txn, m) == \E at : Along(at, txn) /\ at[0] = l /\ at[Len(txn)] = m

LEMMA RawOpIs ==
    ASSUME NEW j, NEW op, op.edit = "raw"
    PROVE  /\ j.refused # "no" => ApplyOp(j, op) = j
           /\ j.refused = "no" => ApplyOp(j, op) = RunGuarded(j, op.guarded)
BY DEF ApplyOp

(* A transaction that leads somewhere is applied, and goes there; and one   *)
(* that is applied leads to what it leaves.                                 *)
LEMMA LeadsIsApplied ==
    ASSUME NEW l \in Layers, NEW txn \in Seq(RawEdits), NEW m, Leads(l, txn, m)
    PROVE  Apply(l, txn).refused = "no" /\ Apply(l, txn).layer = m
<1>. DEFINE n == Len(txn)
<1>1. /\ n \in Nat
      /\ \A i \in 1..n : txn[i].edit = "raw" /\ txn[i].guarded \in Guards
  BY GuardsOfIs
<1>2. txn \in Seq(AllEdits)
  <2>1. RawEdits \subseteq AllEdits  BY DEF AllEdits
  <2>. QED  BY <2>1, WiderSeq
<1>3. PICK at : Applying(at, l, txn)  BY <1>2, ApplyingIs
<1>4. /\ at[0] = Opened(l) /\ (\A i \in 1..n : at[i] = ApplyOp(at[i - 1], txn[i]))
      /\ (\A i \in 0..n : at[i] \in Journals)
      /\ Apply(l, txn) = Settle(at[n])
  BY <1>3 DEF Applying, JournalsOver
<1>5. PICK to : Along(to, txn) /\ to[0] = l /\ to[n] = m  BY DEF Leads
<1>6. \A i \in 1..n : Reverts(to[i - 1], to[i], txn[i].guarded)  BY <1>5 DEF Along
<1>. DEFINE S == {i \in 0..n : at[i].refused = "no" /\ at[i].layer = to[i]}
<1>7. 0 \in S  BY <1>1, <1>4, <1>5 DEF Opened
<1>8. ASSUME NEW i \in 1..n, i - 1 \in S  PROVE i \in S
  <2>. DEFINE j == at[i - 1]
              g == txn[i].guarded
              r == RunGuarded(j, g)
  <2>1. i \in 0..n /\ i - 1 \in 0..n  BY <1>1
  <2>2. j \in Journals /\ g \in Guards /\ j.refused = "no" /\ j.layer = to[i - 1]
    BY <1>1, <1>4, <1>8, <2>1
  <2>3. at[i] = r  BY <1>1, <1>4, <2>2, RawOpIs
  <2>4. Reverts(j.layer, to[i], g)  BY <1>6, <2>2
  <2>. HIDE DEF j, g
  <2>5. to[i] = Written(j.layer, g.step)  BY <2>4 DEF Reverts
  <2>6. Reverts(j.layer, Written(j.layer, g.step), g)  BY <2>4, <2>5
  <2>7. r.refused = "no" /\ r.layer = Written(j.layer, g.step)
    BY <2>2, <2>6, RunGuardedIs
  <2>. QED  BY <2>1, <2>3, <2>5, <2>7
<1>9. \A i \in 0..n : i \in S
  <2>. HIDE DEF S
  <2>1. n \in Nat  BY <1>1
  <2>. QED  BY <1>7, <1>8, <2>1, Upwards
<1>10. at[n].refused = "no" /\ at[n].layer = m
  <2>1. n \in S  BY <1>1, <1>9
  <2>. QED  BY <1>5, <2>1
<1>. QED  BY <1>4, <1>10 DEF Settle

(* Moves one after the other are one.                                       *)
LEMMA LeadsNowhere == \A l \in Layers : Leads(l, <<>>, l)
<1>. TAKE l \in Layers
<1>. DEFINE at == [i \in 0..0 |-> l]
<1>1. Len(<<>>) = 0 /\ 1..0 = {} /\ at[0] = l /\ \A i \in 0..0 : at[i] \in Layers  OBVIOUS
<1>. HIDE DEF at
<1>2. Along(at, <<>>)  BY <1>1 DEF Along
<1>. QED  BY <1>1, <1>2 DEF Leads

LEMMA LeadsNoOther ==
    ASSUME NEW l, NEW m, Leads(l, <<>>, m)
    PROVE  l = m
<1>1. Len(<<>>) = 0  OBVIOUS
<1>. QED  BY <1>1 DEF Leads

LEMMA LeadsOn ==
    ASSUME NEW k, NEW l, NEW m, NEW x \in Seq(RawEdits), NEW y \in Seq(RawEdits),
           Leads(k, x, l), Leads(l, y, m)
    PROVE  Leads(k, x \o y, m)
<1>. DEFINE n == Len(x)
            o == Len(y)
            z == x \o y
<1>1. PICK at : Along(at, x) /\ at[0] = k /\ at[n] = l  BY DEF Leads
<1>2. PICK bt : Along(bt, y) /\ bt[0] = l /\ bt[o] = m  BY DEF Leads
<1>3. /\ Len(z) = n + o /\ n \in Nat /\ o \in Nat
      /\ \A i \in 1..n : z[i] = x[i]
      /\ \A i \in 1..o : z[n + i] = y[i]
  BY ConcatIs
<1>4. /\ \A i \in 0..n : at[i] \in Layers
      /\ \A i \in 1..n : Reverts(at[i - 1], at[i], x[i].guarded)
  BY <1>1 DEF Along
<1>5. /\ \A i \in 0..o : bt[i] \in Layers
      /\ \A i \in 1..o : Reverts(bt[i - 1], bt[i], y[i].guarded)
  BY <1>2 DEF Along
<1>. HIDE DEF z, n, o
<1>. DEFINE to == [i \in 0..(n + o) |-> IF i <= n THEN at[i] ELSE bt[i - n]]
<1>6. /\ \A i \in 0..n : to[i] = at[i]
      /\ \A i \in 0..o : to[n + i] = bt[i]
  <2>1. \A i \in 0..n : to[i] = at[i]  BY <1>3
  <2>2. ASSUME NEW i \in 0..o  PROVE to[n + i] = bt[i]
    <3>1. CASE i = 0
      <4>1. n + i = n /\ n \in 0..n  BY <1>3, <3>1
      <4>. HIDE DEF to
      <4>2. to[n + i] = at[n]  BY <2>1, <4>1
      <4>. QED  BY <1>1, <1>2, <3>1, <4>2
    <3>2. CASE i # 0
      <4>. DEFINE a == n + i
      <4>1. a \in 0..(n + o) /\ ~(a <= n) /\ a - n = i  BY <1>3, <3>2
      <4>. HIDE DEF a
      <4>2. to[a] = bt[i]  BY <4>1
      <4>. QED  BY <4>2 DEF a
    <3>. QED  BY <3>1, <3>2
  <2>. QED  BY <2>1, <2>2
<1>. HIDE DEF to
<1>7. ASSUME NEW i \in 0..(n + o)  PROVE to[i] \in Layers
  <2>1. CASE i <= n
    <3>1. i \in 0..n  BY <1>3, <2>1
    <3>. QED  BY <1>4, <1>6, <3>1
  <2>2. CASE ~(i <= n)
    <3>1. PICK a \in 0..o : n + a = i
      <4>1. i - n \in 0..o /\ n + (i - n) = i  BY <1>3, <2>2
      <4>. QED  BY <4>1
    <3>. QED  BY <1>5, <1>6, <3>1
  <2>. QED  BY <2>1, <2>2
<1>8. ASSUME NEW i \in 1..(n + o)  PROVE Reverts(to[i - 1], to[i], z[i].guarded)
  <2>1. CASE i <= n
    <3>1. i \in 0..n /\ i - 1 \in 0..n /\ i \in 1..n  BY <1>3, <2>1
    <3>2. to[i] = at[i] /\ to[i - 1] = at[i - 1] /\ z[i] = x[i]  BY <1>3, <1>6, <3>1
    <3>. QED  BY <1>4, <3>1, <3>2
  <2>2. CASE ~(i <= n)
    <3>1. PICK a \in 1..o : n + a = i
      <4>1. i - n \in 1..o /\ n + (i - n) = i  BY <1>3, <2>2
      <4>. QED  BY <4>1
    <3>2. PICK b \in 0..o : b = a - 1 /\ n + b = i - 1
      <4>1. a - 1 \in 0..o /\ n + (a - 1) = i - 1  BY <1>3, <3>1
      <4>. QED  BY <4>1
    <3>3. a \in 0..o  BY <1>3
    <3>4. to[i] = bt[a] /\ z[i] = y[a]  BY <1>3, <1>6, <3>1, <3>3
    <3>5. to[i - 1] = bt[b]  BY <1>6, <3>2
    <3>6. Reverts(bt[b], bt[a], y[a].guarded)  BY <1>5, <3>2
    <3>. QED  BY <3>4, <3>5, <3>6
  <2>. QED  BY <2>1, <2>2
<1>9. Along(to, z)  BY <1>3, <1>7, <1>8 DEF Along
<1>10. to[0] = k /\ to[n + o] = m
  <2>1. 0 \in 0..n /\ o \in 0..o  BY <1>3
  <2>. QED  BY <1>1, <1>2, <1>6, <2>1 DEF n, o
<1>. QED  BY <1>3, <1>9, <1>10 DEF Leads, z

(* A journal of whole parts over a tree: its steps undone lead back.        *)
LEMMA JournalLeadsBack ==
    ASSUME NEW l \in Layers, Tree(l), NEW j \in JournalsOver(l), j.steps \in Grown
    PROVE  /\ Leads(j.layer, Reverse([i \in DOMAIN j.steps |-> Raw(j.steps[i])]), l)
           /\ RollBack(j) = l
<1>. DEFINE n == Len(j.steps)
            raws == [i \in DOMAIN j.steps |-> Raw(j.steps[i])]
            txn == Reverse(raws)
            gs == Reverse(j.steps)
<1>1. j.layer \in Layers /\ j.steps \in Seq(Guards) /\ n \in Nat /\ DOMAIN j.steps = 1..n
  BY JournalFacts DEF JournalsOver
<1>2. PICK at : WentThrough(at, l, j)  BY DEF JournalsOver
<1>3. /\ \A i \in 0..n : at[i] \in Layers
      /\ at[0] = l /\ at[n] = j.layer
      /\ \A i \in 1..n : Did(at[i - 1], at[i], j.steps[i])
  BY <1>2 DEF WentThrough
<1>4. \A i \in 0..n : Once(at[i])
  <2>1. Led(at, j.steps)  BY <1>3 DEF Led
  <2>. QED  BY <1>3, <2>1, GrownIsOnce
<1>5. \A i \in 1..n : Reverts(at[i], at[i - 1], j.steps[i])
  <2>. TAKE i \in 1..n
  <2>1. i \in 0..n /\ i - 1 \in 0..n /\ j.steps[i] \in Guards  BY <1>1
  <2>. QED  BY <1>3, <1>4, <2>1, DidReverts
<1>6. /\ raws \in Seq(RawEdits) /\ Len(raws) = n
      /\ \A i \in 1..n : raws[i].guarded = j.steps[i]
  BY <1>1 DEF Raw, RawEdits
<1>. HIDE DEF raws
<1>7. /\ Len(txn) = n
      /\ \A i \in 1..n : n - i + 1 \in 1..n /\ txn[i] = raws[n - i + 1]
  BY <1>6, ReverseIs
<1>8. /\ Len(gs) = n
      /\ \A i \in 1..n : n - i + 1 \in 1..n /\ gs[i] = j.steps[n - i + 1]
  BY <1>1, ReverseIs
<1>. HIDE DEF txn, gs
<1>. DEFINE to == [i \in 0..n |-> at[n - i]]
<1>9. /\ \A i \in 0..n : n - i \in 0..n
      /\ \A i \in 1..n : i - 1 \in 0..n /\ i \in 0..n /\ n - (i - 1) = n - i + 1
                         /\ n - i = n - i + 1 - 1
  <2>1. n \in Nat  BY <1>1
  <2>. HIDE DEF n
  <2>. QED  BY <2>1
<1>10. ASSUME NEW i \in 1..n
       PROVE  /\ Reverts(to[i - 1], to[i], txn[i].guarded)
              /\ to[i] = Written(to[i - 1], gs[i].step)
  <2>1. PICK k \in 1..n : k = n - i + 1  BY <1>7
  <2>2. n - (i - 1) = k /\ n - i = k - 1 /\ i - 1 \in 0..n /\ i \in 0..n  BY <1>9, <2>1
  <2>3. to[i - 1] = at[k] /\ to[i] = at[k - 1]  BY <2>2
  <2>4. txn[i].guarded = j.steps[k] /\ gs[i] = j.steps[k]  BY <1>6, <1>7, <1>8, <2>1
  <2>5. Reverts(at[k], at[k - 1], j.steps[k])  BY <1>5
  <2>. HIDE DEF to
  <2>6. Written(at[k], j.steps[k].step) = at[k - 1]  BY <2>5 DEF Reverts
  <2>. QED  BY <2>3, <2>4, <2>5, <2>6
<1>11. to[0] = j.layer /\ to[n] = l
  <2>1. 0 \in 0..n /\ n \in 0..n /\ n - 0 = n /\ n - n = 0  BY <1>1
  <2>. QED  BY <1>3, <2>1
<1>12. \A i \in 0..n : to[i] \in Layers
  <2>. TAKE i \in 0..n
  <2>1. n - i \in 0..n  BY <1>9
  <2>. QED  BY <1>3, <2>1
<1>13. StartsAt(to, n, j.layer)  BY <1>11 DEF StartsAt
<1>. HIDE DEF to
<1>14. RollBack(j) = l
  <2>1. \A i \in 1..n : to[i] = Written(to[i - 1], gs[i].step)  BY <1>10
  <2>2. RollBack(j) = to[n]  BY <1>1, <1>13, <2>1, RollBackAlong DEF gs
  <2>. QED  BY <1>11, <2>2
<1>15. Leads(j.layer, txn, l)
  <2>1. Along(to, txn)  BY <1>7, <1>10, <1>12 DEF Along
  <2>. QED  BY <1>7, <1>11, <2>1 DEF Leads
<1>. QED  BY <1>14, <1>15 DEF txn, raws

(* What hosts ask for is never stale, and rejected it leaves the very layer. *)
LEMMA HostEditsAlong ==
    ASSUME NEW l \in Layers, Tree(l), NEW txn \in Seq(Edits), NEW at, Applying(at, l, txn)
    PROVE  /\ at[Len(txn)] \in JournalsOver(l) /\ at[Len(txn)].steps \in Grown
           /\ at[Len(txn)].refused \in {"no", "rejected"}
<1>. DEFINE n == Len(txn)
            S == {i \in 0..n : /\ at[i] \in Growths(l) /\ at[i].steps \in Grown
                               /\ at[i].refused \in {"no", "rejected"}}
<1>1. n \in Nat /\ \A i \in 1..n : txn[i] \in Edits  OBVIOUS
<1>2. at[0] = Opened(l) /\ \A i \in 1..n : at[i] = ApplyOp(at[i - 1], txn[i])
  BY DEF Applying
<1>3. 0 \in S
  <2>1. Opened(l).refused = "no" /\ Opened(l).steps = <<>>  BY DEF Opened
  <2>. QED  BY <1>1, <1>2, <2>1, OpenedGrows, GrownFacts
<1>4. ASSUME NEW i \in 1..n, i - 1 \in S  PROVE i \in S
  <2>. DEFINE j == at[i - 1]
              r == ApplyOp(j, txn[i])
  <2>1. i \in 0..n /\ txn[i] \in Edits /\ at[i] = r  BY <1>1, <1>2
  <2>2. j \in Growths(l) /\ j.steps \in Grown /\ j.refused \in {"no", "rejected"}
    BY <1>4
  <2>. HIDE DEF j
  <2>3. r \in Growths(l) /\ (r.refused = "no" \/ r = j \/ r = Refuse(j, "rejected"))
    BY <2>1, <2>2, HostEditGrows
  <2>4. /\ Refuse(j, "rejected").steps = j.steps
        /\ Refuse(j, "rejected").refused = "rejected"
    BY <2>2, GrowthFacts DEF Refuse, Journals
  <2>5. r.refused = "no" => r.steps \in Grown  BY <2>3, GrowthFacts
  <2>. HIDE DEF r
  <2>6. r.steps \in Grown /\ r.refused \in {"no", "rejected"}
    BY <2>2, <2>3, <2>4, <2>5
  <2>. QED  BY <2>1, <2>3, <2>6
<1>5. \A i \in 0..n : i \in S
  <2>. HIDE DEF S
  <2>1. n \in Nat  BY <1>1
  <2>. QED  BY <1>3, <1>4, <2>1, Upwards
<1>6. n \in S
  <2>1. n \in 0..n  BY <1>1
  <2>. QED  BY <1>5, <2>1
<1>. QED  BY <1>6, GrowthFacts

(* The round trip: an inverse, applied where it was made, is applied and    *)
(* leads exactly to where its transaction began.                            *)
LEMMA InverseLeadsBack ==
    ASSUME NEW l \in Layers, Tree(l), NEW txn, txn \in Seq(Edits) \/ txn \in GrownEdits
    PROVE  /\ Apply(l, txn).refused = "no" =>
                Leads(Apply(l, txn).layer, Apply(l, txn).inverse, l)
           /\ txn \in Seq(Edits) =>
                /\ Apply(l, txn).refused \in {"no", "rejected"}
                /\ Apply(l, txn).refused # "no" => Apply(l, txn).layer = l
<1>. DEFINE n == Len(txn)
            a == Apply(l, txn)
<1>1. txn \in Seq(AllEdits) /\ n \in Nat
  <2>1. Edits \subseteq AllEdits /\ RawEdits \subseteq AllEdits  BY DEF AllEdits
  <2>. QED  BY <2>1, WiderSeq DEF GrownEdits
<1>2. PICK at : Applying(at, l, txn)  BY <1>1, ApplyingIs
<1>. DEFINE j == at[n]
<1>3. j \in JournalsOver(l) /\ a = Settle(j)
  <2>1. n \in 0..n  BY <1>1
  <2>. QED  BY <1>2, <2>1 DEF Applying
<1>4. j.refused = "no" => j.steps \in Grown
  <2>. SUFFICES ASSUME j.refused = "no"  PROVE j.steps \in Grown
    OBVIOUS
  <2>1. CASE txn \in Seq(Edits)  BY <1>2, <2>1, HostEditsAlong
  <2>2. CASE txn \in GrownEdits
    <3>1. txn \in Seq(RawEdits) /\ GuardsOf(txn) \in Grown  BY <2>2 DEF GrownEdits
    <3>2. Undid(j.steps, GuardsOf(txn))  BY <1>2, <3>1, RawEditsUndo
    <3>3. j.steps \in Seq(Guards)  BY <1>3, JournalFacts DEF JournalsOver
    <3>. QED  BY <3>1, <3>2, <3>3, GrownUndid
  <2>. QED  BY <2>1, <2>2
<1>5. txn \in Seq(Edits) => j.refused \in {"no", "rejected"} /\ j.steps \in Grown
  BY <1>2, HostEditsAlong
<1>6. /\ a.refused = j.refused
      /\ a.layer = IF j.refused = "no" THEN j.layer ELSE RollBack(j)
      /\ a.inverse = Reverse([i \in DOMAIN j.steps |-> Raw(j.steps[i])])
  BY <1>3 DEF Settle
<1>. HIDE DEF j, a
<1>7. j.steps \in Grown => /\ Leads(j.layer, a.inverse, l)
                           /\ RollBack(j) = l
  <2>. SUFFICES ASSUME j.steps \in Grown
       PROVE  Leads(j.layer, a.inverse, l) /\ RollBack(j) = l
    OBVIOUS
  <2>1. Leads(j.layer, Reverse([i \in DOMAIN j.steps |-> Raw(j.steps[i])]), l)
    BY <1>3, JournalLeadsBack
  <2>2. RollBack(j) = l  BY <1>3, JournalLeadsBack
  <2>. QED  BY <1>6, <2>1, <2>2
<1>8. a.refused = "no" => Leads(a.layer, a.inverse, l)  BY <1>4, <1>6, <1>7
<1>9. txn \in Seq(Edits) => /\ a.refused \in {"no", "rejected"}
                            /\ a.refused # "no" => a.layer = l
  BY <1>5, <1>6, <1>7
<1>. QED  BY <1>8, <1>9 DEF a
=============================================================================
