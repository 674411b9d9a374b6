---------------------- MODULE RetainedQueries_proofs ----------------------
(***************************************************************************)
(* What is proved of the retained queries and of the transform cache under *)
(* them, for any prims, specifications, times, budgets and bounds, as long *)
(* as the host polls no query of an inactive prim (PollsInactive = FALSE): *)
(* a resync's walk passes those by, and what they leave in the cache is    *)
(* neither right nor retired.                                              *)
(*                                                                         *)
(* The argument has three layers.  CacheOK says when a cache is right in a *)
(* scene: of every prim that is active there, the links are to the         *)
(* namespace parents, a local that is held is authored or late, and a      *)
(* world that is held is the product of the locals it names, or has one    *)
(* under it that was struck since; one that is valid is what               *)
(* WorldTransform says.  Of an inactive prim it says only that a slot it   *)
(* has is no other's.  The ancestors of an active prim are active, so a    *)
(* walk from one meets nothing else, keeps that and answers what is        *)
(* authored (LookedUp).  Then Applied says what                            *)
(* consuming reports takes from a cache, Accounted what reports tell of    *)
(* the difference of two scenes, and a cache that was right in the one,    *)
(* less what the reports take, is right in the other (FitsOK).  Last, the  *)
(* invariant IInv: there is a scene, the one consumed, in which the cache  *)
(* and the clean queries are right, and which differs from the scene there *)
(* is by what the reports say that are newer than the cursor.              *)
(***************************************************************************)
EXTENDS RetainedQueries, SequenceTheorems, FiniteSetTheorems, WellFoundedInduction, TLAPS

(* A set of naturals with 0 and every next one has them all.                *)
LEMMA NatSet ==
    ASSUME NEW S, 0 \in S, \A n \in Nat : n \in S => n + 1 \in S
    PROVE  Nat \subseteq S
<1>. DEFINE T == Nat \ S
            LT == {p \in Nat \X Nat : p[1] < p[2]}
<1>. SUFFICES ASSUME T # {}  PROVE FALSE
  OBVIOUS
<1>1. IsWellFoundedOn(LT, Nat)
  <2>1. OpToRel(<, Nat) = LT  BY DEF OpToRel
  <2>. QED  BY <2>1, NatLessThanWellFounded
<1>2. \A x, y \in Nat : y < x => <<y, x>> \in LT  OBVIOUS
<1>3. PICK x \in T : \A y \in T : ~(<<y, x>> \in LT)
  <2>. HIDE DEF LT
  <2>1. T \subseteq Nat  OBVIOUS
  <2>. HIDE DEF T
  <2>. QED  BY <1>1, <2>1, WFMin
<1>. HIDE DEF LT
<1>4. x \in Nat /\ x # 0 /\ x \notin S  OBVIOUS
<1>5. x - 1 \in Nat /\ x - 1 < x /\ x - 1 + 1 = x  BY <1>4
<1>6. x - 1 \in T  BY <1>4, <1>5
<1>. QED  BY <1>2, <1>3, <1>4, <1>5, <1>6


LEMMA Upwards ==
    ASSUME NEW n \in Nat, NEW S, 0 \in S, \A i \in 1..n : i - 1 \in S => i \in S
    PROVE  \A i \in 0..n : i \in S
<1>. DEFINE R == {k \in Nat : k <= n => k \in S}
<1>1. 0 \in R  OBVIOUS
<1>2. ASSUME NEW k \in Nat, k \in R  PROVE k + 1 \in R
  <2>. SUFFICES ASSUME k + 1 <= n  PROVE k + 1 \in S
    OBVIOUS
  <2>1. k \in S  BY <1>2
  <2>2. PICK i \in 1..n : i = k + 1 /\ i - 1 = k  OBVIOUS
  <2>. QED  BY <2>1, <2>2
<1>3. Nat \subseteq R
  <2>. HIDE DEF R
  <2>. QED  BY <1>1, <1>2, NatSet
<1>. SUFFICES ASSUME NEW i \in 0..n  PROVE i \in S
  OBVIOUS
<1>4. i \in R  BY <1>3
<1>. QED  BY <1>4


(* Least and greatest of naturals.                                          *)
LEMMA LeastOfNaturals ==
    ASSUME NEW S \in SUBSET Nat, S # {}
    PROVE  /\ Min(S) \in S
           /\ \A k \in S : Min(S) <= k
<1>. DEFINE LT == {p \in Nat \X Nat : p[1] < p[2]}
<1>1. OpToRel(<, Nat) = LT  BY DEF OpToRel
<1>2. IsWellFoundedOn(LT, Nat)  BY <1>1, NatLessThanWellFounded
<1>3. \A x, y \in Nat : y < x => <<y, x>> \in LT  OBVIOUS
<1>. HIDE DEF LT
<1>4. \E x \in S : \A y \in S : x <= y
  <2>1. PICK x \in S : \A y \in S : ~(<<y, x>> \in LT)  BY <1>2, WFMin
  <2>2. \A y \in S : x \in Nat /\ y \in Nat /\ ~(y < x)  BY <1>3, <2>1
  <2>. QED  BY <2>1, <2>2
<1>. QED  BY <1>4 DEF Min


LEMMA GreatestOfNaturals ==
    ASSUME NEW n \in Nat, NEW S \in SUBSET (1..n), S # {}
    PROVE  Max(S) \in S /\ \A k \in S : k <= Max(S)
<1>. DEFINE T == {n - k : k \in S}
            m == Min(T)
<1>1. T # {} /\ T \in SUBSET Nat
  <2>1. \A k \in S : n - k \in Nat  OBVIOUS
  <2>. QED  BY <2>1
<1>2. m \in T /\ \A k \in T : m <= k
  <2>. HIDE DEF T
  <2>. QED  BY <1>1, LeastOfNaturals
<1>. HIDE DEF m
<1>3. PICK x \in S : m = n - x  BY <1>2
<1>4. \A k \in S : x >= k
  <2>. TAKE k \in S
  <2>1. n - k \in T  OBVIOUS
  <2>2. n - x <= n - k /\ x \in Nat /\ k \in Nat  BY <1>2, <1>3, <2>1
  <2>. QED  BY <2>2
<1>. DEFINE Greatest(y) == \A k \in S : y >= k
<1>5. Max(S) = CHOOSE y \in S : Greatest(y)  BY DEF Max
<1>6. \E y \in S : Greatest(y)  BY <1>4
<1>7. Max(S) \in S /\ Greatest(Max(S))
  <2>. HIDE DEF Greatest
  <2>. QED  BY <1>5, <1>6
<1>. QED  BY <1>7


LEMMA TopOfInterval ==
    ASSUME NEW i \in Nat, i > 0
    PROVE  Max(1..i) = i /\ (1..i) \ {i} = 1..(i - 1)
<1>1. i \in 1..i /\ 1..i \in SUBSET (1..i) /\ 1..i # {}  OBVIOUS
<1>2. Max(1..i) \in 1..i /\ \A k \in 1..i : k <= Max(1..i)  BY <1>1, GreatestOfNaturals
<1>. QED  BY <1>1, <1>2

LEMMA TakeTop ==
    ASSUME NEW k \in Nat, NEW T \in SUBSET (1..(k + 1)), T # {}
    PROVE  T \ {Max(T)} \in SUBSET (1..k)
<1>1. Max(T) \in T /\ \A i \in T : i <= Max(T)
  <2>1. k + 1 \in Nat  OBVIOUS
  <2>. QED  BY <2>1, GreatestOfNaturals
<1>2. \A i \in T : i # Max(T) => i \in 1..k
  <2>. TAKE i \in T
  <2>1. i \in 1..(k + 1) /\ Max(T) \in 1..(k + 1) /\ i <= Max(T)  BY <1>1
  <2>. QED  BY <2>1
<1>. QED  BY <1>2

(* A set of subsets of a finite set with {}, and with each whose subsets of *)
(* one element less it has, has them all.                                   *)
LEMMA SubsetsReached ==
    ASSUME NEW S, IsFiniteSet(S), NEW G \in SUBSET (SUBSET S), {} \in G,
           \A T \in SUBSET S : T # {} /\ (\A x \in T : T \ {x} \in G) => T \in G
    PROVE  S \in G
<1>. DEFINE N == {k \in Nat : \A T \in SUBSET S : Cardinality(T) = k => T \in G}
<1>1. \A T \in SUBSET S : IsFiniteSet(T)  BY FS_Subset
<1>2. 0 \in N
  <2>1. \A T \in SUBSET S : Cardinality(T) = 0 => T = {}  BY <1>1, FS_EmptySet
  <2>. QED  BY <2>1
<1>3. ASSUME NEW k \in Nat, k \in N  PROVE k + 1 \in N
  <2>. SUFFICES ASSUME NEW T \in SUBSET S, Cardinality(T) = k + 1  PROVE T \in G
    OBVIOUS
  <2>1. T # {}
    <3>1. Cardinality({}) = 0 /\ k + 1 # 0  BY FS_EmptySet
    <3>. QED  BY Zenon, <3>1
  <2>2. ASSUME NEW x \in T  PROVE T \ {x} \in G
    <3>1. Cardinality(T \ {x}) = Cardinality(T) - 1  BY <1>1, FS_RemoveElement
    <3>2. Cardinality(T \ {x}) = k  BY <3>1
    <3>. QED  BY <1>3, <3>2
  <2>. QED  BY <2>1, <2>2
<1>4. \A k \in Nat : k \in N => k + 1 \in N  BY <1>3
<1>5. Nat \subseteq N
  <2>. HIDE DEF N
  <2>. QED  BY <1>2, <1>4, NatSet
<1>6. Cardinality(S) \in Nat  BY FS_CardinalityType
<1>7. Cardinality(S) \in N  BY <1>5, <1>6
<1>. QED  BY <1>7

(* The folds of the models, by name.                                        *)
ClimbAll(sc, base, s) == FoldLeft(LAMBDA w, i : Climb(sc, w), base, s)
DescendAll(base, s) == FoldLeft(LAMBDA v, slot : Descend(v, slot), base, s)
ReadAllUp(c, base, s) == FoldLeft(LAMBDA w, i : ReadUp(c, w), base, s)
ConsumeAll(base, s) == FoldLeft(LAMBDA state, report : Consumed(state, report), base, s)

LEMMA WalkUpIs ==
    ASSUME NEW sc, NEW c, NEW p
    PROVE  WalkUp(sc, c, p) =
               ClimbAll(sc, [cache |-> c, at |-> c.entries[p], chain |-> <<>>,
                             above |-> Identity, stamp |-> 0, varies |-> FALSE], Ancestry(p))
BY Zenon DEF WalkUp, ClimbAll, FoldLeft, MapThenFoldSet

LEMMA WalkDownIs ==
    ASSUME NEW w
    PROVE  WalkDown(w) = DescendAll(w, Reverse(w.chain))
BY Zenon DEF WalkDown, DescendAll, FoldLeft, MapThenFoldSet

LEMMA WorldDependenciesIs ==
    ASSUME NEW c, NEW p
    PROVE  WorldDependencies(c, p) =
               IF p \notin Cached(c) \/ ~c.nodes[c.entries[p]].worldValid THEN {p}
               ELSE ReadAllUp(c, [paths |-> {}, at |-> c.entries[p]], Ancestry(p)).paths
BY Zenon DEF WorldDependencies, ReadAllUp, FoldLeft, MapThenFoldSet

LEMMA ConsumedAllIs ==
    ConsumedAll = ConsumeAll([cache |-> cache, held |-> held], reports.entries)
BY Zenon DEF ConsumedAll, ConsumeAll, FoldLeft, MapThenFoldSet

(* Folds, as the values they go through, one operation after the other.     *)
LEMMA ClimbSteps ==
    ASSUME NEW sc, NEW base, NEW X, NEW s \in Seq(X)
    PROVE  \E at : /\ at[0] = base
                   /\ \A i \in 1..Len(s) : at[i] = Climb(sc, at[i - 1])
                   /\ ClimbAll(sc, base, s) = at[Len(s)]
<1>. DEFINE n == Len(s)
            Is(f, k) == f = [T \in SUBSET (1..k) |-> IF T = {} THEN base
                               ELSE Climb(sc, f[T \ {Max(T)}])]
            G == {k \in Nat : \E f : Is(f, k)}
            run == CHOOSE f : f = [T \in SUBSET (DOMAIN s) |-> IF T = {} THEN base
                               ELSE Climb(sc, f[T \ {Max(T)}])]
            at == [i \in 0..n |-> run[1..i]]
<1>1. 0 \in G
  <2>. DEFINE f == [T \in SUBSET (1..0) |-> base]
  <2>1. 1..0 = {}  OBVIOUS
  <2>2. Is(f, 0)  BY Zenon, <2>1
  <2>. QED  BY <2>2
<1>2. ASSUME NEW k \in Nat, k \in G  PROVE k + 1 \in G
  <2>1. PICK f : Is(f, k)  BY <1>2
  <2>. DEFINE g == [T \in SUBSET (1..(k + 1)) |-> IF T = {} THEN base
                       ELSE Climb(sc, f[T \ {Max(T)}])]
  <2>2. 1..k \subseteq 1..(k + 1)  OBVIOUS
  <2>3. ASSUME NEW T \in SUBSET (1..k)  PROVE g[T] = f[T]
    <3>1. T \in SUBSET (1..(k + 1))  BY <2>2
    <3>. QED  BY Zenon, <2>1, <3>1
  <2>4. ASSUME NEW T \in SUBSET (1..(k + 1)), T # {}
        PROVE  g[T] = Climb(sc, g[T \ {Max(T)}])
    <3>1. T \ {Max(T)} \in SUBSET (1..k)  BY <2>4, TakeTop
    <3>2. g[T \ {Max(T)}] = f[T \ {Max(T)}]  BY <2>3, <3>1
    <3>. QED  BY Zenon, <2>4, <3>2
  <2>5. Is(g, k + 1)
    <3>1. \A T \in SUBSET (1..(k + 1)) : T = {} => g[T] = base  BY Zenon
    <3>2. \A T \in SUBSET (1..(k + 1)) : g[T] = IF T = {} THEN base
            ELSE Climb(sc, g[T \ {Max(T)}])
      BY Zenon, <2>4, <3>1
    <3>3. g = [T \in SUBSET (1..(k + 1)) |-> g[T]]  BY Zenon
    <3>. HIDE DEF g
    <3>. QED  BY Zenon, <3>2, <3>3
  <2>. HIDE DEF Is
  <2>6. k + 1 \in Nat /\ \E h : Is(h, k + 1)  BY <2>5
  <2>. QED  BY <2>6
<1>3. n \in G
  <2>1. \A k \in Nat : k \in G => k + 1 \in G  BY <1>2
  <2>2. n \in Nat  OBVIOUS
  <2>. HIDE DEF G, n
  <2>. QED  BY <1>1, <2>1, <2>2, NatSet
<1>4. DOMAIN s = 1..n  OBVIOUS
<1>5. run = [T \in SUBSET (1..n) |-> IF T = {} THEN base
               ELSE Climb(sc, run[T \ {Max(T)}])]
  BY Zenon, <1>3, <1>4
<1>6. ClimbAll(sc, base, s) = run[DOMAIN s]
  BY Zenon DEF ClimbAll, FoldLeft, MapThenFoldSet
<1>. HIDE DEF run
<1>7. n \in Nat  OBVIOUS
<1>8. at[0] = base
  <2>1. 1..0 = {} /\ 0 \in 0..n /\ {} \in SUBSET (1..n)  BY <1>7
  <2>2. run[{}] = base  BY Zenon, <1>5, <2>1
  <2>. QED  BY <2>1, <2>2
<1>9. ASSUME NEW i \in 1..n  PROVE at[i] = Climb(sc, at[i - 1])
  <2>1. /\ i \in 0..n /\ i - 1 \in 0..n /\ i \in Nat /\ i > 0
        /\ 1..i \in SUBSET (1..n) /\ 1..i # {}
    <3>. HIDE DEF n, at
    <3>1. i \in Nat /\ 1 <= i /\ i <= n /\ i > 0  BY <1>7
    <3>2. i \in 0..n /\ i - 1 \in 0..n  BY <1>7, <3>1
    <3>3. 1 \in 1..i /\ \A k \in 1..i : k \in 1..n  BY <1>7, <3>1
    <3>4. 1..i \in SUBSET (1..n) /\ 1..i # {}  BY Zenon, <3>3
    <3>. QED  BY Zenon, <3>1, <3>2, <3>4
  <2>2. Max(1..i) = i /\ (1..i) \ {i} = 1..(i - 1)  BY <2>1, TopOfInterval
  <2>3. at[i] = run[1..i] /\ at[i - 1] = run[1..(i - 1)]  BY <2>1
  <2>. HIDE DEF at
  <2>. DEFINE T == 1..i
  <2>4. run[T] = Climb(sc, run[T \ {Max(T)}])
    BY Zenon, <1>5, <2>1
  <2>. QED  BY Zenon, <2>2, <2>3, <2>4
<1>10. ClimbAll(sc, base, s) = at[n]
  <2>1. n \in 0..n  BY <1>7
  <2>2. at[n] = run[1..n]  BY <2>1
  <2>. QED  BY Zenon, <1>4, <1>6, <2>2
<1>. HIDE DEF at
<1>. QED  BY Zenon, <1>8, <1>9, <1>10

LEMMA DescendSteps ==
    ASSUME NEW base, NEW X, NEW s \in Seq(X)
    PROVE  \E at : /\ at[0] = base
                   /\ \A i \in 1..Len(s) : at[i] = Descend(at[i - 1], s[i])
                   /\ DescendAll(base, s) = at[Len(s)]
<1>. DEFINE n == Len(s)
            Is(f, k) == f = [T \in SUBSET (1..k) |-> IF T = {} THEN base
                               ELSE Descend(f[T \ {Max(T)}], s[Max(T)])]
            G == {k \in Nat : \E f : Is(f, k)}
            run == CHOOSE f : f = [T \in SUBSET (DOMAIN s) |-> IF T = {} THEN base
                               ELSE Descend(f[T \ {Max(T)}], s[Max(T)])]
            at == [i \in 0..n |-> run[1..i]]
<1>1. 0 \in G
  <2>. DEFINE f == [T \in SUBSET (1..0) |-> base]
  <2>1. 1..0 = {}  OBVIOUS
  <2>2. Is(f, 0)  BY Zenon, <2>1
  <2>. QED  BY <2>2
<1>2. ASSUME NEW k \in Nat, k \in G  PROVE k + 1 \in G
  <2>1. PICK f : Is(f, k)  BY <1>2
  <2>. DEFINE g == [T \in SUBSET (1..(k + 1)) |-> IF T = {} THEN base
                       ELSE Descend(f[T \ {Max(T)}], s[Max(T)])]
  <2>2. 1..k \subseteq 1..(k + 1)  OBVIOUS
  <2>3. ASSUME NEW T \in SUBSET (1..k)  PROVE g[T] = f[T]
    <3>1. T \in SUBSET (1..(k + 1))  BY <2>2
    <3>. QED  BY Zenon, <2>1, <3>1
  <2>4. ASSUME NEW T \in SUBSET (1..(k + 1)), T # {}
        PROVE  g[T] = Descend(g[T \ {Max(T)}], s[Max(T)])
    <3>1. T \ {Max(T)} \in SUBSET (1..k)  BY <2>4, TakeTop
    <3>2. g[T \ {Max(T)}] = f[T \ {Max(T)}]  BY <2>3, <3>1
    <3>. QED  BY Zenon, <2>4, <3>2
  <2>5. Is(g, k + 1)
    <3>1. \A T \in SUBSET (1..(k + 1)) : T = {} => g[T] = base  BY Zenon
    <3>2. \A T \in SUBSET (1..(k + 1)) : g[T] = IF T = {} THEN base
            ELSE Descend(g[T \ {Max(T)}], s[Max(T)])
      BY Zenon, <2>4, <3>1
    <3>3. g = [T \in SUBSET (1..(k + 1)) |-> g[T]]  BY Zenon
    <3>. HIDE DEF g
    <3>. QED  BY Zenon, <3>2, <3>3
  <2>. HIDE DEF Is
  <2>6. k + 1 \in Nat /\ \E h : Is(h, k + 1)  BY <2>5
  <2>. QED  BY <2>6
<1>3. n \in G
  <2>1. \A k \in Nat : k \in G => k + 1 \in G  BY <1>2
  <2>2. n \in Nat  OBVIOUS
  <2>. HIDE DEF G, n
  <2>. QED  BY <1>1, <2>1, <2>2, NatSet
<1>4. DOMAIN s = 1..n  OBVIOUS
<1>5. run = [T \in SUBSET (1..n) |-> IF T = {} THEN base
               ELSE Descend(run[T \ {Max(T)}], s[Max(T)])]
  BY Zenon, <1>3, <1>4
<1>6. DescendAll(base, s) = run[DOMAIN s]
  BY Zenon DEF DescendAll, FoldLeft, MapThenFoldSet
<1>. HIDE DEF run
<1>7. n \in Nat  OBVIOUS
<1>8. at[0] = base
  <2>1. 1..0 = {} /\ 0 \in 0..n /\ {} \in SUBSET (1..n)  BY <1>7
  <2>2. run[{}] = base  BY Zenon, <1>5, <2>1
  <2>. QED  BY <2>1, <2>2
<1>9. ASSUME NEW i \in 1..n  PROVE at[i] = Descend(at[i - 1], s[i])
  <2>1. /\ i \in 0..n /\ i - 1 \in 0..n /\ i \in Nat /\ i > 0
        /\ 1..i \in SUBSET (1..n) /\ 1..i # {}
    <3>. HIDE DEF n, at
    <3>1. i \in Nat /\ 1 <= i /\ i <= n /\ i > 0  BY <1>7
    <3>2. i \in 0..n /\ i - 1 \in 0..n  BY <1>7, <3>1
    <3>3. 1 \in 1..i /\ \A k \in 1..i : k \in 1..n  BY <1>7, <3>1
    <3>4. 1..i \in SUBSET (1..n) /\ 1..i # {}  BY Zenon, <3>3
    <3>. QED  BY Zenon, <3>1, <3>2, <3>4
  <2>2. Max(1..i) = i /\ (1..i) \ {i} = 1..(i - 1)  BY <2>1, TopOfInterval
  <2>3. at[i] = run[1..i] /\ at[i - 1] = run[1..(i - 1)]  BY <2>1
  <2>. HIDE DEF at
  <2>. DEFINE T == 1..i
  <2>4. run[T] = Descend(run[T \ {Max(T)}], s[Max(T)])
    BY Zenon, <1>5, <2>1
  <2>. QED  BY Zenon, <2>2, <2>3, <2>4
<1>10. DescendAll(base, s) = at[n]
  <2>1. n \in 0..n  BY <1>7
  <2>2. at[n] = run[1..n]  BY <2>1
  <2>. QED  BY Zenon, <1>4, <1>6, <2>2
<1>. HIDE DEF at
<1>. QED  BY Zenon, <1>8, <1>9, <1>10

LEMMA ReadUpSteps ==
    ASSUME NEW c, NEW base, NEW X, NEW s \in Seq(X)
    PROVE  \E at : /\ at[0] = base
                   /\ \A i \in 1..Len(s) : at[i] = ReadUp(c, at[i - 1])
                   /\ ReadAllUp(c, base, s) = at[Len(s)]
<1>. DEFINE n == Len(s)
            Is(f, k) == f = [T \in SUBSET (1..k) |-> IF T = {} THEN base
                               ELSE ReadUp(c, f[T \ {Max(T)}])]
            G == {k \in Nat : \E f : Is(f, k)}
            run == CHOOSE f : f = [T \in SUBSET (DOMAIN s) |-> IF T = {} THEN base
                               ELSE ReadUp(c, f[T \ {Max(T)}])]
            at == [i \in 0..n |-> run[1..i]]
<1>1. 0 \in G
  <2>. DEFINE f == [T \in SUBSET (1..0) |-> base]
  <2>1. 1..0 = {}  OBVIOUS
  <2>2. Is(f, 0)  BY Zenon, <2>1
  <2>. QED  BY <2>2
<1>2. ASSUME NEW k \in Nat, k \in G  PROVE k + 1 \in G
  <2>1. PICK f : Is(f, k)  BY <1>2
  <2>. DEFINE g == [T \in SUBSET (1..(k + 1)) |-> IF T = {} THEN base
                       ELSE ReadUp(c, f[T \ {Max(T)}])]
  <2>2. 1..k \subseteq 1..(k + 1)  OBVIOUS
  <2>3. ASSUME NEW T \in SUBSET (1..k)  PROVE g[T] = f[T]
    <3>1. T \in SUBSET (1..(k + 1))  BY <2>2
    <3>. QED  BY Zenon, <2>1, <3>1
  <2>4. ASSUME NEW T \in SUBSET (1..(k + 1)), T # {}
        PROVE  g[T] = ReadUp(c, g[T \ {Max(T)}])
    <3>1. T \ {Max(T)} \in SUBSET (1..k)  BY <2>4, TakeTop
    <3>2. g[T \ {Max(T)}] = f[T \ {Max(T)}]  BY <2>3, <3>1
    <3>. QED  BY Zenon, <2>4, <3>2
  <2>5. Is(g, k + 1)
    <3>1. \A T \in SUBSET (1..(k + 1)) : T = {} => g[T] = base  BY Zenon
    <3>2. \A T \in SUBSET (1..(k + 1)) : g[T] = IF T = {} THEN base
            ELSE ReadUp(c, g[T \ {Max(T)}])
      BY Zenon, <2>4, <3>1
    <3>3. g = [T \in SUBSET (1..(k + 1)) |-> g[T]]  BY Zenon
    <3>. HIDE DEF g
    <3>. QED  BY Zenon, <3>2, <3>3
  <2>. HIDE DEF Is
  <2>6. k + 1 \in Nat /\ \E h : Is(h, k + 1)  BY <2>5
  <2>. QED  BY <2>6
<1>3. n \in G
  <2>1. \A k \in Nat : k \in G => k + 1 \in G  BY <1>2
  <2>2. n \in Nat  OBVIOUS
  <2>. HIDE DEF G, n
  <2>. QED  BY <1>1, <2>1, <2>2, NatSet
<1>4. DOMAIN s = 1..n  OBVIOUS
<1>5. run = [T \in SUBSET (1..n) |-> IF T = {} THEN base
               ELSE ReadUp(c, run[T \ {Max(T)}])]
  BY Zenon, <1>3, <1>4
<1>6. ReadAllUp(c, base, s) = run[DOMAIN s]
  BY Zenon DEF ReadAllUp, FoldLeft, MapThenFoldSet
<1>. HIDE DEF run
<1>7. n \in Nat  OBVIOUS
<1>8. at[0] = base
  <2>1. 1..0 = {} /\ 0 \in 0..n /\ {} \in SUBSET (1..n)  BY <1>7
  <2>2. run[{}] = base  BY Zenon, <1>5, <2>1
  <2>. QED  BY <2>1, <2>2
<1>9. ASSUME NEW i \in 1..n  PROVE at[i] = ReadUp(c, at[i - 1])
  <2>1. /\ i \in 0..n /\ i - 1 \in 0..n /\ i \in Nat /\ i > 0
        /\ 1..i \in SUBSET (1..n) /\ 1..i # {}
    <3>. HIDE DEF n, at
    <3>1. i \in Nat /\ 1 <= i /\ i <= n /\ i > 0  BY <1>7
    <3>2. i \in 0..n /\ i - 1 \in 0..n  BY <1>7, <3>1
    <3>3. 1 \in 1..i /\ \A k \in 1..i : k \in 1..n  BY <1>7, <3>1
    <3>4. 1..i \in SUBSET (1..n) /\ 1..i # {}  BY Zenon, <3>3
    <3>. QED  BY Zenon, <3>1, <3>2, <3>4
  <2>2. Max(1..i) = i /\ (1..i) \ {i} = 1..(i - 1)  BY <2>1, TopOfInterval
  <2>3. at[i] = run[1..i] /\ at[i - 1] = run[1..(i - 1)]  BY <2>1
  <2>. HIDE DEF at
  <2>. DEFINE T == 1..i
  <2>4. run[T] = ReadUp(c, run[T \ {Max(T)}])
    BY Zenon, <1>5, <2>1
  <2>. QED  BY Zenon, <2>2, <2>3, <2>4
<1>10. ReadAllUp(c, base, s) = at[n]
  <2>1. n \in 0..n  BY <1>7
  <2>2. at[n] = run[1..n]  BY <2>1
  <2>. QED  BY Zenon, <1>4, <1>6, <2>2
<1>. HIDE DEF at
<1>. QED  BY Zenon, <1>8, <1>9, <1>10

LEMMA ConsumedSteps ==
    ASSUME NEW base, NEW X, NEW s \in Seq(X)
    PROVE  \E at : /\ at[0] = base
                   /\ \A i \in 1..Len(s) : at[i] = Consumed(at[i - 1], s[i])
                   /\ ConsumeAll(base, s) = at[Len(s)]
<1>. DEFINE n == Len(s)
            Is(f, k) == f = [T \in SUBSET (1..k) |-> IF T = {} THEN base
                               ELSE Consumed(f[T \ {Max(T)}], s[Max(T)])]
            G == {k \in Nat : \E f : Is(f, k)}
            run == CHOOSE f : f = [T \in SUBSET (DOMAIN s) |-> IF T = {} THEN base
                               ELSE Consumed(f[T \ {Max(T)}], s[Max(T)])]
            at == [i \in 0..n |-> run[1..i]]
<1>1. 0 \in G
  <2>. DEFINE f == [T \in SUBSET (1..0) |-> base]
  <2>1. 1..0 = {}  OBVIOUS
  <2>2. Is(f, 0)  BY Zenon, <2>1
  <2>. QED  BY <2>2
<1>2. ASSUME NEW k \in Nat, k \in G  PROVE k + 1 \in G
  <2>1. PICK f : Is(f, k)  BY <1>2
  <2>. DEFINE g == [T \in SUBSET (1..(k + 1)) |-> IF T = {} THEN base
                       ELSE Consumed(f[T \ {Max(T)}], s[Max(T)])]
  <2>2. 1..k \subseteq 1..(k + 1)  OBVIOUS
  <2>3. ASSUME NEW T \in SUBSET (1..k)  PROVE g[T] = f[T]
    <3>1. T \in SUBSET (1..(k + 1))  BY <2>2
    <3>. QED  BY Zenon, <2>1, <3>1
  <2>4. ASSUME NEW T \in SUBSET (1..(k + 1)), T # {}
        PROVE  g[T] = Consumed(g[T \ {Max(T)}], s[Max(T)])
    <3>1. T \ {Max(T)} \in SUBSET (1..k)  BY <2>4, TakeTop
    <3>2. g[T \ {Max(T)}] = f[T \ {Max(T)}]  BY <2>3, <3>1
    <3>. QED  BY Zenon, <2>4, <3>2
  <2>5. Is(g, k + 1)
    <3>1. \A T \in SUBSET (1..(k + 1)) : T = {} => g[T] = base  BY Zenon
    <3>2. \A T \in SUBSET (1..(k + 1)) : g[T] = IF T = {} THEN base
            ELSE Consumed(g[T \ {Max(T)}], s[Max(T)])
      BY Zenon, <2>4, <3>1
    <3>3. g = [T \in SUBSET (1..(k + 1)) |-> g[T]]  BY Zenon
    <3>. HIDE DEF g
    <3>. QED  BY Zenon, <3>2, <3>3
  <2>. HIDE DEF Is
  <2>6. k + 1 \in Nat /\ \E h : Is(h, k + 1)  BY <2>5
  <2>. QED  BY <2>6
<1>3. n \in G
  <2>1. \A k \in Nat : k \in G => k + 1 \in G  BY <1>2
  <2>2. n \in Nat  OBVIOUS
  <2>. HIDE DEF G, n
  <2>. QED  BY <1>1, <2>1, <2>2, NatSet
<1>4. DOMAIN s = 1..n  OBVIOUS
<1>5. run = [T \in SUBSET (1..n) |-> IF T = {} THEN base
               ELSE Consumed(run[T \ {Max(T)}], s[Max(T)])]
  BY Zenon, <1>3, <1>4
<1>6. ConsumeAll(base, s) = run[DOMAIN s]
  BY Zenon DEF ConsumeAll, FoldLeft, MapThenFoldSet
<1>. HIDE DEF run
<1>7. n \in Nat  OBVIOUS
<1>8. at[0] = base
  <2>1. 1..0 = {} /\ 0 \in 0..n /\ {} \in SUBSET (1..n)  BY <1>7
  <2>2. run[{}] = base  BY Zenon, <1>5, <2>1
  <2>. QED  BY <2>1, <2>2
<1>9. ASSUME NEW i \in 1..n  PROVE at[i] = Consumed(at[i - 1], s[i])
  <2>1. /\ i \in 0..n /\ i - 1 \in 0..n /\ i \in Nat /\ i > 0
        /\ 1..i \in SUBSET (1..n) /\ 1..i # {}
    <3>. HIDE DEF n, at
    <3>1. i \in Nat /\ 1 <= i /\ i <= n /\ i > 0  BY <1>7
    <3>2. i \in 0..n /\ i - 1 \in 0..n  BY <1>7, <3>1
    <3>3. 1 \in 1..i /\ \A k \in 1..i : k \in 1..n  BY <1>7, <3>1
    <3>4. 1..i \in SUBSET (1..n) /\ 1..i # {}  BY Zenon, <3>3
    <3>. QED  BY Zenon, <3>1, <3>2, <3>4
  <2>2. Max(1..i) = i /\ (1..i) \ {i} = 1..(i - 1)  BY <2>1, TopOfInterval
  <2>3. at[i] = run[1..i] /\ at[i - 1] = run[1..(i - 1)]  BY <2>1
  <2>. HIDE DEF at
  <2>. DEFINE T == 1..i
  <2>4. run[T] = Consumed(run[T \ {Max(T)}], s[Max(T)])
    BY Zenon, <1>5, <2>1
  <2>. QED  BY Zenon, <2>2, <2>3, <2>4
<1>10. ConsumeAll(base, s) = at[n]
  <2>1. n \in 0..n  BY <1>7
  <2>2. at[n] = run[1..n]  BY <2>1
  <2>. QED  BY Zenon, <1>4, <1>6, <2>2
<1>. HIDE DEF at
<1>. QED  BY Zenon, <1>8, <1>9, <1>10

Retires(run, base, S) ==
    /\ run[{}] = base
    /\ \A T \in SUBSET S : T # {} => \E x \in T : run[T] = Retire(run[T \ {x}], x)
    /\ RetireAll(base, S) = run[S]

LEMMA RetiresExists ==
    ASSUME NEW base, NEW S, IsFiniteSet(S)
    PROVE  \E run : Retires(run, base, S)
<1>. DEFINE Small(k) == {T \in SUBSET S : Cardinality(T) <= k}
            Is(f, D) == f = [T \in D |-> IF T = {} THEN base
                               ELSE Retire(f[T \ {CHOOSE x \in T : TRUE}], CHOOSE x \in T : TRUE)]
            G == {k \in Nat : \E f : Is(f, Small(k))}
            run == CHOOSE f : Is(f, SUBSET S)
<1>0. \A T \in SUBSET S : IsFiniteSet(T) /\ Cardinality(T) \in Nat
  BY FS_Subset, FS_CardinalityType
<1>1. 0 \in G
  <2>. DEFINE f == [T \in Small(0) |-> base]
  <2>1. ASSUME NEW T \in Small(0)  PROVE T = {}
    <3>1. Cardinality(T) <= 0 /\ Cardinality(T) \in Nat /\ IsFiniteSet(T)  BY <1>0
    <3>2. Cardinality(T) = 0  BY <3>1
    <3>. QED  BY <3>1, <3>2, FS_EmptySet
  <2>2. \A T \in Small(0) : f[T] = IF T = {} THEN base ELSE Retire(f[T \ {CHOOSE x \in T : TRUE}], CHOOSE x \in T : TRUE)
    BY Zenon, <2>1
  <2>3. f = [T \in Small(0) |-> f[T]]  BY Zenon
  <2>. HIDE DEF f, Small
  <2>4. Is(f, Small(0))  BY Zenon, <2>2, <2>3
  <2>. QED  BY Zenon, <2>4
<1>2. ASSUME NEW k \in Nat, k \in G  PROVE k + 1 \in G
  <2>1. PICK f : Is(f, Small(k))  BY <1>2
  <2>. DEFINE g == [T \in Small(k + 1) |-> IF T = {} THEN base
                       ELSE Retire(f[T \ {CHOOSE x \in T : TRUE}], CHOOSE x \in T : TRUE)]
  <2>2. ASSUME NEW T \in Small(k)  PROVE g[T] = f[T]
    <3>1. Cardinality(T) \in Nat /\ Cardinality(T) <= k  BY <1>0
    <3>2. Cardinality(T) <= k + 1  BY <3>1
    <3>3. T \in Small(k + 1)  BY <3>2
    <3>. HIDE DEF Small
    <3>. QED  BY Zenon, <2>1, <3>3
  <2>3. ASSUME NEW T \in Small(k + 1), T # {}
        PROVE  T \ {CHOOSE x \in T : TRUE} \in Small(k)
    <3>1. PICK y : y = CHOOSE x \in T : TRUE  OBVIOUS
    <3>2. y \in T  BY <2>3, <3>1
    <3>3. T \in SUBSET S /\ IsFiniteSet(T) /\ Cardinality(T) \in Nat /\ Cardinality(T) <= k + 1
      BY <1>0
    <3>4. Cardinality(T \ {y}) = Cardinality(T) - 1  BY <3>2, <3>3, FS_RemoveElement
    <3>5. Cardinality(T \ {y}) <= k  BY <3>3, <3>4
    <3>6. T \ {y} \in Small(k)  BY <3>3, <3>5
    <3>. HIDE DEF Small
    <3>. QED  BY Zenon, <3>1, <3>6
  <2>. HIDE DEF Small
  <2>4. ASSUME NEW T \in Small(k + 1), T # {}
        PROVE  g[T] = Retire(g[T \ {CHOOSE x \in T : TRUE}], CHOOSE x \in T : TRUE)
    <3>1. g[T \ {CHOOSE x \in T : TRUE}] = f[T \ {CHOOSE x \in T : TRUE}]
      BY Zenon, <2>2, <2>3, <2>4
    <3>. QED  BY Zenon, <2>4, <3>1
  <2>5. \A T \in Small(k + 1) : g[T] = IF T = {} THEN base ELSE Retire(g[T \ {CHOOSE x \in T : TRUE}], CHOOSE x \in T : TRUE)
    <3>1. \A T \in Small(k + 1) : T = {} => g[T] = base  BY Zenon
    <3>. QED  BY Zenon, <2>4, <3>1
  <2>6. g = [T \in Small(k + 1) |-> g[T]]  OBVIOUS
  <2>. HIDE DEF g
  <2>7. Is(g, Small(k + 1))  BY Zenon, <2>5, <2>6
  <2>. HIDE DEF Is
  <2>8. k + 1 \in Nat /\ \E h : Is(h, Small(k + 1))  BY <2>7
  <2>. QED  BY <2>8
<1>3. \E f : Is(f, SUBSET S)
  <2>. DEFINE m == Cardinality(S)
  <2>1. \A k \in Nat : k \in G => k + 1 \in G  BY <1>2
  <2>2. m \in Nat  BY <1>0
  <2>3. m \in G
    <3>. HIDE DEF G, m
    <3>. QED  BY <1>1, <2>1, <2>2, NatSet
  <2>4. Small(m) = SUBSET S
    <3>1. \A T \in SUBSET S : Cardinality(T) <= m  BY <1>0, FS_Subset
    <3>. QED  BY <3>1
  <2>. HIDE DEF Small
  <2>. QED  BY Zenon, <2>3, <2>4
<1>4. Is(run, SUBSET S)  BY Zenon, <1>3
<1>5. RetireAll(base, S) = run[S]  BY Zenon DEF RetireAll, FoldSet, MapThenFoldSet
<1>. HIDE DEF run
<1>6. run[{}] = base  BY Zenon, <1>4
<1>7. ASSUME NEW T \in SUBSET S, T # {}
      PROVE  \E x \in T : run[T] = Retire(run[T \ {x}], x)
  <2>1. PICK y : y = CHOOSE x \in T : TRUE  OBVIOUS
  <2>2. y \in T  BY <1>7, <2>1
  <2>3. run[T] = Retire(run[T \ {CHOOSE x \in T : TRUE}], CHOOSE x \in T : TRUE)  BY Zenon, <1>4, <1>7
  <2>4. run[T] = Retire(run[T \ {y}], y)  BY Zenon, <2>1, <2>3
  <2>. QED  BY Zenon, <2>2, <2>4
<1>. QED  BY Zenon, <1>5, <1>6, <1>7 DEF Retires

RetiresResynced(run, sc, base, S) ==
    /\ run[{}] = base
    /\ \A T \in SUBSET S : T # {} => \E x \in T : run[T] = RetireResynced(sc, run[T \ {x}], x)
    /\ RetireAllResynced(sc, base, S) = run[S]

LEMMA RetiresResyncedExists ==
    ASSUME NEW sc, NEW base, NEW S, IsFiniteSet(S)
    PROVE  \E run : RetiresResynced(run, sc, base, S)
<1>. DEFINE Small(k) == {T \in SUBSET S : Cardinality(T) <= k}
            Is(f, D) == f = [T \in D |-> IF T = {} THEN base
                               ELSE RetireResynced(sc, f[T \ {CHOOSE x \in T : TRUE}], CHOOSE x \in T : TRUE)]
            G == {k \in Nat : \E f : Is(f, Small(k))}
            run == CHOOSE f : Is(f, SUBSET S)
<1>0. \A T \in SUBSET S : IsFiniteSet(T) /\ Cardinality(T) \in Nat
  BY FS_Subset, FS_CardinalityType
<1>1. 0 \in G
  <2>. DEFINE f == [T \in Small(0) |-> base]
  <2>1. ASSUME NEW T \in Small(0)  PROVE T = {}
    <3>1. Cardinality(T) <= 0 /\ Cardinality(T) \in Nat /\ IsFiniteSet(T)  BY <1>0
    <3>2. Cardinality(T) = 0  BY <3>1
    <3>. QED  BY <3>1, <3>2, FS_EmptySet
  <2>2. \A T \in Small(0) : f[T] = IF T = {} THEN base ELSE RetireResynced(sc, f[T \ {CHOOSE x \in T : TRUE}], CHOOSE x \in T : TRUE)
    BY Zenon, <2>1
  <2>3. f = [T \in Small(0) |-> f[T]]  BY Zenon
  <2>. HIDE DEF f, Small
  <2>4. Is(f, Small(0))  BY Zenon, <2>2, <2>3
  <2>. QED  BY Zenon, <2>4
<1>2. ASSUME NEW k \in Nat, k \in G  PROVE k + 1 \in G
  <2>1. PICK f : Is(f, Small(k))  BY <1>2
  <2>. DEFINE g == [T \in Small(k + 1) |-> IF T = {} THEN base
                       ELSE RetireResynced(sc, f[T \ {CHOOSE x \in T : TRUE}], CHOOSE x \in T : TRUE)]
  <2>2. ASSUME NEW T \in Small(k)  PROVE g[T] = f[T]
    <3>1. Cardinality(T) \in Nat /\ Cardinality(T) <= k  BY <1>0
    <3>2. Cardinality(T) <= k + 1  BY <3>1
    <3>3. T \in Small(k + 1)  BY <3>2
    <3>. HIDE DEF Small
    <3>. QED  BY Zenon, <2>1, <3>3
  <2>3. ASSUME NEW T \in Small(k + 1), T # {}
        PROVE  T \ {CHOOSE x \in T : TRUE} \in Small(k)
    <3>1. PICK y : y = CHOOSE x \in T : TRUE  OBVIOUS
    <3>2. y \in T  BY <2>3, <3>1
    <3>3. T \in SUBSET S /\ IsFiniteSet(T) /\ Cardinality(T) \in Nat /\ Cardinality(T) <= k + 1
      BY <1>0
    <3>4. Cardinality(T \ {y}) = Cardinality(T) - 1  BY <3>2, <3>3, FS_RemoveElement
    <3>5. Cardinality(T \ {y}) <= k  BY <3>3, <3>4
    <3>6. T \ {y} \in Small(k)  BY <3>3, <3>5
    <3>. HIDE DEF Small
    <3>. QED  BY Zenon, <3>1, <3>6
  <2>. HIDE DEF Small
  <2>4. ASSUME NEW T \in Small(k + 1), T # {}
        PROVE  g[T] = RetireResynced(sc, g[T \ {CHOOSE x \in T : TRUE}], CHOOSE x \in T : TRUE)
    <3>1. g[T \ {CHOOSE x \in T : TRUE}] = f[T \ {CHOOSE x \in T : TRUE}]
      BY Zenon, <2>2, <2>3, <2>4
    <3>. QED  BY Zenon, <2>4, <3>1
  <2>5. \A T \in Small(k + 1) : g[T] = IF T = {} THEN base ELSE RetireResynced(sc, g[T \ {CHOOSE x \in T : TRUE}], CHOOSE x \in T : TRUE)
    <3>1. \A T \in Small(k + 1) : T = {} => g[T] = base  BY Zenon
    <3>. QED  BY ZenonT(40), <2>4, <3>1
  <2>6. g = [T \in Small(k + 1) |-> g[T]]  OBVIOUS
  <2>. HIDE DEF g
  <2>7. Is(g, Small(k + 1))  BY Zenon, <2>5, <2>6
  <2>. HIDE DEF Is
  <2>8. k + 1 \in Nat /\ \E h : Is(h, Small(k + 1))  BY <2>7
  <2>. QED  BY <2>8
<1>3. \E f : Is(f, SUBSET S)
  <2>. DEFINE m == Cardinality(S)
  <2>1. \A k \in Nat : k \in G => k + 1 \in G  BY <1>2
  <2>2. m \in Nat  BY <1>0
  <2>3. m \in G
    <3>. HIDE DEF G, m
    <3>. QED  BY <1>1, <2>1, <2>2, NatSet
  <2>4. Small(m) = SUBSET S
    <3>1. \A T \in SUBSET S : Cardinality(T) <= m  BY <1>0, FS_Subset
    <3>. QED  BY <3>1
  <2>. HIDE DEF Small
  <2>. QED  BY Zenon, <2>3, <2>4
<1>4. Is(run, SUBSET S)  BY Zenon, <1>3
<1>5. RetireAllResynced(sc, base, S) = run[S]  BY Zenon DEF RetireAllResynced, FoldSet, MapThenFoldSet
<1>. HIDE DEF run
<1>6. run[{}] = base  BY Zenon, <1>4
<1>7. ASSUME NEW T \in SUBSET S, T # {}
      PROVE  \E x \in T : run[T] = RetireResynced(sc, run[T \ {x}], x)
  <2>1. PICK y : y = CHOOSE x \in T : TRUE  OBVIOUS
  <2>2. y \in T  BY <1>7, <2>1
  <2>3. run[T] = RetireResynced(sc, run[T \ {CHOOSE x \in T : TRUE}], CHOOSE x \in T : TRUE)  BY Zenon, <1>4, <1>7
  <2>4. run[T] = RetireResynced(sc, run[T \ {y}], y)  BY Zenon, <2>1, <2>3
  <2>. QED  BY Zenon, <2>2, <2>4
<1>. QED  BY Zenon, <1>5, <1>6, <1>7 DEF RetiresResynced

Invalidates(run, base, S) ==
    /\ run[{}] = base
    /\ \A T \in SUBSET S : T # {} => \E x \in T : run[T] = InvalidateTransform(run[T \ {x}], x)
    /\ InvalidateAll(base, S) = run[S]

LEMMA InvalidatesExists ==
    ASSUME NEW base, NEW S, IsFiniteSet(S)
    PROVE  \E run : Invalidates(run, base, S)
<1>. DEFINE Small(k) == {T \in SUBSET S : Cardinality(T) <= k}
            Is(f, D) == f = [T \in D |-> IF T = {} THEN base
                               ELSE InvalidateTransform(f[T \ {CHOOSE x \in T : TRUE}], CHOOSE x \in T : TRUE)]
            G == {k \in Nat : \E f : Is(f, Small(k))}
            run == CHOOSE f : Is(f, SUBSET S)
<1>0. \A T \in SUBSET S : IsFiniteSet(T) /\ Cardinality(T) \in Nat
  BY FS_Subset, FS_CardinalityType
<1>1. 0 \in G
  <2>. DEFINE f == [T \in Small(0) |-> base]
  <2>1. ASSUME NEW T \in Small(0)  PROVE T = {}
    <3>1. Cardinality(T) <= 0 /\ Cardinality(T) \in Nat /\ IsFiniteSet(T)  BY <1>0
    <3>2. Cardinality(T) = 0  BY <3>1
    <3>. QED  BY <3>1, <3>2, FS_EmptySet
  <2>2. \A T \in Small(0) : f[T] = IF T = {} THEN base ELSE InvalidateTransform(f[T \ {CHOOSE x \in T : TRUE}], CHOOSE x \in T : TRUE)
    BY Zenon, <2>1
  <2>3. f = [T \in Small(0) |-> f[T]]  BY Zenon
  <2>. HIDE DEF f, Small
  <2>4. Is(f, Small(0))  BY Zenon, <2>2, <2>3
  <2>. QED  BY Zenon, <2>4
<1>2. ASSUME NEW k \in Nat, k \in G  PROVE k + 1 \in G
  <2>1. PICK f : Is(f, Small(k))  BY <1>2
  <2>. DEFINE g == [T \in Small(k + 1) |-> IF T = {} THEN base
                       ELSE InvalidateTransform(f[T \ {CHOOSE x \in T : TRUE}], CHOOSE x \in T : TRUE)]
  <2>2. ASSUME NEW T \in Small(k)  PROVE g[T] = f[T]
    <3>1. Cardinality(T) \in Nat /\ Cardinality(T) <= k  BY <1>0
    <3>2. Cardinality(T) <= k + 1  BY <3>1
    <3>3. T \in Small(k + 1)  BY <3>2
    <3>. HIDE DEF Small
    <3>. QED  BY Zenon, <2>1, <3>3
  <2>3. ASSUME NEW T \in Small(k + 1), T # {}
        PROVE  T \ {CHOOSE x \in T : TRUE} \in Small(k)
    <3>1. PICK y : y = CHOOSE x \in T : TRUE  OBVIOUS
    <3>2. y \in T  BY <2>3, <3>1
    <3>3. T \in SUBSET S /\ IsFiniteSet(T) /\ Cardinality(T) \in Nat /\ Cardinality(T) <= k + 1
      BY <1>0
    <3>4. Cardinality(T \ {y}) = Cardinality(T) - 1  BY <3>2, <3>3, FS_RemoveElement
    <3>5. Cardinality(T \ {y}) <= k  BY <3>3, <3>4
    <3>6. T \ {y} \in Small(k)  BY <3>3, <3>5
    <3>. HIDE DEF Small
    <3>. QED  BY Zenon, <3>1, <3>6
  <2>. HIDE DEF Small
  <2>4. ASSUME NEW T \in Small(k + 1), T # {}
        PROVE  g[T] = InvalidateTransform(g[T \ {CHOOSE x \in T : TRUE}], CHOOSE x \in T : TRUE)
    <3>1. g[T \ {CHOOSE x \in T : TRUE}] = f[T \ {CHOOSE x \in T : TRUE}]
      BY Zenon, <2>2, <2>3, <2>4
    <3>. QED  BY Zenon, <2>4, <3>1
  <2>5. \A T \in Small(k + 1) : g[T] = IF T = {} THEN base ELSE InvalidateTransform(g[T \ {CHOOSE x \in T : TRUE}], CHOOSE x \in T : TRUE)
    <3>1. \A T \in Small(k + 1) : T = {} => g[T] = base  BY Zenon
    <3>. QED  BY Zenon, <2>4, <3>1
  <2>6. g = [T \in Small(k + 1) |-> g[T]]  OBVIOUS
  <2>. HIDE DEF g
  <2>7. Is(g, Small(k + 1))  BY Zenon, <2>5, <2>6
  <2>. HIDE DEF Is
  <2>8. k + 1 \in Nat /\ \E h : Is(h, Small(k + 1))  BY <2>7
  <2>. QED  BY <2>8
<1>3. \E f : Is(f, SUBSET S)
  <2>. DEFINE m == Cardinality(S)
  <2>1. \A k \in Nat : k \in G => k + 1 \in G  BY <1>2
  <2>2. m \in Nat  BY <1>0
  <2>3. m \in G
    <3>. HIDE DEF G, m
    <3>. QED  BY <1>1, <2>1, <2>2, NatSet
  <2>4. Small(m) = SUBSET S
    <3>1. \A T \in SUBSET S : Cardinality(T) <= m  BY <1>0, FS_Subset
    <3>. QED  BY <3>1
  <2>. HIDE DEF Small
  <2>. QED  BY Zenon, <2>3, <2>4
<1>4. Is(run, SUBSET S)  BY Zenon, <1>3
<1>5. InvalidateAll(base, S) = run[S]  BY Zenon DEF InvalidateAll, FoldSet, MapThenFoldSet
<1>. HIDE DEF run
<1>6. run[{}] = base  BY Zenon, <1>4
<1>7. ASSUME NEW T \in SUBSET S, T # {}
      PROVE  \E x \in T : run[T] = InvalidateTransform(run[T \ {x}], x)
  <2>1. PICK y : y = CHOOSE x \in T : TRUE  OBVIOUS
  <2>2. y \in T  BY <1>7, <2>1
  <2>3. run[T] = InvalidateTransform(run[T \ {CHOOSE x \in T : TRUE}], CHOOSE x \in T : TRUE)  BY Zenon, <1>4, <1>7
  <2>4. run[T] = InvalidateTransform(run[T \ {y}], y)  BY Zenon, <2>1, <2>3
  <2>. QED  BY Zenon, <2>2, <2>4
<1>. QED  BY Zenon, <1>5, <1>6, <1>7 DEF Invalidates

Marks(run, base, S) ==
    /\ run[{}] = base
    /\ \A T \in SUBSET S : T # {} => \E x \in T : run[T] = Mark(run[T \ {x}], x)
    /\ MarkAll(base, S) = run[S]

LEMMA MarksExists ==
    ASSUME NEW base, NEW S, IsFiniteSet(S)
    PROVE  \E run : Marks(run, base, S)
<1>. DEFINE Small(k) == {T \in SUBSET S : Cardinality(T) <= k}
            Is(f, D) == f = [T \in D |-> IF T = {} THEN base
                               ELSE Mark(f[T \ {CHOOSE x \in T : TRUE}], CHOOSE x \in T : TRUE)]
            G == {k \in Nat : \E f : Is(f, Small(k))}
            run == CHOOSE f : Is(f, SUBSET S)
<1>0. \A T \in SUBSET S : IsFiniteSet(T) /\ Cardinality(T) \in Nat
  BY FS_Subset, FS_CardinalityType
<1>1. 0 \in G
  <2>. DEFINE f == [T \in Small(0) |-> base]
  <2>1. ASSUME NEW T \in Small(0)  PROVE T = {}
    <3>1. Cardinality(T) <= 0 /\ Cardinality(T) \in Nat /\ IsFiniteSet(T)  BY <1>0
    <3>2. Cardinality(T) = 0  BY <3>1
    <3>. QED  BY <3>1, <3>2, FS_EmptySet
  <2>2. \A T \in Small(0) : f[T] = IF T = {} THEN base ELSE Mark(f[T \ {CHOOSE x \in T : TRUE}], CHOOSE x \in T : TRUE)
    BY Zenon, <2>1
  <2>3. f = [T \in Small(0) |-> f[T]]  BY Zenon
  <2>. HIDE DEF f, Small
  <2>4. Is(f, Small(0))  BY Zenon, <2>2, <2>3
  <2>. QED  BY Zenon, <2>4
<1>2. ASSUME NEW k \in Nat, k \in G  PROVE k + 1 \in G
  <2>1. PICK f : Is(f, Small(k))  BY <1>2
  <2>. DEFINE g == [T \in Small(k + 1) |-> IF T = {} THEN base
                       ELSE Mark(f[T \ {CHOOSE x \in T : TRUE}], CHOOSE x \in T : TRUE)]
  <2>2. ASSUME NEW T \in Small(k)  PROVE g[T] = f[T]
    <3>1. Cardinality(T) \in Nat /\ Cardinality(T) <= k  BY <1>0
    <3>2. Cardinality(T) <= k + 1  BY <3>1
    <3>3. T \in Small(k + 1)  BY <3>2
    <3>. HIDE DEF Small
    <3>. QED  BY Zenon, <2>1, <3>3
  <2>3. ASSUME NEW T \in Small(k + 1), T # {}
        PROVE  T \ {CHOOSE x \in T : TRUE} \in Small(k)
    <3>1. PICK y : y = CHOOSE x \in T : TRUE  OBVIOUS
    <3>2. y \in T  BY <2>3, <3>1
    <3>3. T \in SUBSET S /\ IsFiniteSet(T) /\ Cardinality(T) \in Nat /\ Cardinality(T) <= k + 1
      BY <1>0
    <3>4. Cardinality(T \ {y}) = Cardinality(T) - 1  BY <3>2, <3>3, FS_RemoveElement
    <3>5. Cardinality(T \ {y}) <= k  BY <3>3, <3>4
    <3>6. T \ {y} \in Small(k)  BY <3>3, <3>5
    <3>. HIDE DEF Small
    <3>. QED  BY Zenon, <3>1, <3>6
  <2>. HIDE DEF Small
  <2>4. ASSUME NEW T \in Small(k + 1), T # {}
        PROVE  g[T] = Mark(g[T \ {CHOOSE x \in T : TRUE}], CHOOSE x \in T : TRUE)
    <3>1. g[T \ {CHOOSE x \in T : TRUE}] = f[T \ {CHOOSE x \in T : TRUE}]
      BY Zenon, <2>2, <2>3, <2>4
    <3>. QED  BY Zenon, <2>4, <3>1
  <2>5. \A T \in Small(k + 1) : g[T] = IF T = {} THEN base ELSE Mark(g[T \ {CHOOSE x \in T : TRUE}], CHOOSE x \in T : TRUE)
    <3>1. \A T \in Small(k + 1) : T = {} => g[T] = base  BY Zenon
    <3>. QED  BY Zenon, <2>4, <3>1
  <2>6. g = [T \in Small(k + 1) |-> g[T]]  OBVIOUS
  <2>. HIDE DEF g
  <2>7. Is(g, Small(k + 1))  BY Zenon, <2>5, <2>6
  <2>. HIDE DEF Is
  <2>8. k + 1 \in Nat /\ \E h : Is(h, Small(k + 1))  BY <2>7
  <2>. QED  BY <2>8
<1>3. \E f : Is(f, SUBSET S)
  <2>. DEFINE m == Cardinality(S)
  <2>1. \A k \in Nat : k \in G => k + 1 \in G  BY <1>2
  <2>2. m \in Nat  BY <1>0
  <2>3. m \in G
    <3>. HIDE DEF G, m
    <3>. QED  BY <1>1, <2>1, <2>2, NatSet
  <2>4. Small(m) = SUBSET S
    <3>1. \A T \in SUBSET S : Cardinality(T) <= m  BY <1>0, FS_Subset
    <3>. QED  BY <3>1
  <2>. HIDE DEF Small
  <2>. QED  BY Zenon, <2>3, <2>4
<1>4. Is(run, SUBSET S)  BY Zenon, <1>3
<1>5. MarkAll(base, S) = run[S]  BY Zenon DEF MarkAll, FoldSet, MapThenFoldSet
<1>. HIDE DEF run
<1>6. run[{}] = base  BY Zenon, <1>4
<1>7. ASSUME NEW T \in SUBSET S, T # {}
      PROVE  \E x \in T : run[T] = Mark(run[T \ {x}], x)
  <2>1. PICK y : y = CHOOSE x \in T : TRUE  OBVIOUS
  <2>2. y \in T  BY <1>7, <2>1
  <2>3. run[T] = Mark(run[T \ {CHOOSE x \in T : TRUE}], CHOOSE x \in T : TRUE)  BY Zenon, <1>4, <1>7
  <2>4. run[T] = Mark(run[T \ {y}], y)  BY Zenon, <2>1, <2>3
  <2>. QED  BY Zenon, <2>2, <2>4
<1>. QED  BY Zenon, <1>5, <1>6, <1>7 DEF Marks

(* The same, by name.                                                       *)
Climbs(at, sc, base, s) ==
    /\ at[0] = base /\ \A i \in 1..Len(s) : at[i] = Climb(sc, at[i - 1])
    /\ ClimbAll(sc, base, s) = at[Len(s)]

LEMMA ClimbsExists ==
    ASSUME NEW sc, NEW base, NEW X, NEW s \in Seq(X)
    PROVE  \E at : Climbs(at, sc, base, s)
<1>1. \E at : /\ at[0] = base
              /\ \A i \in 1..Len(s) : at[i] = Climb(sc, at[i - 1])
              /\ ClimbAll(sc, base, s) = at[Len(s)]
  BY ClimbSteps
<1>. QED  BY <1>1 DEF Climbs

Descends(at, base, s) ==
    /\ at[0] = base /\ \A i \in 1..Len(s) : at[i] = Descend(at[i - 1], s[i])
    /\ DescendAll(base, s) = at[Len(s)]

LEMMA DescendsExists ==
    ASSUME NEW base, NEW X, NEW s \in Seq(X)
    PROVE  \E at : Descends(at, base, s)
<1>1. \E at : /\ at[0] = base
              /\ \A i \in 1..Len(s) : at[i] = Descend(at[i - 1], s[i])
              /\ DescendAll(base, s) = at[Len(s)]
  BY DescendSteps
<1>. QED  BY <1>1 DEF Descends

Reads(at, c, base, s) ==
    /\ at[0] = base /\ \A i \in 1..Len(s) : at[i] = ReadUp(c, at[i - 1])
    /\ ReadAllUp(c, base, s) = at[Len(s)]

LEMMA ReadsExists ==
    ASSUME NEW c, NEW base, NEW X, NEW s \in Seq(X)
    PROVE  \E at : Reads(at, c, base, s)
<1>1. \E at : /\ at[0] = base
              /\ \A i \in 1..Len(s) : at[i] = ReadUp(c, at[i - 1])
              /\ ReadAllUp(c, base, s) = at[Len(s)]
  BY ReadUpSteps
<1>. QED  BY <1>1 DEF Reads

Consumes(at, base, s) ==
    /\ at[0] = base /\ \A i \in 1..Len(s) : at[i] = Consumed(at[i - 1], s[i])
    /\ ConsumeAll(base, s) = at[Len(s)]

LEMMA ConsumesExists ==
    ASSUME NEW base, NEW X, NEW s \in Seq(X)
    PROVE  \E at : Consumes(at, base, s)
<1>1. \E at : /\ at[0] = base
              /\ \A i \in 1..Len(s) : at[i] = Consumed(at[i - 1], s[i])
              /\ ConsumeAll(base, s) = at[Len(s)]
  BY ConsumedSteps
<1>. QED  BY <1>1 DEF Consumes

-----------------------------------------------------------------------------
(* Prims and their ancestors.                                               *)
Up(p, i) == SubSeq(p, 1, Len(p) - i + 1)

LEMMA PrimFacts ==
    ASSUME NEW p \in Prims
    PROVE  /\ p \in Seq(Names) /\ Len(p) \in Nat /\ Len(p) > 0
           /\ Len(p) > 1 => Front(p) \in Prims /\ Len(Front(p)) = Len(p) - 1
<1>1. p \in Seq(Names) /\ Len(p) > 0  BY PrimsAssumption
<1>2. Len(p) \in Nat  BY <1>1
<1>3. Len(p) > 1 => Front(p) \in Prims  BY PrimsAssumption
<1>4. Len(p) > 1 => Len(Front(p)) = Len(p) - 1
  <2>. SUFFICES ASSUME Len(p) > 1  PROVE Len(Front(p)) = Len(p) - 1
    OBVIOUS
  <2>1. Len(p) - 1 \in Nat  BY <1>2
  <2>. QED  BY <1>1, <1>2, <2>1 DEF Front
<1>. QED  BY <1>1, <1>2, <1>3, <1>4

(* What holds of a prim when it does of its parent holds of all.            *)
LEMMA DownThePrims ==
    ASSUME NEW G, \A p \in Prims : (Len(p) > 1 => Front(p) \in G) => p \in G
    PROVE  Prims \subseteq G
<1>. DEFINE S == {n \in Nat : \A p \in Prims : Len(p) <= n => p \in G}
<1>1. 0 \in S  BY PrimFacts
<1>2. ASSUME NEW n \in Nat, n \in S  PROVE n + 1 \in S
  <2>. SUFFICES ASSUME NEW p \in Prims, Len(p) <= n + 1  PROVE p \in G
    OBVIOUS
  <2>1. CASE Len(p) > 1
    <3>1. Front(p) \in Prims /\ Len(Front(p)) <= n  BY <2>1, PrimFacts
    <3>2. Front(p) \in G  BY <1>2, <3>1
    <3>. QED  BY <3>2
  <2>2. CASE ~(Len(p) > 1)  BY <2>2
  <2>. QED  BY <2>1, <2>2
<1>3. \A n \in Nat : n \in S => n + 1 \in S  BY <1>2
<1>4. Nat \subseteq S
  <2>. HIDE DEF S
  <2>. QED  BY <1>1, <1>3, NatSet
<1>5. ASSUME NEW p \in Prims  PROVE p \in G
  <2>1. Len(p) \in S  BY <1>4, PrimFacts
  <2>2. Len(p) <= Len(p)  BY PrimFacts
  <2>. QED  BY <2>1, <2>2
<1>. QED  BY <1>5

LEMMA UpIs ==
    ASSUME NEW p \in Prims, NEW i \in 1..Len(p)
    PROVE  /\ Up(p, i) \in Seq(Names) /\ Len(Up(p, i)) = Len(p) - i + 1
           /\ \A j \in 1..(Len(p) - i + 1) : Up(p, i)[j] = p[j]
BY PrimFacts DEF Up

LEMMA UpOne ==
    ASSUME NEW p \in Prims
    PROVE  Up(p, 1) = p
<1>1. p \in Seq(Names) /\ Len(p) \in Nat /\ Len(p) > 0  BY PrimFacts
<1>2. Len(p) - 1 + 1 = Len(p)  BY <1>1
<1>3. SubSeq(p, 1, Len(p)) = p  BY <1>1
<1>. QED  BY <1>2, <1>3 DEF Up

LEMMA UpOfFront ==
    ASSUME NEW p \in Prims, NEW i \in 1..(Len(p) - 1)
    PROVE  Up(Front(p), i) = Up(p, i + 1)
<1>1. p \in Seq(Names) /\ Len(p) \in Nat /\ Len(p) > 1  BY PrimFacts
<1>2. Front(p) \in Prims /\ Len(Front(p)) = Len(p) - 1  BY <1>1, PrimFacts
<1>3. Front(p) = SubSeq(p, 1, Len(p) - 1)  BY DEF Front
<1>4. \A j \in 1..(Len(p) - 1) : Front(p)[j] = p[j]  BY <1>1, <1>3
<1>5. i \in 1..Len(Front(p)) /\ i + 1 \in 1..Len(p)  BY <1>1, <1>2
<1>6. Len(Front(p)) - i + 1 = Len(p) - (i + 1) + 1  BY <1>1, <1>2
<1>. DEFINE a == Up(Front(p), i)
            b == Up(p, i + 1)
            m == Len(p) - (i + 1) + 1
<1>7. a \in Seq(Names) /\ Len(a) = m /\ \A j \in 1..m : a[j] = Front(p)[j]
  BY <1>2, <1>5, <1>6, UpIs
<1>8. b \in Seq(Names) /\ Len(b) = m /\ \A j \in 1..m : b[j] = p[j]
  BY <1>5, UpIs
<1>9. \A j \in 1..m : j \in 1..(Len(p) - 1)  BY <1>1, <1>5
<1>10. \A j \in 1..m : a[j] = b[j]  BY <1>4, <1>7, <1>8, <1>9
<1>. HIDE DEF a, b, m
<1>11. a = b  BY <1>7, <1>8, <1>10, SeqEqual
<1>. QED  BY <1>11 DEF a, b

LEMMA FrontOfUp ==
    ASSUME NEW p \in Prims, NEW i \in 1..(Len(p) - 1)
    PROVE  Front(Up(p, i)) = Up(p, i + 1)
<1>1. p \in Seq(Names) /\ Len(p) \in Nat /\ Len(p) > 1  BY PrimFacts
<1>2. i \in 1..Len(p) /\ i + 1 \in 1..Len(p)  BY <1>1
<1>. DEFINE u == Up(p, i)
            b == Up(p, i + 1)
            m == Len(p) - (i + 1) + 1
<1>3. u \in Seq(Names) /\ Len(u) = Len(p) - i + 1 /\ \A j \in 1..(Len(p) - i + 1) : u[j] = p[j]
  BY <1>2, UpIs
<1>4. b \in Seq(Names) /\ Len(b) = m /\ \A j \in 1..m : b[j] = p[j]
  BY <1>2, UpIs
<1>. HIDE DEF u, b
<1>5. Front(u) = SubSeq(u, 1, m)
  <2>1. Len(u) - 1 = m  BY <1>1, <1>2, <1>3
  <2>. QED  BY <2>1 DEF Front
<1>6. Front(u) \in Seq(Names) /\ Len(Front(u)) = m /\ \A j \in 1..m : Front(u)[j] = u[j]
  <2>1. m \in Nat /\ m <= Len(u)  BY <1>1, <1>2, <1>3
  <2>. HIDE DEF m
  <2>. QED  BY <1>3, <1>5, <2>1
<1>7. \A j \in 1..m : j \in 1..(Len(p) - i + 1)  BY <1>1, <1>2
<1>8. \A j \in 1..m : Front(u)[j] = b[j]  BY <1>3, <1>4, <1>6, <1>7
<1>. HIDE DEF m
<1>9. Front(u) = b  BY <1>4, <1>6, <1>8, SeqEqual
<1>. QED  BY <1>9 DEF u, b

LEMMA AncestorsArePrims ==
    ASSUME NEW p \in Prims, NEW i \in 1..Len(p)
    PROVE  Up(p, i) \in Prims
<1>. DEFINE G == {q \in Prims : \A k \in 1..Len(q) : Up(q, k) \in Prims}
<1>1. ASSUME NEW q \in Prims, Len(q) > 1 => Front(q) \in G, NEW k \in 1..Len(q)
      PROVE  Up(q, k) \in Prims
  <2>1. CASE k = 1  BY <2>1, UpOne
  <2>2. CASE k # 1
    <3>1. Len(q) > 1 /\ k - 1 \in 1..(Len(q) - 1) /\ k - 1 + 1 = k  BY <2>2, PrimFacts
    <3>2. Up(q, k) = Up(Front(q), k - 1)  BY <3>1, UpOfFront
    <3>3. k - 1 \in 1..Len(Front(q))  BY <3>1, PrimFacts
    <3>. QED  BY <1>1, <3>1, <3>2, <3>3
  <2>. QED  BY <2>1, <2>2
<1>2. \A q \in Prims : (Len(q) > 1 => Front(q) \in G) => q \in G  BY <1>1
<1>3. Prims \subseteq G
  <2>. HIDE DEF G
  <2>. QED  BY <1>2, DownThePrims
<1>. QED  BY <1>3

LEMMA PrefixOfPrim ==
    ASSUME NEW p \in Prims, NEW q \in Prims
    PROVE  IsPrefix(q, p) <=> Len(q) <= Len(p) /\ \A j \in 1..Len(q) : q[j] = p[j]
<1>1. p \in Seq(Names) /\ q \in Seq(Names) /\ Len(p) \in Nat /\ Len(q) \in Nat  BY PrimFacts
<1>2. ASSUME Len(q) <= Len(p)
      PROVE  SubSeq(q, 1, Len(q)) = SubSeq(p, 1, Len(q)) <=> \A j \in 1..Len(q) : q[j] = p[j]
  <2>. DEFINE a == SubSeq(q, 1, Len(q))
              b == SubSeq(p, 1, Len(q))
  <2>1. a \in Seq(Names) /\ Len(a) = Len(q) /\ \A j \in 1..Len(q) : a[j] = q[j]  BY <1>1
  <2>2. b \in Seq(Names) /\ Len(b) = Len(q) /\ \A j \in 1..Len(q) : b[j] = p[j]  BY <1>1, <1>2
  <2>. HIDE DEF a, b
  <2>3. a = b => \A j \in 1..Len(q) : q[j] = p[j]  BY <2>1, <2>2
  <2>4. (\A j \in 1..Len(q) : q[j] = p[j]) => a = b
    <3>. SUFFICES ASSUME \A j \in 1..Len(q) : q[j] = p[j]  PROVE a = b
      OBVIOUS
    <3>1. \A j \in 1..Len(a) : a[j] = b[j]  BY <2>1, <2>2
    <3>. QED  BY <2>1, <2>2, <3>1, SeqEqual
  <2>5. a = b <=> \A j \in 1..Len(q) : q[j] = p[j]  BY <2>3, <2>4
  <2>. QED  BY <2>5 DEF a, b
<1>3. IsPrefix(q, p) <=> Len(q) <= Len(p) /\ SubSeq(q, 1, Len(q)) = SubSeq(p, 1, Len(q))
  BY Zenon DEF IsPrefix
<1>. QED  BY Zenon, <1>2, <1>3

LEMMA AncestorsArePrefixes ==
    ASSUME NEW p \in Prims, NEW i \in 1..Len(p)
    PROVE  IsPrefix(Up(p, i), p)
<1>1. Up(p, i) \in Prims  BY AncestorsArePrims
<1>2. Len(Up(p, i)) <= Len(p)  BY UpIs, PrimFacts
<1>3. \A j \in 1..Len(Up(p, i)) : Up(p, i)[j] = p[j]  BY UpIs
<1>. QED  BY <1>1, <1>2, <1>3, PrefixOfPrim

LEMMA PrefixOfPrefix ==
    ASSUME NEW p \in Prims, NEW q \in Prims, NEW r \in Prims, IsPrefix(r, q), IsPrefix(q, p)
    PROVE  IsPrefix(r, p)
<1>1. Len(r) <= Len(q) /\ \A j \in 1..Len(r) : r[j] = q[j]  BY PrefixOfPrim
<1>2. Len(q) <= Len(p) /\ \A j \in 1..Len(q) : q[j] = p[j]  BY PrefixOfPrim
<1>3. Len(r) \in Nat /\ Len(q) \in Nat /\ Len(p) \in Nat  BY PrimFacts
<1>4. Len(r) <= Len(p) /\ \A j \in 1..Len(r) : r[j] = p[j]  BY <1>1, <1>2, <1>3
<1>. QED  BY <1>4, PrefixOfPrim

LEMMA ParentIsPrefix ==
    ASSUME NEW p \in Prims, Len(p) > 1
    PROVE  IsPrefix(Front(p), p)
<1>1. 2 \in 1..Len(p) /\ 1 \in 1..(Len(p) - 1) /\ 1 + 1 = 2  BY PrimFacts
<1>2. Front(p) = Up(p, 2)  BY <1>1, FrontOfUp, UpOne
<1>. QED  BY <1>1, <1>2, AncestorsArePrefixes

-----------------------------------------------------------------------------
(* How far a walk up from a prim goes in a scene, and the prims it passes.  *)
Height(s, p) ==
    LET resets == {i \in 1..Len(p) : s[Up(p, i)].resets}
    IN  IF resets = {} THEN Len(p) ELSE Min(resets)

Chain(s, p) == {Up(p, i) : i \in 1..Height(s, p)}
Varies(s, p) == \E q \in Chain(s, p) : s[q].varying
EndsAt(s, p) == s[p].resets \/ Len(p) = 1

LEMMA NotAtTheEnd ==
    ASSUME NEW p \in Prims, NEW s, ~EndsAt(s, p)
    PROVE  Len(p) > 1 /\ ~s[p].resets
<1>1. Len(p) \in Nat /\ Len(p) > 0  BY PrimFacts
<1>2. Len(p) # 1 /\ ~s[p].resets  BY DEF EndsAt
<1>3. \A n \in Nat : n > 0 => n > 1 \/ n = 1  OBVIOUS
<1>. QED  BY <1>1, <1>2, <1>3

LEMMA HeightIs ==
    ASSUME NEW p \in Prims, NEW s
    PROVE  /\ Height(s, p) \in 1..Len(p)
           /\ \A i \in 1..(Height(s, p) - 1) : ~s[Up(p, i)].resets
           /\ Height(s, p) # Len(p) => s[Up(p, Height(s, p))].resets
<1>. DEFINE resets == {i \in 1..Len(p) : s[Up(p, i)].resets}
            h == Height(s, p)
<1>1. Len(p) \in Nat /\ Len(p) > 0  BY PrimFacts
<1>2. CASE resets = {}
  <2>1. h = Len(p)  BY <1>2 DEF Height
  <2>2. \A i \in 1..Len(p) : ~s[Up(p, i)].resets  BY <1>2
  <2>. HIDE DEF h
  <2>3. \A i \in 1..(h - 1) : i \in 1..Len(p)  BY <1>1, <2>1
  <2>. QED  BY <1>1, <2>1, <2>2, <2>3 DEF h
<1>3. CASE resets # {}
  <2>1. h = Min(resets)  BY <1>3 DEF Height
  <2>2. resets \in SUBSET Nat  BY <1>1
  <2>3. h \in resets /\ \A k \in resets : h <= k
    <3>. HIDE DEF resets, h
    <3>. QED  BY <1>3, <2>1, <2>2, LeastOfNaturals
  <2>4. h \in 1..Len(p) /\ s[Up(p, h)].resets  BY <2>3
  <2>. HIDE DEF h
  <2>5. ASSUME NEW i \in 1..(h - 1)  PROVE ~s[Up(p, i)].resets
    <3>1. i \in 1..Len(p) /\ ~(h <= i)  BY <1>1, <2>4
    <3>2. i \notin resets  BY <2>3, <3>1
    <3>. QED  BY <3>1, <3>2
  <2>. QED  BY <2>4, <2>5 DEF h
<1>. QED  BY <1>2, <1>3

(* A number with these properties is the height.                            *)
LEMMA HeightAtLeast ==
    ASSUME NEW p \in Prims, NEW s, NEW k \in 1..Len(p),
           \A i \in 1..(k - 1) : ~s[Up(p, i)].resets
    PROVE  /\ k <= Height(s, p)
           /\ k = Len(p) \/ s[Up(p, k)].resets => Height(s, p) = k
<1>. DEFINE h == Height(s, p)
<1>1. /\ h \in 1..Len(p)
      /\ \A i \in 1..(h - 1) : ~s[Up(p, i)].resets
      /\ h # Len(p) => s[Up(p, h)].resets
  BY HeightIs
<1>2. Len(p) \in Nat  BY PrimFacts
<1>. HIDE DEF h
<1>3. k <= h
  <2>. SUFFICES ASSUME h < k  PROVE FALSE
    BY <1>1, <1>2
  <2>1. h \in 1..(k - 1) /\ h # Len(p)  BY <1>1, <1>2
  <2>. QED  BY <1>1, <2>1
<1>4. ASSUME k = Len(p) \/ s[Up(p, k)].resets  PROVE h = k
  <2>. SUFFICES ASSUME k < h  PROVE FALSE
    BY <1>1, <1>2, <1>3
  <2>1. k \in 1..(h - 1) /\ k # Len(p)  BY <1>1, <1>2
  <2>. QED  BY <1>1, <1>4, <2>1
<1>. QED  BY <1>3, <1>4 DEF h

LEMMA HeightStep ==
    ASSUME NEW p \in Prims, NEW s
    PROVE  Height(s, p) = IF EndsAt(s, p) THEN 1 ELSE Height(s, Front(p)) + 1
<1>1. Len(p) \in Nat /\ Len(p) > 0 /\ 1 \in 1..Len(p)  BY PrimFacts
<1>2. Up(p, 1) = p  BY UpOne
<1>3. CASE EndsAt(s, p)
  <2>1. 1 = Len(p) \/ s[Up(p, 1)].resets  BY <1>2, <1>3 DEF EndsAt
  <2>2. \A i \in 1..(1 - 1) : ~s[Up(p, i)].resets  OBVIOUS
  <2>3. Height(s, p) = 1  BY <1>1, <2>1, <2>2, HeightAtLeast
  <2>. QED  BY <1>3, <2>3
<1>4. CASE ~EndsAt(s, p)
  <2>. DEFINE f == Front(p)
              h == Height(s, f)
  <2>1. Len(p) > 1 /\ ~s[Up(p, 1)].resets
    <3>1. Len(p) > 1 /\ ~s[p].resets  BY <1>4, NotAtTheEnd
    <3>. QED  BY <1>2, <3>1
  <2>2. f \in Prims /\ Len(f) = Len(p) - 1  BY <2>1, PrimFacts
  <2>3. /\ h \in 1..Len(f)
        /\ \A i \in 1..(h - 1) : ~s[Up(f, i)].resets
        /\ h # Len(f) => s[Up(f, h)].resets
    BY <2>2, HeightIs
  <2>4. \A i \in 1..(Len(p) - 1) : Up(f, i) = Up(p, i + 1)  BY UpOfFront
  <2>. HIDE DEF h, f
  <2>5. h + 1 \in 1..Len(p)  BY <1>1, <2>2, <2>3
  <2>6. ASSUME NEW i \in 1..(h + 1 - 1)  PROVE ~s[Up(p, i)].resets
    <3>1. CASE i = 1  BY <2>1, <3>1
    <3>2. CASE i # 1
      <4>1. i - 1 \in 1..(h - 1) /\ i - 1 \in 1..(Len(p) - 1) /\ i - 1 + 1 = i
        BY <1>1, <2>3, <2>5, <3>2
      <4>2. Up(f, i - 1) = Up(p, i)  BY <2>4, <4>1
      <4>. QED  BY <2>3, <4>1, <4>2
    <3>. QED  BY <3>1, <3>2
  <2>7. h + 1 = Len(p) \/ s[Up(p, h + 1)].resets
    <3>1. CASE h = Len(f)  BY <1>1, <2>2, <3>1
    <3>2. CASE h # Len(f)
      <4>1. h \in 1..(Len(p) - 1)  BY <2>2, <2>3
      <4>. QED  BY <2>3, <2>4, <3>2, <4>1
    <3>. QED  BY <3>1, <3>2
  <2>8. Height(s, p) = h + 1
    <3>1. PICK k : k = h + 1  OBVIOUS
    <3>2. k \in 1..Len(p)  BY <2>5, <3>1
    <3>3. k = Len(p) \/ s[Up(p, k)].resets  BY <2>7, <3>1
    <3>4. ASSUME NEW i \in 1..(k - 1)  PROVE ~s[Up(p, i)].resets
      <4>1. i \in 1..(h + 1 - 1)
        <5>1. h \in Nat /\ k - 1 = h /\ h + 1 - 1 = h  BY <2>3, <3>1
        <5>. QED  BY <5>1
      <4>. QED  BY <2>6, <4>1
    <3>5. Height(s, p) = k  BY <3>2, <3>3, <3>4, HeightAtLeast
    <3>. QED  BY <3>1, <3>5
  <2>. QED  BY <1>4, <2>8 DEF h, f
<1>. QED  BY <1>3, <1>4

LEMMA ChainIs ==
    ASSUME NEW p \in Prims, NEW s
    PROVE  Chain(s, p) = IF EndsAt(s, p) THEN {p} ELSE {p} \cup Chain(s, Front(p))
<1>1. Len(p) \in Nat /\ Len(p) > 0 /\ Up(p, 1) = p  BY PrimFacts, UpOne
<1>2. CASE EndsAt(s, p)
  <2>1. Height(s, p) = 1  BY <1>2, HeightStep
  <2>2. 1..1 = {1}  OBVIOUS
  <2>3. Chain(s, p) = {Up(p, i) : i \in {1}}  BY <2>1, <2>2 DEF Chain
  <2>. QED  BY <1>1, <1>2, <2>3
<1>3. CASE ~EndsAt(s, p)
  <2>. DEFINE f == Front(p)
              h == Height(s, f)
  <2>1. Height(s, p) = h + 1  BY <1>3, HeightStep
  <2>2. Len(p) > 1  BY <1>3, NotAtTheEnd
  <2>3. f \in Prims /\ Len(f) = Len(p) - 1  BY <2>2, PrimFacts
  <2>4. h \in 1..(Len(p) - 1)  BY <2>3, HeightIs
  <2>5. \A i \in 1..(Len(p) - 1) : Up(f, i) = Up(p, i + 1)  BY UpOfFront
  <2>6. Chain(s, p) = {Up(p, i) : i \in 1..(h + 1)}  BY <2>1 DEF Chain
  <2>7. Chain(s, f) = {Up(f, i) : i \in 1..h}  BY DEF Chain
  <2>. HIDE DEF f, h
  <2>8. ASSUME NEW i \in 1..(h + 1)  PROVE Up(p, i) \in {p} \cup Chain(s, f)
    <3>1. CASE i = 1  BY <1>1, <3>1
    <3>2. CASE i # 1
      <4>1. i - 1 \in 1..h /\ i - 1 \in 1..(Len(p) - 1) /\ i - 1 + 1 = i
        BY <1>1, <2>4, <3>2
      <4>2. Up(f, i - 1) = Up(p, i)  BY <2>5, <4>1
      <4>. QED  BY <2>7, <4>1, <4>2
    <3>. QED  BY <3>1, <3>2
  <2>9. ASSUME NEW i \in 1..h  PROVE Up(f, i) \in Chain(s, p)
    <3>1. i + 1 \in 1..(h + 1) /\ i \in 1..(Len(p) - 1)  BY <1>1, <2>4
    <3>. QED  BY <2>5, <2>6, <3>1
  <2>10. p \in Chain(s, p)
    <3>1. 1 \in 1..(h + 1)  BY <1>1, <2>4
    <3>. QED  BY <1>1, <2>6, <3>1
  <2>11. Chain(s, p) = {p} \cup Chain(s, f)  BY <2>6, <2>7, <2>8, <2>9, <2>10
  <2>. QED  BY <1>3, <2>11 DEF f
<1>. QED  BY <1>2, <1>3

LEMMA ChainFacts ==
    ASSUME NEW p \in Prims, NEW s
    PROVE  /\ p \in Chain(s, p) /\ Chain(s, p) \subseteq Prims
           /\ \A q \in Chain(s, p) : IsPrefix(q, p) /\ Len(q) <= Len(p)
<1>1. Height(s, p) \in 1..Len(p)  BY HeightIs
<1>2. Len(p) \in Nat  BY PrimFacts
<1>3. ASSUME NEW i \in 1..Height(s, p)
      PROVE  Up(p, i) \in Prims /\ IsPrefix(Up(p, i), p) /\ Len(Up(p, i)) <= Len(p)
  <2>1. i \in 1..Len(p)  BY <1>1, <1>2
  <2>2. IsPrefix(Up(p, i), p) /\ Up(p, i) \in Prims
    BY <2>1, AncestorsArePrims, AncestorsArePrefixes
  <2>. QED  BY <2>2 DEF IsPrefix
<1>. QED  BY <1>3, ChainIs DEF Chain

(* Of the prims on a chain that are in a set, the first one met.            *)
LEMMA FirstOnChain ==
    ASSUME NEW p \in Prims, NEW s, NEW B, NEW b \in Chain(s, p), b \in B
    PROVE  \E r \in Chain(s, p) : /\ r \in B
                                  /\ \A q \in Chain(s, p) : Len(q) > Len(r) => q \notin B
<1>. DEFINE I == {i \in 1..Height(s, p) : Up(p, i) \in B}
            m == Min(I)
<1>1. Height(s, p) \in 1..Len(p) /\ Len(p) \in Nat  BY HeightIs, PrimFacts
<1>2. I # {} /\ I \in SUBSET Nat  BY <1>1 DEF Chain
<1>3. m \in I /\ \A k \in I : m <= k
  <2>. HIDE DEF I
  <2>. QED  BY <1>2, LeastOfNaturals
<1>. HIDE DEF m
<1>4. m \in 1..Height(s, p) /\ Up(p, m) \in B /\ Up(p, m) \in Chain(s, p)  BY <1>3 DEF Chain
<1>5. ASSUME NEW i \in 1..Height(s, p), Len(Up(p, i)) > Len(Up(p, m))  PROVE Up(p, i) \notin B
  <2>1. i \in 1..Len(p) /\ m \in 1..Len(p)  BY <1>1, <1>4
  <2>2. Len(Up(p, i)) = Len(p) - i + 1 /\ Len(Up(p, m)) = Len(p) - m + 1  BY <2>1, UpIs
  <2>3. i < m  BY <1>1, <1>5, <2>1, <2>2
  <2>4. i \notin I  BY <1>3, <2>1, <2>3
  <2>. QED  BY <2>4
<1>. QED  BY <1>4, <1>5 DEF Chain

(* Two scenes that agree below a prim on the chain of one have it on the    *)
(* chain of the other.                                                      *)
LEMMA ChainUpTo ==
    ASSUME NEW p \in Prims, NEW s, NEW g, NEW r \in Chain(g, p),
           \A q \in Chain(g, p) : Len(q) > Len(r) => s[q] = g[q]
    PROVE  /\ r \in Chain(s, p)
           /\ \A q \in Chain(s, p) : Len(q) >= Len(r) => q \in Chain(g, p)
<1>1. PICK k \in 1..Height(g, p) : r = Up(p, k)  BY DEF Chain
<1>2. Height(g, p) \in 1..Len(p) /\ Len(p) \in Nat /\ Height(s, p) \in 1..Len(p)
  BY HeightIs, PrimFacts
<1>3. k \in 1..Len(p) /\ Len(r) = Len(p) - k + 1
  <2>1. k \in 1..Len(p)  BY <1>2
  <2>. QED  BY <1>1, <2>1, UpIs
<1>4. ASSUME NEW i \in 1..(k - 1)  PROVE ~s[Up(p, i)].resets
  <2>1. i \in 1..Len(p) /\ i \in 1..Height(g, p) /\ i \in 1..(Height(g, p) - 1)
    BY <1>1, <1>2
  <2>2. Up(p, i) \in Chain(g, p)  BY <2>1 DEF Chain
  <2>3. Len(Up(p, i)) > Len(r)
    <3>1. Len(Up(p, i)) = Len(p) - i + 1  BY <2>1, UpIs
    <3>. QED  BY <1>2, <1>3, <3>1
  <2>4. ~g[Up(p, i)].resets  BY <2>1, HeightIs
  <2>. QED  BY <2>2, <2>3, <2>4
<1>5. k <= Height(s, p)  BY <1>3, <1>4, HeightAtLeast
<1>6. r \in Chain(s, p)  BY <1>1, <1>2, <1>5 DEF Chain
<1>7. ASSUME NEW i \in 1..Height(s, p), Len(Up(p, i)) >= Len(r)  PROVE Up(p, i) \in Chain(g, p)
  <2>1. i \in 1..Len(p)  BY <1>2
  <2>2. Len(Up(p, i)) = Len(p) - i + 1  BY <2>1, UpIs
  <2>3. i <= k  BY <1>2, <1>3, <1>7, <2>1, <2>2
  <2>4. i \in 1..Height(g, p)  BY <1>1, <1>2, <2>1, <2>3
  <2>. QED  BY <2>4 DEF Chain
<1>. QED  BY <1>6, <1>7 DEF Chain

(* Two scenes that agree on the chain of one have the same chain there.     *)
LEMMA SameChain ==
    ASSUME NEW p \in Prims, NEW s, NEW g, \A q \in Chain(g, p) : s[q] = g[q]
    PROVE  /\ Height(s, p) = Height(g, p) /\ Chain(s, p) = Chain(g, p)
           /\ Varies(s, p) = Varies(g, p)
<1>. DEFINE h == Height(g, p)
<1>1. /\ h \in 1..Len(p)
      /\ \A i \in 1..(h - 1) : ~g[Up(p, i)].resets
      /\ h # Len(p) => g[Up(p, h)].resets
  BY HeightIs
<1>2. Len(p) \in Nat  BY PrimFacts
<1>3. \A i \in 1..h : s[Up(p, i)] = g[Up(p, i)]  BY DEF Chain
<1>. HIDE DEF h
<1>4. \A i \in 1..(h - 1) : ~s[Up(p, i)].resets
  <2>1. \A i \in 1..(h - 1) : i \in 1..h  BY <1>1, <1>2
  <2>. QED  BY <1>1, <1>3, <2>1
<1>5. h = Len(p) \/ s[Up(p, h)].resets  BY <1>1, <1>3
<1>6. Height(s, p) = h  BY <1>1, <1>4, <1>5, HeightAtLeast
<1>7. Chain(s, p) = Chain(g, p)  BY <1>6 DEF Chain, h
<1>. QED  BY <1>6, <1>7 DEF h, Varies

(* What is active is there, and so are its ancestors, all of them active.   *)
LEMMA ActiveIsPresent ==
    ASSUME NEW s, NEW p, s[p].active
    PROVE  s[p] # Gone
BY DEF Gone

LEMMA AncestorsAreActive ==
    ASSUME NEW s, IsScene(s), NEW p \in Prims, s[p] # Gone,
           NEW q \in Prims, IsPrefix(q, p), q # p
    PROVE  s[q].active
<1>. DEFINE G == {x \in Prims : s[x] # Gone =>
                      \A i \in 1..Len(x) : i # 1 => s[Up(x, i)].active}
<1>1. ASSUME NEW x \in Prims, Len(x) > 1 => Front(x) \in G, s[x] # Gone,
             NEW i \in 1..Len(x), i # 1
      PROVE  s[Up(x, i)].active
  <2>1. Len(x) > 1 /\ i - 1 \in 1..(Len(x) - 1) /\ i - 1 + 1 = i  BY <1>1, PrimFacts
  <2>2. s[Front(x)].active  BY <1>1, <2>1 DEF IsScene
  <2>3. i - 1 \in 1..Len(Front(x))  BY <2>1, PrimFacts
  <2>4. Up(x, i) = Up(Front(x), i - 1)  BY <2>1, UpOfFront
  <2>5. CASE i - 1 = 1
    <3>1. Front(x) \in Prims  BY <2>1, PrimFacts
    <3>2. Up(Front(x), 1) = Front(x)  BY <3>1, UpOne
    <3>. QED  BY <2>2, <2>4, <2>5, <3>2
  <2>6. CASE i - 1 # 1
    <3>1. s[Front(x)] # Gone  BY <2>2, ActiveIsPresent
    <3>2. Front(x) \in G  BY <1>1, <2>1
    <3>. QED  BY <2>3, <2>4, <2>6, <3>1, <3>2
  <2>. QED  BY <2>5, <2>6
<1>2. \A x \in Prims : (Len(x) > 1 => Front(x) \in G) => x \in G  BY <1>1
<1>3. p \in G
  <2>. HIDE DEF G
  <2>. QED  BY <1>2, DownThePrims
<1>4. Len(q) \in Nat /\ Len(q) > 0 /\ Len(p) \in Nat  BY PrimFacts
<1>5. Len(q) <= Len(p) /\ \A j \in 1..Len(q) : q[j] = p[j]  BY PrefixOfPrim
<1>. DEFINE k == Len(p) - Len(q) + 1
<1>6. k \in 1..Len(p) /\ Len(p) - k + 1 = Len(q)  BY <1>4, <1>5
<1>. HIDE DEF k
<1>7. Up(p, k) = q
  <2>1. Up(p, k) \in Seq(Names) /\ Len(Up(p, k)) = Len(q) /\ \A j \in 1..Len(q) : Up(p, k)[j] = p[j]
    BY <1>6, UpIs
  <2>2. q \in Seq(Names)  BY PrimFacts
  <2>. QED  BY <1>5, <2>1, <2>2, SeqEqual
<1>8. k # 1  BY <1>7, UpOne
<1>. QED  BY <1>3, <1>6, <1>7, <1>8

LEMMA ChainIsActive ==
    ASSUME NEW s, IsScene(s), NEW p \in Prims, s[p].active, NEW q \in Prims, IsPrefix(q, p)
    PROVE  s[q].active
<1>1. s[p] # Gone  BY ActiveIsPresent
<1>. QED  BY <1>1, AncestorsAreActive

LEMMA UpsAreActive ==
    ASSUME NEW s, IsScene(s), NEW p \in Prims, s[p].active
    PROVE  \A i \in 1..Len(p) : s[Up(p, i)].active
BY AncestorsArePrims, AncestorsArePrefixes, ChainIsActive

LEMMA ChainIsPresent ==
    ASSUME NEW s, IsScene(s), NEW p \in Prims, s[p] # Gone, NEW q \in Prims, IsPrefix(q, p)
    PROVE  s[q] # Gone
<1>1. q # p => s[q].active  BY AncestorsAreActive
<1>. QED  BY <1>1, ActiveIsPresent

-----------------------------------------------------------------------------
(* Worlds.                                                                  *)
Local(s, t, p) == Evaluate(s[p].layout, s[p], t)

LEMMA WorldIs ==
    ASSUME NEW p \in Prims, NEW s, NEW t, s[p] # Gone
    PROVE  WorldTransform(s, t, p) = [i \in 1..Height(s, p) |-> Local(s, t, Up(p, i))]
<1>. DEFINE up == Ancestry(p)
            resets == {i \in DOMAIN up : s[up[i]].resets}
            last == IF resets = {} THEN Len(up) ELSE Min(resets)
            h == Height(s, p)
<1>1. up = [i \in 1..Len(p) |-> Up(p, i)]  BY Zenon DEF Ancestry, Up
<1>2. Len(p) \in Nat  BY PrimFacts
<1>3. DOMAIN up = 1..Len(p) /\ Len(up) = Len(p) /\ \A i \in 1..Len(p) : up[i] = Up(p, i)
  BY <1>1, <1>2
<1>4. WorldTransform(s, t, p) = [i \in 1..last |-> Evaluate(s[up[i]].layout, s[up[i]], t)]
  BY Zenon DEF WorldTransform
<1>. HIDE DEF up
<1>5. resets = {i \in 1..Len(p) : s[Up(p, i)].resets}  BY <1>3
<1>6. last = h  BY Zenon, <1>3, <1>5 DEF Height
<1>. HIDE DEF last, resets, h
<1>7. h \in 1..Len(p)  BY HeightIs DEF h
<1>8. \A i \in 1..h : i \in 1..Len(p)  BY <1>2, <1>7
<1>9. \A i \in 1..h : Evaluate(s[up[i]].layout, s[up[i]], t) = Local(s, t, Up(p, i))
  BY Zenon, <1>3, <1>8 DEF Local
<1>. QED  BY Zenon, <1>4, <1>6, <1>9 DEF h

LEMMA WorldIsMissing ==
    ASSUME NEW p, NEW s, NEW t, s[p] = Gone
    PROVE  WorldTransform(s, t, p) = Missing
BY DEF WorldTransform

LEMMA SameWorld ==
    ASSUME NEW p \in Prims, NEW s, NEW g, NEW t, \A q \in Chain(g, p) : s[q] = g[q]
    PROVE  WorldTransform(s, t, p) = WorldTransform(g, t, p)
<1>1. s[p] = g[p]  BY ChainFacts
<1>2. CASE g[p] = Gone  BY <1>1, <1>2, WorldIsMissing
<1>3. CASE g[p] # Gone
  <2>1. Height(s, p) = Height(g, p)  BY SameChain
  <2>2. \A i \in 1..Height(g, p) : Local(s, t, Up(p, i)) = Local(g, t, Up(p, i))
    <3>1. \A i \in 1..Height(g, p) : s[Up(p, i)] = g[Up(p, i)]  BY DEF Chain
    <3>. QED  BY Zenon, <3>1 DEF Local
  <2>3. WorldTransform(s, t, p) = [i \in 1..Height(s, p) |-> Local(s, t, Up(p, i))]
    BY <1>1, <1>3, WorldIs
  <2>4. WorldTransform(g, t, p) = [i \in 1..Height(g, p) |-> Local(g, t, Up(p, i))]
    BY <1>3, WorldIs
  <2>. QED  BY Zenon, <2>1, <2>2, <2>3, <2>4
<1>. QED  BY <1>2, <1>3

LEMMA OneBefore ==
    ASSUME NEW V, NEW e \in V, NEW n \in Nat, NEW f \in [1..n -> V],
           NEW h \in [1..(n + 1) -> V], h[1] = e, \A i \in 1..n : h[i + 1] = f[i]
    PROVE  <<e>> \o f = h
<1>. DEFINE k == <<e>> \o f
<1>1. f \in Seq(V) /\ Len(f) = n  OBVIOUS
<1>2. <<e>> \in Seq(V) /\ Len(<<e>>) = 1 /\ <<e>>[1] = e  OBVIOUS
<1>3. k \in Seq(V) /\ Len(k) = n + 1  BY <1>1, <1>2
<1>4. k[1] = e /\ \A i \in 1..n : k[i + 1] = f[i]
  <2>1. k[1] = e  BY <1>1, <1>2, <1>3
  <2>2. ASSUME NEW i \in 1..n  PROVE k[i + 1] = f[i]
    <3>1. i + 1 \in 1..(n + 1) /\ i + 1 > 1 /\ i + 1 - 1 = i  OBVIOUS
    <3>. QED  BY <1>1, <1>2, <3>1
  <2>. QED  BY <2>1, <2>2
<1>. HIDE DEF k
<1>5. ASSUME NEW i \in 1..(n + 1)  PROVE k[i] = h[i]
  <2>1. CASE i = 1  BY <1>4, <2>1
  <2>2. CASE i # 1
    <3>1. i - 1 \in 1..n /\ i - 1 + 1 = i  BY <2>2
    <3>. QED  BY <1>4, <3>1
  <2>. QED  BY <2>1, <2>2
<1>6. k = [i \in 1..(n + 1) |-> k[i]] /\ h = [i \in 1..(n + 1) |-> h[i]]  BY <1>3
<1>. QED  BY Zenon, <1>5, <1>6 DEF k

LEMMA WorldStep ==
    ASSUME NEW p \in Prims, NEW s, NEW t, s[p] # Gone,
           EndsAt(s, p) \/ s[Front(p)] # Gone
    PROVE  WorldTransform(s, t, p) =
               <<Local(s, t, p)>> \o (IF EndsAt(s, p) THEN Identity
                                      ELSE WorldTransform(s, t, Front(p)))
<1>. DEFINE w == WorldTransform(s, t, p)
            h == Height(s, p)
<1>1. w = [i \in 1..h |-> Local(s, t, Up(p, i))]  BY WorldIs
<1>2. Up(p, 1) = p  BY UpOne
<1>3. CASE EndsAt(s, p)
  <2>1. h = 1  BY <1>3, HeightStep
  <2>. HIDE DEF w, h
  <2>2. w = [i \in 1..1 |-> w[i]] /\ w[1] = Local(s, t, p)  BY <1>1, <1>2, <2>1
  <2>3. w = <<Local(s, t, p)>>  BY <2>2
  <2>4. <<Local(s, t, p)>> \o <<>> = <<Local(s, t, p)>>  OBVIOUS
  <2>. QED  BY <1>3, <2>3, <2>4 DEF Identity, w
<1>4. CASE ~EndsAt(s, p)
  <2>. DEFINE f == Front(p)
              g == Height(s, f)
              v == WorldTransform(s, t, f)
  <2>1. Len(p) > 1  BY <1>4, NotAtTheEnd
  <2>2. f \in Prims /\ Len(f) = Len(p) - 1 /\ Len(p) \in Nat  BY <2>1, PrimFacts
  <2>3. v = [i \in 1..g |-> Local(s, t, Up(f, i))]  BY <1>4, <2>2, WorldIs
  <2>4. h = g + 1  BY <1>4, HeightStep
  <2>5. g \in 1..(Len(p) - 1)  BY <2>2, HeightIs
  <2>6. \A i \in 1..(Len(p) - 1) : Up(f, i) = Up(p, i + 1)  BY UpOfFront
  <2>. HIDE DEF f, g, v, h, w
  <2>7. g \in Nat /\ \A i \in 1..g : i \in 1..(Len(p) - 1) /\ i + 1 \in 1..h  BY <2>2, <2>4, <2>5
  <2>8. \A i \in 1..g : w[i + 1] = v[i]  BY <1>1, <2>3, <2>6, <2>7
  <2>9. w[1] = Local(s, t, p)
    <3>1. 1 \in 1..h  BY <2>4, <2>7
    <3>. QED  BY <1>1, <1>2, <3>1
  <2>. DEFINE V == {w[i] : i \in 1..(g + 1)}
  <2>10. w \in [1..(g + 1) -> V] /\ v \in [1..g -> V] /\ w[1] \in V
    <3>1. w = [i \in 1..(g + 1) |-> w[i]] /\ v = [i \in 1..g |-> v[i]]  BY <1>1, <2>3, <2>4
    <3>2. \A i \in 1..(g + 1) : w[i] \in V  BY Zenon
    <3>3. \A i \in 1..g : v[i] \in V
      <4>1. \A i \in 1..g : i + 1 \in 1..(g + 1)  BY <2>7
      <4>. QED  BY Zenon, <2>8, <4>1
    <3>4. 1 \in 1..(g + 1)  BY <2>7
    <3>. HIDE DEF V
    <3>. QED  BY Zenon, <3>1, <3>2, <3>3, <3>4
  <2>11. <<w[1]>> \o v = w
    <3>. HIDE DEF V
    <3>. QED  BY <2>7, <2>8, <2>10, OneBefore
  <2>. QED  BY <1>4, <2>9, <2>11 DEF w, v, f
<1>. QED  BY <1>3, <1>4

-----------------------------------------------------------------------------
(* The arena.                                                               *)
NodeOf(c, p) == c.nodes[c.entries[p]]

IsNode(n) ==
    n = [path |-> n.path, parent |-> n.parent, localStamp |-> n.localStamp,
         worldStamp |-> n.worldStamp, validated |-> n.validated,
         worldValid |-> n.worldValid, worldVaries |-> n.worldVaries,
         dependency |-> n.dependency, recipe |-> n.recipe, local |-> n.local,
         world |-> n.world]
IsCache(c) ==
    c = [time |-> c.time, entries |-> c.entries, nodes |-> c.nodes, free |-> c.free,
         epoch |-> c.epoch, timeStamp |-> c.timeStamp]
IsSeq(s) == s \in Seq(Range(s))

Stamped(n, epoch) ==
    n.localStamp \in 0..epoch /\ n.worldStamp \in 0..epoch /\ n.validated \in 0..epoch

(* Who has which of n slots: every slot is of one cached path or free.      *)
Slots(entries, free, n) ==
    /\ free \in Seq(1..n) /\ DOMAIN entries \subseteq Prims
    /\ \A p \in DOMAIN entries : entries[p] \in 1..n
    /\ \A i, j \in 1..Len(free) : free[i] = free[j] => i = j
    /\ \A p \in DOMAIN entries : \A i \in 1..Len(free) : entries[p] # free[i]
    /\ \A k \in 1..n : \/ \E p \in DOMAIN entries : k = entries[p]
                       \/ \E i \in 1..Len(free) : k = free[i]

Nodes(c) ==
    /\ IsSeq(c.nodes) /\ \A i \in 1..Len(c.nodes) : IsNode(c.nodes[i])
    /\ \A p \in Cached(c) : NodeOf(c, p).path = p
    /\ \A i \in 1..Len(c.nodes) : Stamped(c.nodes[i], c.epoch)

Arena(c) ==
    /\ IsCache(c) /\ Nodes(c) /\ Slots(c.entries, c.free, Len(c.nodes))
    /\ c.epoch \in 0..MaxEpoch /\ c.timeStamp \in 0..c.epoch

LEMMA SeqIs ==
    ASSUME NEW V, NEW s \in Seq(V)
    PROVE  IsSeq(s)
<1>1. Range(s) = {s[i] : i \in 1..Len(s)}  BY DEF Range
<1>2. \A i \in 1..Len(s) : s[i] \in Range(s)  BY <1>1
<1>. QED  BY <1>2 DEF IsSeq

LEMMA IsSeqFacts ==
    ASSUME NEW s, IsSeq(s)
    PROVE  Len(s) \in Nat /\ DOMAIN s = 1..Len(s)
BY DEF IsSeq

LEMMA ElementPut ==
    ASSUME NEW s, IsSeq(s), NEW i \in 1..Len(s), NEW e, NEW t, t = [s EXCEPT ![i] = e]
    PROVE  IsSeq(t) /\ Len(t) = Len(s)
<1>. DEFINE V == Range(s) \cup {e}
<1>1. s \in Seq(V)  BY DEF IsSeq
<1>. HIDE DEF V
<1>2. e \in V  BY DEF V
<1>3. t \in Seq(V) /\ Len(t) = Len(s)  BY <1>1, <1>2
<1>5. IsSeq(t)  BY <1>3, SeqIs
<1>. QED  BY <1>3, <1>5

LEMMA ElementAdded ==
    ASSUME NEW s, IsSeq(s), NEW e, NEW t, t = Append(s, e)
    PROVE  IsSeq(t) /\ Len(t) = Len(s) + 1
<1>. DEFINE V == Range(s) \cup {e}
<1>1. s \in Seq(V)  BY DEF IsSeq
<1>. HIDE DEF V
<1>2. e \in V  BY DEF V
<1>3. t \in Seq(V) /\ Len(t) = Len(s) + 1  BY <1>1, <1>2
<1>5. IsSeq(t)  BY <1>3, SeqIs
<1>. QED  BY <1>3, <1>5

LEMMA ElementsOfAdded ==
    ASSUME NEW s, IsSeq(s), NEW e, NEW t, t = Append(s, e)
    PROVE  t[Len(s) + 1] = e /\ \A j \in 1..Len(s) : t[j] = s[j]
<1>. DEFINE V == Range(s) \cup {e}
<1>1. s \in Seq(V)  BY DEF IsSeq
<1>. HIDE DEF V
<1>2. e \in V  BY DEF V
<1>. QED  BY <1>1, <1>2

LEMMA ArenaFacts ==
    ASSUME NEW c, Arena(c)
    PROVE  /\ IsCache(c) /\ IsSeq(c.nodes) /\ Len(c.nodes) \in Nat /\ Len(c.free) \in Nat
           /\ DOMAIN c.nodes = 1..Len(c.nodes)
           /\ c.epoch \in Nat /\ c.timeStamp \in Nat /\ c.timeStamp <= c.epoch
           /\ \A p \in Cached(c) :
                  /\ p \in Prims /\ c.entries[p] \in 1..Len(c.nodes)
                  /\ IsNode(NodeOf(c, p)) /\ NodeOf(c, p).path = p
                  /\ Stamped(NodeOf(c, p), c.epoch)
           /\ \A p, q \in Cached(c) : c.entries[p] = c.entries[q] => p = q
<1>1. MaxEpoch \in Nat  BY EpochAssumption
<1>2. IsCache(c) /\ IsSeq(c.nodes)  BY DEF Arena, Nodes
<1>3. Len(c.nodes) \in Nat /\ DOMAIN c.nodes = 1..Len(c.nodes)  BY <1>2, IsSeqFacts
<1>4. Len(c.free) \in Nat
  <2>1. c.free \in Seq(1..Len(c.nodes))  BY DEF Arena, Slots
  <2>. QED  BY <2>1
<1>5. c.epoch \in 0..MaxEpoch /\ c.timeStamp \in 0..c.epoch  BY DEF Arena
<1>6. c.epoch \in Nat /\ c.timeStamp \in Nat /\ c.timeStamp <= c.epoch  BY <1>1, <1>5
<1>7. ASSUME NEW p \in Cached(c)
      PROVE  /\ p \in Prims /\ c.entries[p] \in 1..Len(c.nodes)
             /\ IsNode(NodeOf(c, p)) /\ NodeOf(c, p).path = p
             /\ Stamped(NodeOf(c, p), c.epoch)
  <2>1. p \in Prims /\ c.entries[p] \in 1..Len(c.nodes) /\ NodeOf(c, p).path = p
    BY DEF Arena, Nodes, Slots, Cached
  <2>2. \A i \in 1..Len(c.nodes) : IsNode(c.nodes[i]) /\ Stamped(c.nodes[i], c.epoch)
    BY DEF Arena, Nodes
  <2>. QED  BY <2>1, <2>2 DEF NodeOf
<1>8. ASSUME NEW p \in Cached(c), NEW q \in Cached(c), c.entries[p] = c.entries[q]
      PROVE  p = q
  <2>1. NodeOf(c, p) = NodeOf(c, q)  BY <1>8 DEF NodeOf
  <2>. QED  BY <1>7, <2>1
<1>. QED  BY <1>2, <1>3, <1>4, <1>6, <1>7, <1>8

(* What is the same when only the node of p may have been written.          *)
OneNode(c, d, p) ==
    /\ d.entries = c.entries /\ d.time = c.time
    /\ d.epoch = c.epoch /\ d.timeStamp = c.timeStamp
    /\ \A q \in Cached(c) : q # p => NodeOf(d, q) = NodeOf(c, q)

Put(c, p, n) == [c EXCEPT !.nodes[c.entries[p]] = n]

LEMMA NodePut ==
    ASSUME NEW c, Arena(c), NEW p \in Cached(c), NEW n, IsNode(n), n.path = p,
           Stamped(n, c.epoch)
    PROVE  /\ Arena(Put(c, p, n)) /\ OneNode(c, Put(c, p, n), p)
           /\ NodeOf(Put(c, p, n), p) = n
<1>d. PICK d : d = Put(c, p, n)  OBVIOUS
<1>k. PICK k : k = c.entries[p]  OBVIOUS
<1>n. PICK nodes : nodes = [c.nodes EXCEPT ![k] = n]  OBVIOUS
<1>1. IsCache(c) /\ IsSeq(c.nodes) /\ k \in 1..Len(c.nodes) /\ Len(c.nodes) \in Nat
  BY <1>k, ArenaFacts
<1>2. d = [c EXCEPT !.nodes = nodes]  BY <1>1, <1>d, <1>k, <1>n DEF IsCache, Put
<1>3. /\ IsSeq(nodes) /\ Len(nodes) = Len(c.nodes) /\ nodes[k] = n
      /\ \A j \in 1..Len(c.nodes) : j # k => nodes[j] = c.nodes[j]
  <2>1. IsSeq(nodes) /\ Len(nodes) = Len(c.nodes)  BY <1>1, <1>n, ElementPut
  <2>2. DOMAIN c.nodes = 1..Len(c.nodes)  BY <1>1, IsSeqFacts
  <2>3. nodes[k] = n /\ \A j \in 1..Len(c.nodes) : j # k => nodes[j] = c.nodes[j]
    BY <1>1, <1>n, <2>2
  <2>. QED  BY <2>1, <2>3
<1>4. /\ IsCache(d) /\ d.nodes = nodes /\ d.entries = c.entries /\ d.free = c.free
      /\ d.time = c.time /\ d.epoch = c.epoch /\ d.timeStamp = c.timeStamp
  BY <1>1, <1>2 DEF IsCache
<1>5. NodeOf(d, p) = n  BY <1>3, <1>4, <1>k DEF NodeOf
<1>6. ASSUME NEW q \in Cached(c), q # p  PROVE NodeOf(d, q) = NodeOf(c, q)
  <2>1. c.entries[q] # k /\ c.entries[q] \in 1..Len(c.nodes)  BY <1>6, <1>k, ArenaFacts
  <2>. QED  BY <1>3, <1>4, <2>1 DEF NodeOf
<1>7. \A j \in 1..Len(c.nodes) : IsNode(nodes[j]) /\ Stamped(nodes[j], c.epoch)
  <2>1. \A j \in 1..Len(c.nodes) : IsNode(c.nodes[j]) /\ Stamped(c.nodes[j], c.epoch)
    BY DEF Arena, Nodes
  <2>. QED  BY <1>3, <2>1
<1>8. \A q \in Cached(c) : NodeOf(d, q).path = q
  <2>1. \A q \in Cached(c) : NodeOf(c, q).path = q  BY DEF Arena, Nodes
  <2>. QED  BY <1>5, <1>6, <2>1
<1>9. Cached(d) = Cached(c)  BY <1>4 DEF Cached
<1>10. /\ IsCache(d) /\ IsSeq(d.nodes) /\ \A i \in 1..Len(d.nodes) : IsNode(d.nodes[i])
       /\ Len(d.nodes) = Len(c.nodes)
       /\ \A i \in 1..Len(d.nodes) : Stamped(d.nodes[i], d.epoch)
  BY <1>3, <1>4, <1>7
<1>11. Slots(d.entries, d.free, Len(d.nodes))  BY <1>4, <1>10 DEF Arena
<1>12. Arena(d)
  <2>1. Nodes(d)  BY <1>8, <1>9, <1>10 DEF Nodes
  <2>2. d.epoch \in 0..MaxEpoch /\ d.timeStamp \in 0..d.epoch  BY <1>4 DEF Arena
  <2>. QED  BY <1>10, <1>11, <2>1, <2>2 DEF Arena
<1>13. OneNode(c, d, p)  BY <1>4, <1>6 DEF OneNode
<1>. QED  BY <1>d, <1>5, <1>12, <1>13

-----------------------------------------------------------------------------
(* Slots given and taken.                                                   *)
LEMMA SlotsOfNothing == Slots(<<>>, <<>>, 0)
<1>1. <<>> \in Seq(1..0) /\ DOMAIN <<>> = {} /\ Len(<<>>) = 0  OBVIOUS
<1>. QED  BY <1>1 DEF Slots

LEMMA SlotsPushed ==
    ASSUME NEW n \in Nat, NEW e, Slots(e, <<>>, n), NEW p \in Prims, p \notin DOMAIN e,
           NEW e2, e2 = [q \in DOMAIN e \cup {p} |-> IF q = p THEN n + 1 ELSE e[q]]
    PROVE  Slots(e2, <<>>, n + 1)
<1>1. DOMAIN e2 = DOMAIN e \cup {p} /\ e2[p] = n + 1 /\ \A q \in DOMAIN e : e2[q] = e[q]
  OBVIOUS
<1>2. DOMAIN e \subseteq Prims /\ \A q \in DOMAIN e : e[q] \in 1..n  BY DEF Slots
<1>3. \A k \in 1..n : \E q \in DOMAIN e : k = e[q]
  <2>1. Len(<<>>) = 0  OBVIOUS
  <2>. QED  BY <2>1 DEF Slots
<1>4. \A q \in DOMAIN e2 : e2[q] \in 1..(n + 1)  BY <1>1, <1>2
<1>5. \A k \in 1..(n + 1) : \E q \in DOMAIN e2 : k = e2[q]
  <2>. TAKE k \in 1..(n + 1)
  <2>1. CASE k = n + 1  BY <1>1, <2>1
  <2>2. CASE k # n + 1
    <3>1. k \in 1..n  BY <2>2
    <3>2. PICK q \in DOMAIN e : k = e[q]  BY <1>3, <3>1
    <3>. QED  BY <1>1, <3>2
  <2>. QED  BY <2>1, <2>2
<1>6. <<>> \in Seq(1..(n + 1)) /\ Len(<<>>) = 0  OBVIOUS
<1>7. DOMAIN e2 \subseteq Prims  BY <1>1, <1>2
<1>. QED  BY <1>4, <1>5, <1>6, <1>7 DEF Slots

LEMMA SlotsTaken ==
    ASSUME NEW n \in Nat, NEW e, NEW f, Slots(e, f, n), f # <<>>,
           NEW p \in Prims, p \notin DOMAIN e,
           NEW e2, e2 = [q \in DOMAIN e \cup {p} |-> IF q = p THEN Head(f) ELSE e[q]]
    PROVE  Slots(e2, Tail(f), n) /\ Head(f) \in 1..n
<1>1. DOMAIN e2 = DOMAIN e \cup {p} /\ e2[p] = Head(f) /\ \A q \in DOMAIN e : e2[q] = e[q]
  OBVIOUS
<1>2. f \in Seq(1..n) /\ DOMAIN e \subseteq Prims /\ \A q \in DOMAIN e : e[q] \in 1..n
  BY DEF Slots
<1>3. /\ Len(f) \in Nat /\ Len(f) > 0 /\ Head(f) = f[1] /\ Head(f) \in 1..n
      /\ Tail(f) \in Seq(1..n) /\ Len(Tail(f)) = Len(f) - 1
  BY <1>2
<1>4. \A i \in 1..Len(Tail(f)) : Tail(f)[i] = f[i + 1] /\ i + 1 \in 1..Len(f)  BY <1>2, <1>3
<1>5. \A i, j \in 1..Len(f) : f[i] = f[j] => i = j  BY DEF Slots
<1>6. \A q \in DOMAIN e : \A i \in 1..Len(f) : e[q] # f[i]  BY DEF Slots
<1>7. \A i, j \in 1..Len(Tail(f)) : Tail(f)[i] = Tail(f)[j] => i = j
  <2>. SUFFICES ASSUME NEW i \in 1..Len(Tail(f)), NEW j \in 1..Len(Tail(f)),
                       Tail(f)[i] = Tail(f)[j]
                PROVE  i = j
    OBVIOUS
  <2>1. i + 1 = j + 1  BY <1>4, <1>5
  <2>. QED  BY <1>3, <2>1
<1>8. \A q \in DOMAIN e2 : \A i \in 1..Len(Tail(f)) : e2[q] # Tail(f)[i]
  <2>. TAKE q \in DOMAIN e2
  <2>. TAKE i \in 1..Len(Tail(f))
  <2>1. CASE q = p
    <3>1. 1 \in 1..Len(f) /\ i + 1 # 1 /\ i + 1 \in 1..Len(f)  BY <1>3, <1>4
    <3>. QED  BY <1>1, <1>3, <1>4, <1>5, <2>1, <3>1
  <2>2. CASE q # p  BY <1>1, <1>4, <1>6, <2>2
  <2>. QED  BY <2>1, <2>2
<1>9. \A k \in 1..n : \/ \E q \in DOMAIN e2 : k = e2[q]
                      \/ \E i \in 1..Len(Tail(f)) : k = Tail(f)[i]
  <2>. TAKE k \in 1..n
  <2>1. CASE \E q \in DOMAIN e : k = e[q]  BY <1>1, <2>1
  <2>2. CASE \E i \in 1..Len(f) : k = f[i]
    <3>1. PICK i \in 1..Len(f) : k = f[i]  BY <2>2
    <3>2. CASE i = 1  BY <1>1, <1>3, <3>1, <3>2
    <3>3. CASE i # 1
      <4>1. i - 1 \in 1..Len(Tail(f)) /\ (i - 1) + 1 = i  BY <1>3, <3>3
      <4>2. Tail(f)[i - 1] = k  BY <1>4, <3>1, <4>1
      <4>. QED  BY <4>1, <4>2
    <3>. QED  BY <3>2, <3>3
  <2>. QED  BY <2>1, <2>2 DEF Slots
<1>10. DOMAIN e2 \subseteq Prims /\ \A q \in DOMAIN e2 : e2[q] \in 1..n  BY <1>1, <1>2, <1>3
<1>11. Slots(e2, Tail(f), n)  BY <1>3, <1>7, <1>8, <1>9, <1>10 DEF Slots
<1>. QED  BY <1>3, <1>11

LEMMA SlotsFreed ==
    ASSUME NEW n \in Nat, NEW e, NEW f, Slots(e, f, n), NEW p \in DOMAIN e,
           \A q \in DOMAIN e : e[q] = e[p] => q = p,
           NEW e2, e2 = [q \in DOMAIN e \ {p} |-> e[q]], NEW f2, f2 = <<e[p]>> \o f
    PROVE  Slots(e2, f2, n)
<1>1. DOMAIN e2 = DOMAIN e \ {p} /\ \A q \in DOMAIN e2 : e2[q] = e[q]
  OBVIOUS
<1>2. f \in Seq(1..n) /\ DOMAIN e \subseteq Prims /\ \A q \in DOMAIN e : e[q] \in 1..n
  BY DEF Slots
<1>3. Len(f) \in Nat /\ f2 \in Seq(1..n) /\ Len(f2) = Len(f) + 1 /\ f2[1] = e[p]
  BY <1>2
<1>4. \A i \in 2..Len(f2) : f2[i] = f[i - 1] /\ i - 1 \in 1..Len(f)  BY <1>2, <1>3
<1>5. \A i, j \in 1..Len(f) : f[i] = f[j] => i = j  BY DEF Slots
<1>6. \A q \in DOMAIN e : \A i \in 1..Len(f) : e[q] # f[i]  BY DEF Slots
<1>7. \A i, j \in 1..Len(f2) : f2[i] = f2[j] => i = j
  <2>. SUFFICES ASSUME NEW i \in 1..Len(f2), NEW j \in 1..Len(f2), f2[i] = f2[j]
                PROVE  i = j
    OBVIOUS
  <2>1. CASE i = 1 /\ j # 1
    <3>1. j \in 2..Len(f2)  BY <1>3, <2>1
    <3>. QED  BY <1>3, <1>4, <1>6, <2>1, <3>1
  <2>2. CASE j = 1 /\ i # 1
    <3>1. i \in 2..Len(f2)  BY <1>3, <2>2
    <3>. QED  BY <1>3, <1>4, <1>6, <2>2, <3>1
  <2>3. CASE i # 1 /\ j # 1
    <3>1. i \in 2..Len(f2) /\ j \in 2..Len(f2)  BY <1>3, <2>3
    <3>2. i - 1 = j - 1  BY <1>4, <1>5, <3>1
    <3>. QED  BY <1>3, <3>2
  <2>. QED  BY <2>1, <2>2, <2>3
<1>8. \A q \in DOMAIN e2 : \A i \in 1..Len(f2) : e2[q] # f2[i]
  <2>. TAKE q \in DOMAIN e2
  <2>. TAKE i \in 1..Len(f2)
  <2>1. CASE i = 1  BY <1>1, <1>3, <2>1
  <2>2. CASE i # 1
    <3>1. i \in 2..Len(f2)  BY <1>3, <2>2
    <3>. QED  BY <1>1, <1>4, <1>6, <3>1
  <2>. QED  BY <2>1, <2>2
<1>9. \A k \in 1..n : \/ \E q \in DOMAIN e2 : k = e2[q]
                      \/ \E i \in 1..Len(f2) : k = f2[i]
  <2>. TAKE k \in 1..n
  <2>1. CASE k = e[p]
    <3>1. 1 \in 1..Len(f2)  BY <1>3
    <3>. QED  BY <1>3, <2>1, <3>1
  <2>2. CASE \E q \in DOMAIN e \ {p} : k = e[q]  BY <1>1, <2>2
  <2>3. CASE \E i \in 1..Len(f) : k = f[i]
    <3>1. PICK i \in 1..Len(f) : k = f[i]  BY <2>3
    <3>2. i + 1 \in 2..Len(f2) /\ (i + 1) - 1 = i /\ i + 1 \in 1..Len(f2)  BY <1>3
    <3>3. f2[i + 1] = k  BY <1>4, <3>1, <3>2
    <3>. QED  BY <3>2, <3>3
  <2>. QED  BY <2>1, <2>2, <2>3 DEF Slots
<1>10. DOMAIN e2 \subseteq Prims /\ \A q \in DOMAIN e2 : e2[q] \in 1..n  BY <1>1, <1>2
<1>. QED  BY <1>3, <1>7, <1>8, <1>9, <1>10 DEF Slots

-----------------------------------------------------------------------------
(* ensure_slot adds the node of one path and moves none.                    *)
Extends(c, d) ==
    /\ d.time = c.time /\ d.epoch = c.epoch /\ d.timeStamp = c.timeStamp
    /\ Cached(c) \subseteq Cached(d) /\ \A q \in Cached(c) : d.entries[q] = c.entries[q]

SlotAdded(c, d, p) ==
    /\ Extends(c, d) /\ Cached(d) = Cached(c) \cup {p} /\ NodeOf(d, p) = NewNode(c, p)
    /\ \A q \in Cached(c) : NodeOf(d, q) = NodeOf(c, q)

LEMMA NewNodeIs ==
    ASSUME NEW c, Arena(c), NEW p
    PROVE  LET n == NewNode(c, p)
           IN  /\ IsNode(n) /\ n.path = p /\ Stamped(n, c.epoch)
               /\ n.parent = Unresolved /\ n.localStamp = c.epoch /\ n.worldValid = FALSE
               /\ n.dependency = "Unknown" /\ n.recipe = NoRecipe /\ n.local = NoLocal
<1>1. c.epoch \in Nat  BY ArenaFacts
<1>. QED  BY <1>1 DEF NewNode, IsNode, Stamped

LEMMA SlotPushed ==
    ASSUME NEW c, Arena(c), NEW p \in Prims, p \notin Cached(c), c.free = <<>>
    PROVE  Arena(EnsureSlot(c, p)) /\ SlotAdded(c, EnsureSlot(c, p), p)
<1>d. PICK d : d = EnsureSlot(c, p)  OBVIOUS
<1>n. PICK n : n = Len(c.nodes)  OBVIOUS
<1>k. PICK k : k = n + 1  OBVIOUS
<1>e. PICK e2 : e2 = [q \in Cached(c) \cup {p} |-> IF q = p THEN k ELSE c.entries[q]]
  OBVIOUS
<1>m. PICK nodes : nodes = Append(c.nodes, NewNode(c, p))  OBVIOUS
<1>1. IsCache(c) /\ IsSeq(c.nodes) /\ n \in Nat  BY <1>n, ArenaFacts
<1>2. d = [c EXCEPT !.entries = e2, !.nodes = nodes, !.free = c.free]
  BY <1>1, <1>d, <1>n, <1>k, <1>e, <1>m DEF IsCache, EnsureSlot
<1>3. /\ IsCache(d) /\ d.nodes = nodes /\ d.entries = e2 /\ d.free = <<>>
      /\ d.time = c.time /\ d.epoch = c.epoch /\ d.timeStamp = c.timeStamp
  BY <1>1, <1>2 DEF IsCache
<1>4. IsSeq(nodes) /\ Len(nodes) = k  BY <1>1, <1>n, <1>k, <1>m, ElementAdded
<1>5. nodes[k] = NewNode(c, p) /\ \A j \in 1..n : nodes[j] = c.nodes[j]
  BY <1>1, <1>n, <1>k, <1>m, ElementsOfAdded
<1>6. /\ Cached(d) = Cached(c) \cup {p} /\ d.entries[p] = k
      /\ \A q \in Cached(c) : d.entries[q] = c.entries[q]
  BY <1>3, <1>e DEF Cached
<1>7. NodeOf(d, p) = NewNode(c, p) /\ \A q \in Cached(c) : NodeOf(d, q) = NodeOf(c, q)
  <2>1. \A q \in Cached(c) : c.entries[q] \in 1..n  BY <1>n, ArenaFacts
  <2>. QED  BY <1>3, <1>5, <1>6, <2>1 DEF NodeOf
<1>8. /\ IsNode(NewNode(c, p)) /\ NewNode(c, p).path = p /\ Stamped(NewNode(c, p), c.epoch)
  BY NewNodeIs
<1>9. \A i \in 1..Len(nodes) : IsNode(nodes[i]) /\ Stamped(nodes[i], c.epoch)
  <2>. TAKE i \in 1..Len(nodes)
  <2>1. CASE i = k  BY <1>5, <1>8, <2>1
  <2>2. CASE i # k
    <3>1. i \in 1..n  BY <1>1, <1>4, <1>k, <2>2
    <3>2. IsNode(c.nodes[i]) /\ Stamped(c.nodes[i], c.epoch)  BY <1>n, <3>1 DEF Arena, Nodes
    <3>. QED  BY <1>5, <3>1, <3>2
  <2>. QED  BY <2>1, <2>2
<1>10. \A q \in Cached(d) : NodeOf(d, q).path = q  BY <1>6, <1>7, <1>8, ArenaFacts
<1>11. Nodes(d)  BY <1>3, <1>4, <1>9, <1>10 DEF Nodes
<1>12. Slots(d.entries, d.free, Len(d.nodes))
  <2>1. Slots(c.entries, <<>>, n)  BY <1>n DEF Arena
  <2>2. e2 = [q \in DOMAIN c.entries \cup {p} |-> IF q = p THEN n + 1 ELSE c.entries[q]]
    BY <1>e, <1>k DEF Cached
  <2>3. p \notin DOMAIN c.entries  BY DEF Cached
  <2>4. Slots(e2, <<>>, n + 1)  BY <1>1, <2>1, <2>2, <2>3, SlotsPushed
  <2>. QED  BY <1>3, <1>4, <1>k, <2>4
<1>13. d.epoch \in 0..MaxEpoch /\ d.timeStamp \in 0..d.epoch  BY <1>3 DEF Arena
<1>14. Arena(d)  BY <1>3, <1>11, <1>12, <1>13 DEF Arena
<1>15. SlotAdded(c, d, p)  BY <1>3, <1>6, <1>7 DEF SlotAdded, Extends
<1>. QED  BY <1>d, <1>14, <1>15

LEMMA SlotTaken ==
    ASSUME NEW c, Arena(c), NEW p \in Prims, p \notin Cached(c), c.free # <<>>
    PROVE  Arena(EnsureSlot(c, p)) /\ SlotAdded(c, EnsureSlot(c, p), p)
<1>d. PICK d : d = EnsureSlot(c, p)  OBVIOUS
<1>n. PICK n : n = Len(c.nodes)  OBVIOUS
<1>k. PICK k : k = Head(c.free)  OBVIOUS
<1>e. PICK e2 : e2 = [q \in Cached(c) \cup {p} |-> IF q = p THEN k ELSE c.entries[q]]
  OBVIOUS
<1>m. PICK nodes : nodes = [c.nodes EXCEPT ![k] = NewNode(c, p)]  OBVIOUS
<1>f. PICK free : free = Tail(c.free)  OBVIOUS
<1>1. IsCache(c) /\ IsSeq(c.nodes) /\ n \in Nat /\ DOMAIN c.nodes = 1..n
  BY <1>n, ArenaFacts
<1>2. d = [c EXCEPT !.entries = e2, !.nodes = nodes, !.free = free]
  BY <1>1, <1>d, <1>f, <1>k, <1>e, <1>m DEF IsCache, EnsureSlot
<1>3. /\ IsCache(d) /\ d.nodes = nodes /\ d.entries = e2 /\ d.free = free
      /\ d.time = c.time /\ d.epoch = c.epoch /\ d.timeStamp = c.timeStamp
  BY <1>1, <1>2 DEF IsCache
<1>s. Slots(e2, free, n) /\ k \in 1..n
  <2>1. Slots(c.entries, c.free, n)  BY <1>n DEF Arena
  <2>2. e2 = [q \in DOMAIN c.entries \cup {p} |-> IF q = p THEN Head(c.free) ELSE c.entries[q]]
    BY <1>e, <1>k DEF Cached
  <2>3. p \notin DOMAIN c.entries  BY DEF Cached
  <2>. QED  BY <1>1, <1>k, <1>f, <2>1, <2>2, <2>3, SlotsTaken
<1>4. IsSeq(nodes) /\ Len(nodes) = n  BY <1>1, <1>n, <1>s, <1>m, ElementPut
<1>5. nodes[k] = NewNode(c, p) /\ \A j \in 1..n : j # k => nodes[j] = c.nodes[j]
  BY <1>1, <1>s, <1>m
<1>6. /\ Cached(d) = Cached(c) \cup {p} /\ d.entries[p] = k
      /\ \A q \in Cached(c) : d.entries[q] = c.entries[q]
  BY <1>3, <1>e DEF Cached
<1>7. NodeOf(d, p) = NewNode(c, p) /\ \A q \in Cached(c) : NodeOf(d, q) = NodeOf(c, q)
  <2>1. ASSUME NEW q \in Cached(c)  PROVE c.entries[q] \in 1..n /\ c.entries[q] # k
    <3>1. Slots(c.entries, c.free, n)  BY <1>n DEF Arena
    <3>2. c.free \in Seq(1..n)  BY <3>1 DEF Slots
    <3>3. 1 \in 1..Len(c.free) /\ k = c.free[1]  BY <3>2, <1>k
    <3>4. q \in DOMAIN c.entries  BY DEF Cached
    <3>. QED  BY <3>1, <3>3, <3>4 DEF Slots
  <2>. QED  BY <1>3, <1>5, <1>6, <2>1 DEF NodeOf
<1>8. /\ IsNode(NewNode(c, p)) /\ NewNode(c, p).path = p /\ Stamped(NewNode(c, p), c.epoch)
  BY NewNodeIs
<1>9. \A i \in 1..Len(nodes) : IsNode(nodes[i]) /\ Stamped(nodes[i], c.epoch)
  <2>. TAKE i \in 1..Len(nodes)
  <2>1. CASE i = k  BY <1>5, <1>8, <2>1
  <2>2. CASE i # k
    <3>1. i \in 1..n  BY <1>4
    <3>2. IsNode(c.nodes[i]) /\ Stamped(c.nodes[i], c.epoch)  BY <1>n, <3>1 DEF Arena, Nodes
    <3>. QED  BY <1>5, <2>2, <3>1, <3>2
  <2>. QED  BY <2>1, <2>2
<1>10. \A q \in Cached(d) : NodeOf(d, q).path = q  BY <1>6, <1>7, <1>8, ArenaFacts
<1>11. Nodes(d)  BY <1>3, <1>4, <1>9, <1>10 DEF Nodes
<1>12. Slots(d.entries, d.free, Len(d.nodes))  BY <1>3, <1>4, <1>s
<1>13. d.epoch \in 0..MaxEpoch /\ d.timeStamp \in 0..d.epoch  BY <1>3 DEF Arena
<1>14. Arena(d)  BY <1>3, <1>11, <1>12, <1>13 DEF Arena
<1>15. SlotAdded(c, d, p)  BY <1>3, <1>6, <1>7 DEF SlotAdded, Extends
<1>. QED  BY <1>d, <1>14, <1>15

LEMMA SlotEnsured ==
    ASSUME NEW c, Arena(c), NEW p \in Prims
    PROVE  LET d == EnsureSlot(c, p)
           IN  /\ Arena(d) /\ Extends(c, d)
               /\ p \in Cached(c) => d = c
               /\ p \notin Cached(c) => SlotAdded(c, d, p)
<1>1. CASE p \in Cached(c)
  <2>1. EnsureSlot(c, p) = c  BY <1>1 DEF EnsureSlot
  <2>. QED  BY <1>1, <2>1 DEF Extends
<1>2. CASE p \notin Cached(c)
  <2>1. Arena(EnsureSlot(c, p)) /\ SlotAdded(c, EnsureSlot(c, p), p)
    BY <1>2, SlotPushed, SlotTaken
  <2>. QED  BY <1>2, <2>1 DEF SlotAdded
<1>. QED  BY <1>1, <1>2

-----------------------------------------------------------------------------
(* What a walk makes of one node.                                           *)
Late(c, p) == Outdated(c, NodeOf(c, p))
Stale(c, s, p) == NodeOf(c, p).local.matrix # <<Local(s, c.time, p)>>
Recipe(s, p) == [layout |-> s[p].layout, resets |-> s[p].resets]

LocalOK(c, s, p) ==
    LET node == NodeOf(c, p)
    IN  /\ s[p] # Gone
        /\ node.dependency \in {"Unknown", "Static", "Varying"}
        /\ node.local.held = (node.dependency # "Unknown")
        /\ node.recipe # NoRecipe => node.recipe = Recipe(s, p) /\ node.dependency = "Varying"
        /\ node.local.held =>
              /\ node.local.resets = s[p].resets
              /\ (node.dependency = "Varying") = s[p].varying
              /\ node.local.matrix = <<node.local.matrix[1]>>
              /\ Stale(c, s, p) => Late(c, p)

(* What ensure_local changes of a node: nothing of its link and its world,  *)
(* but for the world it gives up with a local that is late.                 *)
Refilled(c, d, p) ==
    LET n == NodeOf(c, p)
        m == NodeOf(d, p)
    IN  /\ m.parent = n.parent /\ m.worldStamp = n.worldStamp /\ m.validated = n.validated
        /\ m.worldVaries = n.worldVaries /\ m.world = n.world
        /\ m.localStamp = IF Late(c, p) THEN c.timeStamp ELSE n.localStamp
        /\ m.worldValid = IF Late(c, p) THEN FALSE ELSE n.worldValid
        /\ ~Late(c, p) /\ n.local.held => m = n

FilledNode(s, c, node) ==
    LET spec    == s[node.path]
        current == IF Outdated(c, node)
                   THEN [node EXCEPT !.local = NoLocal, !.worldValid = FALSE,
                                     !.localStamp = c.timeStamp]
                   ELSE node
        Held(recipe) == [matrix |-> <<Evaluate(recipe.layout, spec, c.time)>>,
                         resets |-> recipe.resets, held |-> TRUE]
        read    == [layout |-> spec.layout, resets |-> spec.resets]
        depends == IF current.dependency # "Unknown" THEN current.dependency
                   ELSE IF spec.varying THEN "Varying" ELSE "Static"
    IN  IF current.local.held THEN current
        ELSE IF current.recipe # NoRecipe
        THEN [current EXCEPT !.local = Held(current.recipe)]
        ELSE [current EXCEPT !.local = Held(read), !.dependency = depends,
                             !.recipe = IF depends = "Varying" THEN read ELSE @]

LEMMA EnsureLocalPuts ==
    ASSUME NEW c, NEW s, NEW p
    PROVE  EnsureLocal(s, c, c.entries[p]) = Put(c, p, FilledNode(s, c, NodeOf(c, p)))
BY DEF EnsureLocal, Put, FilledNode, NodeOf

LEMMA LocalEnsured ==
    ASSUME NEW c, Arena(c), NEW s, NEW p \in Cached(c)
    PROVE  LET d == EnsureLocal(s, c, c.entries[p])
           IN  /\ Arena(d) /\ OneNode(c, d, p) /\ Cached(d) = Cached(c)
               /\ Refilled(c, d, p)
<1>k. PICK k : k = c.entries[p]  OBVIOUS
<1>d. PICK d : d = EnsureLocal(s, c, k)  OBVIOUS
<1>n. PICK n : n = NodeOf(c, p)  OBVIOUS
<1>1. /\ IsNode(n) /\ n.path = p /\ Stamped(n, c.epoch) /\ n = c.nodes[k]
      /\ c.epoch \in Nat /\ c.timeStamp \in 0..c.epoch
  <2>1. n = c.nodes[k]  BY <1>k, <1>n DEF NodeOf
  <2>2. c.epoch \in Nat /\ c.timeStamp \in 0..c.epoch  BY ArenaFacts DEF Arena
  <2>. QED  BY <1>n, <2>1, <2>2, ArenaFacts
<1>u. PICK u : u = IF Outdated(c, n)
                   THEN [n EXCEPT !.local = NoLocal, !.worldValid = FALSE,
                                  !.localStamp = c.timeStamp]
                   ELSE n
  OBVIOUS
<1>2. /\ IsNode(u) /\ u.path = p /\ Stamped(u, c.epoch)
      /\ u.parent = n.parent /\ u.worldStamp = n.worldStamp /\ u.validated = n.validated
      /\ u.worldVaries = n.worldVaries /\ u.world = n.world
      /\ u.localStamp = IF Outdated(c, n) THEN c.timeStamp ELSE n.localStamp
      /\ u.worldValid = IF Outdated(c, n) THEN FALSE ELSE n.worldValid
      /\ ~Outdated(c, n) => u = n
  <2>1. CASE Outdated(c, n)
    <3>1. u = [n EXCEPT !.local = NoLocal, !.worldValid = FALSE, !.localStamp = c.timeStamp]
      BY <1>u, <2>1
    <3>. QED  BY <1>1, <2>1, <3>1 DEF IsNode, Stamped
  <2>2. CASE ~Outdated(c, n)
    <3>1. u = n  BY <1>u, <2>2
    <3>. QED  BY <1>1, <2>2, <3>1
  <2>. QED  BY <2>1, <2>2
<1>m. PICK m : m = FilledNode(s, c, n)  OBVIOUS
<1>4. /\ IsNode(m) /\ m.path = u.path /\ m.localStamp = u.localStamp
      /\ m.worldStamp = u.worldStamp /\ m.validated = u.validated
      /\ m.parent = u.parent /\ m.worldVaries = u.worldVaries /\ m.world = u.world
      /\ m.worldValid = u.worldValid
      /\ u.local.held => m = u
  <2>1. CASE u.local.held
    <3>1. m = u  BY <1>u, <1>m, <2>1 DEF FilledNode
    <3>. QED  BY <1>2, <3>1
  <2>2. CASE ~u.local.held /\ u.recipe # NoRecipe
    <3>1. PICK l : m = [u EXCEPT !.local = l]  BY <1>u, <1>m, <2>2 DEF FilledNode
    <3>. QED  BY <1>2, <2>2, <3>1 DEF IsNode
  <2>3. CASE ~u.local.held /\ u.recipe = NoRecipe
    <3>1. PICK l, y, r : m = [u EXCEPT !.local = l, !.dependency = y, !.recipe = r]
      BY <1>u, <1>m, <2>3 DEF FilledNode
    <3>. QED  BY <1>2, <2>3, <3>1 DEF IsNode
  <2>. QED  BY <2>1, <2>2, <2>3
<1>5. Stamped(m, c.epoch) /\ m.path = p  BY <1>2, <1>4 DEF Stamped
<1>6. Arena(d) /\ OneNode(c, d, p) /\ NodeOf(d, p) = m
  BY <1>k, <1>d, <1>m, <1>n, <1>4, <1>5, EnsureLocalPuts, NodePut
<1>7. Cached(d) = Cached(c)  BY <1>6 DEF OneNode, Cached
<1>8. Refilled(c, d, p)  BY <1>n, <1>2, <1>4, <1>6 DEF Refilled, Late
<1>. QED  BY <1>k, <1>d, <1>6, <1>7, <1>8

SpecAt(s, p) ==
    /\ s[p] # Gone /\ s[p].varying \in BOOLEAN /\ s[p].resets \in BOOLEAN
    /\ s[p].layout # "none"

LEMMA SpecIs ==
    ASSUME NEW s, IsScene(s), NEW p \in Prims, s[p] # Gone
    PROVE  SpecAt(s, p)
<1>1. s[p] \in Specs[p]  BY DEF IsScene
<1>. QED  BY <1>1, SpecsAssumption DEF SpecAt

(* A local that has been ensured is what is authored, at this time.         *)
Current(c, s, p) ==
    LET n == NodeOf(c, p)
    IN  /\ n.local.held /\ n.local.resets = s[p].resets
        /\ n.local.matrix = <<Local(s, c.time, p)>>
        /\ n.dependency # "Unknown" /\ (n.dependency = "Varying") = s[p].varying

LEMMA LocalFilled ==
    ASSUME NEW c, Arena(c), NEW s, NEW p \in Cached(c), SpecAt(s, p), LocalOK(c, s, p)
    PROVE  LET d == EnsureLocal(s, c, c.entries[p])
           IN  LocalOK(d, s, p) /\ Current(d, s, p)
<1>d. PICK d : d = EnsureLocal(s, c, c.entries[p])  OBVIOUS
<1>n. PICK n : n = NodeOf(c, p)  OBVIOUS
<1>m. PICK m : m = FilledNode(s, c, n)  OBVIOUS
<1>1. /\ IsNode(n) /\ n.path = p /\ c.timeStamp \in Nat  BY <1>n, ArenaFacts
<1>2. /\ Arena(d) /\ OneNode(c, d, p) /\ d.time = c.time /\ d.timeStamp = c.timeStamp
  BY <1>d, LocalEnsured DEF OneNode
<1>3. d = Put(c, p, m)  BY <1>d, <1>n, <1>m, EnsureLocalPuts
<1>4. NodeOf(d, p) = m
  <2>1. IsCache(c) /\ c.entries[p] \in DOMAIN c.nodes  BY ArenaFacts
  <2>. QED  BY <1>3, <2>1 DEF Put, NodeOf, IsCache
<1>5. /\ n.dependency \in {"Unknown", "Static", "Varying"}
      /\ n.local.held = (n.dependency # "Unknown")
      /\ n.recipe # NoRecipe => n.recipe = Recipe(s, p) /\ n.dependency = "Varying"
      /\ n.local.held =>
              /\ n.local.resets = s[p].resets
              /\ (n.dependency = "Varying") = s[p].varying
              /\ n.local.matrix # <<Local(s, c.time, p)>> => Outdated(c, n)
  BY <1>n DEF LocalOK, Stale, Late
<1>6. CASE Outdated(c, n)
  <2>1. n.dependency = "Varying" /\ s[p].varying  BY <1>5, <1>6 DEF Outdated
  <2>2. PICK r : /\ m = [n EXCEPT !.local = [matrix |-> <<Local(s, c.time, p)>>,
                                        resets |-> s[p].resets, held |-> TRUE],
                                   !.worldValid = FALSE, !.localStamp = c.timeStamp,
                                   !.dependency = "Varying", !.recipe = r]
                 /\ r = Recipe(s, p)
    <3>0. PICK u : u = [n EXCEPT !.local = NoLocal, !.worldValid = FALSE,
                                 !.localStamp = c.timeStamp]
      OBVIOUS
    <3>4. /\ u.recipe = n.recipe /\ ~u.local.held /\ u.dependency = "Varying"
          /\ IsNode(u)
      BY <1>1, <2>1, <3>0 DEF IsNode, NoLocal
    <3>1. CASE n.recipe # NoRecipe
      <4>1. n.recipe = Recipe(s, p)  BY <1>5, <3>1
      <4>3. m = [u EXCEPT !.local = [matrix |-> <<Evaluate(u.recipe.layout, s[p], c.time)>>,
                                     resets |-> u.recipe.resets, held |-> TRUE]]
        BY <1>1, <1>6, <1>m, <3>0, <3>1, <3>4 DEF FilledNode
      <4>4. u.recipe.layout = s[p].layout /\ u.recipe.resets = s[p].resets
        BY <3>4, <4>1 DEF Recipe
      <4>2. m = [u EXCEPT !.local = [matrix |-> <<Local(s, c.time, p)>>,
                                     resets |-> s[p].resets, held |-> TRUE]]
        BY <4>3, <4>4 DEF Local
      <4>. QED  BY <1>1, <2>1, <3>0, <4>1, <4>2 DEF IsNode
    <3>2. CASE n.recipe = NoRecipe
      <4>2. m = [u EXCEPT !.local = [matrix |-> <<Local(s, c.time, p)>>,
                                     resets |-> s[p].resets, held |-> TRUE],
                          !.dependency = "Varying", !.recipe = Recipe(s, p)]
        BY <1>1, <1>6, <1>m, <3>0, <3>2, <3>4 DEF FilledNode, Recipe, Local
      <4>. QED  BY <1>1, <2>1, <3>0, <4>2 DEF IsNode
    <3>. QED  BY <3>1, <3>2
  <2>3. /\ m.local.held /\ m.local.resets = s[p].resets /\ m.dependency = "Varying"
        /\ m.local.matrix = <<Local(s, c.time, p)>> /\ m.recipe = Recipe(s, p)
        /\ m.localStamp = c.timeStamp
    BY <1>1, <2>2 DEF IsNode
  <2>5. m.local.matrix = <<m.local.matrix[1]>>  BY <2>3
  <2>. QED  BY <1>d, <1>2, <1>4, <2>1, <2>3, <2>5 DEF LocalOK, Current, Stale, SpecAt
<1>7. CASE ~Outdated(c, n) /\ n.local.held
  <2>1. m = n  BY <1>m, <1>7 DEF FilledNode
  <2>2. n.local.matrix = <<Local(s, c.time, p)>>  BY <1>5, <1>7
  <2>4. m.local.matrix = <<m.local.matrix[1]>>  BY <2>1, <2>2
  <2>. QED  BY <1>d, <1>2, <1>4, <1>5, <1>7, <2>1, <2>2, <2>4
            DEF LocalOK, Current, Stale, SpecAt
<1>8. CASE ~Outdated(c, n) /\ ~n.local.held
  <2>1. n.dependency = "Unknown" /\ n.recipe = NoRecipe  BY <1>5, <1>8
  <2>2. PICK y, r : /\ m = [n EXCEPT !.local = [matrix |-> <<Local(s, c.time, p)>>,
                                        resets |-> s[p].resets, held |-> TRUE],
                                      !.dependency = y, !.recipe = r]
                    /\ y = (IF s[p].varying THEN "Varying" ELSE "Static")
                    /\ r = (IF y = "Varying" THEN Recipe(s, p) ELSE NoRecipe)
    BY <1>1, <1>8, <1>m, <2>1 DEF FilledNode, IsNode, Recipe, Local
  <2>3. /\ m.local.held /\ m.local.resets = s[p].resets /\ m.dependency = y
        /\ m.local.matrix = <<Local(s, c.time, p)>> /\ m.recipe = r
    BY <1>1, <2>2 DEF IsNode
  <2>4. y \in {"Static", "Varying"} /\ (y = "Varying") = s[p].varying  BY <2>2 DEF SpecAt
  <2>6. m.local.matrix = <<m.local.matrix[1]>>  BY <2>3
  <2>. QED  BY <1>d, <1>2, <1>4, <2>2, <2>3, <2>4, <2>6
            DEF LocalOK, Current, Stale, SpecAt
<1>. QED  BY <1>6, <1>7, <1>8

-----------------------------------------------------------------------------
(* The parent a node is linked to.                                          *)
Linked(c, p) ==
    LET link == NodeOf(c, p).parent
    IN  \/ link = Unresolved
        \/ link = Root /\ Len(p) = 1
        \/ Len(p) > 1 /\ Front(p) \in Cached(c) /\ link = c.entries[Front(p)]

(* Only the link of a node and the nodes that were not there changed.       *)
LinkSet(c, d, p) ==
    /\ Extends(c, d) /\ p \in Cached(d)
    /\ \A q \in Cached(c) : q # p => NodeOf(d, q) = NodeOf(c, q)
    /\ \A q \in Cached(d) : q \in Cached(c) \/ (Len(p) > 1 /\ q = Front(p) /\ NodeOf(d, q) = NewNode(c, q))
    /\ NodeOf(d, p) = [NodeOf(c, p) EXCEPT !.parent = NodeOf(d, p).parent]
    /\ NodeOf(d, p).parent # Unresolved /\ Linked(d, p)

LEMMA ParentResolved ==
    ASSUME NEW c, Arena(c), NEW p \in Cached(c), Linked(c, p)
    PROVE  LET d == ResolveParent(c, c.entries[p])
           IN  Arena(d) /\ LinkSet(c, d, p)
<1>n. PICK n : n = NodeOf(c, p)  OBVIOUS
<1>1. /\ IsNode(n) /\ n.path = p /\ Stamped(n, c.epoch) /\ n = c.nodes[c.entries[p]]
      /\ p \in Prims
  BY <1>n, ArenaFacts DEF NodeOf
<1>2. CASE n.parent # Unresolved
  <2>1. ResolveParent(c, c.entries[p]) = c  BY <1>1, <1>2 DEF ResolveParent
  <2>2. n = [n EXCEPT !.parent = n.parent]  BY <1>1 DEF IsNode
  <2>3. Extends(c, c)  BY DEF Extends
  <2>. QED  BY <1>n, <1>2, <2>1, <2>2, <2>3 DEF LinkSet
<1>3. CASE n.parent = Unresolved /\ Len(p) = 1
  <2>m. PICK m : m = [n EXCEPT !.parent = Root]  OBVIOUS
  <2>d. PICK d : d = Put(c, p, m)  OBVIOUS
  <2>1. ResolveParent(c, c.entries[p]) = d
    BY ZenonT(40), <1>1, <1>3, <2>m, <2>d, ArenaFacts DEF ResolveParent, Put, IsCache
  <2>2. /\ IsNode(m) /\ m.path = p /\ Stamped(m, c.epoch) /\ m.parent = Root
        /\ m = [n EXCEPT !.parent = m.parent]
    BY <1>1, <2>m DEF IsNode, Stamped
  <2>3. Arena(d) /\ OneNode(c, d, p) /\ NodeOf(d, p) = m  BY <2>d, <2>2, NodePut
  <2>4. Extends(c, d) /\ Cached(d) = Cached(c)  BY <2>3 DEF OneNode, Extends, Cached
  <2>5. Linked(d, p)  BY <1>3, <2>2, <2>3 DEF Linked
  <2>6. m.parent # Unresolved  BY <2>2 DEF Root, Unresolved
  <2>7. LinkSet(c, d, p)  BY <1>n, <2>2, <2>3, <2>4, <2>5, <2>6 DEF LinkSet, OneNode
  <2>. QED  BY <2>1, <2>3, <2>7
<1>4. CASE n.parent = Unresolved /\ Len(p) # 1
  <2>f. PICK f : f = Front(p)  OBVIOUS
  <2>0. Len(p) > 1 /\ f \in Prims /\ f # p /\ Len(p) \in Nat
    <3>1. Len(p) \in Nat /\ Len(p) > 0  BY <1>1, PrimFacts
    <3>2. Len(p) > 1
      <4>1. \A l \in Nat : l > 0 /\ l # 1 => l > 1  OBVIOUS
      <4>. QED  BY <1>4, <3>1, <4>1
    <3>3. f \in Prims /\ Len(f) = Len(p) - 1  BY <1>1, <2>f, <3>2, PrimFacts
    <3>4. f # p  BY <3>1, <3>3
    <3>. QED  BY <3>1, <3>2, <3>3, <3>4
  <2>h. PICK h : h = EnsureSlot(c, f)  OBVIOUS
  <2>1. /\ Arena(h) /\ Extends(c, h)
        /\ f \in Cached(c) => h = c
        /\ f \notin Cached(c) => SlotAdded(c, h, f)
    BY <2>0, <2>h, SlotEnsured
  <2>2. /\ f \in Cached(h) /\ p \in Cached(h) /\ NodeOf(h, p) = n
        /\ \A q \in Cached(c) : NodeOf(h, q) = NodeOf(c, q)
        /\ \A q \in Cached(h) : q \in Cached(c) \/ (q = f /\ NodeOf(h, q) = NewNode(c, q))
    BY <1>n, <2>1 DEF SlotAdded
  <2>m. PICK m : m = [n EXCEPT !.parent = h.entries[f]]  OBVIOUS
  <2>d. PICK d : d = Put(h, p, m)  OBVIOUS
  <2>3. h.entries[p] = c.entries[p] /\ h.epoch = c.epoch  BY <2>1 DEF Extends
  <2>4. ResolveParent(c, c.entries[p]) = d
    <3>1. h.nodes[c.entries[p]] = n  BY SMTT(40), <2>2, <2>3 DEF NodeOf
    <3>2. ResolveParent(c, c.entries[p]) = [h EXCEPT !.nodes[c.entries[p]].parent = h.entries[f]]
      BY <1>1, <1>4, <2>f, <2>h DEF ResolveParent
    <3>3. IsCache(h)  BY <2>1, ArenaFacts
    <3>. QED  BY <2>m, <2>d, <2>3, <3>1, <3>2, <3>3 DEF Put, IsCache
  <2>5. h.entries[f] \in Nat /\ h.entries[f] > 0
    <3>1. h.entries[f] \in 1..Len(h.nodes) /\ Len(h.nodes) \in Nat  BY SMTT(40), <2>1, <2>2, ArenaFacts
    <3>. QED  BY <3>1
  <2>6. /\ IsNode(m) /\ m.path = p /\ Stamped(m, h.epoch) /\ m.parent = h.entries[f]
        /\ m = [n EXCEPT !.parent = m.parent]
    BY <1>1, <2>m, <2>3 DEF IsNode, Stamped
  <2>7. Arena(d) /\ OneNode(h, d, p) /\ NodeOf(d, p) = m  BY <2>1, <2>2, <2>d, <2>6, NodePut
  <2>8. Cached(d) = Cached(h) /\ d.entries = h.entries  BY <2>7 DEF OneNode, Cached
  <2>9. Extends(c, d)  BY <2>1, <2>7, <2>8 DEF OneNode, Extends
  <2>10. Linked(d, p)  BY <2>0, <2>2, <2>f, <2>6, <2>7, <2>8 DEF Linked
  <2>11. m.parent # Unresolved  BY <2>5, <2>6 DEF Unresolved
  <2>12. \A q \in Cached(c) : q # p => NodeOf(d, q) = NodeOf(c, q)
    BY <2>1, <2>2, <2>7 DEF OneNode, Extends
  <2>13. \A q \in Cached(d) : q \in Cached(c) \/ (q = f /\ NodeOf(d, q) = NewNode(c, q))
    <3>. TAKE q \in Cached(d)
    <3>1. CASE q = f  BY <2>0, <2>2, <2>7, <2>8, <3>1 DEF OneNode
    <3>2. CASE q # f  BY <2>2, <2>8, <3>2
    <3>. QED  BY <3>1, <3>2
  <2>14. LinkSet(c, d, p)
    BY <1>n, <2>0, <2>f, <2>2, <2>6, <2>7, <2>8, <2>9, <2>10, <2>11, <2>12, <2>13 DEF LinkSet
  <2>. QED  BY <2>4, <2>7, <2>14
<1>. QED  BY <1>2, <1>3, <1>4

-----------------------------------------------------------------------------
(* What the cache holds of worlds.                                          *)
Product(c, s, p) == [i \in 1..Height(s, p) |-> NodeOf(c, Up(p, i)).local.matrix[1]]

(* A prim on the way has been evaluated anew since the world was composed,  *)
(* and the way to it is cached.                                             *)
Broken(c, s, p) ==
    \E q \in Chain(s, p) :
        /\ q \in Cached(c) /\ NodeOf(c, q).localStamp > NodeOf(c, p).worldStamp
        /\ \A r \in Chain(s, p) : Len(r) >= Len(q) => r \in Cached(c)

Passed(c, s, q, stamp) ==
    /\ q \in Cached(c) /\ NodeOf(c, q).localStamp <= stamp
    /\ NodeOf(c, q).dependency # "Unknown"
    /\ s[q].resets \/ NodeOf(c, q).parent # Unresolved

(* The world is the product of the locals there are.                        *)
Sound(c, s, p) ==
    LET node == NodeOf(c, p)
    IN  /\ \A q \in Chain(s, p) : Passed(c, s, q, node.worldStamp)
        /\ node.worldVaries = Varies(s, p)
        /\ node.world = Product(c, s, p)
        /\ (\E q \in Chain(s, p) : Stale(c, s, q)) => node.worldStamp < c.timeStamp

(* ... and they are the ones authored, at this time.                        *)
Valid(c, s, p) ==
    Sound(c, s, p) /\ \A q \in Chain(s, p) : ~Stale(c, s, q) /\ IsValid(c, NodeOf(c, q))

WorldOK(c, s, p) ==
    /\ NodeOf(c, p).worldValid => Broken(c, s, p) \/ Sound(c, s, p)
    /\ IsValid(c, NodeOf(c, p)) => Valid(c, s, p)

(* A cache is right in a scene: all of it is there, and what is active is   *)
(* as it should be.  No walk from an active prim meets one that is not.     *)
CacheOK(c, s) ==
    /\ Arena(c)
    /\ \A p \in Cached(c) : s[p] # Gone
    /\ \A p \in Cached(c) : s[p].active => Linked(c, p) /\ LocalOK(c, s, p) /\ WorldOK(c, s, p)

-----------------------------------------------------------------------------
(* What a world rests on.                                                   *)
KeptLocal(c, d, q) ==
    LET n == NodeOf(c, q)
        m == NodeOf(d, q)
    IN  /\ q \in Cached(d)
        /\ m.local = n.local /\ m.dependency = n.dependency /\ m.localStamp = n.localStamp
        /\ n.parent # Unresolved => m.parent # Unresolved

KeptWorld(c, d, q) ==
    LET n == NodeOf(c, q)
        m == NodeOf(d, q)
    IN  /\ m.worldValid = n.worldValid /\ m.worldStamp = n.worldStamp
        /\ m.worldVaries = n.worldVaries /\ m.world = n.world /\ m.validated = n.validated

SameClock(c, d) == d.time = c.time /\ d.epoch = c.epoch /\ d.timeStamp = c.timeStamp

LEMMA BrokenKept ==
    ASSUME NEW c, NEW d, NEW s, NEW p \in Prims, Broken(c, s, p),
           NodeOf(d, p).worldStamp = NodeOf(c, p).worldStamp,
           NodeOf(c, p).worldStamp \in Nat,
           \A q \in Chain(s, p) : q \in Cached(c) =>
               /\ q \in Cached(d) /\ NodeOf(c, q).localStamp \in Nat
               /\ NodeOf(d, q).localStamp \in Nat
               /\ NodeOf(d, q).localStamp >= NodeOf(c, q).localStamp
    PROVE  Broken(d, s, p)
<1>1. PICK q \in Chain(s, p) :
          /\ q \in Cached(c) /\ NodeOf(c, q).localStamp > NodeOf(c, p).worldStamp
          /\ \A r \in Chain(s, p) : Len(r) >= Len(q) => r \in Cached(c)
  BY DEF Broken
<1>2. q \in Cached(d) /\ NodeOf(d, q).localStamp > NodeOf(d, p).worldStamp  BY <1>1
<1>3. \A r \in Chain(s, p) : Len(r) >= Len(q) => r \in Cached(d)  BY <1>1
<1>. QED  BY <1>2, <1>3 DEF Broken

LEMMA SameProduct ==
    ASSUME NEW c, NEW d, NEW s, NEW p,
           \A q \in Chain(s, p) : NodeOf(d, q).local.matrix = NodeOf(c, q).local.matrix
    PROVE  Product(d, s, p) = Product(c, s, p)
<1>1. \A i \in 1..Height(s, p) : Up(p, i) \in Chain(s, p)  BY DEF Chain
<1>2. \A i \in 1..Height(s, p) :
          NodeOf(d, Up(p, i)).local.matrix[1] = NodeOf(c, Up(p, i)).local.matrix[1]
  BY <1>1
<1>. QED  BY <1>2, Zenon DEF Product

LEMMA SoundKept ==
    ASSUME NEW c, NEW d, NEW s, NEW p \in Prims, Sound(c, s, p), SameClock(c, d),
           KeptWorld(c, d, p), \A q \in Chain(s, p) : KeptLocal(c, d, q)
    PROVE  Sound(d, s, p)
<1>1. \A q \in Chain(s, p) : Passed(d, s, q, NodeOf(d, p).worldStamp)
  <2>1. \A q \in Chain(s, p) : Passed(c, s, q, NodeOf(c, p).worldStamp)  BY DEF Sound
  <2>. QED  BY <2>1 DEF Passed, KeptLocal, KeptWorld
<1>2. NodeOf(d, p).worldVaries = Varies(s, p)  BY DEF Sound, KeptWorld
<1>3. NodeOf(d, p).world = Product(d, s, p)
  <2>1. \A q \in Chain(s, p) : NodeOf(d, q).local.matrix = NodeOf(c, q).local.matrix
    BY DEF KeptLocal
  <2>2. Product(d, s, p) = Product(c, s, p)  BY <2>1, SameProduct
  <2>. QED  BY <2>2 DEF Sound, KeptWorld
<1>4. \A q \in Chain(s, p) : Stale(d, s, q) = Stale(c, s, q)
  BY DEF Stale, KeptLocal, SameClock
<1>5. (\E q \in Chain(s, p) : Stale(d, s, q)) => NodeOf(d, p).worldStamp < d.timeStamp
  BY <1>4 DEF Sound, KeptWorld, SameClock
<1>. QED  BY <1>1, <1>2, <1>3, <1>5 DEF Sound

(* A world stays valid under what it rests on when what is valid of that    *)
(* stays so.                                                                *)
LEMMA ValidKept ==
    ASSUME NEW c, NEW d, NEW s, NEW p \in Prims, Valid(c, s, p), SameClock(c, d),
           KeptWorld(c, d, p), \A q \in Chain(s, p) : KeptLocal(c, d, q),
           \A q \in Chain(s, p) : IsValid(c, NodeOf(c, q)) => IsValid(d, NodeOf(d, q))
    PROVE  Valid(d, s, p)
<1>1. Sound(d, s, p)  BY SoundKept DEF Valid
<1>2. \A q \in Chain(s, p) : Stale(d, s, q) = Stale(c, s, q)
  BY DEF Stale, KeptLocal, SameClock
<1>3. \A q \in Chain(s, p) : ~Stale(c, s, q) /\ IsValid(c, NodeOf(c, q))  BY DEF Valid
<1>. QED  BY <1>1, <1>2, <1>3 DEF Valid

(* The stamps of nodes are numbers.                                         *)
LEMMA StampsAreNat ==
    ASSUME NEW c, Arena(c), NEW q \in Cached(c)
    PROVE  /\ NodeOf(c, q).localStamp \in Nat /\ NodeOf(c, q).worldStamp \in Nat
           /\ NodeOf(c, q).localStamp <= c.epoch /\ NodeOf(c, q).worldStamp <= c.epoch
           /\ NodeOf(c, q).validated \in Nat /\ NodeOf(c, q).validated <= c.epoch
<1>1. Stamped(NodeOf(c, q), c.epoch) /\ c.epoch \in Nat  BY ArenaFacts
<1>. QED  BY <1>1 DEF Stamped

(* A cache of which all is kept, and to which new nodes are added.          *)
LEMMA WorldKept ==
    ASSUME NEW c, NEW d, NEW s, Arena(c), Arena(d), SameClock(c, d), NEW p \in Cached(c),
           WorldOK(c, s, p), \A q \in Cached(c) : KeptLocal(c, d, q) /\ KeptWorld(c, d, q)
    PROVE  WorldOK(d, s, p)
<1>p. p \in Prims  BY ArenaFacts
<1>1. \A q \in Cached(c) : IsValid(d, NodeOf(d, q)) = IsValid(c, NodeOf(c, q))
  BY DEF IsValid, KeptWorld, SameClock
<1>2. ASSUME Broken(c, s, p)  PROVE Broken(d, s, p)
  <2>1. \A q \in Cached(c) :
               /\ q \in Cached(d) /\ NodeOf(c, q).localStamp \in Nat
               /\ NodeOf(d, q).localStamp \in Nat
               /\ NodeOf(d, q).localStamp >= NodeOf(c, q).localStamp
    BY StampsAreNat DEF KeptLocal
  <2>2. NodeOf(d, p).worldStamp = NodeOf(c, p).worldStamp  BY DEF KeptWorld
  <2>3. NodeOf(c, p).worldStamp \in Nat  BY StampsAreNat
  <2>. QED  BY <1>p, <1>2, <2>1, <2>2, <2>3, BrokenKept
<1>3. ASSUME Sound(c, s, p)  PROVE Sound(d, s, p)
  <2>1. \A q \in Chain(s, p) : q \in Cached(c)  BY <1>3 DEF Sound, Passed
  <2>. QED  BY <1>p, <1>3, <2>1, SoundKept
<1>4. ASSUME Valid(c, s, p)  PROVE Valid(d, s, p)
  <2>1. \A q \in Chain(s, p) : q \in Cached(c)  BY <1>4 DEF Valid, Sound, Passed
  <2>. QED  BY <1>p, <1>1, <1>4, <2>1, ValidKept
<1>. QED  BY <1>1, <1>2, <1>3, <1>4 DEF WorldOK, KeptWorld

LEMMA LocalKept ==
    ASSUME NEW c, NEW d, NEW s, SameClock(c, d), NEW p, LocalOK(c, s, p),
           KeptLocal(c, d, p), NodeOf(d, p).recipe = NodeOf(c, p).recipe
    PROVE  LocalOK(d, s, p)
BY DEF LocalOK, KeptLocal, Stale, Late, Outdated, SameClock

LEMMA LinkKept ==
    ASSUME NEW c, NEW d, Extends(c, d), NEW p, Linked(c, p),
           NodeOf(d, p).parent = NodeOf(c, p).parent
    PROVE  Linked(d, p)
BY DEF Linked, Extends

(* A node that is new holds nothing.                                        *)
LEMMA NewNodeOK ==
    ASSUME NEW c, NEW d, NEW s, Arena(c), NEW p, s[p] # Gone, NodeOf(d, p) = NewNode(c, p)
    PROVE  Linked(d, p) /\ LocalOK(d, s, p) /\ WorldOK(d, s, p)
<1>n. PICK n : n = NodeOf(d, p)  OBVIOUS
<1>1. /\ n.parent = Unresolved /\ n.worldValid = FALSE
      /\ n.dependency = "Unknown" /\ n.recipe = NoRecipe /\ n.local.held = FALSE
  BY <1>n DEF NewNode, NoLocal
<1>2. Linked(d, p)  BY <1>n, <1>1 DEF Linked
<1>3. LocalOK(d, s, p)  BY <1>n, <1>1 DEF LocalOK
<1>4. WorldOK(d, s, p)  BY <1>n, <1>1 DEF WorldOK, IsValid
<1>. QED  BY <1>2, <1>3, <1>4

-----------------------------------------------------------------------------
(* The steps of a walk keep the cache right.                                *)
LEMMA Grown ==
    ASSUME NEW c, NEW d, NEW s, CacheOK(c, s), Arena(d), Extends(c, d),
           \A q \in Cached(c) :
               /\ Linked(c, q) => Linked(d, q)
               /\ NodeOf(d, q).recipe = NodeOf(c, q).recipe
               /\ KeptLocal(c, d, q) /\ KeptWorld(c, d, q),
           \A q \in Cached(d) : q \notin Cached(c) =>
               s[q] # Gone /\ NodeOf(d, q) = NewNode(c, q)
    PROVE  CacheOK(d, s)
<1>1. SameClock(c, d) /\ Arena(c)  BY DEF Extends, SameClock, CacheOK
<1>2. ASSUME NEW q \in Cached(c), s[q].active
      PROVE  Linked(d, q) /\ LocalOK(d, s, q) /\ WorldOK(d, s, q)
  <2>1. Linked(c, q) /\ LocalOK(c, s, q) /\ WorldOK(c, s, q)  BY <1>2 DEF CacheOK
  <2>. QED  BY <1>1, <2>1, LocalKept, WorldKept
<1>3. ASSUME NEW q \in Cached(d), q \notin Cached(c)
      PROVE  Linked(d, q) /\ LocalOK(d, s, q) /\ WorldOK(d, s, q)
  BY <1>1, <1>3, NewNodeOK
<1>4. \A q \in Cached(d) : s[q] # Gone  BY DEF CacheOK
<1>. QED  BY <1>2, <1>3, <1>4 DEF CacheOK

LEMMA NodeKept ==
    ASSUME NEW c, NEW d, Extends(c, d), NEW q \in Cached(c), NodeOf(d, q) = NodeOf(c, q)
    PROVE  /\ Linked(c, q) => Linked(d, q)
           /\ NodeOf(d, q).recipe = NodeOf(c, q).recipe
           /\ KeptLocal(c, d, q) /\ KeptWorld(c, d, q)
<1>1. Linked(c, q) => Linked(d, q)  BY LinkKept
<1>2. q \in Cached(d)  BY DEF Extends
<1>3. KeptLocal(c, d, q) /\ KeptWorld(c, d, q)  BY <1>2 DEF KeptLocal, KeptWorld
<1>. QED  BY <1>1, <1>3

LEMMA SlotEnsuredOK ==
    ASSUME NEW c, NEW s, CacheOK(c, s), NEW p \in Prims, s[p] # Gone
    PROVE  CacheOK(EnsureSlot(c, p), s)
<1>d. PICK d : d = EnsureSlot(c, p)  OBVIOUS
<1>1. Arena(c)  BY DEF CacheOK
<1>2. /\ Arena(d) /\ Extends(c, d)
      /\ p \in Cached(c) => d = c
      /\ p \notin Cached(c) => SlotAdded(c, d, p)
  BY <1>d, <1>1, SlotEnsured
<1>3. CASE p \in Cached(c)  BY <1>d, <1>2, <1>3
<1>4. CASE p \notin Cached(c)
  <2>1. \A q \in Cached(c) : NodeOf(d, q) = NodeOf(c, q)  BY <1>2, <1>4 DEF SlotAdded
  <2>2. \A q \in Cached(d) : q \notin Cached(c) => s[q] # Gone /\ NodeOf(d, q) = NewNode(c, q)
    BY <1>2, <1>4 DEF SlotAdded
  <2>3. \A q \in Cached(c) :
            /\ Linked(c, q) => Linked(d, q)
            /\ NodeOf(d, q).recipe = NodeOf(c, q).recipe
            /\ KeptLocal(c, d, q) /\ KeptWorld(c, d, q)
    BY <1>2, <2>1, NodeKept
  <2>4. CacheOK(d, s)  BY <1>2, <2>2, <2>3, Grown
  <2>. QED  BY <1>d, <2>4
<1>. QED  BY <1>3, <1>4

LEMMA ParentResolvedOK ==
    ASSUME NEW c, NEW s, IsScene(s), CacheOK(c, s), NEW p \in Cached(c), s[p].active
    PROVE  CacheOK(ResolveParent(c, c.entries[p]), s)
<1>d. PICK d : d = ResolveParent(c, c.entries[p])  OBVIOUS
<1>1. Arena(c) /\ Linked(c, p) /\ s[p] # Gone /\ p \in Prims
  BY ArenaFacts DEF CacheOK
<1>2. Arena(d) /\ LinkSet(c, d, p)  BY <1>d, <1>1, ParentResolved
<1>3. Extends(c, d)  BY <1>2 DEF LinkSet
<1>4. ASSUME NEW q \in Cached(c)
      PROVE  /\ Linked(c, q) => Linked(d, q)
             /\ NodeOf(d, q).recipe = NodeOf(c, q).recipe
             /\ KeptLocal(c, d, q) /\ KeptWorld(c, d, q)
  <2>1. CASE q # p
    <3>1. NodeOf(d, q) = NodeOf(c, q)  BY <1>2, <2>1 DEF LinkSet
    <3>. QED  BY <1>3, <3>1, NodeKept
  <2>2. CASE q = p
    <3>n. PICK n : n = NodeOf(c, p)  OBVIOUS
    <3>m. PICK m : m = NodeOf(d, p)  OBVIOUS
    <3>1. m = [n EXCEPT !.parent = m.parent] /\ m.parent # Unresolved /\ Linked(d, p)
      BY <1>2, <3>n, <3>m DEF LinkSet
    <3>2. IsNode(n)  BY <1>1, <3>n, ArenaFacts
    <3>3. /\ m.local = n.local /\ m.dependency = n.dependency /\ m.localStamp = n.localStamp
          /\ m.worldValid = n.worldValid /\ m.worldStamp = n.worldStamp
          /\ m.worldVaries = n.worldVaries /\ m.world = n.world /\ m.validated = n.validated
          /\ m.recipe = n.recipe
      BY <3>1, <3>2 DEF IsNode
    <3>4. p \in Cached(d)  BY <1>2 DEF LinkSet
    <3>. QED  BY <2>2, <3>n, <3>m, <3>1, <3>3, <3>4 DEF KeptLocal, KeptWorld
  <2>. QED  BY <2>1, <2>2
<1>5. ASSUME NEW q \in Cached(d), q \notin Cached(c)
      PROVE  s[q] # Gone /\ NodeOf(d, q) = NewNode(c, q)
  <2>1. Len(p) > 1 /\ q = Front(p) /\ NodeOf(d, q) = NewNode(c, q)
    BY <1>2, <1>5 DEF LinkSet
  <2>2. s[Front(p)] # Gone  BY <1>1, <2>1, ActiveIsPresent DEF IsScene
  <2>. QED  BY <2>1, <2>2
<1>6. CacheOK(d, s)  BY <1>2, <1>3, <1>4, <1>5, Grown
<1>. QED  BY <1>d, <1>6

LEMMA LocalEnsuredOK ==
    ASSUME NEW c, NEW s, IsScene(s), CacheOK(c, s), NEW p \in Cached(c),
           s[p].active, ~IsValid(c, NodeOf(c, p))
    PROVE  CacheOK(EnsureLocal(s, c, c.entries[p]), s)
<1>d. PICK d : d = EnsureLocal(s, c, c.entries[p])  OBVIOUS
<1>1. Arena(c) /\ Linked(c, p) /\ LocalOK(c, s, p) /\ s[p] # Gone /\ p \in Prims
  BY ArenaFacts DEF CacheOK
<1>2. SpecAt(s, p)  BY <1>1, SpecIs
<1>3. Arena(d) /\ OneNode(c, d, p) /\ Cached(d) = Cached(c) /\ Refilled(c, d, p)
  BY <1>d, <1>1, LocalEnsured
<1>4. LocalOK(d, s, p) /\ Current(d, s, p)  BY <1>d, <1>1, <1>2, LocalFilled
<1>5. Extends(c, d) /\ SameClock(c, d)  BY <1>3 DEF OneNode, Extends, SameClock, Cached
<1>6. \A q \in Cached(c) : q # p => NodeOf(d, q) = NodeOf(c, q)  BY <1>3 DEF OneNode
<1>7. \A q \in Cached(c) : q # p =>
            /\ Linked(c, q) => Linked(d, q)
            /\ NodeOf(d, q).recipe = NodeOf(c, q).recipe
            /\ KeptLocal(c, d, q) /\ KeptWorld(c, d, q)
  BY <1>5, <1>6, NodeKept
<1>8. Linked(d, p)
  <2>1. NodeOf(d, p).parent = NodeOf(c, p).parent  BY <1>3 DEF Refilled
  <2>. QED  BY <1>1, <1>5, <2>1, LinkKept
<1>9. ~Late(c, p) /\ NodeOf(c, p).local.held =>
            KeptLocal(c, d, p) /\ KeptWorld(c, d, p)
  BY <1>3 DEF Refilled, KeptLocal, KeptWorld
<1>10. ASSUME NEW y \in Cached(c), s[y].active  PROVE WorldOK(d, s, y)
  <2>1. y \in Prims /\ WorldOK(c, s, y)  BY <1>1, <1>10, ArenaFacts DEF CacheOK
  <2>2. NodeOf(d, y).worldValid => NodeOf(c, y).worldValid /\ (y = p => ~Late(c, p))
    <3>1. CASE y = p  BY <1>3, <3>1 DEF Refilled
    <3>2. CASE y # p  BY <1>6, <3>2
    <3>. QED  BY <3>1, <3>2
  <2>3. NodeOf(d, y).worldStamp = NodeOf(c, y).worldStamp
    <3>1. CASE y = p  BY <1>3, <3>1 DEF Refilled
    <3>2. CASE y # p  BY <1>6, <3>2
    <3>. QED  BY <3>1, <3>2
  <2>4. ASSUME Broken(c, s, y)  PROVE Broken(d, s, y)
    <3>1. ASSUME NEW q \in Cached(c)
          PROVE  /\ q \in Cached(d) /\ NodeOf(c, q).localStamp \in Nat
                 /\ NodeOf(d, q).localStamp \in Nat
                 /\ NodeOf(d, q).localStamp >= NodeOf(c, q).localStamp
      <4>1. /\ q \in Cached(d) /\ NodeOf(c, q).localStamp \in Nat
            /\ NodeOf(d, q).localStamp \in Nat
        BY <1>1, <1>3, StampsAreNat
      <4>2. CASE q # p  BY <1>6, <4>1, <4>2
      <4>3. CASE q = p /\ ~Late(c, p)  BY <1>3, <4>1, <4>3 DEF Refilled
      <4>4. CASE q = p /\ Late(c, p)
        <5>1. NodeOf(c, p).localStamp < c.timeStamp /\ c.timeStamp \in Nat
          BY <1>1, <4>4, ArenaFacts DEF Late, Outdated
        <5>2. NodeOf(d, p).localStamp = c.timeStamp  BY <1>3, <4>4 DEF Refilled
        <5>. QED  BY <4>1, <4>4, <5>1, <5>2
      <4>. QED  BY <4>2, <4>3, <4>4
    <3>2. NodeOf(c, y).worldStamp \in Nat  BY <1>1, StampsAreNat
    <3>. QED  BY <2>1, <2>3, <2>4, <3>1, <3>2, BrokenKept
  <2>5. ASSUME Sound(c, s, y), NodeOf(d, y).worldValid  PROVE Broken(d, s, y) \/ Sound(d, s, y)
    <3>1. \A q \in Chain(s, y) : Passed(c, s, q, NodeOf(c, y).worldStamp)  BY <2>5 DEF Sound
    <3>2. \A q \in Chain(s, y) : q \in Cached(c)  BY <3>1 DEF Passed
    <3>3. y \in Chain(s, y)  BY <2>1, ChainFacts
    <3>4. CASE p \notin Chain(s, y)
      <4>1. \A q \in Chain(s, y) : KeptLocal(c, d, q)  BY <1>7, <3>2, <3>4
      <4>2. KeptWorld(c, d, y)  BY <1>7, <3>3, <3>4
      <4>. QED  BY <1>5, <2>1, <2>5, <4>1, <4>2, SoundKept
    <3>5. CASE p \in Chain(s, y) /\ ~Late(c, p)
      <4>1. NodeOf(c, p).local.held  BY <1>1, <3>1, <3>5 DEF Passed, LocalOK
      <4>2. KeptLocal(c, d, p) /\ KeptWorld(c, d, p)  BY <1>9, <3>5, <4>1
      <4>3. \A q \in Chain(s, y) : KeptLocal(c, d, q)  BY <1>7, <3>2, <4>2
      <4>4. KeptWorld(c, d, y)  BY <1>7, <4>2
      <4>. QED  BY <1>5, <2>1, <2>5, <4>3, <4>4, SoundKept
    <3>6. CASE p \in Chain(s, y) /\ Late(c, p) /\ NodeOf(c, y).worldStamp < c.timeStamp
      <4>1. NodeOf(d, p).localStamp = c.timeStamp  BY <1>3, <3>6 DEF Refilled
      <4>2. NodeOf(d, p).localStamp > NodeOf(d, y).worldStamp  BY <2>3, <3>6, <4>1
      <4>3. Broken(d, s, y)  BY <1>3, <3>2, <3>6, <4>2 DEF Broken
      <4>. QED  BY <4>3
    <3>7. CASE p \in Chain(s, y) /\ Late(c, p) /\ ~(NodeOf(c, y).worldStamp < c.timeStamp)
      <4>1. y # p  BY <2>2, <2>5, <3>7
      <4>2. \A q \in Chain(s, y) : ~Stale(c, s, q)  BY <2>5, <3>7 DEF Sound
      <4>3. NodeOf(d, p).local.matrix = NodeOf(c, p).local.matrix /\ ~Stale(d, s, p)
        <5>1. NodeOf(d, p).local.matrix = <<Local(s, d.time, p)>> /\ d.time = c.time
          BY <1>4, <1>5 DEF Current, SameClock
        <5>2. NodeOf(c, p).local.matrix = <<Local(s, c.time, p)>>  BY <3>7, <4>2 DEF Stale
        <5>. QED  BY <5>1, <5>2 DEF Stale
      <4>4. \A q \in Chain(s, y) : NodeOf(d, q).local.matrix = NodeOf(c, q).local.matrix
        BY <1>6, <3>2, <4>3
      <4>5. \A q \in Chain(s, y) : ~Stale(d, s, q)
        BY <1>5, <4>2, <4>4 DEF Stale, SameClock
      <4>6. NodeOf(d, y) = NodeOf(c, y)  BY <1>6, <4>1
      <4>7. \A q \in Chain(s, y) : Passed(d, s, q, NodeOf(d, y).worldStamp)
        <5>. TAKE q \in Chain(s, y)
        <5>1. CASE q # p
          <6>1. NodeOf(d, q) = NodeOf(c, q) /\ q \in Cached(d)  BY <1>3, <1>6, <3>2, <5>1
          <6>. QED  BY <3>1, <4>6, <6>1 DEF Passed
        <5>2. CASE q = p
          <6>1. NodeOf(d, p).localStamp = c.timeStamp /\ NodeOf(d, p).parent = NodeOf(c, p).parent
            BY <1>3, <3>7 DEF Refilled
          <6>2. c.timeStamp <= NodeOf(c, y).worldStamp
            <7>1. c.timeStamp \in Nat /\ NodeOf(c, y).worldStamp \in Nat
              BY <1>1, ArenaFacts, StampsAreNat
            <7>. QED  BY <3>7, <7>1
          <6>3. p \in Cached(d) /\ NodeOf(d, p).dependency # "Unknown"
            BY <1>3, <1>4 DEF Current
          <6>4. s[p].resets \/ NodeOf(c, p).parent # Unresolved  BY <3>1, <3>7 DEF Passed
          <6>. QED  BY <4>6, <5>2, <6>1, <6>2, <6>3, <6>4 DEF Passed
        <5>. QED  BY <5>1, <5>2
      <4>8. Product(d, s, y) = Product(c, s, y)  BY <4>4, SameProduct
      <4>9. NodeOf(d, y).worldVaries = Varies(s, y) /\ NodeOf(d, y).world = Product(d, s, y)
        BY <2>5, <4>6, <4>8 DEF Sound
      <4>10. Sound(d, s, y)  BY <4>5, <4>7, <4>9 DEF Sound
      <4>. QED  BY <4>10
    <3>. QED  BY <3>4, <3>5, <3>6, <3>7
  <2>6. ASSUME IsValid(d, NodeOf(d, y))  PROVE Valid(d, s, y)
    <3>1. y # p
      <4>1. SUFFICES ASSUME y = p  PROVE FALSE  OBVIOUS
      <4>2. NodeOf(d, p).worldValid /\ NodeOf(d, p).validated = d.epoch
        BY <2>6, <4>1 DEF IsValid
      <4>3. NodeOf(c, p).worldValid /\ NodeOf(c, p).validated = c.epoch
        BY <1>3, <1>5, <2>2, <4>1, <4>2 DEF Refilled, SameClock
      <4>. QED  BY <4>3 DEF IsValid
    <3>2. IsValid(c, NodeOf(c, y))  BY <1>5, <1>6, <2>6, <3>1 DEF IsValid, SameClock
    <3>3. Valid(c, s, y)  BY <2>1, <3>2 DEF WorldOK
    <3>4. p \notin Chain(s, y)  BY <3>3 DEF Valid
    <3>5. \A q \in Chain(s, y) : q \in Cached(c)  BY <3>3 DEF Valid, Sound, Passed
    <3>6. \A q \in Chain(s, y) : q # p /\ KeptLocal(c, d, q) /\ NodeOf(d, q) = NodeOf(c, q)
      BY <1>6, <1>7, <3>4, <3>5
    <3>7. \A q \in Chain(s, y) : IsValid(c, NodeOf(c, q)) => IsValid(d, NodeOf(d, q))
      BY <1>5, <3>6 DEF IsValid, SameClock
    <3>8. KeptWorld(c, d, y)  BY <1>7, <3>1
    <3>. QED  BY <1>5, <2>1, <3>3, <3>6, <3>7, <3>8, ValidKept
  <2>. QED  BY <2>1, <2>2, <2>4, <2>5, <2>6 DEF WorldOK
<1>11. ASSUME NEW y \in Cached(c), s[y].active  PROVE Linked(d, y) /\ LocalOK(d, s, y)
  <2>1. CASE y = p  BY <1>4, <1>8, <2>1
  <2>2. CASE y # p
    <3>1. Linked(c, y) /\ LocalOK(c, s, y)  BY <1>11 DEF CacheOK
    <3>. QED  BY <1>5, <1>7, <2>2, <3>1, LocalKept
  <2>. QED  BY <2>1, <2>2
<1>12. \A y \in Cached(c) : s[y] # Gone  BY DEF CacheOK
<1>13. CacheOK(d, s)  BY <1>3, <1>10, <1>11, <1>12 DEF CacheOK
<1>. QED  BY <1>d, <1>13

-----------------------------------------------------------------------------
(* The walk down composes a world.                                          *)
LEMMA ProductIsWorld ==
    ASSUME NEW c, NEW s, NEW p \in Prims, s[p] # Gone,
           \A q \in Chain(s, p) : ~Stale(c, s, q)
    PROVE  Product(c, s, p) = WorldTransform(s, c.time, p)
<1>1. \A i \in 1..Height(s, p) : Up(p, i) \in Chain(s, p)  BY DEF Chain
<1>2. \A i \in 1..Height(s, p) :
          NodeOf(c, Up(p, i)).local.matrix[1] = Local(s, c.time, Up(p, i))
  <2>. TAKE i \in 1..Height(s, p)
  <2>1. NodeOf(c, Up(p, i)).local.matrix = <<Local(s, c.time, Up(p, i))>>
    BY <1>1 DEF Stale
  <2>. QED  BY <2>1
<1>3. WorldTransform(s, c.time, p) = [i \in 1..Height(s, p) |-> Local(s, c.time, Up(p, i))]
  BY WorldIs
<1>. QED  BY <1>2, <1>3, Zenon DEF Product

LEMMA MaxOfTwo ==
    ASSUME NEW a \in Nat, NEW b \in Nat
    PROVE  Max({a, b}) \in {a, b} /\ a <= Max({a, b}) /\ b <= Max({a, b})
<1>1. \E x \in {a, b} : \A y \in {a, b} : x >= y  OBVIOUS
<1>2. Max({a, b}) \in {a, b} /\ \A y \in {a, b} : Max({a, b}) >= y  BY <1>1 DEF Max
<1>. QED  BY <1>2

WithWorld(c, n, world, stamp, varies) ==
    [n EXCEPT !.worldValid = TRUE, !.worldStamp = stamp, !.world = world,
              !.worldVaries = varies, !.validated = c.epoch]

LEMMA WorldPut ==
    ASSUME NEW c, Arena(c), NEW p \in Cached(c), NEW world, NEW stamp \in 0..c.epoch,
           NEW varies
    PROVE  LET d == Put(c, p, WithWorld(c, NodeOf(c, p), world, stamp, varies))
               m == NodeOf(d, p)
           IN  /\ Arena(d) /\ Extends(c, d) /\ SameClock(c, d) /\ Cached(d) = Cached(c)
               /\ \A q \in Cached(c) : q # p => NodeOf(d, q) = NodeOf(c, q)
               /\ KeptLocal(c, d, p) /\ m.recipe = NodeOf(c, p).recipe
               /\ m.parent = NodeOf(c, p).parent
               /\ IsValid(d, m) /\ m.worldStamp = stamp /\ m.world = world
               /\ m.worldVaries = varies
<1>n. PICK n : n = NodeOf(c, p)  OBVIOUS
<1>m. PICK m : m = WithWorld(c, n, world, stamp, varies)  OBVIOUS
<1>d. PICK d : d = Put(c, p, m)  OBVIOUS
<1>1. IsNode(n) /\ n.path = p /\ Stamped(n, c.epoch) /\ c.epoch \in Nat
  BY <1>n, ArenaFacts
<1>2. /\ IsNode(m) /\ m.path = p /\ m.local = n.local /\ m.dependency = n.dependency
      /\ m.localStamp = n.localStamp /\ m.parent = n.parent /\ m.recipe = n.recipe
      /\ m.worldStamp = stamp /\ m.world = world /\ m.worldVaries = varies
      /\ m.validated = c.epoch /\ m.worldValid = TRUE
  BY <1>1, <1>m DEF WithWorld, IsNode
<1>3. Stamped(m, c.epoch)  BY <1>1, <1>2 DEF Stamped
<1>4. Arena(d) /\ OneNode(c, d, p) /\ NodeOf(d, p) = m  BY <1>d, <1>2, <1>3, NodePut
<1>5. Extends(c, d) /\ SameClock(c, d) /\ Cached(d) = Cached(c)
  BY <1>4 DEF OneNode, Extends, SameClock, Cached
<1>6. \A q \in Cached(c) : q # p => NodeOf(d, q) = NodeOf(c, q)  BY <1>4 DEF OneNode
<1>7. KeptLocal(c, d, p)  BY <1>n, <1>2, <1>4, <1>5 DEF KeptLocal
<1>8. IsValid(d, m)  BY <1>2, <1>5 DEF IsValid, SameClock
<1>. QED  BY <1>n, <1>m, <1>d, <1>2, <1>4, <1>5, <1>6, <1>7, <1>8

LEMMA WorldPutOK ==
    ASSUME NEW c, NEW s, CacheOK(c, s), NEW p \in Cached(c), s[p].active, NEW world,
           NEW stamp \in 0..c.epoch, NEW varies,
           Valid(Put(c, p, WithWorld(c, NodeOf(c, p), world, stamp, varies)), s, p)
    PROVE  LET d == Put(c, p, WithWorld(c, NodeOf(c, p), world, stamp, varies))
           IN  CacheOK(d, s)
<1>d. PICK d : d = Put(c, p, WithWorld(c, NodeOf(c, p), world, stamp, varies))  OBVIOUS
<1>0. Arena(c)  BY DEF CacheOK
<1>1. /\ Arena(d) /\ Extends(c, d) /\ SameClock(c, d) /\ Cached(d) = Cached(c)
      /\ \A q \in Cached(c) : q # p => NodeOf(d, q) = NodeOf(c, q)
      /\ KeptLocal(c, d, p) /\ NodeOf(d, p).recipe = NodeOf(c, p).recipe
      /\ NodeOf(d, p).parent = NodeOf(c, p).parent
      /\ IsValid(d, NodeOf(d, p))
  BY <1>0, <1>d, WorldPut
<1>2. Valid(d, s, p)  BY <1>d
<1>3. \A q \in Cached(c) : q # p =>
            /\ Linked(c, q) => Linked(d, q)
            /\ NodeOf(d, q).recipe = NodeOf(c, q).recipe
            /\ KeptLocal(c, d, q) /\ KeptWorld(c, d, q)
  BY <1>1, NodeKept
<1>4. \A q \in Cached(c) : KeptLocal(c, d, q)  BY <1>1, <1>3
<1>5. \A q \in Cached(c) : IsValid(c, NodeOf(c, q)) => IsValid(d, NodeOf(d, q))
  BY <1>1 DEF IsValid, SameClock
<1>6. ASSUME NEW y \in Cached(c), s[y].active  PROVE Linked(d, y) /\ LocalOK(d, s, y)
  <2>1. Linked(c, y) /\ LocalOK(c, s, y)  BY <1>6 DEF CacheOK
  <2>2. NodeOf(d, y).parent = NodeOf(c, y).parent /\ NodeOf(d, y).recipe = NodeOf(c, y).recipe
    BY <1>1
  <2>. QED  BY <1>1, <1>4, <2>1, <2>2, LinkKept, LocalKept
<1>7. ASSUME NEW y \in Cached(c), s[y].active  PROVE WorldOK(d, s, y)
  <2>1. CASE y = p  BY <1>2, <2>1 DEF WorldOK, Valid
  <2>2. CASE y # p
    <3>1. y \in Prims /\ WorldOK(c, s, y)  BY <1>0, <1>7, ArenaFacts DEF CacheOK
    <3>2. KeptWorld(c, d, y) /\ NodeOf(d, y) = NodeOf(c, y)  BY <1>1, <1>3, <2>2
    <3>3. ASSUME Broken(c, s, y)  PROVE Broken(d, s, y)
      <4>1. \A q \in Cached(c) :
               /\ q \in Cached(d) /\ NodeOf(c, q).localStamp \in Nat
               /\ NodeOf(d, q).localStamp \in Nat
               /\ NodeOf(d, q).localStamp >= NodeOf(c, q).localStamp
        BY <1>0, <1>1, <1>4, StampsAreNat DEF KeptLocal
      <4>2. NodeOf(c, y).worldStamp \in Nat  BY <1>0, StampsAreNat
      <4>. QED  BY <3>1, <3>2, <3>3, <4>1, <4>2, BrokenKept
    <3>4. ASSUME Sound(c, s, y)  PROVE Sound(d, s, y)
      <4>1. \A q \in Chain(s, y) : q \in Cached(c)  BY <3>4 DEF Sound, Passed
      <4>. QED  BY <1>1, <1>4, <3>1, <3>2, <3>4, <4>1, SoundKept
    <3>5. ASSUME IsValid(d, NodeOf(d, y))  PROVE Valid(d, s, y)
      <4>1. IsValid(c, NodeOf(c, y))  BY <1>1, <3>2, <3>5 DEF IsValid, SameClock
      <4>2. Valid(c, s, y)  BY <3>1, <4>1 DEF WorldOK
      <4>3. \A q \in Chain(s, y) : q \in Cached(c)  BY <4>2 DEF Valid, Sound, Passed
      <4>. QED  BY <1>1, <1>4, <1>5, <3>1, <3>2, <4>2, <4>3, ValidKept
    <3>. QED  BY <3>1, <3>2, <3>3, <3>4, <3>5 DEF WorldOK
  <2>. QED  BY <2>1, <2>2
<1>8. \A y \in Cached(c) : s[y] # Gone  BY DEF CacheOK
<1>9. CacheOK(d, s)  BY <1>1, <1>6, <1>7, <1>8 DEF CacheOK
<1>. QED  BY <1>d, <1>9

(* What a walk up ended at: nothing, or a world that is valid.              *)
Above(c, s, p, above, stamp, varies) ==
    IF EndsAt(s, p) THEN above = Identity /\ stamp = 0 /\ varies = FALSE
    ELSE LET n == NodeOf(c, Front(p))
         IN  /\ Front(p) \in Cached(c) /\ Valid(c, s, Front(p))
             /\ above = n.world /\ stamp = n.worldStamp /\ varies = n.worldVaries

Ready(c, s, p) ==
    /\ p \in Cached(c) /\ Current(c, s, p)
    /\ s[p].resets \/ NodeOf(c, p).parent # Unresolved

ComposedStamp(c, p, stamp) == WorldStamp(NodeOf(c, p), stamp)
ComposedWorld(c, p, above, stamp) ==
    LET n == NodeOf(c, p)
    IN  IF n.worldValid /\ n.worldStamp = ComposedStamp(c, p, stamp) THEN n.world
        ELSE n.local.matrix \o (IF n.local.resets THEN Identity ELSE above)
ComposedVaries(c, p, varies) ==
    LET n == NodeOf(c, p)
    IN  n.dependency = "Varying" \/ (~n.local.resets /\ varies)

LEMMA ChainReady ==
    ASSUME NEW c, NEW s, IsScene(s), CacheOK(c, s), NEW p \in Cached(c), Ready(c, s, p),
           NEW above, NEW stamp, NEW varies, Above(c, s, p, above, stamp, varies)
    PROVE  LET t == ComposedStamp(c, p, stamp)
           IN  /\ t \in 0..c.epoch
               /\ \A q \in Chain(s, p) : Passed(c, s, q, t) /\ ~Stale(c, s, q)
               /\ \A q \in Chain(s, p) : q # p => IsValid(c, NodeOf(c, q))
<1>t. PICK t : t = ComposedStamp(c, p, stamp)  OBVIOUS
<1>n. PICK n : n = NodeOf(c, p)  OBVIOUS
<1>1. Arena(c) /\ p \in Prims /\ c.epoch \in Nat  BY ArenaFacts DEF CacheOK
<1>2. n.localStamp \in Nat /\ n.localStamp <= c.epoch  BY <1>1, <1>n, StampsAreNat
<1>3. /\ n.local.resets = s[p].resets /\ n.dependency # "Unknown"
      /\ n.local.matrix = <<Local(s, c.time, p)>>
      /\ s[p].resets \/ n.parent # Unresolved
  BY <1>n DEF Ready, Current
<1>4. ~Stale(c, s, p)  BY <1>n, <1>3 DEF Stale
<1>5. CASE EndsAt(s, p)
  <2>1. stamp = 0  BY <1>5 DEF Above
  <2>2. t = n.localStamp
    <3>1. Max({n.localStamp, 0}) = n.localStamp
      <4>1. Max({n.localStamp, 0}) \in {n.localStamp, 0} /\ n.localStamp <= Max({n.localStamp, 0})
        BY <1>2, MaxOfTwo
      <4>. QED  BY <1>2, <4>1
    <3>. QED  BY <1>t, <1>n, <2>1, <3>1 DEF ComposedStamp, WorldStamp
  <2>3. Chain(s, p) = {p}  BY <1>1, <1>5, ChainIs
  <2>4. Passed(c, s, p, t)  BY <1>n, <1>2, <1>3, <2>2 DEF Passed
  <2>5. t \in 0..c.epoch  BY <1>1, <1>2, <2>2
  <2>. QED  BY <1>t, <1>4, <2>3, <2>4, <2>5
<1>6. CASE ~EndsAt(s, p)
  <2>f. PICK f : f = Front(p)  OBVIOUS
  <2>1. f \in Cached(c) /\ Valid(c, s, f) /\ stamp = NodeOf(c, f).worldStamp
    BY <1>6, <2>f DEF Above
  <2>2. stamp \in Nat /\ stamp <= c.epoch  BY <1>1, <2>1, StampsAreNat
  <2>3. ~s[p].resets  BY <1>1, <1>6, NotAtTheEnd
  <2>4. t = Max({n.localStamp, stamp})
    BY <1>t, <1>n, <1>3, <2>3 DEF ComposedStamp, WorldStamp
  <2>5. t \in {n.localStamp, stamp} /\ n.localStamp <= t /\ stamp <= t
    BY <1>2, <2>2, <2>4, MaxOfTwo
  <2>6. t \in 0..c.epoch  BY <1>1, <1>2, <2>2, <2>5
  <2>7. Chain(s, p) = {p} \cup Chain(s, f)  BY <1>1, <1>6, <2>f, ChainIs
  <2>8. \A q \in Chain(s, f) : ~Stale(c, s, q) /\ IsValid(c, NodeOf(c, q))
    BY <2>1 DEF Valid
  <2>9. \A q \in Chain(s, f) : Passed(c, s, q, t)
    <3>. TAKE q \in Chain(s, f)
    <3>1. Passed(c, s, q, stamp)  BY <2>1 DEF Valid, Sound
    <3>2. NodeOf(c, q).localStamp \in Nat  BY <1>1, <3>1, StampsAreNat DEF Passed
    <3>3. NodeOf(c, q).localStamp <= t
      <4>1. NodeOf(c, q).localStamp <= stamp /\ t \in Nat  BY <2>6, <3>1 DEF Passed
      <4>. QED  BY <2>2, <2>5, <3>2, <4>1
    <3>. QED  BY <3>1, <3>3 DEF Passed
  <2>10. Passed(c, s, p, t)  BY <1>n, <1>2, <1>3, <2>5 DEF Passed
  <2>. QED  BY <1>t, <1>4, <2>6, <2>7, <2>8, <2>9, <2>10
<1>. QED  BY <1>5, <1>6

LEMMA WorldComposed ==
    ASSUME NEW c, NEW s, IsScene(s), CacheOK(c, s), NEW p \in Cached(c), s[p].active,
           Ready(c, s, p), NEW above, NEW stamp, NEW varies, Above(c, s, p, above, stamp, varies)
    PROVE  /\ ComposedWorld(c, p, above, stamp) = WorldTransform(s, c.time, p)
           /\ Product(c, s, p) = WorldTransform(s, c.time, p)
           /\ ComposedVaries(c, p, varies) = Varies(s, p)
<1>t. PICK t : t = ComposedStamp(c, p, stamp)  OBVIOUS
<1>n. PICK n : n = NodeOf(c, p)  OBVIOUS
<1>1. Arena(c) /\ p \in Prims /\ WorldOK(c, s, p) /\ s[p] # Gone
  BY ArenaFacts DEF CacheOK
<1>2. \A q \in Chain(s, p) : Passed(c, s, q, t) /\ ~Stale(c, s, q)  BY <1>t, ChainReady
<1>3. Product(c, s, p) = WorldTransform(s, c.time, p)  BY <1>1, <1>2, ProductIsWorld
<1>4. /\ n.local.resets = s[p].resets /\ (n.dependency = "Varying") = s[p].varying
      /\ n.local.matrix = <<Local(s, c.time, p)>>
  BY <1>n DEF Ready, Current
<1>f. PICK f : f = Front(p)  OBVIOUS
<1>5. ~EndsAt(s, p) =>
          /\ f \in Cached(c) /\ Valid(c, s, f) /\ above = NodeOf(c, f).world
          /\ varies = NodeOf(c, f).worldVaries /\ f \in Prims /\ s[f] # Gone
  <2>1. SUFFICES ASSUME ~EndsAt(s, p)
                 PROVE  /\ f \in Cached(c) /\ Valid(c, s, f) /\ above = NodeOf(c, f).world
                        /\ varies = NodeOf(c, f).worldVaries /\ f \in Prims /\ s[f] # Gone
    OBVIOUS
  <2>2. /\ f \in Cached(c) /\ Valid(c, s, f) /\ above = NodeOf(c, f).world
        /\ varies = NodeOf(c, f).worldVaries
    BY <1>f, <2>1 DEF Above
  <2>3. f \in Prims /\ s[f] # Gone  BY <1>1, <2>2, ArenaFacts DEF CacheOK
  <2>. QED  BY <2>2, <2>3
<1>6. ComposedWorld(c, p, above, stamp) = WorldTransform(s, c.time, p)
  <2>1. CASE n.worldValid /\ n.worldStamp = t
    <3>1. ~Broken(c, s, p)
      <4>1. SUFFICES ASSUME Broken(c, s, p)  PROVE FALSE  OBVIOUS
      <4>2. PICK q \in Chain(s, p) :
                q \in Cached(c) /\ NodeOf(c, q).localStamp > NodeOf(c, p).worldStamp
        BY <4>1 DEF Broken
      <4>3. NodeOf(c, q).localStamp <= t  BY <1>2 DEF Passed
      <4>4. NodeOf(c, q).localStamp \in Nat /\ NodeOf(c, p).worldStamp \in Nat
        BY <1>1, <4>2, StampsAreNat
      <4>. QED  BY <1>n, <2>1, <4>2, <4>3, <4>4
    <3>2. n.world = Product(c, s, p)  BY <1>1, <1>n, <2>1, <3>1 DEF WorldOK, Sound
    <3>. QED  BY <1>n, <1>t, <1>3, <2>1, <3>2 DEF ComposedWorld
  <2>2. CASE ~(n.worldValid /\ n.worldStamp = t)
    <3>1. ComposedWorld(c, p, above, stamp) =
              <<Local(s, c.time, p)>> \o (IF s[p].resets THEN Identity ELSE above)
      BY <1>n, <1>t, <1>4, <2>2 DEF ComposedWorld
    <3>2. (IF s[p].resets THEN Identity ELSE above) =
              (IF EndsAt(s, p) THEN Identity ELSE WorldTransform(s, c.time, f))
      <4>1. CASE EndsAt(s, p)
        <5>1. above = Identity  BY <4>1 DEF Above
        <5>. QED  BY <4>1, <5>1
      <4>2. CASE ~EndsAt(s, p)
        <5>1. above = Product(c, s, f)  BY <1>5, <4>2 DEF Valid, Sound
        <5>2. \A q \in Chain(s, f) : ~Stale(c, s, q)  BY <1>5, <4>2 DEF Valid
        <5>3. Product(c, s, f) = WorldTransform(s, c.time, f)
          BY <1>5, <4>2, <5>2, ProductIsWorld
        <5>4. ~s[p].resets  BY <1>1, <4>2, NotAtTheEnd
        <5>. QED  BY <4>2, <5>1, <5>3, <5>4
      <4>. QED  BY <4>1, <4>2
    <3>3. EndsAt(s, p) \/ s[f] # Gone  BY <1>5
    <3>4. WorldTransform(s, c.time, p) =
              <<Local(s, c.time, p)>> \o (IF EndsAt(s, p) THEN Identity
                                          ELSE WorldTransform(s, c.time, f))
      BY <1>1, <1>f, <3>3, WorldStep
    <3>. QED  BY <3>1, <3>2, <3>4
  <2>. QED  BY <2>1, <2>2
<1>7. ComposedVaries(c, p, varies) = Varies(s, p)
  <2>1. CASE EndsAt(s, p)
    <3>1. Chain(s, p) = {p} /\ varies = FALSE  BY <1>1, <2>1, ChainIs DEF Above
    <3>2. Varies(s, p) = (n.dependency = "Varying")  BY <1>4, <3>1 DEF Varies
    <3>. QED  BY <1>n, <3>1, <3>2 DEF ComposedVaries
  <2>2. CASE ~EndsAt(s, p)
    <3>1. Chain(s, p) = {p} \cup Chain(s, f) /\ ~s[p].resets
      BY <1>1, <1>f, <2>2, ChainIs, NotAtTheEnd
    <3>2. varies = Varies(s, f)  BY <1>5, <2>2 DEF Valid, Sound
    <3>3. Varies(s, p) <=> s[p].varying \/ Varies(s, f)  BY <3>1 DEF Varies
    <3>4. ComposedVaries(c, p, varies) <=> n.dependency = "Varying" \/ varies
      BY <1>n, <1>4, <3>1 DEF ComposedVaries
    <3>5. ComposedVaries(c, p, varies) \in BOOLEAN /\ Varies(s, p) \in BOOLEAN
      BY DEF ComposedVaries, Varies
    <3>. QED  BY <1>4, <3>2, <3>3, <3>4, <3>5
  <2>. QED  BY <2>1, <2>2
<1>. QED  BY <1>3, <1>6, <1>7

LEMMA NodeComposed ==
    ASSUME NEW c, NEW s, IsScene(s), CacheOK(c, s), NEW p \in Cached(c), s[p].active,
           Ready(c, s, p), NEW above, NEW stamp, NEW varies, Above(c, s, p, above, stamp, varies)
    PROVE  LET t == ComposedStamp(c, p, stamp)
               d == Put(c, p, WithWorld(c, NodeOf(c, p), ComposedWorld(c, p, above, stamp),
                                        t, ComposedVaries(c, p, varies)))
               m == NodeOf(d, p)
           IN  /\ CacheOK(d, s) /\ Extends(c, d) /\ SameClock(c, d) /\ Cached(d) = Cached(c)
               /\ \A q \in Cached(c) : q # p => NodeOf(d, q) = NodeOf(c, q)
               /\ Valid(d, s, p) /\ m.worldStamp = t
               /\ m.world = ComposedWorld(c, p, above, stamp)
               /\ m.worldVaries = ComposedVaries(c, p, varies)
<1>t. PICK t : t = ComposedStamp(c, p, stamp)  OBVIOUS
<1>w. PICK w : w = ComposedWorld(c, p, above, stamp)  OBVIOUS
<1>v. PICK v : v = ComposedVaries(c, p, varies)  OBVIOUS
<1>d. PICK d : d = Put(c, p, WithWorld(c, NodeOf(c, p), w, t, v))  OBVIOUS
<1>1. Arena(c) /\ p \in Prims  BY ArenaFacts DEF CacheOK
<1>2. /\ t \in 0..c.epoch
      /\ \A q \in Chain(s, p) : Passed(c, s, q, t) /\ ~Stale(c, s, q)
      /\ \A q \in Chain(s, p) : q # p => IsValid(c, NodeOf(c, q))
  BY <1>t, ChainReady
<1>3. w = Product(c, s, p) /\ v = Varies(s, p)  BY <1>w, <1>v, WorldComposed
<1>4. /\ Arena(d) /\ Extends(c, d) /\ SameClock(c, d) /\ Cached(d) = Cached(c)
      /\ \A q \in Cached(c) : q # p => NodeOf(d, q) = NodeOf(c, q)
      /\ KeptLocal(c, d, p) /\ IsValid(d, NodeOf(d, p))
      /\ NodeOf(d, p).worldStamp = t /\ NodeOf(d, p).world = w
      /\ NodeOf(d, p).worldVaries = v
  BY <1>1, <1>2, <1>d, WorldPut
<1>5. \A q \in Chain(s, p) : q \in Cached(c)  BY <1>2 DEF Passed
<1>6. \A q \in Chain(s, p) : KeptLocal(c, d, q)  BY <1>4, <1>5 DEF KeptLocal
<1>7. \A q \in Chain(s, p) : Passed(d, s, q, t)  BY <1>2, <1>6 DEF Passed, KeptLocal
<1>8. \A q \in Chain(s, p) : ~Stale(d, s, q)
  BY <1>2, <1>4, <1>6 DEF Stale, KeptLocal, SameClock
<1>9. Product(d, s, p) = Product(c, s, p)
  <2>1. \A q \in Chain(s, p) : NodeOf(d, q).local.matrix = NodeOf(c, q).local.matrix
    BY <1>6 DEF KeptLocal
  <2>. QED  BY <2>1, SameProduct
<1>10. Sound(d, s, p)  BY <1>3, <1>4, <1>7, <1>8, <1>9 DEF Sound
<1>11. \A q \in Chain(s, p) : IsValid(d, NodeOf(d, q))
  BY <1>2, <1>4, <1>5 DEF IsValid, SameClock
<1>12. Valid(d, s, p)  BY <1>8, <1>10, <1>11 DEF Valid
<1>13. CacheOK(d, s)  BY <1>2, <1>d, <1>12, WorldPutOK
<1>. QED  BY <1>t, <1>w, <1>v, <1>d, <1>4, <1>12, <1>13

-----------------------------------------------------------------------------
(* Walks.                                                                   *)
IsWalk(w) ==
    w = [cache |-> w.cache, at |-> w.at, chain |-> w.chain,
         above |-> w.above, stamp |-> w.stamp, varies |-> w.varies]

LEMMA DescendIs ==
    ASSUME NEW w, IsWalk(w), Arena(w.cache), NEW p \in Cached(w.cache)
    PROVE  LET c == w.cache
               v == Descend(w, c.entries[p])
               t == ComposedStamp(c, p, w.stamp)
           IN  /\ IsWalk(v) /\ v.chain = w.chain
               /\ v.cache = Put(c, p, WithWorld(c, NodeOf(c, p),
                                ComposedWorld(c, p, w.above, w.stamp), t,
                                ComposedVaries(c, p, w.varies)))
               /\ v.above = ComposedWorld(c, p, w.above, w.stamp)
               /\ v.stamp = t /\ v.varies = ComposedVaries(c, p, w.varies)
<1>c. PICK c : c = w.cache  OBVIOUS
<1>n. PICK n : n = NodeOf(c, p)  OBVIOUS
<1>v. PICK v : v = Descend(w, c.entries[p])  OBVIOUS
<1>1. n = c.nodes[c.entries[p]]  BY <1>n DEF NodeOf
<1>2. IsCache(c)  BY <1>c, ArenaFacts
<1>x. PICK x : x = WithWorld(c, n, ComposedWorld(c, p, w.above, w.stamp),
                          ComposedStamp(c, p, w.stamp), ComposedVaries(c, p, w.varies))
  OBVIOUS
<1>m. PICK m : m = [n EXCEPT !.worldValid = TRUE,
                             !.worldStamp = ComposedStamp(c, p, w.stamp),
                             !.world = ComposedWorld(c, p, w.above, w.stamp),
                             !.worldVaries = ComposedVaries(c, p, w.varies),
                             !.validated = c.epoch]
  OBVIOUS
<1>5. x = m  BY <1>m, <1>x DEF WithWorld
<1>s. PICK stamp : stamp = WorldStamp(n, w.stamp)  OBVIOUS
<1>o. PICK world : world = IF n.worldValid /\ n.worldStamp = stamp THEN n.world
                 ELSE n.local.matrix \o (IF n.local.resets THEN Identity ELSE w.above)
  OBVIOUS
<1>y. PICK varies : varies = (n.dependency = "Varying" \/ (~n.local.resets /\ w.varies))
  OBVIOUS
<1>7. /\ stamp = ComposedStamp(c, p, w.stamp)
      /\ world = ComposedWorld(c, p, w.above, w.stamp)
      /\ varies = ComposedVaries(c, p, w.varies)
  BY <1>n, <1>s, <1>o, <1>y DEF ComposedStamp, ComposedWorld, ComposedVaries
<1>8. v = [w EXCEPT !.cache.nodes[c.entries[p]] =
                      [@ EXCEPT !.worldValid = TRUE, !.worldStamp = stamp, !.world = world,
                                !.worldVaries = varies, !.validated = c.epoch],
                    !.above = world, !.stamp = stamp, !.varies = varies]
  BY <1>c, <1>v, <1>1, <1>s, <1>o, <1>y, ZenonT(40) DEF Descend
<1>6. v = [w EXCEPT !.cache.nodes[c.entries[p]] = m,
                    !.above = ComposedWorld(c, p, w.above, w.stamp),
                    !.stamp = ComposedStamp(c, p, w.stamp),
                    !.varies = ComposedVaries(c, p, w.varies)]
  BY <1>c, <1>m, <1>1, <1>7, <1>8
<1>3. v = [w EXCEPT !.cache = [c EXCEPT !.nodes[c.entries[p]] = x],
                    !.above = ComposedWorld(c, p, w.above, w.stamp),
                    !.stamp = ComposedStamp(c, p, w.stamp),
                    !.varies = ComposedVaries(c, p, w.varies)]
  BY <1>c, <1>2, <1>5, <1>6 DEF IsWalk, IsCache
<1>4. /\ IsWalk(v) /\ v.chain = w.chain /\ v.cache = Put(c, p, x)
      /\ v.above = ComposedWorld(c, p, w.above, w.stamp)
      /\ v.stamp = ComposedStamp(c, p, w.stamp) /\ v.varies = ComposedVaries(c, p, w.varies)
  BY <1>3 DEF IsWalk, Put
<1>. QED  BY <1>c, <1>n, <1>v, <1>x, <1>4

(* A walk that passed the first k prims up from one, and no more.           *)
Walked(w, s, p, k) ==
    /\ IsWalk(w) /\ CacheOK(w.cache, s) /\ k \in 0..Len(p)
    /\ w.chain \in Seq(Nat) /\ Len(w.chain) = k
    /\ \A j \in 1..k : Up(p, j) \in Cached(w.cache) /\ w.chain[j] = w.cache.entries[Up(p, j)]
    /\ \A j \in 1..(k - 1) : ~EndsAt(s, Up(p, j))

(* Down to the prim in place j; what is above it is composed.               *)
Down(w, s, p, j) ==
    /\ \A i \in 1..j : Ready(w.cache, s, Up(p, i))
    /\ IF j = 0
       THEN p \in Cached(w.cache) /\ Valid(w.cache, s, p) /\ w.above = NodeOf(w.cache, p).world
       ELSE Above(w.cache, s, Up(p, j), w.above, w.stamp, w.varies)

LEMMA DescendStep ==
    ASSUME NEW s, IsScene(s), NEW p \in Prims, s[p].active, NEW k, NEW j \in 1..k,
           NEW w, Walked(w, s, p, k), Down(w, s, p, j)
    PROVE  LET v == Descend(w, w.chain[j])
           IN  Walked(v, s, p, k) /\ Down(v, s, p, j - 1) /\ Extends(w.cache, v.cache)
               /\ v.chain = w.chain
<1>c. PICK c : c = w.cache  OBVIOUS
<1>v. PICK v : v = Descend(w, w.chain[j])  OBVIOUS
<1>d. PICK d : d = v.cache  OBVIOUS
<1>x. PICK x : x = Up(p, j)  OBVIOUS
<1>1. /\ IsWalk(w) /\ CacheOK(c, s) /\ k \in 0..Len(p) /\ Len(p) \in Nat
      /\ w.chain \in Seq(Nat) /\ Len(w.chain) = k
      /\ \A i \in 1..k : Up(p, i) \in Cached(c) /\ w.chain[i] = c.entries[Up(p, i)]
      /\ \A i \in 1..(k - 1) : ~EndsAt(s, Up(p, i))
  BY <1>c, PrimFacts DEF Walked
<1>2. Arena(c) /\ x \in Cached(c) /\ w.chain[j] = c.entries[x]  BY <1>1, <1>x DEF CacheOK
<1>3. j \in Nat /\ j > 0 /\ k \in Nat /\ j <= Len(p)  BY <1>1
<1>4. Ready(c, s, x) /\ Above(c, s, x, w.above, w.stamp, w.varies)
  <2>1. j \in 1..j /\ j # 0  BY <1>3
  <2>. QED  BY <1>c, <1>x, <2>1 DEF Down
<1>5. /\ IsWalk(v) /\ v.chain = w.chain
      /\ d = Put(c, x, WithWorld(c, NodeOf(c, x), ComposedWorld(c, x, w.above, w.stamp),
                    ComposedStamp(c, x, w.stamp), ComposedVaries(c, x, w.varies)))
      /\ v.above = ComposedWorld(c, x, w.above, w.stamp)
      /\ v.stamp = ComposedStamp(c, x, w.stamp) /\ v.varies = ComposedVaries(c, x, w.varies)
  BY <1>c, <1>d, <1>v, <1>1, <1>2, DescendIs
<1>6. /\ CacheOK(d, s) /\ Extends(c, d) /\ SameClock(c, d) /\ Cached(d) = Cached(c)
      /\ \A q \in Cached(c) : q # x => NodeOf(d, q) = NodeOf(c, q)
      /\ Valid(d, s, x) /\ NodeOf(d, x).worldStamp = v.stamp
      /\ NodeOf(d, x).world = v.above /\ NodeOf(d, x).worldVaries = v.varies
  <2>1. j \in 1..Len(p)  BY <1>1, <1>3
  <2>2. s[x].active  BY <1>x, <2>1, UpsAreActive
  <2>. QED  BY <1>1, <1>2, <1>4, <1>5, <2>2, NodeComposed
<1>7. Walked(v, s, p, k)
  <2>1. \A i \in 1..k : Up(p, i) \in Cached(d) /\ v.chain[i] = d.entries[Up(p, i)]
    BY <1>1, <1>5, <1>6 DEF Extends
  <2>. QED  BY <1>d, <1>1, <1>5, <1>6, <2>1 DEF Walked
<1>8. \A i \in 1..(j - 1) : Ready(d, s, Up(p, i))
  <2>. TAKE i \in 1..(j - 1)
  <2>1. i \in 1..j /\ i \in 1..Len(p) /\ j \in 1..Len(p) /\ i # j  BY <1>3
  <2>2. Ready(c, s, Up(p, i))  BY <1>c, <2>1 DEF Down
  <2>3. Up(p, i) # x
    <3>1. Len(Up(p, i)) = Len(p) - i + 1 /\ Len(x) = Len(p) - j + 1  BY <1>x, <2>1, UpIs
    <3>. QED  BY <1>1, <2>1, <3>1
  <2>4. NodeOf(d, Up(p, i)) = NodeOf(c, Up(p, i))  BY <1>6, <2>2, <2>3 DEF Ready
  <2>. QED  BY <1>6, <2>2, <2>4 DEF Ready, Current, SameClock
<1>9. CASE j = 1
  <2>1. x = p  BY <1>x, <1>9, UpOne
  <2>2. j - 1 = 0 /\ 1..(j - 1) = {}  BY <1>9
  <2>3. Down(v, s, p, 0)  BY <1>d, <1>2, <1>6, <2>1, <2>2 DEF Down
  <2>. QED  BY <1>c, <1>d, <1>v, <1>5, <1>6, <1>7, <2>2, <2>3
<1>10. CASE j # 1
  <2>i. PICK i : i = j - 1  OBVIOUS
  <2>1. i \in 1..(k - 1) /\ i \in 1..(Len(p) - 1) /\ i + 1 = j /\ i # 0
    BY <1>1, <1>3, <1>10, <2>i
  <2>2. Front(Up(p, i)) = x /\ ~EndsAt(s, Up(p, i))  BY <1>1, <1>x, <2>1, FrontOfUp
  <2>3. Above(d, s, Up(p, i), v.above, v.stamp, v.varies)
    BY <1>2, <1>6, <2>2 DEF Above
  <2>4. Down(v, s, p, i)  BY <1>d, <1>8, <2>i, <2>1, <2>3 DEF Down
  <2>. QED  BY <1>c, <1>d, <1>v, <1>5, <1>6, <1>7, <2>i, <2>4
<1>. QED  BY <1>9, <1>10

LEMMA ReverseIs ==
    ASSUME NEW X, NEW q \in Seq(X)
    PROVE  /\ Reverse(q) \in Seq(X) /\ Len(Reverse(q)) = Len(q)
           /\ \A i \in 1..Len(q) : Reverse(q)[i] = q[Len(q) - i + 1]
<1>1. Reverse(q) = [i \in 1..Len(q) |-> q[(Len(q) - i) + 1]]  BY DEF Reverse
<1>2. \A i \in 1..Len(q) : (Len(q) - i) + 1 \in 1..Len(q)  OBVIOUS
<1>. QED  BY <1>1, <1>2

LEMMA WalkDownOK ==
    ASSUME NEW s, IsScene(s), NEW p \in Prims, s[p].active, NEW k,
           NEW w, Walked(w, s, p, k), Down(w, s, p, k)
    PROVE  LET v == WalkDown(w)
           IN  CacheOK(v.cache, s) /\ Down(v, s, p, 0) /\ Extends(w.cache, v.cache)
<1>1. w.chain \in Seq(Nat) /\ Len(w.chain) = k /\ k \in Nat
  <2>1. Len(p) \in Nat  BY PrimFacts
  <2>. QED  BY <2>1 DEF Walked
<1>r. PICK r : r = Reverse(w.chain)  OBVIOUS
<1>2. r \in Seq(Nat) /\ Len(r) = k /\ \A i \in 1..k : r[i] = w.chain[k - i + 1]
  BY <1>r, <1>1, ReverseIs
<1>3a. PICK at : Descends(at, w, r)  BY <1>2, DescendsExists
<1>3. /\ at[0] = w
      /\ \A i \in 1..Len(r) : at[i] = Descend(at[i - 1], r[i])
      /\ DescendAll(w, r) = at[Len(r)]
  BY <1>3a DEF Descends
<1>4. WalkDown(w) = at[k]  BY <1>r, <1>2, <1>3, WalkDownIs
<1>. DEFINE G == {i \in 0..k : /\ Walked(at[i], s, p, k) /\ Down(at[i], s, p, k - i)
                               /\ at[i].chain = w.chain /\ Extends(w.cache, at[i].cache)}
<1>5. 0 \in G
  <2>1. Extends(w.cache, w.cache)  BY DEF Extends
  <2>2. k - 0 = k /\ 0 \in 0..k  BY <1>1
  <2>. QED  BY <1>3, <2>1, <2>2
<1>6. ASSUME NEW i \in 1..k, i - 1 \in G  PROVE i \in G
  <2>u. PICK u : u = at[i - 1]  OBVIOUS
  <2>j. PICK j : j = k - i + 1  OBVIOUS
  <2>1. j \in 1..k /\ j - 1 = k - i /\ k - (i - 1) = j /\ i \in 0..k  BY <1>1, <2>j
  <2>2. /\ Walked(u, s, p, k) /\ Down(u, s, p, j) /\ u.chain = w.chain
        /\ Extends(w.cache, u.cache)
    BY <1>6, <2>u, <2>1
  <2>3. at[i] = Descend(u, u.chain[j])  BY <1>2, <1>3, <2>u, <2>j, <2>2
  <2>4. /\ Walked(at[i], s, p, k) /\ Down(at[i], s, p, j - 1)
        /\ Extends(u.cache, at[i].cache) /\ at[i].chain = u.chain
    BY <2>1, <2>2, <2>3, DescendStep
  <2>5. Extends(w.cache, at[i].cache)  BY <2>2, <2>4 DEF Extends
  <2>. QED  BY <2>1, <2>2, <2>4, <2>5
<1>. HIDE DEF G
<1>7. k \in G
  <2>1. \A i \in 0..k : i \in G  BY <1>1, <1>5, <1>6, Upwards
  <2>. QED  BY <1>1, <2>1
<1>8. /\ Walked(at[k], s, p, k) /\ Down(at[k], s, p, k - k) /\ Extends(w.cache, at[k].cache)
  BY <1>7 DEF G
<1>9. k - k = 0  BY <1>1
<1>. QED  BY <1>4, <1>8, <1>9 DEF Walked

-----------------------------------------------------------------------------
(* The walk up.                                                             *)
Climbing(w, s, p, k) ==
    /\ Walked(w, s, p, k) /\ k < Len(p)
    /\ \A j \in 1..k : Ready(w.cache, s, Up(p, j)) /\ ~EndsAt(s, Up(p, j))
    /\ Up(p, k + 1) \in Cached(w.cache) /\ w.at = w.cache.entries[Up(p, k + 1)]
    /\ w.above = Identity /\ w.stamp = 0 /\ w.varies = FALSE

Ended(w, s, p, k) == Walked(w, s, p, k) /\ Down(w, s, p, k) /\ w.at = Root

LEMMA EndedStays ==
    ASSUME NEW s, NEW p, NEW k, NEW w, Ended(w, s, p, k)
    PROVE  Climb(s, w) = w
BY DEF Climb, Ended

LEMMA ExtendsTrans ==
    ASSUME NEW c, NEW d, NEW e, Extends(c, d), Extends(d, e)
    PROVE  Extends(c, e)
BY DEF Extends

(* What is ready stays so when its node does, and the others may grow.      *)
LEMMA ReadyKept ==
    ASSUME NEW c, NEW d, NEW s, NEW q, Ready(c, s, q), Extends(c, d), KeptLocal(c, d, q)
    PROVE  Ready(d, s, q)
BY DEF Ready, Current, Extends, KeptLocal

LEMMA AppendedSlot ==
    ASSUME NEW q \in Seq(Nat), NEW e \in Nat
    PROVE  /\ Append(q, e) \in Seq(Nat) /\ Len(Append(q, e)) = Len(q) + 1
           /\ Append(q, e)[Len(q) + 1] = e
           /\ \A j \in 1..Len(q) : Append(q, e)[j] = q[j]
OBVIOUS

(* One prim passed: its local is ensured, its link perhaps.                 *)
PassedTo(w, d, at) == [w EXCEPT !.cache = d, !.chain = Append(@, w.at), !.at = at]

Came(v, s, p, k, d, at) ==
    /\ Walked(v, s, p, k) /\ v.cache = d /\ v.at = at
    /\ v.above = Identity /\ v.stamp = 0 /\ v.varies = FALSE
    /\ \A j \in 1..k : Ready(d, s, Up(p, j))

LEMMA PassedOne ==
    ASSUME NEW s, IsScene(s), NEW p \in Prims, NEW k, NEW w, Climbing(w, s, p, k),
           NEW d, CacheOK(d, s), Extends(w.cache, d), Ready(d, s, Up(p, k + 1)),
           \A q \in Cached(w.cache) : q # Up(p, k + 1) => KeptLocal(w.cache, d, q),
           NEW at
    PROVE  Came(PassedTo(w, d, at), s, p, k + 1, d, at)
<1>v. PICK v : v = PassedTo(w, d, at)  OBVIOUS
<1>c. PICK c : c = w.cache  OBVIOUS
<1>x. PICK x : x = Up(p, k + 1)  OBVIOUS
<1>1. /\ IsWalk(w) /\ CacheOK(c, s) /\ k \in 0..Len(p) /\ k < Len(p) /\ Len(p) \in Nat
      /\ w.chain \in Seq(Nat) /\ Len(w.chain) = k
      /\ \A j \in 1..k : Up(p, j) \in Cached(c) /\ w.chain[j] = c.entries[Up(p, j)]
      /\ \A j \in 1..k : Ready(c, s, Up(p, j)) /\ ~EndsAt(s, Up(p, j))
      /\ x \in Cached(c) /\ w.at = c.entries[x]
      /\ w.above = Identity /\ w.stamp = 0 /\ w.varies = FALSE
  BY <1>c, <1>x, PrimFacts DEF Climbing, Walked
<1>2. k \in Nat /\ k + 1 \in 1..Len(p) /\ k + 1 \in 0..Len(p)  BY <1>1
<1>3. w.at \in Nat
  <2>1. Arena(c)  BY <1>1 DEF CacheOK
  <2>2. c.entries[x] \in 1..Len(c.nodes) /\ Len(c.nodes) \in Nat  BY <1>1, <2>1, ArenaFacts
  <2>. QED  BY <1>1, <2>2
<1>4. /\ IsWalk(v) /\ v.cache = d /\ v.at = at /\ v.chain = Append(w.chain, w.at)
      /\ v.above = Identity /\ v.stamp = 0 /\ v.varies = FALSE
  BY <1>1, <1>v DEF IsWalk, PassedTo
<1>5. /\ v.chain \in Seq(Nat) /\ Len(v.chain) = k + 1 /\ v.chain[k + 1] = w.at
      /\ \A j \in 1..k : v.chain[j] = w.chain[j]
  BY <1>1, <1>3, <1>4, AppendedSlot
<1>6. \A q \in Cached(c) : q \in Cached(d) /\ d.entries[q] = c.entries[q]
  BY <1>c DEF Extends
<1>7. \A j \in 1..(k + 1) : Up(p, j) \in Cached(d) /\ v.chain[j] = d.entries[Up(p, j)]
  <2>. TAKE j \in 1..(k + 1)
  <2>1. CASE j = k + 1  BY <1>1, <1>x, <1>5, <1>6, <2>1
  <2>2. CASE j # k + 1
    <3>1. j \in 1..k  BY <1>2, <2>2
    <3>. QED  BY <1>1, <1>5, <1>6, <3>1
  <2>. QED  BY <2>1, <2>2
<1>8. \A j \in 1..((k + 1) - 1) : ~EndsAt(s, Up(p, j))
  <2>1. (k + 1) - 1 = k  BY <1>2
  <2>. QED  BY <1>1, <2>1
<1>9. Walked(v, s, p, k + 1)  BY <1>2, <1>4, <1>5, <1>7, <1>8 DEF Walked
<1>10. \A j \in 1..(k + 1) : Ready(d, s, Up(p, j))
  <2>. TAKE j \in 1..(k + 1)
  <2>1. CASE j = k + 1  BY <2>1
  <2>2. CASE j # k + 1
    <3>1. j \in 1..k /\ j \in 1..Len(p)  BY <1>2, <2>2
    <3>2. Up(p, j) # x
      <4>1. Len(Up(p, j)) = Len(p) - j + 1 /\ Len(x) = Len(p) - (k + 1) + 1
        BY <1>x, <1>2, <3>1, UpIs
      <4>. QED  BY <1>1, <1>2, <2>2, <3>1, <4>1
    <3>3. Ready(c, s, Up(p, j)) /\ Up(p, j) \in Cached(c)  BY <1>1, <3>1
    <3>4. KeptLocal(c, d, Up(p, j))  BY <1>c, <1>x, <3>2, <3>3
    <3>. QED  BY <1>c, <3>3, <3>4, ReadyKept
  <2>. QED  BY <2>1, <2>2
<1>. QED  BY <1>v, <1>4, <1>9, <1>10 DEF Came

LEMMA ClimbStep ==
    ASSUME NEW s, IsScene(s), NEW p \in Prims, s[p].active, NEW k, NEW w,
           Climbing(w, s, p, k)
    PROVE  LET v == Climb(s, w)
           IN  /\ Extends(w.cache, v.cache)
               /\ Climbing(v, s, p, k + 1) \/ Ended(v, s, p, k) \/ Ended(v, s, p, k + 1)
<1>c. PICK c : c = w.cache  OBVIOUS
<1>x. PICK x : x = Up(p, k + 1)  OBVIOUS
<1>n. PICK n : n = NodeOf(c, x)  OBVIOUS
<1>v. PICK v : v = Climb(s, w)  OBVIOUS
<1>1. /\ IsWalk(w) /\ CacheOK(c, s) /\ k \in 0..Len(p) /\ k < Len(p) /\ Len(p) \in Nat
      /\ \A j \in 1..k : Ready(c, s, Up(p, j)) /\ ~EndsAt(s, Up(p, j))
      /\ x \in Cached(c) /\ w.at = c.entries[x]
      /\ Walked(w, s, p, k)
  BY <1>c, <1>x, PrimFacts DEF Climbing, Walked
<1>2. /\ k \in Nat /\ k + 1 \in 1..Len(p) /\ k + 1 \in 0..Len(p) /\ x \in Prims
      /\ Len(x) = Len(p) - k
  <2>1. k \in Nat /\ k + 1 \in 1..Len(p) /\ k + 1 \in 0..Len(p)  BY <1>1
  <2>2. Len(x) = Len(p) - (k + 1) + 1 /\ x \in Prims  BY <1>x, <2>1, UpIs, AncestorsArePrims
  <2>. QED  BY <1>1, <2>1, <2>2
<1>a. s[x].active  BY <1>2, <1>x, UpsAreActive
<1>3. /\ Arena(c) /\ n = c.nodes[w.at] /\ WorldOK(c, s, x) /\ LocalOK(c, s, x)
      /\ s[x] # Gone
  BY <1>1, <1>a, <1>n DEF CacheOK, NodeOf
<1>4. w.at # Root
  <2>1. c.entries[x] \in 1..Len(c.nodes) /\ Len(c.nodes) \in Nat  BY <1>1, <1>3, ArenaFacts
  <2>. QED  BY <1>1, <2>1 DEF Root
<1>5. CASE IsValid(c, n)
  <2>1. v = [w EXCEPT !.at = Root, !.above = n.world, !.stamp = n.worldStamp,
                      !.varies = n.worldVaries]
    BY <1>c, <1>v, <1>3, <1>4, <1>5 DEF Climb
  <2>2. /\ IsWalk(v) /\ v.cache = c /\ v.chain = w.chain /\ v.at = Root
        /\ v.above = n.world /\ v.stamp = n.worldStamp /\ v.varies = n.worldVaries
    BY <1>c, <1>1, <2>1 DEF IsWalk
  <2>3. Walked(v, s, p, k)  BY <1>c, <1>1, <2>2 DEF Walked
  <2>4. Valid(c, s, x)  BY <1>n, <1>3, <1>5 DEF WorldOK
  <2>5. Down(v, s, p, k)
    <3>1. CASE k = 0
      <4>1. x = p  BY <1>x, <3>1, UpOne
      <4>2. 1..k = {}  BY <3>1
      <4>. QED  BY <1>1, <1>n, <2>2, <2>4, <3>1, <4>1, <4>2 DEF Down
    <3>2. CASE k # 0
      <4>1. k \in 1..k /\ k \in 1..(Len(p) - 1)  BY <1>1, <1>2, <3>2
      <4>2. Front(Up(p, k)) = x /\ ~EndsAt(s, Up(p, k))  BY <1>1, <1>x, <4>1, FrontOfUp
      <4>3. Above(c, s, Up(p, k), v.above, v.stamp, v.varies)
        BY <1>1, <1>n, <2>2, <2>4, <4>2 DEF Above
      <4>. QED  BY <1>1, <2>2, <3>2, <4>3 DEF Down
    <3>. QED  BY <3>1, <3>2
  <2>6. Ended(v, s, p, k)  BY <2>2, <2>3, <2>5 DEF Ended
  <2>7. Extends(c, v.cache)  BY <2>2 DEF Extends
  <2>. QED  BY <1>c, <1>v, <2>6, <2>7
<1>6. CASE ~IsValid(c, n)
  <2>d. PICK d : d = EnsureLocal(s, c, c.entries[x])  OBVIOUS
  <2>1. Arena(d) /\ OneNode(c, d, x) /\ Cached(d) = Cached(c)
    BY <1>1, <1>3, <2>d, LocalEnsured
  <2>2. SpecAt(s, x)  BY <1>2, <1>3, SpecIs
  <2>3. Current(d, s, x)  BY <1>1, <1>3, <2>d, <2>2, LocalFilled
  <2>4. CacheOK(d, s)  BY <1>1, <1>a, <1>n, <1>6, <2>d, LocalEnsuredOK
  <2>5. Extends(c, d) /\ d.entries = c.entries  BY <2>1 DEF OneNode, Extends, Cached
  <2>6. \A q \in Cached(c) : q # x => KeptLocal(c, d, q)
    BY <2>1 DEF OneNode, KeptLocal
  <2>7. d.nodes[w.at] = NodeOf(d, x) /\ NodeOf(d, x).local.resets = s[x].resets
    BY <1>1, <2>3, <2>5 DEF NodeOf, Current
  <2>8. CASE s[x].resets
    <3>1. v = [w EXCEPT !.cache = d, !.chain = Append(@, w.at), !.at = Root]
      BY <1>c, <1>v, <1>1, <1>3, <1>4, <1>6, <2>d, <2>7, <2>8 DEF Climb
    <3>2. Ready(d, s, x)  BY <1>1, <2>1, <2>3, <2>8 DEF Ready
    <3>3. /\ Walked(v, s, p, k + 1) /\ v.cache = d /\ v.at = Root
          /\ v.above = Identity /\ v.stamp = 0 /\ v.varies = FALSE
          /\ \A j \in 1..(k + 1) : Ready(d, s, Up(p, j))
      <4>1. v = PassedTo(w, d, Root)  BY <3>1 DEF PassedTo
      <4>2. Came(PassedTo(w, d, Root), s, p, k + 1, d, Root)
        BY <1>c, <1>x, <2>4, <2>5, <2>6, <3>2, PassedOne
      <4>. QED  BY <4>1, <4>2 DEF Came
    <3>4. Above(d, s, x, v.above, v.stamp, v.varies)  BY <2>8, <3>3 DEF Above, EndsAt
    <3>5. Down(v, s, p, k + 1)
      <4>1. k + 1 # 0  BY <1>2
      <4>. QED  BY <1>x, <3>3, <3>4, <4>1 DEF Down
    <3>6. Ended(v, s, p, k + 1)  BY <3>3, <3>5 DEF Ended
    <3>. QED  BY <1>c, <1>v, <2>5, <3>3, <3>6
  <2>9. CASE ~s[x].resets
    <3>e. PICK e : e = ResolveParent(d, d.entries[x])  OBVIOUS
    <3>0. Linked(d, x) /\ x \in Cached(d)  BY <1>1, <1>a, <2>1, <2>4 DEF CacheOK
    <3>1. Arena(e) /\ LinkSet(d, e, x)  BY <2>1, <3>e, <3>0, ParentResolved
    <3>2. CacheOK(e, s)  BY <1>a, <2>4, <3>0, <3>e, ParentResolvedOK
    <3>3. Extends(d, e) /\ Extends(c, e)  BY <2>5, <3>1, ExtendsTrans DEF LinkSet
    <3>4. \A q \in Cached(c) : q # x => KeptLocal(c, e, q)
      <4>1. \A q \in Cached(c) : q # x => NodeOf(e, q) = NodeOf(d, q) /\ q \in Cached(e)
        BY <2>1, <3>1, <3>3 DEF LinkSet, Extends
      <4>. QED  BY <2>6, <4>1 DEF KeptLocal
    <3>n. PICK m : m = NodeOf(d, x)  OBVIOUS
    <3>l. PICK u : u = NodeOf(e, x)  OBVIOUS
    <3>5. u = [m EXCEPT !.parent = u.parent] /\ u.parent # Unresolved /\ Linked(e, x)
          /\ x \in Cached(e)
      BY <3>1, <3>n, <3>l DEF LinkSet
    <3>6. IsNode(m)  BY <2>1, <3>0, <3>n, ArenaFacts
    <3>7. u.local = m.local /\ u.dependency = m.dependency  BY <3>5, <3>6 DEF IsNode
    <3>8. Ready(e, s, x)
      <4>1. e.time = d.time  BY <3>3 DEF Extends
      <4>. QED  BY <2>3, <3>n, <3>l, <3>5, <3>7, <4>1 DEF Ready, Current
    <3>9. e.nodes[w.at] = u  BY SMTT(40), <1>1, <3>l, <3>3 DEF NodeOf, Extends
    <3>10. v = [w EXCEPT !.cache = e, !.chain = Append(@, w.at), !.at = u.parent]
      <4>1. e = ResolveParent(EnsureLocal(s, w.cache, w.at), w.at)
        BY <1>c, <1>1, <2>d, <2>5, <3>e
      <4>2. EnsureLocal(s, w.cache, w.at).nodes[w.at].local.resets = s[x].resets
        BY <1>c, <1>1, <2>d, <2>7
      <4>3. w.cache.nodes[w.at] = n  BY <1>c, <1>3
      <4>. QED
        BY <1>v, <1>4, <1>c, <1>6, <2>9, <3>9, <4>1, <4>2, <4>3, <1>1 DEF Climb, IsWalk
    <3>11. /\ Walked(v, s, p, k + 1) /\ v.cache = e /\ v.at = u.parent
           /\ v.above = Identity /\ v.stamp = 0 /\ v.varies = FALSE
           /\ \A j \in 1..(k + 1) : Ready(e, s, Up(p, j))
      <4>1. v = PassedTo(w, e, u.parent)  BY <3>10 DEF PassedTo
      <4>2. Came(PassedTo(w, e, u.parent), s, p, k + 1, e, u.parent)
        BY <1>c, <1>x, <3>2, <3>3, <3>4, <3>8, PassedOne
      <4>. QED  BY <4>1, <4>2 DEF Came
    <3>12. CASE Len(x) = 1
      <4>1. u.parent = Root  BY <3>l, <3>5, <3>12 DEF Linked
      <4>2. Above(e, s, x, v.above, v.stamp, v.varies)  BY <3>11, <3>12 DEF Above, EndsAt
      <4>3. Down(v, s, p, k + 1)
        <5>1. k + 1 # 0  BY <1>2
        <5>. QED  BY <1>x, <3>11, <4>2, <5>1 DEF Down
      <4>4. Ended(v, s, p, k + 1)  BY <3>11, <4>1, <4>3 DEF Ended
      <4>. QED  BY <1>c, <1>v, <3>3, <3>11, <4>4
    <3>13. CASE Len(x) # 1
      <4>1. Front(x) \in Cached(e) /\ u.parent = e.entries[Front(x)] /\ Len(x) > 1
        BY <3>l, <3>5, <3>13 DEF Linked
      <4>2. k + 1 \in 1..(Len(p) - 1) /\ k + 1 < Len(p)  BY <1>1, <1>2, <4>1
      <4>3. Front(x) = Up(p, (k + 1) + 1)  BY <1>x, <4>2, FrontOfUp
      <4>4. ~EndsAt(s, x)  BY <2>9, <3>13 DEF EndsAt
      <4>5. \A j \in 1..(k + 1) : Ready(e, s, Up(p, j)) /\ ~EndsAt(s, Up(p, j))
        <5>1. \A j \in 1..(k + 1) : j = k + 1 \/ j \in 1..k  BY <1>2
        <5>. QED  BY <1>1, <1>x, <3>11, <4>4, <5>1
      <4>6. Climbing(v, s, p, k + 1)  BY <3>11, <4>1, <4>2, <4>3, <4>5 DEF Climbing
      <4>. QED  BY <1>c, <1>v, <3>3, <3>11, <4>6
    <3>. QED  BY <3>12, <3>13
  <2>. QED  BY <2>8, <2>9
<1>. QED  BY <1>5, <1>6

LEMMA AncestryIs ==
    ASSUME NEW p \in Prims
    PROVE  Ancestry(p) \in Seq(Seq(Names)) /\ Len(Ancestry(p)) = Len(p)
<1>1. Len(p) \in Nat /\ p \in Seq(Names)  BY PrimFacts
<1>2. Ancestry(p) = [i \in 1..Len(p) |-> Up(p, i)]  BY DEF Ancestry, Up
<1>3. \A i \in 1..Len(p) : Up(p, i) \in Seq(Names)  BY UpIs
<1>. QED  BY <1>1, <1>2, <1>3

(* The walk up ends.                                                        *)
LEMMA WalkUpOK ==
    ASSUME NEW s, IsScene(s), NEW c, CacheOK(c, s), NEW p \in Cached(c), s[p].active
    PROVE  LET w == WalkUp(s, c, p)
           IN  Extends(c, w.cache) /\ \E k : Ended(w, s, p, k)
<1>0. PICK w0 : w0 = [cache |-> c, at |-> c.entries[p], chain |-> <<>>,
                      above |-> Identity, stamp |-> 0, varies |-> FALSE]
  OBVIOUS
<1>1. p \in Prims /\ Len(p) \in Nat /\ Len(p) > 0
  <2>1. p \in Prims  BY ArenaFacts DEF CacheOK
  <2>. QED  BY <2>1, PrimFacts
<1>2. Ancestry(p) \in Seq(Seq(Names)) /\ Len(Ancestry(p)) = Len(p)  BY <1>1, AncestryIs
<1>at. PICK at : Climbs(at, s, w0, Ancestry(p))  BY <1>2, ClimbsExists
<1>3. /\ at[0] = w0 /\ \A i \in 1..Len(p) : at[i] = Climb(s, at[i - 1])
      /\ WalkUp(s, c, p) = at[Len(p)]
  <2>1. WalkUp(s, c, p) = ClimbAll(s, w0, Ancestry(p))  BY <1>0, WalkUpIs
  <2>. QED  BY <1>2, <1>at, <2>1 DEF Climbs
<1>. DEFINE G == {i \in 0..Len(p) :
                    /\ Extends(c, at[i].cache)
                    /\ Climbing(at[i], s, p, i) \/ \E k : Ended(at[i], s, p, k)}
<1>4. 0 \in G
  <2>1. Extends(c, w0.cache)  BY <1>0 DEF Extends
  <2>2. IsWalk(w0) /\ w0.cache = c /\ w0.chain = <<>>  BY <1>0 DEF IsWalk
  <2>3. 0 \in 0..Len(p) /\ 1..0 = {} /\ 1..(0 - 1) = {} /\ 0 + 1 = 1  BY <1>1
  <2>4. Walked(w0, s, p, 0)
    <3>1. <<>> \in Seq(Nat) /\ Len(<<>>) = 0  OBVIOUS
    <3>. QED  BY <2>2, <2>3, <3>1 DEF Walked
  <2>5. Up(p, 0 + 1) = p  BY <1>1, <2>3, UpOne
  <2>6. Climbing(w0, s, p, 0)  BY <1>0, <1>1, <2>2, <2>3, <2>4, <2>5 DEF Climbing
  <2>. QED  BY <1>3, <2>1, <2>3, <2>6
<1>5. ASSUME NEW i \in 1..Len(p), i - 1 \in G  PROVE i \in G
  <2>u. PICK u : u = at[i - 1]  OBVIOUS
  <2>j. PICK j : j = i - 1  OBVIOUS
  <2>v. PICK v : v = at[i]  OBVIOUS
  <2>1. Extends(c, u.cache) /\ (Climbing(u, s, p, j) \/ \E k : Ended(u, s, p, k))
    BY <1>5, <2>u, <2>j
  <2>2. v = Climb(s, u) /\ j + 1 = i /\ i \in 0..Len(p)  BY <1>1, <1>3, <2>u, <2>v, <2>j
  <2>3. CASE Climbing(u, s, p, j)
    <3>1. /\ Extends(u.cache, v.cache)
          /\ Climbing(v, s, p, j + 1) \/ Ended(v, s, p, j) \/ Ended(v, s, p, j + 1)
      BY <1>1, <2>2, <2>3, ClimbStep
    <3>2. Extends(c, v.cache)  BY <2>1, <3>1, ExtendsTrans
    <3>. QED  BY <2>v, <2>2, <3>1, <3>2
  <2>4. CASE \E k : Ended(u, s, p, k)
    <3>1. PICK k : Ended(u, s, p, k)  BY <2>4
    <3>2. v = u  BY <2>2, <3>1, EndedStays
    <3>. QED  BY <2>v, <2>1, <2>2, <3>1, <3>2
  <2>. QED  BY <2>1, <2>3, <2>4
<1>. HIDE DEF G
<1>6. Len(p) \in G
  <2>1. \A i \in 0..Len(p) : i \in G  BY <1>1, <1>4, <1>5, Upwards
  <2>2. Len(p) \in 0..Len(p)  BY <1>1
  <2>. QED  BY <2>1, <2>2
<1>7. ~Climbing(at[Len(p)], s, p, Len(p))  BY <1>1 DEF Climbing
<1>. QED  BY <1>3, <1>6, <1>7 DEF G

(* local_to_world: the world transform, and a cache that stays right.       *)
LEMMA LookedUp ==
    ASSUME NEW s, IsScene(s), NEW c, CacheOK(c, s), NEW p \in Prims, s[p].active
    PROVE  LET looked == LocalToWorld(s, c, p)
           IN  /\ CacheOK(looked.cache, s) /\ Extends(c, looked.cache)
               /\ p \in Cached(looked.cache) /\ Valid(looked.cache, s, p)
               /\ looked.matrix = WorldTransform(s, c.time, p)
<1>d. PICK d : d = EnsureSlot(c, p)  OBVIOUS
<1>0. s[p] # Gone  BY ActiveIsPresent
<1>1. CacheOK(d, s) /\ Extends(c, d) /\ p \in Cached(d)
  <2>1. CacheOK(d, s)  BY <1>0, <1>d, SlotEnsuredOK
  <2>2. Arena(c)  BY DEF CacheOK
  <2>3. Extends(c, d) /\ (p \notin Cached(c) => SlotAdded(c, d, p))
    BY <1>d, <2>2, SlotEnsured
  <2>4. p \in Cached(d)
    <3>1. CASE p \in Cached(c)  BY <2>3, <3>1 DEF Extends
    <3>2. CASE p \notin Cached(c)  BY <2>3, <3>2 DEF SlotAdded
    <3>. QED  BY <3>1, <3>2
  <2>. QED  BY <2>1, <2>3, <2>4
<1>w. PICK w : w = WalkUp(s, d, p)  OBVIOUS
<1>2. Extends(d, w.cache) /\ \E k : Ended(w, s, p, k)  BY <1>1, <1>w, WalkUpOK
<1>3. PICK k : Ended(w, s, p, k)  BY <1>2
<1>4. Walked(w, s, p, k) /\ Down(w, s, p, k)  BY <1>3 DEF Ended
<1>v. PICK v : v = WalkDown(w)  OBVIOUS
<1>5. CacheOK(v.cache, s) /\ Down(v, s, p, 0) /\ Extends(w.cache, v.cache)
  BY <1>4, <1>v, WalkDownOK
<1>6. LocalToWorld(s, c, p) = [cache |-> v.cache, matrix |-> v.above]
  BY <1>0, <1>d, <1>w, <1>v DEF LocalToWorld
<1>7. Extends(c, v.cache)  BY <1>1, <1>2, <1>5, ExtendsTrans
<1>8. /\ p \in Cached(v.cache) /\ Valid(v.cache, s, p)
      /\ v.above = NodeOf(v.cache, p).world
  BY <1>5 DEF Down
<1>9. v.above = WorldTransform(s, c.time, p)
  <2>1. v.above = Product(v.cache, s, p) /\ \A q \in Chain(s, p) : ~Stale(v.cache, s, q)
    BY <1>8 DEF Valid, Sound
  <2>2. Product(v.cache, s, p) = WorldTransform(s, v.cache.time, p)
    BY <1>0, <2>1, ProductIsWorld
  <2>3. v.cache.time = c.time  BY <1>7 DEF Extends
  <2>. QED  BY <2>1, <2>2, <2>3
<1>. QED  BY <1>5, <1>6, <1>7, <1>8, <1>9

LEMMA ReadOne ==
    ASSUME NEW s, IsScene(s), NEW c, CacheOK(c, s), NEW p \in Cached(c), s[p].active,
           Valid(c, s, p), NEW i \in 1..Height(s, p), NEW paths
    PROVE  ReadUp(c, [paths |-> paths, at |-> c.entries[Up(p, i)]]) =
               [paths |-> paths \cup {Up(p, i)},
                at |-> IF i = Height(s, p) THEN Root ELSE c.entries[Up(p, i + 1)]]
<1>h. PICK h : h = Height(s, p)  OBVIOUS
<1>x. PICK x : x = Up(p, i)  OBVIOUS
<1>n. PICK n : n = NodeOf(c, x)  OBVIOUS
<1>1. p \in Prims /\ Len(p) \in Nat /\ Arena(c)
  <2>1. p \in Prims /\ Arena(c)  BY ArenaFacts DEF CacheOK
  <2>. QED  BY <2>1, PrimFacts
<1>2. /\ h \in 1..Len(p) /\ \A j \in 1..(h - 1) : ~s[Up(p, j)].resets
      /\ h # Len(p) => s[Up(p, h)].resets
  BY <1>1, <1>h, HeightIs
<1>3. i \in Nat /\ i >= 1 /\ i <= h /\ i \in 1..Len(p)  BY <1>1, <1>2, <1>h
<1>4. x \in Chain(s, p)  BY <1>x DEF Chain
<1>5. /\ x \in Cached(c) /\ n.dependency # "Unknown"
      /\ s[x].resets \/ n.parent # Unresolved
  BY <1>4, <1>n DEF Valid, Sound, Passed
<1>6. LocalOK(c, s, x) /\ Linked(c, x)
  <2>1. s[x].active  BY <1>1, <1>3, <1>x, UpsAreActive
  <2>. QED  BY <1>5, <2>1 DEF CacheOK
<1>7. n.local.resets = s[x].resets  BY <1>5, <1>6, <1>n DEF LocalOK
<1>8. n.path = x /\ c.entries[x] # Root /\ n = c.nodes[c.entries[x]]
  <2>1. n.path = x /\ c.entries[x] \in 1..Len(c.nodes) /\ Len(c.nodes) \in Nat
    BY <1>1, <1>5, <1>n, ArenaFacts
  <2>. QED  BY <1>n, <2>1 DEF Root, NodeOf
<1>9. Len(x) = Len(p) - i + 1  BY <1>1, <1>3, <1>x, UpIs
<1>10. (IF n.local.resets THEN Root ELSE n.parent) =
           (IF i = h THEN Root ELSE c.entries[Up(p, i + 1)])
  <2>1. CASE s[x].resets
    <3>1. i \in 1..(h - 1) \/ i = h  BY <1>2, <1>3
    <3>2. i = h  BY <1>2, <1>x, <2>1, <3>1
    <3>. QED  BY <1>7, <2>1, <3>2
  <2>2. CASE ~s[x].resets
    <3>1. n.local.resets # TRUE /\ ~n.local.resets  BY <1>7, <2>2
    <3>2. n.parent # Unresolved  BY <1>5, <2>2
    <3>3. CASE i = h
      <4>1. h = Len(p)  BY <1>2, <1>x, <2>2, <3>3
      <4>2. Len(x) = 1  BY <1>1, <1>9, <3>3, <4>1
      <4>3. n.parent = Root  BY <1>6, <1>n, <3>2, <4>2 DEF Linked
      <4>. QED  BY <3>1, <3>3, <4>3
    <3>4. CASE i # h
      <4>1. i \in 1..(Len(p) - 1)  BY <1>1, <1>2, <1>3, <3>4
      <4>2. Len(x) # 1  BY <1>1, <1>9, <4>1
      <4>3. n.parent = c.entries[Front(x)]  BY <1>6, <1>n, <3>2, <4>2 DEF Linked
      <4>4. Front(x) = Up(p, i + 1)  BY <1>1, <1>x, <4>1, FrontOfUp
      <4>. QED  BY <3>1, <3>4, <4>3, <4>4
    <3>. QED  BY <3>3, <3>4
  <2>. QED  BY <2>1, <2>2
<1>11. ReadUp(c, [paths |-> paths, at |-> c.entries[x]]) =
           [paths |-> paths \cup {n.path},
            at |-> IF n.local.resets THEN Root ELSE n.parent]
  BY <1>8 DEF ReadUp
<1>. QED  BY <1>h, <1>x, <1>8, <1>10, <1>11

(* world_dependencies, of a world that is valid: what it rests on.          *)
LEMMA DependenciesAre ==
    ASSUME NEW s, IsScene(s), NEW c, CacheOK(c, s), NEW p \in Cached(c), s[p].active,
           Valid(c, s, p)
    PROVE  WorldDependencies(c, p) = Chain(s, p) /\ WorldMightVary(c, p) = Varies(s, p)
<1>h. PICK h : h = Height(s, p)  OBVIOUS
<1>b. PICK base : base = [paths |-> {}, at |-> c.entries[p]]  OBVIOUS
<1>1. p \in Prims /\ Len(p) \in Nat
  <2>1. p \in Prims  BY ArenaFacts DEF CacheOK
  <2>. QED  BY <2>1, PrimFacts
<1>2. h \in 1..Len(p) /\ h \in Nat /\ h >= 1 /\ h <= Len(p)
  <2>1. h \in 1..Len(p)  BY <1>1, <1>h, HeightIs
  <2>. QED  BY <1>1, <2>1
<1>3. NodeOf(c, p).worldValid /\ NodeOf(c, p).worldVaries = Varies(s, p)
  <2>1. p \in Chain(s, p)  BY <1>1, ChainFacts
  <2>. QED  BY <2>1 DEF Valid, Sound, IsValid
<1>4. Ancestry(p) \in Seq(Seq(Names)) /\ Len(Ancestry(p)) = Len(p)  BY <1>1, AncestryIs
<1>at. PICK at : Reads(at, c, base, Ancestry(p))  BY <1>4, ReadsExists
<1>5. /\ at[0] = base /\ \A i \in 1..Len(p) : at[i] = ReadUp(c, at[i - 1])
      /\ WorldDependencies(c, p) = at[Len(p)].paths
  <2>1. WorldDependencies(c, p) = ReadAllUp(c, base, Ancestry(p)).paths
    BY <1>b, <1>3, WorldDependenciesIs DEF NodeOf
  <2>. QED  BY <1>4, <1>at, <2>1 DEF Reads
<1>. DEFINE To(i) == {Up(p, j) : j \in 1..i}
            G == {i \in 0..Len(p) :
                    at[i] = IF i < h THEN [paths |-> To(i), at |-> c.entries[Up(p, i + 1)]]
                            ELSE [paths |-> To(h), at |-> Root]}
<1>6. 0 \in G
  <2>1. 0 < h /\ 0 + 1 = 1 /\ 0 \in 0..Len(p)  BY <1>1, <1>2
  <2>2. Up(p, 0 + 1) = p  BY <1>1, <2>1, UpOne
  <2>3. To(0) = {}
    <3>1. 1..0 = {}  OBVIOUS
    <3>. QED  BY <3>1
  <2>. HIDE DEF To
  <2>. QED  BY <1>b, <1>5, <2>1, <2>2, <2>3
<1>7. ASSUME NEW i \in 1..Len(p), i - 1 \in G  PROVE i \in G
  <2>j. PICK j : j = i - 1  OBVIOUS
  <2>1. i \in 0..Len(p) /\ j + 1 = i /\ i \in Nat /\ j \in Nat /\ i >= 1  BY <1>1, <2>j
  <2>2. at[i] = ReadUp(c, at[j])  BY <1>5, <2>j
  <2>3. at[j] = IF j < h THEN [paths |-> To(j), at |-> c.entries[Up(p, j + 1)]]
                ELSE [paths |-> To(h), at |-> Root]
    BY <1>7, <2>j
  <2>4. CASE j < h
    <3>1. i \in 1..Height(s, p)  BY <1>2, <1>h, <2>1, <2>4
    <3>2. at[j] = [paths |-> To(j), at |-> c.entries[Up(p, i)]]  BY <2>1, <2>3, <2>4
    <3>3. at[i] = [paths |-> To(j) \cup {Up(p, i)},
                   at |-> IF i = h THEN Root ELSE c.entries[Up(p, i + 1)]]
      BY <1>h, <2>2, <3>1, <3>2, ReadOne
    <3>4. To(j) \cup {Up(p, i)} = To(i)
      <4>1. 1..i = 1..j \cup {i}  BY <2>1
      <4>. QED  BY <4>1
    <3>. HIDE DEF To
    <3>5. CASE i = h
      <4>1. ~(i < h)  BY <1>2, <3>5
      <4>. QED  BY <2>1, <3>3, <3>4, <3>5, <4>1
    <3>6. CASE i # h
      <4>1. i < h  BY <1>2, <2>1, <2>4, <3>6
      <4>. QED  BY <2>1, <3>3, <3>4, <3>6, <4>1
    <3>. QED  BY <3>5, <3>6
  <2>5. CASE ~(j < h)
    <3>1. ~(i < h)  BY <1>2, <2>1, <2>5
    <3>2. at[i] = at[j]  BY <2>2, <2>3, <2>5 DEF ReadUp
    <3>. HIDE DEF To
    <3>. QED  BY <2>1, <2>3, <2>5, <3>1, <3>2
  <2>. QED  BY <2>4, <2>5
<1>. HIDE DEF G
<1>8. Len(p) \in G
  <2>1. \A i \in 0..Len(p) : i \in G  BY <1>1, <1>6, <1>7, Upwards
  <2>2. Len(p) \in 0..Len(p)  BY <1>1
  <2>. QED  BY <2>1, <2>2
<1>9. at[Len(p)] = [paths |-> To(h), at |-> Root]
  <2>1. ~(Len(p) < h)  BY <1>1, <1>2
  <2>. HIDE DEF To
  <2>. QED  BY <1>8, <2>1 DEF G
<1>10. To(h) = Chain(s, p)  BY <1>h DEF Chain
<1>11. WorldMightVary(c, p) = Varies(s, p)
  <2>1. Varies(s, p) \in BOOLEAN  BY DEF Varies
  <2>2. WorldMightVary(c, p) <=> NodeOf(c, p).worldVaries  BY DEF WorldMightVary, NodeOf
  <2>. QED  BY <1>3, <2>1, <2>2, Zenon DEF WorldMightVary, NodeOf
<1>. HIDE DEF To
<1>. QED  BY <1>5, <1>9, <1>10, <1>11

-----------------------------------------------------------------------------
(* Nothing is cached in a cache that was cleared.                           *)
LEMMA Cleared ==
    ASSUME NEW c
    PROVE  /\ Arena(ClearCache(c)) /\ Cached(ClearCache(c)) = {}
           /\ ClearCache(c).time = c.time /\ ClearCache(c).epoch = 0
<1>d. PICK d : d = ClearCache(c)  OBVIOUS
<1>1. /\ d = [time |-> c.time, entries |-> <<>>, nodes |-> <<>>, free |-> <<>>,
              epoch |-> 0, timeStamp |-> 0]
  BY <1>d DEF ClearCache
<1>2. /\ d.nodes = <<>> /\ d.free = <<>> /\ d.entries = <<>> /\ d.epoch = 0
      /\ d.timeStamp = 0 /\ d.time = c.time /\ IsCache(d)
  BY <1>1 DEF IsCache
<1>3. Cached(d) = {} /\ Len(d.nodes) = 0  BY <1>2 DEF Cached
<1>4. IsSeq(d.nodes)
  <2>1. <<>> \in Seq(Nat)  OBVIOUS
  <2>. QED  BY <1>2, <2>1, SeqIs
<1>5. Nodes(d)
  <2>1. \A i \in 1..Len(d.nodes) : FALSE  BY <1>3
  <2>. QED  BY <1>3, <1>4, <2>1 DEF Nodes
<1>6. Slots(d.entries, d.free, Len(d.nodes))  BY <1>2, <1>3, SlotsOfNothing
<1>7. d.epoch \in 0..MaxEpoch /\ d.timeStamp \in 0..d.epoch
  BY <1>2, EpochAssumption
<1>8. Arena(d)  BY <1>2, <1>5, <1>6, <1>7 DEF Arena
<1>. QED  BY <1>d, <1>2, <1>3, <1>8

LEMMA ClearedOK ==
    ASSUME NEW c, NEW s
    PROVE  CacheOK(ClearCache(c), s)
BY Cleared DEF CacheOK

LEMMA EmptyOK ==
    ASSUME NEW c, NEW s, Arena(c), Cached(c) = {}
    PROVE  CacheOK(c, s)
BY DEF CacheOK

(* set_time: what depends on the time is late, and nothing is valid.        *)
Retimed(c, t) == [c EXCEPT !.time = t, !.epoch = @ + 1, !.timeStamp = c.epoch + 1]

LEMMA RetimedOK ==
    ASSUME NEW c, NEW s, IsScene(s), CacheOK(c, s), NEW t, c.epoch # MaxEpoch
    PROVE  CacheOK(Retimed(c, t), s)
<1>d. PICK d : d = Retimed(c, t)  OBVIOUS
<1>0. Arena(c)  BY DEF CacheOK
<1>1. /\ IsCache(c) /\ c.epoch \in Nat /\ IsSeq(c.nodes) /\ c.epoch \in 0..MaxEpoch
      /\ MaxEpoch \in Nat
  BY <1>0, ArenaFacts, EpochAssumption DEF Arena
<1>2. /\ IsCache(d) /\ d.time = t /\ d.epoch = c.epoch + 1 /\ d.timeStamp = c.epoch + 1
      /\ d.entries = c.entries /\ d.nodes = c.nodes /\ d.free = c.free
  BY <1>1, <1>d DEF Retimed, IsCache
<1>3. Cached(d) = Cached(c) /\ \A p : NodeOf(d, p) = NodeOf(c, p)
  BY <1>2 DEF Cached, NodeOf
<1>4. Arena(d)
  <2>1. \A n : Stamped(n, c.epoch) => Stamped(n, d.epoch)  BY <1>1, <1>2 DEF Stamped
  <2>2. Nodes(d)  BY <1>0, <1>2, <1>3, <2>1 DEF Nodes, Arena
  <2>3. d.epoch \in 0..MaxEpoch /\ d.timeStamp \in 0..d.epoch  BY <1>1, <1>2
  <2>. QED  BY <1>0, <1>2, <2>2, <2>3 DEF Arena
<1>. SUFFICES ASSUME NEW p \in Cached(d), s[p].active
              PROVE  Linked(d, p) /\ LocalOK(d, s, p) /\ WorldOK(d, s, p)
  <2>1. \A p \in Cached(d) : s[p] # Gone  BY <1>3 DEF CacheOK
  <2>. QED  BY <1>d, <1>4, <2>1 DEF CacheOK
<1>n. PICK n : n = NodeOf(c, p)  OBVIOUS
<1>5. Linked(c, p) /\ LocalOK(c, s, p) /\ WorldOK(c, s, p)  BY <1>3 DEF CacheOK
<1>6. p \in Prims  BY <1>0, <1>3, ArenaFacts
<1>7. \A q \in Cached(c) : /\ NodeOf(c, q).localStamp \in Nat
                           /\ NodeOf(c, q).localStamp < d.timeStamp
                           /\ NodeOf(c, q).worldStamp < d.timeStamp
                           /\ NodeOf(c, q).validated # d.epoch
  <2>. TAKE q \in Cached(c)
  <2>1. /\ NodeOf(c, q).localStamp \in Nat /\ NodeOf(c, q).worldStamp \in Nat
        /\ NodeOf(c, q).localStamp <= c.epoch /\ NodeOf(c, q).worldStamp <= c.epoch
        /\ NodeOf(c, q).validated \in Nat /\ NodeOf(c, q).validated <= c.epoch
    BY <1>0, StampsAreNat
  <2>. QED  BY <1>1, <1>2, <2>1
<1>8. Linked(d, p)  BY <1>2, <1>3, <1>5 DEF Linked
<1>9. LocalOK(d, s, p)
  <2>1. ASSUME n.local.held, Stale(d, s, p)  PROVE Late(d, p)
    <3>1. CASE n.dependency = "Varying"
      <4>1. n.localStamp < d.timeStamp  BY <1>3, <1>7, <1>n
      <4>. QED  BY <1>3, <1>n, <3>1, <4>1 DEF Late, Outdated
    <3>2. CASE n.dependency # "Varying"
      <4>1. ~s[p].varying  BY <1>5, <1>n, <2>1, <3>2 DEF LocalOK
      <4>2. Local(s, d.time, p) = Local(s, c.time, p)  BY <4>1 DEF Local, Evaluate
      <4>3. Stale(c, s, p)  BY <1>3, <2>1, <4>2 DEF Stale
      <4>4. Late(c, p)  BY <1>5, <1>n, <2>1, <4>3 DEF LocalOK
      <4>. QED  BY <1>n, <3>2, <4>4 DEF Late, Outdated
    <3>. QED  BY <3>1, <3>2
  <2>. QED  BY <1>3, <1>5, <1>n, <2>1 DEF LocalOK
<1>10. ~IsValid(d, NodeOf(d, p))
  <2>1. n.validated # d.epoch  BY <1>3, <1>7, <1>n
  <2>. QED  BY <1>3, <1>n, <2>1 DEF IsValid
<1>11. n.worldValid => Broken(d, s, p) \/ Sound(d, s, p)
  <2>1. Broken(c, s, p) => Broken(d, s, p)  BY <1>3 DEF Broken
  <2>2. Sound(c, s, p) => Sound(d, s, p)
    <3>1. Product(d, s, p) = Product(c, s, p)  BY <1>3, SameProduct
    <3>2. n.worldStamp < d.timeStamp  BY <1>3, <1>7, <1>n
    <3>3. \A q : Passed(c, s, q, n.worldStamp) => Passed(d, s, q, n.worldStamp)
      BY <1>3 DEF Passed
    <3>. QED  BY <1>3, <1>n, <3>1, <3>2, <3>3 DEF Sound
  <2>. QED  BY <1>5, <1>n, <2>1, <2>2 DEF WorldOK
<1>12. WorldOK(d, s, p)  BY <1>3, <1>n, <1>10, <1>11 DEF WorldOK
<1>. QED  BY <1>8, <1>9, <1>12

LEMMA TimeSet ==
    ASSUME NEW c, NEW s, IsScene(s), CacheOK(c, s), NEW t
    PROVE  /\ CacheOK(SetTime(c, t), s) /\ SetTime(c, t).time = t
           /\ Cached(SetTime(c, t)) \subseteq Cached(c)
<1>1. CASE t = c.time
  <2>1. SetTime(c, t) = c  BY <1>1 DEF SetTime
  <2>. QED  BY <1>1, <2>1
<1>2. CASE t # c.time /\ c.epoch = MaxEpoch
  <2>d. PICK d : d = ClearCache(c)  OBVIOUS
  <2>e. PICK e : e = ClearCache([time |-> t])  OBVIOUS
  <2>1. SetTime(c, t) = [d EXCEPT !.time = t]  BY <1>2, <2>d DEF SetTime
  <2>2. SetTime(c, t) = e  BY <2>1, <2>d, <2>e DEF ClearCache
  <2>3. CacheOK(e, s) /\ Cached(e) = {} /\ e.time = t  BY <2>e, ClearedOK, Cleared
  <2>. QED  BY <2>2, <2>3
<1>3. CASE t # c.time /\ c.epoch # MaxEpoch
  <2>1. SetTime(c, t) = Retimed(c, t)  BY <1>3 DEF SetTime, Retimed
  <2>2. CacheOK(Retimed(c, t), s)  BY <1>3, RetimedOK
  <2>3. IsCache(c)  BY ArenaFacts DEF CacheOK
  <2>4. Retimed(c, t).time = t /\ Cached(Retimed(c, t)) = Cached(c)
    BY <2>3 DEF Retimed, IsCache, Cached
  <2>. QED  BY <2>1, <2>2, <2>4
<1>. QED  BY <1>1, <1>2, <1>3

-----------------------------------------------------------------------------
(* Retirement.                                                              *)
Dropped(c, d) ==
    /\ Arena(d) /\ SameClock(c, d) /\ Cached(d) \subseteq Cached(c)
    /\ \A p \in Cached(d) : d.entries[p] = c.entries[p] /\ NodeOf(d, p) = NodeOf(c, p)

LEMMA NothingDropped ==
    ASSUME NEW c, Arena(c)
    PROVE  Dropped(c, c)
BY DEF Dropped, SameClock

LEMMA DroppedTwice ==
    ASSUME NEW c, NEW d, NEW e, Dropped(c, d), Dropped(d, e)
    PROVE  Dropped(c, e)
BY DEF Dropped, SameClock

Emptied(n) ==
    [n EXCEPT !.recipe = NoRecipe, !.local = NoLocal, !.worldValid = FALSE, !.parent = Vacant]

LEMMA EmptiedIs ==
    ASSUME NEW n, IsNode(n), NEW epoch, Stamped(n, epoch)
    PROVE  IsNode(Emptied(n)) /\ Stamped(Emptied(n), epoch)
<1>1. PICK m : m = Emptied(n)  OBVIOUS
<1>2. IsNode(m)  BY <1>1 DEF Emptied, IsNode
<1>3. /\ m.localStamp = n.localStamp /\ m.worldStamp = n.worldStamp
      /\ m.validated = n.validated
  BY <1>1 DEF Emptied, IsNode
<1>. QED  BY <1>1, <1>2, <1>3 DEF Stamped

Freed(c, p) ==
    [c EXCEPT !.entries = [q \in Cached(c) \ {p} |-> @[q]],
              !.nodes[c.entries[p]] = Emptied(@), !.free = <<c.entries[p]>> \o @]

LEMMA Retired ==
    ASSUME NEW c, Arena(c), NEW p
    PROVE  Dropped(c, Retire(c, p)) /\ Cached(Retire(c, p)) = Cached(c) \ {p}
<1>d. PICK d : d = Retire(c, p)  OBVIOUS
<1>1. CASE p \notin Cached(c)
  <2>1. d = c  BY <1>1, <1>d DEF Retire
  <2>. QED  BY <1>1, <1>d, <2>1, NothingDropped
<1>2. CASE p \in Cached(c)
  <2>1. /\ IsCache(c) /\ IsSeq(c.nodes) /\ Len(c.nodes) \in Nat
        /\ DOMAIN c.nodes = 1..Len(c.nodes) /\ c.entries[p] \in 1..Len(c.nodes)
        /\ IsNode(NodeOf(c, p)) /\ Stamped(NodeOf(c, p), c.epoch)
        /\ \A q, r \in Cached(c) : c.entries[q] = c.entries[r] => q = r
    BY <1>2, ArenaFacts
  <2>n. PICK n : n = Emptied(NodeOf(c, p))  OBVIOUS
  <2>i. PICK slot : slot = c.entries[p]  OBVIOUS
  <2>s. PICK nodes : nodes = [c.nodes EXCEPT ![slot] = n]  OBVIOUS
  <2>e. PICK entries : entries = [q \in DOMAIN c.entries \ {p} |-> c.entries[q]]  OBVIOUS
  <2>f. PICK free : free = <<c.entries[p]>> \o c.free  OBVIOUS
  <2>2. IsNode(n) /\ Stamped(n, c.epoch)  BY <2>1, <2>n, EmptiedIs
  <2>3. d = [c EXCEPT !.entries = entries, !.nodes = nodes, !.free = free]
    <3>1. d = Freed(c, p)  BY <1>2, <1>d DEF Retire, Freed, Emptied
    <3>2. Freed(c, p) = [c EXCEPT !.entries = [q \in Cached(c) \ {p} |-> @[q]],
              !.nodes[slot] = n, !.free = <<slot>> \o @]
      BY <2>n, <2>i, <2>1 DEF Freed, NodeOf
    <3>. QED  BY <2>1, <2>i, <2>s, <2>e, <2>f, <3>1, <3>2 DEF Cached, IsCache
  <2>4. /\ IsCache(d) /\ d.entries = entries /\ d.nodes = nodes /\ d.free = free
        /\ d.time = c.time /\ d.epoch = c.epoch /\ d.timeStamp = c.timeStamp
    BY <2>1, <2>3 DEF IsCache
  <2>5. IsSeq(nodes) /\ Len(nodes) = Len(c.nodes)
    <3>1. slot \in 1..Len(c.nodes)  BY <2>1, <2>i
    <3>. QED  BY ZenonT(40), <2>1, <2>s, <3>1, ElementPut
  <2>6. /\ \A i \in 1..Len(nodes) : i # slot => nodes[i] = c.nodes[i]
        /\ nodes[slot] = n
    BY <2>1, <2>5, <2>i, <2>s
  <2>7. DOMAIN entries = Cached(c) \ {p} /\ \A q \in DOMAIN entries : entries[q] = c.entries[q]
    BY <2>e DEF Cached
  <2>8. Cached(d) = Cached(c) \ {p}  BY <2>4, <2>7 DEF Cached
  <2>9. ASSUME NEW q \in Cached(d)
        PROVE  d.entries[q] = c.entries[q] /\ NodeOf(d, q) = NodeOf(c, q)
               /\ NodeOf(c, q).path = q
    <3>1. q \in Cached(c) /\ q # p /\ q \in DOMAIN entries  BY <2>7, <2>8
    <3>2. c.entries[q] \in 1..Len(c.nodes) /\ NodeOf(c, q).path = q  BY <3>1, ArenaFacts
    <3>3. c.entries[q] # slot  BY <1>2, <2>1, <2>i, <3>1
    <3>4. entries[q] = c.entries[q]  BY <2>7, <3>1
    <3>5. nodes[c.entries[q]] = c.nodes[c.entries[q]]  BY <2>5, <2>6, <3>2, <3>3
    <3>. QED  BY <2>4, <3>2, <3>4, <3>5 DEF NodeOf
  <2>10. Slots(entries, free, Len(c.nodes))
    <3>1. Slots(c.entries, c.free, Len(c.nodes))  BY DEF Arena
    <3>. QED  BY <1>2, <2>1, <2>e, <2>f, <3>1, SlotsFreed DEF Cached
  <2>11. Nodes(d)
    <3>1. \A i \in 1..Len(nodes) : IsNode(nodes[i]) /\ Stamped(nodes[i], c.epoch)
      <4>1. \A i \in 1..Len(c.nodes) : IsNode(c.nodes[i]) /\ Stamped(c.nodes[i], c.epoch)
        BY DEF Arena, Nodes
      <4>. QED  BY <2>2, <2>5, <2>6, <4>1
    <3>. QED  BY <2>4, <2>5, <2>9, <3>1 DEF Nodes
  <2>12. Arena(d)
    <3>1. c.epoch \in 0..MaxEpoch /\ c.timeStamp \in 0..c.epoch  BY DEF Arena
    <3>. QED  BY <2>4, <2>5, <2>10, <2>11, <3>1 DEF Arena
  <2>13. Dropped(c, d)  BY <2>4, <2>8, <2>9, <2>12 DEF Dropped, SameClock
  <2>. QED  BY <1>d, <2>8, <2>13
<1>. QED  BY <1>1, <1>2

LEMMA AllRetired ==
    ASSUME NEW c, Arena(c), NEW S, IsFiniteSet(S)
    PROVE  Dropped(c, RetireAll(c, S)) /\ Cached(RetireAll(c, S)) = Cached(c) \ S
<1>r. PICK run : Retires(run, c, S)  BY RetiresExists
<1>1. /\ run[{}] = c
      /\ \A T \in SUBSET S : T # {} => \E x \in T : run[T] = Retire(run[T \ {x}], x)
      /\ RetireAll(c, S) = run[S]
  BY <1>r DEF Retires
<1>. DEFINE G == {T \in SUBSET S : Dropped(c, run[T]) /\ Cached(run[T]) = Cached(c) \ T}
<1>2. {} \in G  BY <1>1, NothingDropped
<1>3. ASSUME NEW T \in SUBSET S, T # {}, \A x \in T : T \ {x} \in G
      PROVE  T \in G
  <2>1. PICK x \in T : run[T] = Retire(run[T \ {x}], x)  BY <1>1, <1>3
  <2>2. Dropped(c, run[T \ {x}]) /\ Cached(run[T \ {x}]) = Cached(c) \ (T \ {x})
    BY <1>3
  <2>3. Arena(run[T \ {x}])  BY <2>2 DEF Dropped
  <2>4. Dropped(run[T \ {x}], run[T]) /\ Cached(run[T]) = Cached(run[T \ {x}]) \ {x}
    BY <2>1, <2>3, Retired
  <2>5. Dropped(c, run[T])  BY <2>2, <2>4, DroppedTwice
  <2>. QED  BY <2>2, <2>4, <2>5
<1>4. S \in G
  <2>1. G \in SUBSET (SUBSET S)  OBVIOUS
  <2>2. \A T \in SUBSET S : T # {} /\ (\A x \in T : T \ {x} \in G) => T \in G  BY <1>3
  <2>. HIDE DEF G
  <2>. QED  BY <1>2, <2>1, <2>2, SubsetsReached
<1>. QED  BY <1>1, <1>4

-----------------------------------------------------------------------------
(* What may have been retired under some roots, and what is left there:    *)
(* nothing that is active.                                                  *)
Resynced(s, c, d, roots) ==
    /\ Dropped(c, d)
    /\ \A p \in Cached(c) : p \notin Cached(d) => \E r \in roots : IsPrefix(r, p)
    /\ \A p \in Cached(d), r \in roots : IsPrefix(r, p) => ~s[p].active

LEMMA RootResynced ==
    ASSUME NEW s, NEW c, Arena(c), NEW root
    PROVE  Resynced(s, c, RetireResynced(s, c, root), {root})
<1>d. PICK d : d = RetireResynced(s, c, root)  OBVIOUS
<1>1. Cached(c) \subseteq Prims  BY ArenaFacts
<1>2. /\ IsFiniteSet(Below(root, Cached(c)))
      /\ IsFiniteSet(Below(root, Active(s)))
  <2>1. Below(root, Cached(c)) \subseteq Prims  BY <1>1 DEF Below
  <2>2. Below(root, Active(s)) \subseteq Prims  BY DEF Below, Active
  <2>. QED  BY <2>1, <2>2, FS_Subset, PrimsAssumption
<1>3. \/ d = RetireAll(c, Below(root, Cached(c)))
      \/ d = RetireAll(c, Below(root, Active(s)))
  BY <1>d, Zenon DEF RetireResynced
<1>4. CASE d = RetireAll(c, Below(root, Cached(c)))
  <2>1. Dropped(c, d) /\ Cached(d) = Cached(c) \ Below(root, Cached(c))
    BY <1>2, <1>4, AllRetired
  <2>. QED  BY <1>d, <2>1 DEF Resynced, Below
<1>5. CASE d = RetireAll(c, Below(root, Active(s)))
  <2>1. Dropped(c, d) /\ Cached(d) = Cached(c) \ Below(root, Active(s))
    BY <1>2, <1>5, AllRetired
  <2>2. Cached(d) \subseteq Prims  BY <1>1, <2>1
  <2>. QED  BY <1>d, <2>1, <2>2 DEF Resynced, Below, Active
<1>. QED  BY <1>3, <1>4, <1>5

LEMMA ResyncedMore ==
    ASSUME NEW s, NEW c, NEW d, NEW e, NEW R, NEW S, Resynced(s, c, d, R), Resynced(s, d, e, S)
    PROVE  Resynced(s, c, e, R \cup S)
<1>1. Dropped(c, e)  BY DroppedTwice DEF Resynced
<1>2. Cached(e) \subseteq Cached(d)  BY DEF Resynced, Dropped
<1>. QED  BY <1>1, <1>2 DEF Resynced

LEMMA AllResynced ==
    ASSUME NEW s, NEW c, Arena(c), NEW S, IsFiniteSet(S)
    PROVE  Resynced(s, c, RetireAllResynced(s, c, S), S)
<1>r. PICK run : RetiresResynced(run, s, c, S)  BY RetiresResyncedExists
<1>1. /\ run[{}] = c
      /\ \A T \in SUBSET S :
             T # {} => \E x \in T : run[T] = RetireResynced(s, run[T \ {x}], x)
      /\ RetireAllResynced(s, c, S) = run[S]
  BY <1>r DEF RetiresResynced
<1>. DEFINE G == {T \in SUBSET S : Resynced(s, c, run[T], T)}
<1>2. {} \in G
  <2>1. Dropped(c, c)  BY NothingDropped
  <2>. QED  BY <1>1, <2>1 DEF Resynced
<1>3. ASSUME NEW T \in SUBSET S, T # {}, \A x \in T : T \ {x} \in G
      PROVE  T \in G
  <2>1. PICK x \in T : run[T] = RetireResynced(s, run[T \ {x}], x)  BY <1>1, <1>3
  <2>2. Resynced(s, c, run[T \ {x}], T \ {x})  BY <1>3
  <2>3. Arena(run[T \ {x}])  BY <2>2 DEF Resynced, Dropped
  <2>4. Resynced(s, run[T \ {x}], run[T], {x})  BY <2>1, <2>3, RootResynced
  <2>5. Resynced(s, c, run[T], (T \ {x}) \cup {x})  BY <2>2, <2>4, ResyncedMore
  <2>6. (T \ {x}) \cup {x} = T  OBVIOUS
  <2>. QED  BY <2>5, <2>6
<1>4. S \in G
  <2>1. G \in SUBSET (SUBSET S)  OBVIOUS
  <2>2. \A T \in SUBSET S : T # {} /\ (\A x \in T : T \ {x} \in G) => T \in G  BY <1>3
  <2>. HIDE DEF G
  <2>. QED  BY <1>2, <2>1, <2>2, SubsetsReached
<1>. QED  BY <1>1, <1>4

LEMMA RetirementFinished ==
    ASSUME NEW c, Arena(c)
    PROVE  /\ Dropped(c, FinishRetirement(c))
           /\ Cached(FinishRetirement(c)) = Cached(c)
<1>d. PICK d : d = FinishRetirement(c)  OBVIOUS
<1>1. CASE Cached(c) # {}
  <2>1. d = c  BY <1>1, <1>d DEF FinishRetirement
  <2>. QED  BY <1>d, <2>1, NothingDropped
<1>2. CASE Cached(c) = {}
  <2>1. d = [c EXCEPT !.nodes = <<>>, !.free = <<>>]  BY <1>2, <1>d DEF FinishRetirement
  <2>2. IsCache(c)  BY ArenaFacts
  <2>3. /\ IsCache(d) /\ d.entries = c.entries /\ d.nodes = <<>> /\ d.free = <<>>
        /\ d.time = c.time /\ d.epoch = c.epoch /\ d.timeStamp = c.timeStamp
    BY <2>1, <2>2 DEF IsCache
  <2>4. Cached(d) = {} /\ Len(d.nodes) = 0 /\ DOMAIN d.entries = {}
    BY <1>2, <2>3 DEF Cached
  <2>5. IsSeq(d.nodes)
    <3>1. <<>> \in Seq(Nat)  OBVIOUS
    <3>. QED  BY <2>3, <3>1, SeqIs
  <2>6. Nodes(d)
    <3>1. \A i \in 1..Len(d.nodes) : FALSE  BY <2>4
    <3>. QED  BY <2>4, <2>5, <3>1 DEF Nodes
  <2>7. Slots(d.entries, d.free, Len(d.nodes))
    <3>1. Slots(<<>>, <<>>, 0)  BY SlotsOfNothing
    <3>2. \A k \in 1..0 : FALSE  OBVIOUS
    <3>3. <<>> \in Seq(1..0)  OBVIOUS
    <3>. QED  BY <2>3, <2>4, <3>2, <3>3 DEF Slots
  <2>8. Arena(d)
    <3>1. c.epoch \in 0..MaxEpoch /\ c.timeStamp \in 0..c.epoch  BY DEF Arena
    <3>. QED  BY <2>3, <2>6, <2>7, <3>1 DEF Arena
  <2>. QED  BY <1>2, <1>d, <2>3, <2>4, <2>8 DEF Dropped, SameClock
<1>. QED  BY <1>1, <1>2

-----------------------------------------------------------------------------
(* A cache that gave up prims and what it held of others.                   *)
Struck(n, epoch) ==
    /\ n.recipe = NoRecipe /\ n.local = NoLocal /\ n.worldValid = FALSE
    /\ n.dependency = "Unknown" /\ n.localStamp > epoch

NodeAged(n, m, epoch) == m = n \/ (m.parent = n.parent /\ Struck(m, epoch))

(* Once it was cleared nothing is cached, and nothing else is known.        *)
Aged(c, d) ==
    /\ Arena(d) /\ d.time = c.time
    /\ Cached(d) # {} =>
          /\ d.timeStamp = c.timeStamp /\ d.epoch >= c.epoch
          /\ Cached(d) \subseteq Cached(c)
          /\ \A p \in Cached(d) : /\ d.entries[p] = c.entries[p]
                                  /\ NodeAged(NodeOf(c, p), NodeOf(d, p), c.epoch)

LEMMA DroppedIsAged ==
    ASSUME NEW c, Arena(c), NEW d, Dropped(c, d)
    PROVE  Aged(c, d)
<1>1. c.epoch \in Nat  BY ArenaFacts
<1>. QED  BY <1>1 DEF Aged, Dropped, SameClock, NodeAged

LEMMA AgedTwice ==
    ASSUME NEW c, Arena(c), NEW d, NEW e, Aged(c, d), Aged(d, e)
    PROVE  Aged(c, e)
<1>1. c.epoch \in Nat /\ d.epoch \in Nat /\ e.epoch \in Nat  BY ArenaFacts DEF Aged
<1>2. Arena(e) /\ e.time = c.time  BY DEF Aged
<1>. SUFFICES ASSUME Cached(e) # {}
              PROVE  /\ e.timeStamp = c.timeStamp /\ e.epoch >= c.epoch
                     /\ Cached(e) \subseteq Cached(c)
                     /\ \A p \in Cached(e) :
                            /\ e.entries[p] = c.entries[p]
                            /\ NodeAged(NodeOf(c, p), NodeOf(e, p), c.epoch)
  BY <1>2 DEF Aged
<1>3. /\ e.timeStamp = d.timeStamp /\ e.epoch >= d.epoch /\ Cached(e) \subseteq Cached(d)
      /\ \A p \in Cached(e) : /\ e.entries[p] = d.entries[p]
                              /\ NodeAged(NodeOf(d, p), NodeOf(e, p), d.epoch)
  BY DEF Aged
<1>4. /\ d.timeStamp = c.timeStamp /\ d.epoch >= c.epoch /\ Cached(d) \subseteq Cached(c)
      /\ \A p \in Cached(d) : /\ d.entries[p] = c.entries[p]
                              /\ NodeAged(NodeOf(c, p), NodeOf(d, p), c.epoch)
  BY <1>3 DEF Aged
<1>5. ASSUME NEW p \in Cached(e)
      PROVE  NodeAged(NodeOf(c, p), NodeOf(e, p), c.epoch)
  <2>1. p \in Cached(d) /\ NodeOf(e, p).localStamp \in Nat  BY <1>2, <1>3, <1>5, StampsAreNat
  <2>2. NodeAged(NodeOf(c, p), NodeOf(d, p), c.epoch)  BY <1>4, <2>1
  <2>3. NodeAged(NodeOf(d, p), NodeOf(e, p), d.epoch)  BY <1>3, <1>5
  <2>. QED  BY <1>1, <1>4, <2>1, <2>2, <2>3 DEF NodeAged, Struck
<1>. QED  BY <1>1, <1>3, <1>4, <1>5

(* What was given up stays so.                                              *)
LEMMA StruckStays ==
    ASSUME NEW c, NEW d, NEW e, Arena(c), Arena(d), Aged(c, d), Aged(d, e),
           NEW p \in Cached(e), Struck(NodeOf(d, p), c.epoch)
    PROVE  Struck(NodeOf(e, p), c.epoch)
<1>1. /\ c.epoch \in Nat /\ d.epoch \in Nat /\ NodeOf(e, p).localStamp \in Nat
      /\ d.epoch >= c.epoch /\ NodeAged(NodeOf(d, p), NodeOf(e, p), d.epoch)
  <2>1. Arena(e) /\ NodeAged(NodeOf(d, p), NodeOf(e, p), d.epoch) /\ p \in Cached(d)
    BY DEF Aged
  <2>2. d.epoch >= c.epoch  BY <2>1 DEF Aged
  <2>. QED  BY <2>1, <2>2, ArenaFacts, StampsAreNat
<1>. QED  BY <1>1 DEF NodeAged, Struck

(* invalidate_transform                                                     *)
Forgotten(n, epoch) ==
    [n EXCEPT !.recipe = NoRecipe, !.local = NoLocal, !.worldValid = FALSE,
              !.localStamp = epoch, !.dependency = "Unknown"]

LEMMA ForgottenIs ==
    ASSUME NEW n, IsNode(n), NEW e \in Nat, Stamped(n, e)
    PROVE  LET m == Forgotten(n, e + 1)
           IN  /\ IsNode(m) /\ Stamped(m, e + 1) /\ m.path = n.path /\ m.parent = n.parent
               /\ Struck(m, e)
<1>m. PICK m : m = Forgotten(n, e + 1)  OBVIOUS
<1>1. /\ IsNode(m) /\ m.path = n.path /\ m.parent = n.parent
      /\ m.localStamp = e + 1 /\ m.worldStamp = n.worldStamp /\ m.validated = n.validated
  BY <1>m DEF Forgotten, IsNode
<1>2. m.recipe = NoRecipe /\ m.local = NoLocal /\ m.dependency = "Unknown"
  BY <1>m DEF Forgotten, IsNode
<1>3. m.worldValid = FALSE  BY <1>m DEF Forgotten, IsNode
<1>4. Stamped(m, e + 1)  BY <1>1 DEF Stamped
<1>5. Struck(m, e)
  <2>1. e + 1 > e  OBVIOUS
  <2>. QED  BY <1>1, <1>2, <1>3, <2>1 DEF Struck
<1>. QED  BY <1>m, <1>1, <1>4, <1>5

Ticked(c) == [c EXCEPT !.epoch = @ + 1]

LEMMA TickedIs ==
    ASSUME NEW c, Arena(c), c.epoch # MaxEpoch
    PROVE  LET d == Ticked(c)
           IN  /\ Arena(d) /\ d.epoch = c.epoch + 1 /\ d.time = c.time
               /\ d.timeStamp = c.timeStamp /\ d.entries = c.entries /\ d.nodes = c.nodes
<1>d. PICK d : d = Ticked(c)  OBVIOUS
<1>1. /\ IsCache(c) /\ c.epoch \in 0..MaxEpoch /\ c.timeStamp \in 0..c.epoch
      /\ MaxEpoch \in Nat
  BY ArenaFacts, EpochAssumption DEF Arena
<1>2. /\ IsCache(d) /\ d.epoch = c.epoch + 1 /\ d.time = c.time
      /\ d.timeStamp = c.timeStamp /\ d.entries = c.entries /\ d.nodes = c.nodes
      /\ d.free = c.free
  BY <1>d, <1>1 DEF Ticked, IsCache
<1>3. \A n : Stamped(n, c.epoch) => Stamped(n, d.epoch)  BY <1>1, <1>2 DEF Stamped
<1>4. Nodes(d)
  <2>1. Nodes(c)  BY DEF Arena
  <2>. QED  BY <1>2, <1>3, <2>1 DEF Nodes, Cached, NodeOf
<1>5. d.epoch \in 0..MaxEpoch /\ d.timeStamp \in 0..d.epoch  BY <1>1, <1>2
<1>6. Arena(d)  BY <1>2, <1>4, <1>5 DEF Arena
<1>. QED  BY <1>d, <1>2, <1>6

LEMMA Invalidated ==
    ASSUME NEW c, Arena(c), NEW p
    PROVE  LET d == InvalidateTransform(c, p)
           IN  /\ Aged(c, d) /\ (Cached(d) # {} => Cached(d) = Cached(c))
               /\ p \in Cached(d) => Struck(NodeOf(d, p), c.epoch)
<1>d. PICK d : d = InvalidateTransform(c, p)  OBVIOUS
<1>0. c.epoch \in Nat /\ MaxEpoch \in Nat \ {0}  BY ArenaFacts, EpochAssumption
<1>1. CASE c.epoch = MaxEpoch
  <2>b. PICK b : b = ClearCache(c)  OBVIOUS
  <2>1. Arena(b) /\ Cached(b) = {} /\ b.time = c.time /\ b.epoch = 0
    BY <2>b, Cleared
  <2>2. d = Ticked(b)  BY <1>1, <1>d, <2>b, <2>1 DEF InvalidateTransform, Ticked, Cached, ClearCache
  <2>3. Arena(d) /\ d.time = c.time /\ d.entries = b.entries
    BY <1>0, <2>1, <2>2, TickedIs
  <2>4. Cached(d) = {}  BY <2>1, <2>3 DEF Cached
  <2>. QED  BY <1>d, <2>3, <2>4 DEF Aged
<1>2. CASE c.epoch # MaxEpoch
  <2>b. PICK b : b = Ticked(c)  OBVIOUS
  <2>1. /\ Arena(b) /\ b.epoch = c.epoch + 1 /\ b.time = c.time
        /\ b.timeStamp = c.timeStamp /\ b.entries = c.entries /\ b.nodes = c.nodes
    BY <1>2, <2>b, TickedIs
  <2>2. Cached(b) = Cached(c) /\ \A q : NodeOf(b, q) = NodeOf(c, q)
    BY <2>1 DEF Cached, NodeOf
  <2>3. CASE p \notin Cached(c)
    <3>1. d = b  BY <1>2, <1>d, <2>b, <2>2, <2>3 DEF InvalidateTransform, Ticked
    <3>2. Aged(c, b)  BY <1>0, <2>1, <2>2 DEF Aged, NodeAged
    <3>. QED  BY <1>d, <2>2, <2>3, <3>1, <3>2
  <2>4. CASE p \in Cached(c)
    <3>n. PICK m : m = Forgotten(NodeOf(b, p), b.epoch)  OBVIOUS
    <3>1. d = Put(b, p, m)
      <4>1. d = [b EXCEPT !.nodes[b.entries[p]] = Forgotten(@, b.epoch)]
        BY <1>2, <1>d, <2>b, <2>2, <2>4 DEF InvalidateTransform, Ticked, Forgotten
      <4>. QED  BY <3>n, <4>1 DEF Put, NodeOf
    <3>2. IsNode(NodeOf(c, p)) /\ Stamped(NodeOf(c, p), c.epoch) /\ NodeOf(c, p).path = p
      BY <2>4, ArenaFacts
    <3>3. /\ IsNode(m) /\ Stamped(m, b.epoch) /\ m.path = p
          /\ m.parent = NodeOf(c, p).parent /\ Struck(m, c.epoch)
      BY <1>0, <2>1, <2>2, <3>n, <3>2, ForgottenIs
    <3>4. Arena(d) /\ OneNode(b, d, p) /\ NodeOf(d, p) = m
      BY <2>1, <2>2, <2>4, <3>1, <3>3, NodePut
    <3>5. Cached(d) = Cached(c)  BY <2>2, <3>4 DEF OneNode, Cached
    <3>6. \A q \in Cached(d) : /\ d.entries[q] = c.entries[q]
                               /\ NodeAged(NodeOf(c, q), NodeOf(d, q), c.epoch)
      BY <2>1, <2>2, <3>3, <3>4, <3>5 DEF OneNode, NodeAged
    <3>7. d.time = c.time /\ d.timeStamp = c.timeStamp /\ d.epoch >= c.epoch
      BY <1>0, <2>1, <3>4 DEF OneNode
    <3>8. Aged(c, d)  BY <3>4, <3>5, <3>6, <3>7 DEF Aged
    <3>. QED  BY <1>d, <3>3, <3>4, <3>5, <3>8
  <2>. QED  BY <2>3, <2>4
<1>. QED  BY <1>1, <1>2

LEMMA AgedOnItself ==
    ASSUME NEW c, Arena(c)
    PROVE  Aged(c, c)
BY NothingDropped, DroppedIsAged

LEMMA AllInvalidated ==
    ASSUME NEW c, Arena(c), NEW S, IsFiniteSet(S)
    PROVE  LET d == InvalidateAll(c, S)
           IN  /\ Aged(c, d) /\ (Cached(d) # {} => Cached(d) = Cached(c))
               /\ \A p \in Cached(d) \cap S : Struck(NodeOf(d, p), c.epoch)
<1>r. PICK run : Invalidates(run, c, S)  BY InvalidatesExists
<1>1. /\ run[{}] = c
      /\ \A T \in SUBSET S :
             T # {} => \E x \in T : run[T] = InvalidateTransform(run[T \ {x}], x)
      /\ InvalidateAll(c, S) = run[S]
  BY <1>r DEF Invalidates
<1>. DEFINE G == {T \in SUBSET S :
                    /\ Aged(c, run[T]) /\ (Cached(run[T]) # {} => Cached(run[T]) = Cached(c))
                    /\ \A p \in Cached(run[T]) \cap T : Struck(NodeOf(run[T], p), c.epoch)}
<1>2. {} \in G  BY <1>1, AgedOnItself
<1>3. ASSUME NEW T \in SUBSET S, T # {}, \A x \in T : T \ {x} \in G
      PROVE  T \in G
  <2>1. PICK x \in T : run[T] = InvalidateTransform(run[T \ {x}], x)  BY <1>1, <1>3
  <2>d. PICK d : d = run[T \ {x}]  OBVIOUS
  <2>e. PICK e : e = run[T]  OBVIOUS
  <2>2. /\ Aged(c, d) /\ (Cached(d) # {} => Cached(d) = Cached(c))
        /\ \A p \in Cached(d) \cap (T \ {x}) : Struck(NodeOf(d, p), c.epoch)
    BY <1>3, <2>d
  <2>3. Arena(d)  BY <2>2 DEF Aged
  <2>4. /\ Aged(d, e) /\ (Cached(e) # {} => Cached(e) = Cached(d))
        /\ x \in Cached(e) => Struck(NodeOf(e, x), d.epoch)
    BY <2>1, <2>3, <2>d, <2>e, Invalidated
  <2>5. Aged(c, e)  BY <2>2, <2>4, AgedTwice
  <2>6. Cached(e) # {} => Cached(e) = Cached(c)  BY <2>2, <2>4
  <2>7. ASSUME NEW p \in Cached(e) \cap T  PROVE Struck(NodeOf(e, p), c.epoch)
    <3>1. p \in Cached(e) /\ p \in Cached(d) /\ Arena(e)  BY <2>4, <2>7 DEF Aged
    <3>2. CASE p = x
      <4>1. c.epoch \in Nat /\ d.epoch \in Nat /\ d.epoch >= c.epoch
            /\ NodeOf(e, p).localStamp \in Nat
        BY <2>2, <2>3, <3>1, ArenaFacts, StampsAreNat DEF Aged
      <4>2. Struck(NodeOf(e, p), d.epoch)  BY <2>4, <3>1, <3>2
      <4>. QED  BY <4>1, <4>2 DEF Struck
    <3>3. CASE p # x
      <4>1. Struck(NodeOf(d, p), c.epoch)  BY <2>2, <2>7, <3>1, <3>3
      <4>. QED  BY <2>2, <2>3, <2>4, <3>1, <4>1, StruckStays
    <3>. QED  BY <3>2, <3>3
  <2>. QED  BY <2>e, <2>5, <2>6, <2>7
<1>4. S \in G
  <2>1. G \in SUBSET (SUBSET S)  OBVIOUS
  <2>2. \A T \in SUBSET S : T # {} /\ (\A x \in T : T \ {x} \in G) => T \in G  BY <1>3
  <2>. HIDE DEF G
  <2>. QED  BY <1>2, <2>1, <2>2, SubsetsReached
<1>. QED  BY <1>1, <1>4

-----------------------------------------------------------------------------
(* A cache that was right in one scene is right in another when what it     *)
(* still holds of active prims has not changed between them: none below one *)
(* it gave up is cached, none has become active, and what it did not give   *)
(* up of one is as it was.                                                  *)
Fits(c, d, g, s) ==
    /\ Aged(c, d)
    /\ Cached(d) # {} =>
          /\ \A q \in Cached(c), p \in Cached(d) :
                 s[p].active /\ IsPrefix(q, p) => q \in Cached(d)
          /\ \A p \in Cached(d) : s[p] # Gone
          /\ \A p \in Cached(d) : s[p].active =>
                 g[p].active /\ (Struck(NodeOf(d, p), c.epoch) \/ s[p] = g[p])

Untouched(c, d, p) == NodeOf(d, p) = NodeOf(c, p)

LEMMA FitsFacts ==
    ASSUME NEW c, NEW d, NEW g, NEW s, IsScene(s), CacheOK(c, g), Fits(c, d, g, s),
           NEW p \in Cached(d), s[p].active
    PROVE  /\ Arena(c) /\ Arena(d) /\ d.time = c.time /\ d.timeStamp = c.timeStamp
           /\ c.epoch \in Nat /\ d.epoch \in Nat /\ d.epoch >= c.epoch /\ p \in Prims
           /\ p \in Cached(c) /\ s[p] # Gone /\ Cached(d) \subseteq Cached(c)
           /\ g[p].active /\ IsPrefix(p, p)
           /\ \A q \in Cached(d) : d.entries[q] = c.entries[q]
           /\ \A q \in Cached(d) : IsPrefix(q, p) =>
                  \/ Untouched(c, d, q) /\ s[q] = g[q]
                  \/ Struck(NodeOf(d, q), c.epoch) /\ NodeOf(d, q).parent = NodeOf(c, q).parent
           /\ \A q \in Cached(c) : IsPrefix(q, p) => q \in Cached(d)
<1>1. Arena(c) /\ Arena(d) /\ d.time = c.time  BY DEF CacheOK, Fits, Aged
<1>2. /\ d.timeStamp = c.timeStamp /\ d.epoch >= c.epoch /\ Cached(d) \subseteq Cached(c)
      /\ \A q \in Cached(d) : /\ d.entries[q] = c.entries[q]
                              /\ NodeAged(NodeOf(c, q), NodeOf(d, q), c.epoch)
  BY DEF Fits, Aged
<1>3. c.epoch \in Nat /\ d.epoch \in Nat /\ p \in Prims  BY <1>1, ArenaFacts
<1>4. /\ s[p] # Gone /\ g[p].active
      /\ \A q \in Cached(d) : s[q].active => Struck(NodeOf(d, q), c.epoch) \/ s[q] = g[q]
      /\ \A q \in Cached(c) : IsPrefix(q, p) => q \in Cached(d)
  BY DEF Fits
<1>5. IsPrefix(p, p)  BY <1>3, ChainFacts
<1>6. ASSUME NEW q \in Cached(d), IsPrefix(q, p)
      PROVE  \/ Untouched(c, d, q) /\ s[q] = g[q]
             \/ Struck(NodeOf(d, q), c.epoch) /\ NodeOf(d, q).parent = NodeOf(c, q).parent
  <2>1. NodeAged(NodeOf(c, q), NodeOf(d, q), c.epoch)  BY <1>2, <1>6
  <2>2. NodeOf(c, q).localStamp \in Nat /\ NodeOf(c, q).localStamp <= c.epoch
    BY <1>1, <1>2, <1>6, StampsAreNat
  <2>3. ~Struck(NodeOf(c, q), c.epoch)  BY <1>3, <2>2 DEF Struck
  <2>4. s[q].active
    <3>1. q \in Prims  BY <1>1, ArenaFacts
    <3>. QED  BY <1>3, <1>6, <3>1, ChainIsActive
  <2>. QED  BY <1>4, <1>6, <2>1, <2>3, <2>4 DEF NodeAged, Untouched
<1>. QED  BY <1>1, <1>2, <1>3, <1>4, <1>5, <1>6

LEMMA FitsLocal ==
    ASSUME NEW c, NEW d, NEW g, NEW s, IsScene(s), CacheOK(c, g), Fits(c, d, g, s),
           NEW p \in Cached(d), s[p].active
    PROVE  LocalOK(d, s, p)
<1>1. /\ d.time = c.time /\ d.timeStamp = c.timeStamp /\ p \in Cached(c) /\ s[p] # Gone
      /\ g[p].active
      /\ \/ Untouched(c, d, p) /\ s[p] = g[p]
         \/ Struck(NodeOf(d, p), c.epoch)
  BY FitsFacts
<1>2. CASE Untouched(c, d, p) /\ s[p] = g[p]
  <2>1. LocalOK(c, g, p)  BY <1>1 DEF CacheOK
  <2>2. Recipe(s, p) = Recipe(g, p)  BY <1>2 DEF Recipe
  <2>3. Stale(d, s, p) <=> Stale(c, g, p)
    BY <1>1, <1>2 DEF Stale, Local, Untouched
  <2>4. Late(d, p) <=> Late(c, p)  BY <1>1, <1>2 DEF Late, Outdated, Untouched
  <2>. QED  BY <1>1, <1>2, <2>1, <2>2, <2>3, <2>4 DEF LocalOK, Untouched
<1>3. CASE Struck(NodeOf(d, p), c.epoch)
  <2>1. NodeOf(d, p).local.held = FALSE  BY <1>3 DEF Struck, NoLocal
  <2>. QED  BY <1>1, <1>3, <2>1 DEF LocalOK, Struck
<1>. QED  BY <1>1, <1>2, <1>3

LEMMA FitsLink ==
    ASSUME NEW c, NEW d, NEW g, NEW s, IsScene(s), CacheOK(c, g), Fits(c, d, g, s),
           NEW p \in Cached(d), s[p].active
    PROVE  Linked(d, p)
<1>1. /\ p \in Prims /\ p \in Cached(c) /\ \A q \in Cached(d) : d.entries[q] = c.entries[q]
      /\ \A q \in Cached(c) : IsPrefix(q, p) => q \in Cached(d)
      /\ NodeOf(d, p).parent = NodeOf(c, p).parent /\ g[p].active
  BY FitsFacts DEF Untouched
<1>2. Linked(c, p)  BY <1>1 DEF CacheOK
<1>3. CASE Len(p) > 1 /\ Front(p) \in Cached(c) /\ NodeOf(c, p).parent = c.entries[Front(p)]
  <2>1. IsPrefix(Front(p), p)  BY <1>1, <1>3, ParentIsPrefix
  <2>. QED  BY <1>1, <1>3, <2>1 DEF Linked
<1>. QED  BY <1>1, <1>2, <1>3 DEF Linked

(* The first prim on the way that was given up breaks the world.            *)
LEMMA FitsBroken ==
    ASSUME NEW c, NEW d, NEW g, NEW s, IsScene(s), CacheOK(c, g), Fits(c, d, g, s),
           NEW p \in Cached(d), s[p].active,
           NEW q \in Chain(g, p), NodeOf(d, q).localStamp > NodeOf(d, p).worldStamp,
           \A r \in Chain(g, p) : Len(r) >= Len(q) => r \in Cached(c),
           \A r \in Chain(g, p) : Len(r) > Len(q) => s[r] = g[r]
    PROVE  Broken(d, s, p)
<1>1. /\ p \in Prims /\ \A r \in Cached(c) : IsPrefix(r, p) => r \in Cached(d)
  BY FitsFacts
<1>2. /\ q \in Chain(s, p)
      /\ \A r \in Chain(s, p) : Len(r) >= Len(q) => r \in Chain(g, p)
  BY <1>1, ChainUpTo
<1>3. \A r \in Chain(g, p) : IsPrefix(r, p)  BY <1>1, ChainFacts
<1>4. \A r \in Chain(s, p) : Len(r) >= Len(q) => r \in Cached(d)
  BY <1>1, <1>2, <1>3
<1>5. q \in Cached(d)
  <2>1. q \in Prims  BY <1>1, ChainFacts
  <2>2. Len(q) >= Len(q)
    <3>1. Len(q) \in Nat  BY <2>1, PrimFacts
    <3>. QED  BY <3>1
  <2>. QED  BY <1>2, <1>4, <2>2
<1>. QED  BY <1>2, <1>4, <1>5 DEF Broken

LEMMA FitsWorld ==
    ASSUME NEW c, NEW d, NEW g, NEW s, IsScene(s), CacheOK(c, g), Fits(c, d, g, s),
           NEW p \in Cached(d), s[p].active, NodeOf(d, p).worldValid
    PROVE  Broken(d, s, p) \/ Sound(d, s, p)
<1>1. /\ Arena(c) /\ Arena(d) /\ d.time = c.time /\ d.timeStamp = c.timeStamp
      /\ c.epoch \in Nat /\ p \in Prims /\ p \in Cached(c)
      /\ g[p].active /\ IsPrefix(p, p)
      /\ \A q \in Cached(d) : IsPrefix(q, p) =>
             \/ (Untouched(c, d, q) /\ s[q] = g[q])
             \/ Struck(NodeOf(d, q), c.epoch)
      /\ \A q \in Cached(c) : IsPrefix(q, p) => q \in Cached(d)
  BY FitsFacts
<1>2. Untouched(c, d, p) /\ s[p] = g[p]  BY <1>1 DEF Struck
<1>n. PICK n : n = NodeOf(c, p)  OBVIOUS
<1>3. NodeOf(d, p) = n /\ n.worldValid  BY <1>2, <1>n DEF Untouched
<1>4. Broken(c, g, p) \/ Sound(c, g, p)  BY <1>1, <1>3, <1>n DEF CacheOK, WorldOK
<1>5. n.worldStamp \in Nat /\ n.worldStamp <= c.epoch  BY <1>1, <1>n, StampsAreNat
<1>6. \A q \in Chain(g, p) : IsPrefix(q, p) /\ q \in Prims /\ Len(q) \in Nat
  <2>1. \A q \in Chain(g, p) : IsPrefix(q, p) /\ q \in Prims  BY <1>1, ChainFacts
  <2>. QED  BY <2>1, PrimFacts
(* The way from which something breaks the world.                           *)
<1>. DEFINE S == {q \in Cached(d) : Struck(NodeOf(d, q), c.epoch)}
<1>7. ASSUME NEW b \in Chain(g, p), b \in S,
             \A r \in Chain(g, p) : Len(r) >= Len(b) => r \in Cached(c)
      PROVE  Broken(d, s, p)
  <2>1. PICK q \in Chain(g, p) : /\ q \in S
                                 /\ \A r \in Chain(g, p) : Len(r) > Len(q) => r \notin S
    <3>. HIDE DEF S
    <3>. QED  BY <1>1, <1>7, FirstOnChain
  <2>2. Len(q) >= Len(b)
    <3>1. ~(Len(b) > Len(q))  BY <1>7, <2>1
    <3>. QED  BY <1>6, <1>7, <3>1
  <2>3. \A r \in Chain(g, p) : Len(r) >= Len(q) => r \in Cached(c)
    <3>. TAKE r \in Chain(g, p)
    <3>. HAVE Len(r) >= Len(q)
    <3>1. Len(r) >= Len(b)  BY <1>6, <1>7, <2>2
    <3>. QED  BY <1>7, <3>1
  <2>4. \A r \in Chain(g, p) : Len(r) > Len(q) => s[r] = g[r]
    <3>. TAKE r \in Chain(g, p)
    <3>. HAVE Len(r) > Len(q)
    <3>1. Len(r) >= Len(q)  BY <1>6
    <3>2. r \in Cached(d) /\ r \notin S  BY <1>1, <1>6, <2>1, <2>3, <3>1
    <3>. QED  BY <1>1, <1>6, <3>2
  <2>5. NodeOf(d, q).localStamp > NodeOf(d, p).worldStamp
    <3>1. NodeOf(d, q).localStamp > c.epoch /\ NodeOf(d, q).localStamp \in Nat
      <4>1. q \in Cached(d)  BY <2>1
      <4>2. NodeOf(d, q).localStamp \in Nat  BY <1>1, <4>1, StampsAreNat
      <4>. QED  BY <2>1, <4>2 DEF Struck
    <3>. QED  BY <1>1, <1>3, <1>5, <3>1
  <2>. QED  BY <2>3, <2>4, <2>5, FitsBroken
<1>8. CASE Broken(c, g, p)
  <2>1. PICK q \in Chain(g, p) :
            /\ q \in Cached(c) /\ NodeOf(c, q).localStamp > n.worldStamp
            /\ \A r \in Chain(g, p) : Len(r) >= Len(q) => r \in Cached(c)
    BY <1>8, <1>n DEF Broken
  <2>2. CASE \E b \in Chain(g, p) : b \in S /\ Len(b) >= Len(q)
    <3>1. PICK b \in Chain(g, p) : b \in S /\ Len(b) >= Len(q)  BY <2>2
    <3>2. \A r \in Chain(g, p) : Len(r) >= Len(b) => r \in Cached(c)
      <4>. TAKE r \in Chain(g, p)
      <4>. HAVE Len(r) >= Len(b)
      <4>1. Len(r) >= Len(q)  BY <1>6, <2>1, <3>1
      <4>. QED  BY <2>1, <4>1
    <3>. QED  BY <1>7, <3>1, <3>2
  <2>3. CASE \A b \in Chain(g, p) : Len(b) >= Len(q) => b \notin S
    <3>1. \A r \in Chain(g, p) : Len(r) >= Len(q) => Untouched(c, d, r) /\ s[r] = g[r]
      BY <1>1, <1>6, <2>1, <2>3
    <3>2. Untouched(c, d, q) /\ \A r \in Chain(g, p) : Len(r) > Len(q) => s[r] = g[r]
      BY <1>6, <2>1, <3>1
    <3>3. NodeOf(d, q).localStamp > NodeOf(d, p).worldStamp
      BY <1>3, <2>1, <3>2 DEF Untouched
    <3>. QED  BY <2>1, <3>2, <3>3, FitsBroken
  <2>. QED  BY <2>2, <2>3
<1>9. CASE Sound(c, g, p)
  <2>1. /\ \A q \in Chain(g, p) : Passed(c, g, q, n.worldStamp)
        /\ n.worldVaries = Varies(g, p) /\ n.world = Product(c, g, p)
        /\ (\E q \in Chain(g, p) : Stale(c, g, q)) => n.worldStamp < c.timeStamp
    BY <1>9, <1>n DEF Sound
  <2>2. \A q \in Chain(g, p) : q \in Cached(c) /\ q \in Cached(d)
    BY <1>1, <1>6, <2>1 DEF Passed
  <2>3. CASE \E b \in Chain(g, p) : b \in S
    BY <1>7, <2>2, <2>3
  <2>4. CASE \A b \in Chain(g, p) : b \notin S
    <3>1. \A q \in Chain(g, p) : Untouched(c, d, q) /\ s[q] = g[q]
      BY <1>1, <1>6, <2>2, <2>4
    <3>2. Height(s, p) = Height(g, p) /\ Chain(s, p) = Chain(g, p) /\ Varies(s, p) = Varies(g, p)
      BY <1>1, <3>1, SameChain
    <3>3. \A q \in Chain(g, p) : Passed(d, s, q, n.worldStamp)
      BY <2>1, <2>2, <3>1 DEF Passed, Untouched
    <3>4. Product(d, s, p) = Product(c, g, p)
      <4>1. Product(d, g, p) = Product(c, g, p)
        <5>1. \A q \in Chain(g, p) : NodeOf(d, q).local.matrix = NodeOf(c, q).local.matrix
          BY <3>1 DEF Untouched
        <5>. QED  BY <5>1, SameProduct
      <4>. QED  BY <3>2, <4>1 DEF Product
    <3>5. \A q \in Chain(g, p) : Stale(d, s, q) <=> Stale(c, g, q)
      BY <1>1, <3>1 DEF Stale, Local, Untouched
    <3>. QED  BY <1>1, <1>3, <2>1, <3>2, <3>3, <3>4, <3>5 DEF Sound
  <2>. QED  BY <2>3, <2>4
<1>. QED  BY <1>4, <1>8, <1>9

LEMMA FitsValid ==
    ASSUME NEW c, NEW d, NEW g, NEW s, IsScene(s), CacheOK(c, g), Fits(c, d, g, s),
           NEW p \in Cached(d), s[p].active, IsValid(d, NodeOf(d, p))
    PROVE  Valid(d, s, p)
<1>1. /\ Arena(c) /\ Arena(d) /\ d.time = c.time /\ d.timeStamp = c.timeStamp
      /\ c.epoch \in Nat /\ d.epoch \in Nat /\ d.epoch >= c.epoch
      /\ p \in Prims /\ p \in Cached(c)
      /\ g[p].active /\ IsPrefix(p, p)
      /\ \A q \in Cached(d) : IsPrefix(q, p) =>
             \/ (Untouched(c, d, q) /\ s[q] = g[q])
             \/ Struck(NodeOf(d, q), c.epoch)
      /\ \A q \in Cached(c) : IsPrefix(q, p) => q \in Cached(d)
  BY FitsFacts
<1>n. PICK n : n = NodeOf(c, p)  OBVIOUS
<1>2. Untouched(c, d, p)  BY <1>1 DEF Struck, IsValid
<1>3. n.validated = d.epoch /\ n.worldValid  BY <1>2, <1>n DEF Untouched, IsValid
<1>4. d.epoch = c.epoch
  <2>1. n.validated \in Nat /\ n.validated <= c.epoch  BY <1>1, <1>n, StampsAreNat
  <2>. QED  BY <1>1, <1>3, <2>1
<1>5. ASSUME NEW q \in Cached(d), IsPrefix(q, p)
      PROVE  Untouched(c, d, q) /\ s[q] = g[q]
  <2>1. NodeOf(d, q).localStamp \in Nat /\ NodeOf(d, q).localStamp <= d.epoch
    BY <1>1, StampsAreNat
  <2>2. ~Struck(NodeOf(d, q), c.epoch)  BY <1>1, <1>4, <2>1 DEF Struck
  <2>. QED  BY <1>1, <1>5, <2>2
<1>6. Valid(c, g, p)
  <2>1. IsValid(c, n)  BY <1>3, <1>4 DEF IsValid
  <2>. QED  BY <1>1, <1>n, <2>1 DEF CacheOK, WorldOK
<1>7. /\ \A q \in Chain(g, p) : Passed(c, g, q, n.worldStamp)
      /\ n.worldVaries = Varies(g, p) /\ n.world = Product(c, g, p)
      /\ \A q \in Chain(g, p) : ~Stale(c, g, q) /\ IsValid(c, NodeOf(c, q))
  BY <1>6, <1>n DEF Valid, Sound
<1>8. \A q \in Chain(g, p) : q \in Cached(d) /\ IsPrefix(q, p)
  <2>1. \A q \in Chain(g, p) : IsPrefix(q, p)  BY <1>1, ChainFacts
  <2>. QED  BY <1>1, <1>7, <2>1 DEF Passed
<1>9. \A q \in Chain(g, p) : Untouched(c, d, q) /\ s[q] = g[q]  BY <1>5, <1>8
<1>10. Height(s, p) = Height(g, p) /\ Chain(s, p) = Chain(g, p) /\ Varies(s, p) = Varies(g, p)
  BY <1>1, <1>9, SameChain
<1>11. \A q \in Chain(g, p) : Passed(d, s, q, n.worldStamp)
  BY <1>7, <1>8, <1>9 DEF Passed, Untouched
<1>12. Product(d, s, p) = Product(c, g, p)
  <2>1. \A q \in Chain(g, p) : NodeOf(d, q).local.matrix = NodeOf(c, q).local.matrix
    BY <1>9 DEF Untouched
  <2>2. Product(d, g, p) = Product(c, g, p)  BY <2>1, SameProduct
  <2>. QED  BY <1>10, <2>2 DEF Product
<1>13. \A q \in Chain(g, p) : ~Stale(d, s, q)
  BY <1>1, <1>7, <1>9 DEF Stale, Local, Untouched
<1>14. \A q \in Chain(g, p) : IsValid(d, NodeOf(d, q))
  BY <1>4, <1>7, <1>9 DEF IsValid, Untouched
<1>15. NodeOf(d, p) = n  BY <1>2, <1>n DEF Untouched
<1>16. Sound(d, s, p)  BY <1>7, <1>10, <1>11, <1>12, <1>13, <1>15 DEF Sound
<1>. QED  BY <1>10, <1>13, <1>14, <1>16 DEF Valid

LEMMA FitsOK ==
    ASSUME NEW c, NEW d, NEW g, NEW s, IsScene(s), CacheOK(c, g), Fits(c, d, g, s)
    PROVE  CacheOK(d, s)
<1>1. Arena(d)  BY DEF Fits, Aged
<1>2. ASSUME NEW p \in Cached(d), s[p].active
      PROVE  Linked(d, p) /\ LocalOK(d, s, p) /\ WorldOK(d, s, p)
  <2>1. Linked(d, p) /\ LocalOK(d, s, p)  BY <1>2, FitsLink, FitsLocal
  <2>2. WorldOK(d, s, p)  BY <1>2, FitsWorld, FitsValid DEF WorldOK
  <2>. QED  BY <2>1, <2>2
<1>3. \A p \in Cached(d) : s[p] # Gone  BY DEF Fits
<1>. QED  BY <1>1, <1>2, <1>3 DEF CacheOK

-----------------------------------------------------------------------------
(* What consuming reports makes of a cache.                                 *)
Reports ==
    [rev : Nat, bytes : {1}, resynced : SUBSET Prims, removed : SUBSET Prims,
     properties : SUBSET Prims]

Applied(s, c, d, U) ==
    /\ Aged(c, d)
    /\ Cached(d) # {} =>
          /\ \A p \in Cached(d), e \in U : p \notin e.removed
          /\ \A p \in Cached(d), e \in U : \A r \in e.resynced :
                 IsPrefix(r, p) => ~s[p].active
          /\ \A p \in Cached(d), e \in U : p \in e.properties => Struck(NodeOf(d, p), c.epoch)
          /\ \A p \in Cached(c) : p \notin Cached(d) =>
                 \E e \in U : p \in e.removed \/ \E r \in e.resynced : IsPrefix(r, p)

LEMMA NothingApplied ==
    ASSUME NEW s, NEW c, Arena(c)
    PROVE  Applied(s, c, c, {})
BY AgedOnItself DEF Applied

LEMMA AppliedMore ==
    ASSUME NEW s, NEW c, NEW d, NEW e, NEW U, NEW V, Arena(c),
           Applied(s, c, d, U), Applied(s, d, e, V)
    PROVE  Applied(s, c, e, U \cup V)
<1>1. Aged(c, d) /\ Aged(d, e) /\ Arena(d) /\ Arena(e)  BY DEF Applied, Aged
<1>2. Aged(c, e)  BY <1>1, AgedTwice
<1>3. CASE Cached(e) = {}  BY <1>2, <1>3 DEF Applied
<1>4. CASE Cached(e) # {}
  <2>1. Cached(e) \subseteq Cached(d) /\ Cached(d) # {}  BY <1>1, <1>4 DEF Aged
  <2>2. c.epoch \in Nat /\ d.epoch \in Nat /\ d.epoch >= c.epoch
    BY <1>1, <2>1, ArenaFacts DEF Aged
  <2>3. /\ \A p \in Cached(d), f \in U : p \notin f.removed
        /\ \A p \in Cached(d), f \in U : \A r \in f.resynced : IsPrefix(r, p) => ~s[p].active
        /\ \A p \in Cached(d), f \in U : p \in f.properties => Struck(NodeOf(d, p), c.epoch)
        /\ \A p \in Cached(c) : p \notin Cached(d) =>
               \E f \in U : p \in f.removed \/ \E r \in f.resynced : IsPrefix(r, p)
    BY <2>1 DEF Applied
  <2>4. /\ \A p \in Cached(e), f \in V : p \notin f.removed
        /\ \A p \in Cached(e), f \in V : \A r \in f.resynced : IsPrefix(r, p) => ~s[p].active
        /\ \A p \in Cached(e), f \in V : p \in f.properties => Struck(NodeOf(e, p), d.epoch)
        /\ \A p \in Cached(d) : p \notin Cached(e) =>
               \E f \in V : p \in f.removed \/ \E r \in f.resynced : IsPrefix(r, p)
    BY <1>4 DEF Applied
  <2>5. ASSUME NEW p \in Cached(e), NEW f \in U \cup V, p \in f.properties
        PROVE  Struck(NodeOf(e, p), c.epoch)
    <3>1. CASE f \in U
      <4>1. Struck(NodeOf(d, p), c.epoch)  BY <2>1, <2>3, <2>5, <3>1
      <4>. QED  BY <1>1, <4>1, StruckStays
    <3>2. CASE f \in V
      <4>1. Struck(NodeOf(e, p), d.epoch)  BY <2>4, <2>5, <3>2
      <4>2. NodeOf(e, p).localStamp \in Nat  BY <1>1, StampsAreNat
      <4>. QED  BY <2>2, <4>1, <4>2 DEF Struck
    <3>. QED  BY <2>5, <3>1, <3>2
  <2>6. \A p \in Cached(c) : p \notin Cached(e) =>
            \E f \in U \cup V : p \in f.removed \/ \E r \in f.resynced : IsPrefix(r, p)
    BY <2>3, <2>4
  <2>7. \A p \in Cached(e), f \in U \cup V : p \notin f.removed  BY <2>1, <2>3, <2>4
  <2>8. \A p \in Cached(e), f \in U \cup V : \A r \in f.resynced : IsPrefix(r, p) => ~s[p].active
    BY <2>1, <2>3, <2>4
  <2>. QED  BY <1>2, <2>5, <2>6, <2>7, <2>8 DEF Applied
<1>. QED  BY <1>3, <1>4

(* apply_changes, of one report                                             *)
LEMMA ChangesApplied ==
    ASSUME NEW s, NEW c, Arena(c), NEW e \in Reports
    PROVE  Applied(s, c, ApplyChanges(s, c, e), {e})
<1>1. IsFiniteSet(e.removed) /\ IsFiniteSet(e.resynced) /\ IsFiniteSet(e.properties)
  BY PrimsAssumption, FS_Subset DEF Reports
<1>0. e.resynced \subseteq Prims  BY DEF Reports
<1>a. PICK a : a = RetireAll(c, e.removed)  OBVIOUS
<1>b. PICK b : b = RetireAllResynced(s, a, e.resynced)  OBVIOUS
<1>f. PICK f : f = FinishRetirement(b)  OBVIOUS
<1>d. PICK d : d = InvalidateAll(f, e.properties)  OBVIOUS
<1>2. d = ApplyChanges(s, c, e)  BY <1>a, <1>b, <1>f, <1>d DEF ApplyChanges
<1>3. Dropped(c, a) /\ Cached(a) = Cached(c) \ e.removed /\ Arena(a)
  <2>1. Dropped(c, a) /\ Cached(a) = Cached(c) \ e.removed  BY <1>1, <1>a, AllRetired
  <2>. QED  BY <2>1 DEF Dropped
<1>4. Resynced(s, a, b, e.resynced) /\ Arena(b)
  <2>1. Resynced(s, a, b, e.resynced)  BY <1>1, <1>3, <1>b, AllResynced
  <2>. QED  BY <2>1 DEF Resynced, Dropped
<1>5. Dropped(b, f) /\ Cached(f) = Cached(b) /\ Arena(f)
  <2>1. Dropped(b, f) /\ Cached(f) = Cached(b)  BY <1>4, <1>f, RetirementFinished
  <2>. QED  BY <2>1 DEF Dropped
<1>6. Dropped(c, f)
  <2>1. Dropped(a, b)  BY <1>4 DEF Resynced
  <2>2. Dropped(c, b)  BY <1>3, <2>1, DroppedTwice
  <2>. QED  BY <1>5, <2>2, DroppedTwice
<1>7. /\ Aged(f, d) /\ (Cached(d) # {} => Cached(d) = Cached(f))
      /\ \A p \in Cached(d) \cap e.properties : Struck(NodeOf(d, p), f.epoch)
  BY <1>1, <1>5, <1>d, AllInvalidated
<1>8. Aged(c, d)
  <2>1. Aged(c, f)  BY <1>6, DroppedIsAged
  <2>. QED  BY <1>7, <2>1, AgedTwice
<1>9. f.epoch = c.epoch  BY <1>6 DEF Dropped, SameClock
<1>10. ASSUME Cached(d) # {}
       PROVE  /\ \A p \in Cached(d) : p \notin e.removed
              /\ \A p \in Cached(d), r \in e.resynced : IsPrefix(r, p) => ~s[p].active
              /\ \A p \in Cached(d) : p \in e.properties => Struck(NodeOf(d, p), c.epoch)
              /\ \A p \in Cached(c) : p \notin Cached(d) =>
                     p \in e.removed \/ \E r \in e.resynced : IsPrefix(r, p)
  <2>1. Cached(d) = Cached(b)  BY <1>5, <1>7, <1>10
  <2>2. Cached(b) \subseteq Cached(a)  BY <1>4 DEF Resynced, Dropped
  <2>3. \A p \in Cached(d), r \in e.resynced : IsPrefix(r, p) => ~s[p].active
    BY <1>4, <2>1 DEF Resynced
  <2>4. \A p \in Cached(a) : p \notin Cached(b) => \E r \in e.resynced : IsPrefix(r, p)
    BY <1>4 DEF Resynced
  <2>. QED  BY <1>3, <1>7, <1>9, <2>1, <2>2, <2>3, <2>4
<1>. QED  BY <1>2, <1>8, <1>10 DEF Applied

-----------------------------------------------------------------------------
(* What reports account for of the difference between two scenes.           *)
Accounted(g, s, U) ==
    /\ \A p \in Prims : g[p] # Gone /\ s[p] = Gone => \E e \in U : p \in e.removed
    /\ \A p \in Prims : g[p] # s[p] =>
           \E e \in U : p \in e.properties \/ \E r \in e.resynced : IsPrefix(r, p)
    /\ \A p \in Prims : ~g[p].active /\ s[p].active =>
           \E e \in U : \E r \in e.resynced : IsPrefix(r, p)
    /\ \A e \in U : \A q \in e.removed : \A p \in Prims :
           IsPrefix(q, p) /\ g[p] # Gone => \E f \in U : p \in f.removed

LEMMA NothingAccounted ==
    ASSUME NEW s
    PROVE  Accounted(s, s, {})
BY DEF Accounted

(* One more report, of a change from one scene to the next.                 *)
Reported(e, old, new) ==
    /\ e.removed = Present(old) \ Present(new)
    /\ \A p \in Prims : old[p] # new[p] =>
           p \in e.properties \/ \E r \in e.resynced : IsPrefix(r, p)
    /\ \A p \in Prims : ~old[p].active /\ new[p].active =>
           \E r \in e.resynced : IsPrefix(r, p)

LEMMA AccountedMore ==
    ASSUME NEW g, NEW s, NEW t, IsScene(t), NEW U, Accounted(g, s, U), NEW e,
           Reported(e, s, t)
    PROVE  Accounted(g, t, U \cup {e})
<1>1. ASSUME NEW p \in Prims, g[p] # Gone, t[p] = Gone
      PROVE  \E f \in U \cup {e} : p \in f.removed
  <2>1. CASE s[p] = Gone  BY <1>1, <2>1 DEF Accounted
  <2>2. CASE s[p] # Gone
    <3>1. p \in e.removed  BY <1>1, <2>2 DEF Reported, Present
    <3>. QED  BY <3>1
  <2>. QED  BY <2>1, <2>2
<1>2. ASSUME NEW p \in Prims, g[p] # t[p]
      PROVE  \E f \in U \cup {e} : p \in f.properties \/ \E r \in f.resynced : IsPrefix(r, p)
  <2>1. CASE g[p] # s[p]  BY <2>1 DEF Accounted
  <2>2. CASE g[p] = s[p]
    <3>1. s[p] # t[p]  BY <1>2, <2>2
    <3>2. p \in e.properties \/ \E r \in e.resynced : IsPrefix(r, p)
      BY <3>1 DEF Reported
    <3>. QED  BY <3>2
  <2>. QED  BY <2>1, <2>2
<1>3. ASSUME NEW f \in U \cup {e}, NEW q \in f.removed, NEW p \in Prims,
             IsPrefix(q, p), g[p] # Gone
      PROVE  \E h \in U \cup {e} : p \in h.removed
  <2>1. CASE f \in U
    <3>1. \E h \in U : p \in h.removed  BY <1>3, <2>1 DEF Accounted
    <3>. QED  BY <3>1
  <2>2. CASE f = e
    <3>1. q \in Prims /\ t[q] = Gone  BY <2>2 DEF Reported, Present
    <3>2. t[p] = Gone  BY <1>3, <3>1, ChainIsPresent
    <3>. QED  BY <1>1, <1>3, <3>2
  <2>. QED  BY <2>1, <2>2
<1>4. ASSUME NEW p \in Prims, ~g[p].active, t[p].active
      PROVE  \E f \in U \cup {e} : \E r \in f.resynced : IsPrefix(r, p)
  <2>1. CASE s[p].active  BY <1>4, <2>1 DEF Accounted
  <2>2. CASE ~s[p].active  BY <1>4, <2>2 DEF Reported
  <2>. QED  BY <2>1, <2>2
<1>. QED  BY <1>1, <1>2, <1>3, <1>4 DEF Accounted

(* A cache to which the reports were applied fits the scene they lead to.   *)
LEMMA AppliedFits ==
    ASSUME NEW c, NEW d, NEW g, NEW s, CacheOK(c, g), NEW U \in SUBSET Reports,
           Applied(s, c, d, U), Accounted(g, s, U)
    PROVE  Fits(c, d, g, s)
<1>1. Aged(c, d) /\ Arena(c)  BY DEF Applied, CacheOK
<1>. SUFFICES ASSUME Cached(d) # {}
              PROVE  /\ \A q \in Cached(c), p \in Cached(d) :
                            s[p].active /\ IsPrefix(q, p) => q \in Cached(d)
                     /\ \A p \in Cached(d) : s[p] # Gone
                     /\ \A p \in Cached(d) : s[p].active =>
                            g[p].active /\ (Struck(NodeOf(d, p), c.epoch) \/ s[p] = g[p])
  BY <1>1 DEF Fits
<1>2. /\ \A p \in Cached(d), e \in U : p \notin e.removed
      /\ \A p \in Cached(d), e \in U : \A r \in e.resynced : IsPrefix(r, p) => ~s[p].active
      /\ \A p \in Cached(d), e \in U : p \in e.properties => Struck(NodeOf(d, p), c.epoch)
      /\ \A p \in Cached(c) : p \notin Cached(d) =>
             \E e \in U : p \in e.removed \/ \E r \in e.resynced : IsPrefix(r, p)
  BY DEF Applied
<1>3. Cached(d) \subseteq Cached(c)  BY <1>1 DEF Aged
<1>4. \A p \in Cached(c) : p \in Prims /\ g[p] # Gone
  BY <1>1, ArenaFacts DEF CacheOK
<1>5. \A p \in Cached(d) : s[p] # Gone  BY <1>2, <1>3, <1>4 DEF Accounted
<1>6. \A p \in Cached(d) : s[p].active =>
          g[p].active /\ (Struck(NodeOf(d, p), c.epoch) \/ s[p] = g[p])
  BY <1>2, <1>3, <1>4 DEF Accounted
<1>7. ASSUME NEW q \in Cached(c), NEW p \in Cached(d), s[p].active, IsPrefix(q, p),
             q \notin Cached(d)
      PROVE  FALSE
  <2>1. p \in Prims /\ q \in Prims /\ g[p] # Gone  BY <1>3, <1>4
  <2>2. PICK e \in U : q \in e.removed \/ \E r \in e.resynced : IsPrefix(r, q)
    BY <1>2, <1>7
  <2>3. CASE q \in e.removed
    <3>1. \E f \in U : p \in f.removed  BY <1>7, <2>1, <2>3 DEF Accounted
    <3>. QED  BY <1>2, <3>1
  <2>4. CASE \E r \in e.resynced : IsPrefix(r, q)
    <3>1. PICK r \in e.resynced : IsPrefix(r, q)  BY <2>4
    <3>2. IsPrefix(r, p)
      <4>1. r \in Prims  BY DEF Reports
      <4>. QED  BY <1>7, <2>1, <3>1, <4>1, PrefixOfPrefix
    <3>. QED  BY <1>2, <1>7, <3>1, <3>2
  <2>. QED  BY <2>2, <2>3, <2>4
<1>. QED  BY <1>5, <1>6, <1>7

-----------------------------------------------------------------------------
(* The history of reports.                                                  *)

(* A history without batches takes no bytes. *)
LEMMA NoBytesOfNothing == Bytes(<<>>) = 0
<1>. DEFINE fld[s \in SUBSET {}] == IF s = {} THEN 0 ELSE 1
<1>1. DOMAIN <<>> = {}  OBVIOUS
<1>. QED  BY <1>1 DEF Bytes, FoldLeft, MapThenFoldSet

(* Every non-empty set of naturals below a bound has a largest element. *)
LEMMA LargestNatural ==
    ASSUME NEW n \in Nat, NEW S \in SUBSET (0..n), S # {}
    PROVE  \E m \in S : \A k \in S : k <= m
<1>. DEFINE LT == {p \in Nat \X Nat : p[1] < p[2]}
            T == {n - k : k \in S}
<1>1. T \subseteq Nat /\ T # {}
  <2>1. \A k \in S : n - k \in Nat  OBVIOUS
  <2>. QED  BY <2>1
<1>2. OpToRel(<, Nat) = LT  BY DEF OpToRel
<1>3. IsWellFoundedOn(LT, Nat)  BY <1>2, NatLessThanWellFounded
<1>. HIDE DEF LT
<1>4. PICK x \in T : \A y \in T : ~(<<y, x>> \in LT)  BY <1>1, <1>3, WFMin
<1>5. \A y, z \in Nat : y < z => <<y, z>> \in LT  BY DEF LT
<1>6. \A y \in T : x <= y
  <2>. TAKE y \in T
  <2>1. x \in Nat /\ y \in Nat /\ ~(y < x)  BY <1>1, <1>4, <1>5
  <2>. QED  BY <2>1
<1>7. PICK m \in S : x = n - m  OBVIOUS
<1>8. \A k \in S : k <= m
  <2>. HIDE DEF T
  <2>. TAKE k \in S
  <2>1. n - k \in T  BY DEF T
  <2>2. x <= n - k  BY <1>6, <2>1
  <2>3. n - m <= n - k /\ k \in Nat /\ m \in Nat  BY <1>7, <2>2
  <2>. QED  BY <2>3
<1>. QED  BY <1>8

(* Some suffix of a history fits any budget, the empty one at worst; the    *)
(* one chosen is within the limits, and a suffix.                           *)
LEMMA NewestFits ==
    ASSUME NEW E, NEW entries \in Seq(E), NEW batches \in Nat, NEW bytes \in Nat
    PROVE  LET kept == Newest(entries, batches, bytes)
           IN  kept \in Suffixes(entries) /\ Within(kept, batches, bytes)
<1>. DEFINE Fit == {s \in Suffixes(entries) : Within(s, batches, bytes)}
            Lengths == {Len(s) : s \in Fit}
<1>1. <<>> \in Fit
  <2>1. <<>> \in Suffixes(entries)  BY DEF Suffixes
  <2>2. Len(<<>>) = 0  OBVIOUS
  <2>. QED  BY <2>1, <2>2, NoBytesOfNothing DEF Within
<1>2. \A s \in Suffixes(entries) : Len(s) \in 0..Len(entries)
  <2>1. SUFFICES ASSUME NEW k \in 1..Len(entries)
                 PROVE  Len(SubSeq(entries, k, Len(entries))) \in 0..Len(entries)
    BY DEF Suffixes
  <2>. QED  OBVIOUS
<1>3. Len(entries) \in Nat /\ Lengths \in SUBSET (0..Len(entries)) /\ Lengths # {}
  <2>1. Len(entries) \in Nat  OBVIOUS
  <2>2. Lengths \in SUBSET (0..Len(entries))  BY <1>2
  <2>3. Len(<<>>) \in Lengths  BY <1>1
  <2>. QED  BY <2>1, <2>2, <2>3
<1>4. PICK m \in Lengths : \A k \in Lengths : k <= m  BY <1>3, LargestNatural
<1>5. PICK s \in Fit : Len(s) = m  OBVIOUS
<1>6. /\ s \in Suffixes(entries)
      /\ Within(s, batches, bytes)
      /\ \A t \in Suffixes(entries) : Within(t, batches, bytes) => Len(t) <= Len(s)
  BY <1>4, <1>5
<1>. QED  BY <1>6 DEF Newest

(* A suffix of a sequence is what is left after its first d elements. *)
LEMMA SuffixElements ==
    ASSUME NEW E, NEW entries \in Seq(E), NEW kept \in Suffixes(entries)
    PROVE  /\ kept \in Seq(E)
           /\ Len(kept) <= Len(entries)
           /\ \A i \in 1..Len(kept) : kept[i] = entries[Len(entries) - Len(kept) + i]
<1>1. CASE kept = <<>>  BY <1>1
<1>2. CASE \E k \in 1..Len(entries) : kept = SubSeq(entries, k, Len(entries))
  <2>1. PICK k \in 1..Len(entries) : kept = SubSeq(entries, k, Len(entries))  BY <1>2
  <2>2. Len(kept) = Len(entries) - k + 1  BY <2>1
  <2>3. \A i \in 1..Len(kept) : kept[i] = entries[k + i - 1]  BY <2>1, <2>2
  <2>4. kept \in Seq(E)  BY <2>1
  <2>. QED  BY <2>2, <2>3, <2>4
<1>. QED  BY <1>1, <1>2 DEF Suffixes

Ordered(q) == \A i, j \in 1..Len(q) : i <= j => q[i].rev <= q[j].rev

IsHistory(h, top) ==
    /\ h = [entries |-> h.entries, budget |-> h.budget, floor |-> h.floor]
    /\ h.entries \in Seq(Reports) /\ Ordered(h.entries)
    /\ \A i \in 1..Len(h.entries) : h.entries[i].rev <= top
    /\ h.budget \in [batches : Nat, bytes : Nat] /\ h.floor \in 0..top

Newer(h, n) == {h.entries[i] : i \in {j \in 1..Len(h.entries) : h.entries[j].rev > n}}

LEMMA LargerIs ==
    ASSUME NEW m \in Nat, NEW n \in Nat
    PROVE  /\ Larger(m, n) \in {m, n} /\ Larger(m, n) >= m /\ Larger(m, n) >= n
BY DEF Larger

LEMMA Evicted ==
    ASSUME NEW top \in Nat, NEW h, IsHistory(h, top), NEW kept \in Suffixes(h.entries)
    PROVE  LET r == EvictDownTo(h, kept)
           IN  /\ IsHistory(r, top) /\ r.entries = kept /\ r.budget = h.budget
               /\ r.floor >= h.floor
               /\ \A n \in Int : n >= r.floor => Newer(r, n) = Newer(h, n)
<1>r. PICK r : r = EvictDownTo(h, kept)  OBVIOUS
<1>k. PICK k : k = Len(h.entries) - Len(kept)  OBVIOUS
<1>1. /\ h = [entries |-> h.entries, budget |-> h.budget, floor |-> h.floor]
      /\ h.entries \in Seq(Reports) /\ Ordered(h.entries)
      /\ \A i \in 1..Len(h.entries) : h.entries[i].rev <= top
      /\ h.budget \in [batches : Nat, bytes : Nat] /\ h.floor \in 0..top
      /\ Len(h.entries) \in Nat
  BY DEF IsHistory
<1>2. /\ kept \in Seq(Reports) /\ Len(kept) <= Len(h.entries)
      /\ \A i \in 1..Len(kept) : kept[i] = h.entries[k + i]
  BY <1>1, <1>k, SuffixElements
<1>3. k \in 0..Len(h.entries) /\ Len(kept) \in Nat /\ Len(h.entries) = k + Len(kept)
  BY <1>1, <1>2, <1>k
<1>4. \A i \in 1..Len(h.entries) : h.entries[i].rev \in Nat
  <2>1. \A i \in 1..Len(h.entries) : h.entries[i] \in Reports  BY <1>1
  <2>. QED  BY <2>1 DEF Reports
<1>5. /\ r.entries = kept /\ r.budget = h.budget
      /\ r.floor = IF k = 0 THEN h.floor ELSE Larger(h.floor, h.entries[k].rev)
      /\ r = [entries |-> r.entries, budget |-> r.budget, floor |-> r.floor]
  BY <1>1, <1>r, <1>k DEF EvictDownTo
<1>6. /\ r.floor \in 0..top /\ r.floor >= h.floor
      /\ k # 0 => r.floor >= h.entries[k].rev
  <2>1. CASE k = 0  BY <1>1, <1>5, <2>1
  <2>2. CASE k # 0
    <3>1. k \in 1..Len(h.entries)  BY <1>3, <2>2
    <3>2. h.entries[k].rev \in Nat /\ h.entries[k].rev <= top /\ h.floor \in Nat
      BY <1>1, <1>4, <3>1
    <3>3. /\ r.floor \in {h.floor, h.entries[k].rev} /\ r.floor >= h.floor
          /\ r.floor >= h.entries[k].rev
      BY <1>5, <2>2, <3>2, LargerIs
    <3>. QED  BY <1>1, <3>2, <3>3
  <2>. QED  BY <2>1, <2>2
<1>7. \A i \in 1..Len(kept) : k + i \in 1..Len(h.entries)  BY <1>3
<1>8. Ordered(kept)
  <2>1. ASSUME NEW i \in 1..Len(kept), NEW j \in 1..Len(kept), i <= j
        PROVE  kept[i].rev <= kept[j].rev
    <3>1. /\ k + i \in 1..Len(h.entries) /\ k + j \in 1..Len(h.entries) /\ k + i <= k + j
          /\ kept[i] = h.entries[k + i] /\ kept[j] = h.entries[k + j]
      BY SMTT(40), <1>2, <1>3, <1>7, <2>1
    <3>. QED  BY <1>1, <3>1 DEF Ordered
  <2>. QED  BY <2>1 DEF Ordered
<1>9. IsHistory(r, top)
  <2>1. \A i \in 1..Len(kept) : kept[i].rev <= top  BY <1>1, <1>2, <1>7
  <2>. QED  BY <1>1, <1>2, <1>5, <1>6, <1>8, <2>1 DEF IsHistory
<1>10. ASSUME NEW n \in Int, n >= r.floor  PROVE Newer(r, n) = Newer(h, n)
  <2>1. ASSUME NEW i \in 1..Len(kept), kept[i].rev > n
        PROVE  \E j \in 1..Len(h.entries) : h.entries[j].rev > n /\ h.entries[j] = kept[i]
    <3>1. k + i \in 1..Len(h.entries) /\ kept[i] = h.entries[k + i]  BY <1>2, <1>7
    <3>. QED  BY <2>1, <3>1
  <2>2. ASSUME NEW j \in 1..Len(h.entries), h.entries[j].rev > n
        PROVE  \E i \in 1..Len(kept) : kept[i].rev > n /\ kept[i] = h.entries[j]
    <3>1. j > k
      <4>1. SUFFICES ASSUME j <= k  PROVE FALSE  BY <1>3
      <4>2. k \in 1..Len(h.entries) /\ k # 0  BY <1>3, <4>1
      <4>3. h.entries[j].rev <= h.entries[k].rev  BY <1>1, <4>1, <4>2 DEF Ordered
      <4>4. /\ h.entries[j].rev \in Nat /\ h.entries[k].rev \in Nat /\ r.floor \in Int
            /\ r.floor >= h.entries[k].rev
        BY <1>4, <1>6, <4>2
      <4>. QED  BY SMTT(40), <1>10, <2>2, <4>3, <4>4
    <3>i. PICK i : i = j - k  OBVIOUS
    <3>2. i \in 1..Len(kept) /\ k + i = j  BY <1>3, <3>1, <3>i
    <3>3. kept[i] = h.entries[j]  BY <1>2, <3>2
    <3>. QED  BY <2>2, <3>2, <3>3
  <2>3. Newer(r, n) \subseteq Newer(h, n)  BY <1>5, <2>1 DEF Newer
  <2>4. Newer(h, n) \subseteq Newer(r, n)  BY <1>5, <2>2 DEF Newer
  <2>. QED  BY <2>3, <2>4
<1>. QED  BY <1>r, <1>5, <1>6, <1>9, <1>10

LEMMA ReportRecorded ==
    ASSUME NEW top \in Nat, NEW h, IsHistory(h, top), NEW e \in Reports, e.rev = top + 1
    PROVE  LET r == Record(h, e)
           IN  /\ IsHistory(r, top + 1)
               /\ \A n \in Int : n <= top /\ n >= r.floor =>
                      n >= h.floor /\ Newer(r, n) = Newer(h, n) \cup {e}
<1>r. PICK r : r = Record(h, e)  OBVIOUS
<1>1. /\ h = [entries |-> h.entries, budget |-> h.budget, floor |-> h.floor]
      /\ h.entries \in Seq(Reports) /\ h.floor \in 0..top
      /\ h.budget \in [batches : Nat, bytes : Nat] /\ Len(h.entries) \in Nat
  BY DEF IsHistory
<1>2. e.bytes = 1 /\ e.rev \in Nat  BY DEF Reports
<1>3. CASE TooLarge(h, e.bytes)
  <2>c. PICK c : c = EvictDownTo(h, <<>>)  OBVIOUS
  <2>1. <<>> \in Suffixes(h.entries)  BY DEF Suffixes
  <2>2. IsHistory(c, top) /\ c.entries = <<>>  BY <2>c, <2>1, Evicted
  <2>3. r = [c EXCEPT !.floor = Larger(@, e.rev)]
    BY <1>3, <1>r, <2>c DEF Record, Discard, Clear
  <2>4. /\ c = [entries |-> c.entries, budget |-> c.budget, floor |-> c.floor]
        /\ c.budget \in [batches : Nat, bytes : Nat] /\ c.floor \in 0..top
    BY <2>2 DEF IsHistory
  <2>5. /\ r.entries = <<>> /\ r.budget = c.budget /\ r.floor = Larger(c.floor, e.rev)
        /\ r = [entries |-> r.entries, budget |-> r.budget, floor |-> r.floor]
    BY <2>2, <2>3, <2>4
  <2>6. r.floor \in 0..(top + 1) /\ r.floor >= top + 1
    <3>1. c.floor \in Nat /\ c.floor <= top  BY <2>4
    <3>2. r.floor \in {c.floor, e.rev} /\ r.floor >= e.rev  BY <1>2, <2>5, <3>1, LargerIs
    <3>. QED  BY <3>1, <3>2
  <2>7. IsHistory(r, top + 1)
    <3>1. <<>> \in Seq(Reports) /\ \A i \in 1..Len(<<>>) : FALSE  OBVIOUS
    <3>2. Ordered(<<>>)  BY <3>1 DEF Ordered
    <3>. QED  BY <2>4, <2>5, <2>6, <3>1, <3>2 DEF IsHistory
  <2>. QED  BY <1>r, <2>6, <2>7
<1>4. CASE ~TooLarge(h, e.bytes)
  <2>1. /\ h.budget.batches - 1 \in Nat /\ h.budget.bytes - e.bytes \in Nat
    BY <1>1, <1>2, <1>4 DEF TooLarge
  <2>k. PICK kept : kept = Newest(h.entries, h.budget.batches - 1, h.budget.bytes - e.bytes)
    OBVIOUS
  <2>2. kept \in Suffixes(h.entries)  BY <1>1, <2>1, <2>k, NewestFits
  <2>c. PICK c : c = EvictDownTo(h, kept)  OBVIOUS
  <2>3. /\ IsHistory(c, top) /\ c.entries = kept /\ c.floor >= h.floor
        /\ \A n \in Int : n >= c.floor => Newer(c, n) = Newer(h, n)
    BY <2>2, <2>c, Evicted
  <2>4. r = [c EXCEPT !.entries = Append(@, e)]
    BY <1>4, <1>r, <2>k, <2>c DEF Record
  <2>5. /\ c = [entries |-> c.entries, budget |-> c.budget, floor |-> c.floor]
        /\ c.budget \in [batches : Nat, bytes : Nat] /\ c.floor \in 0..top
        /\ c.entries \in Seq(Reports) /\ Ordered(c.entries)
        /\ \A i \in 1..Len(c.entries) : c.entries[i].rev <= top
    BY <2>3 DEF IsHistory
  <2>6. /\ r.entries = Append(kept, e) /\ r.budget = c.budget /\ r.floor = c.floor
        /\ r = [entries |-> r.entries, budget |-> r.budget, floor |-> r.floor]
    BY <2>3, <2>4, <2>5
  <2>7. /\ kept \in Seq(Reports) /\ Len(kept) \in Nat /\ r.entries \in Seq(Reports)
        /\ Len(r.entries) = Len(kept) + 1
        /\ r.entries[Len(kept) + 1] = e
        /\ \A i \in 1..Len(kept) : r.entries[i] = kept[i]
    BY <2>3, <2>5, <2>6
  <2>8. \A i \in 1..Len(kept) : kept[i].rev \in Nat /\ kept[i].rev <= top
    <3>1. \A i \in 1..Len(kept) : kept[i] \in Reports  BY <2>7
    <3>. QED  BY <2>3, <2>5, <3>1 DEF Reports
  <2>9. \A i \in 1..Len(r.entries) : i \in 1..Len(kept) \/ i = Len(kept) + 1  BY <2>7
  <2>10. \A i \in 1..Len(r.entries) : r.entries[i].rev <= top + 1
    BY <2>7, <2>8, <2>9
  <2>11. Ordered(r.entries)
    <3>1. ASSUME NEW i \in 1..Len(r.entries), NEW j \in 1..Len(r.entries), i <= j
          PROVE  r.entries[i].rev <= r.entries[j].rev
      <4>1. CASE j = Len(kept) + 1  BY <2>7, <2>10, <4>1
      <4>2. CASE j \in 1..Len(kept)
        <5>1. i \in 1..Len(kept)  BY <2>7, <3>1, <4>2
        <5>. QED  BY <2>3, <2>5, <2>7, <3>1, <4>2, <5>1 DEF Ordered
      <4>. QED  BY <2>9, <4>1, <4>2
    <3>. QED  BY <3>1 DEF Ordered
  <2>12. IsHistory(r, top + 1)
    <3>1. r.floor \in 0..(top + 1)  BY <2>5, <2>6
    <3>. QED  BY <2>5, <2>6, <2>7, <2>10, <2>11, <3>1 DEF IsHistory
  <2>13. ASSUME NEW n \in Int, n <= top, n >= r.floor
         PROVE  n >= h.floor /\ Newer(r, n) = Newer(h, n) \cup {e}
    <3>1. n >= h.floor  BY <1>1, <2>3, <2>5, <2>6, <2>13
    <3>2. Newer(c, n) = Newer(h, n)  BY <2>3, <2>6, <2>13
    <3>3. Newer(r, n) \subseteq Newer(c, n) \cup {e}
      BY <2>3, <2>7, <2>9 DEF Newer
    <3>4. e \in Newer(r, n)
      <4>1. Len(kept) + 1 \in 1..Len(r.entries) /\ r.entries[Len(kept) + 1].rev > n
        BY <2>7, <2>13
      <4>. QED  BY <2>7, <4>1 DEF Newer
    <3>5. Newer(c, n) \subseteq Newer(r, n)
      <4>1. \A i \in 1..Len(kept) : i \in 1..Len(r.entries)  BY <2>7
      <4>. QED  BY <2>3, <2>7, <4>1 DEF Newer
    <3>. QED  BY <3>1, <3>2, <3>3, <3>4, <3>5
  <2>. QED  BY <1>r, <2>12, <2>13
<1>. QED  BY <1>3, <1>4

-----------------------------------------------------------------------------
(* Answers and the times they were evaluated at.                            *)
VariesIn(s, p) == s[p] # Gone /\ Varies(s, p)

Timely(a, t) ==
    /\ a = [i \in DOMAIN a |-> <<a[i][1], a[i][2], a[i][3]>>]
    /\ \A i \in DOMAIN a : a[i][3] \in {t, Always}

LEMMA AnswersAreTimely ==
    ASSUME NEW p \in Prims, NEW s, NEW t
    PROVE  Timely(WorldTransform(s, t, p), t)
<1>a. PICK a : a = WorldTransform(s, t, p)  OBVIOUS
<1>1. CASE s[p] = Gone
  <2>1. a = <<<<"missing", 0, Always>>>>
    BY <1>1, <1>a, WorldIsMissing DEF Missing
  <2>2. DOMAIN a = {1} /\ a[1] = <<"missing", 0, Always>>
    <3>1. DOMAIN a = 1..1 /\ 1..1 = {1}  BY <2>1
    <3>. QED  BY <2>1, <3>1
  <2>3. a = [i \in DOMAIN a |-> a[i]]  BY <2>1
  <2>4. a = [i \in DOMAIN a |-> <<a[i][1], a[i][2], a[i][3]>>]
    <3>1. \A i \in DOMAIN a : a[i] = <<a[i][1], a[i][2], a[i][3]>>  BY <2>2
    <3>. QED  BY <2>3, <3>1
  <2>. QED  BY <1>a, <2>2, <2>4 DEF Timely
<1>2. CASE s[p] # Gone
  <2>1. a = [i \in 1..Height(s, p) |-> Local(s, t, Up(p, i))]  BY <1>2, <1>a, WorldIs
  <2>2. \A i \in 1..Height(s, p) :
            a[i] = <<s[Up(p, i)].layout, s[Up(p, i)].value,
                     IF s[Up(p, i)].varying THEN t ELSE Always>>
    BY <2>1 DEF Local, Evaluate
  <2>3. DOMAIN a = 1..Height(s, p)  BY <2>1
  <2>4. \A i \in DOMAIN a : a[i] = <<a[i][1], a[i][2], a[i][3]>> /\ a[i][3] \in {t, Always}
    BY <2>2, <2>3
  <2>5. a = [i \in DOMAIN a |-> a[i]]  BY <2>1
  <2>. QED  BY <1>a, <2>4, <2>5 DEF Timely
<1>. QED  BY <1>1, <1>2

LEMMA SameAtOneTime ==
    ASSUME NEW t \in Nat, NEW a, NEW b, Timely(a, t), Timely(b, t), Untimed(a) = Untimed(b)
    PROVE  a = b
<1>1. DOMAIN a = DOMAIN b /\ \A i \in DOMAIN a :
          <<a[i][1], a[i][2], a[i][3] = Always>> = <<b[i][1], b[i][2], b[i][3] = Always>>
  <2>1. DOMAIN Untimed(a) = DOMAIN a /\ DOMAIN Untimed(b) = DOMAIN b  BY DEF Untimed
  <2>2. \A i \in DOMAIN a : Untimed(a)[i] = <<a[i][1], a[i][2], a[i][3] = Always>>
    BY DEF Untimed
  <2>3. \A i \in DOMAIN b : Untimed(b)[i] = <<b[i][1], b[i][2], b[i][3] = Always>>
    BY DEF Untimed
  <2>. QED  BY <2>1, <2>2, <2>3
<1>2. \A i \in DOMAIN a : /\ a[i][1] = b[i][1] /\ a[i][2] = b[i][2]
                          /\ (a[i][3] = Always) = (b[i][3] = Always)
  BY <1>1
<1>3. t # Always  BY DEF Always
<1>4. \A i \in DOMAIN a : a[i][3] = b[i][3]  BY <1>1, <1>2, <1>3 DEF Timely
<1>. QED  BY <1>1, <1>2, <1>4 DEF Timely

LEMMA SameButTheTime ==
    ASSUME NEW p \in Prims, NEW s, NEW t \in Nat, NEW u \in Nat
    PROVE  Untimed(WorldTransform(s, t, p)) = Untimed(WorldTransform(s, u, p))
<1>1. CASE s[p] = Gone  BY <1>1, WorldIsMissing
<1>2. CASE s[p] # Gone
  <2>a. PICK a : a = WorldTransform(s, t, p)  OBVIOUS
  <2>b. PICK b : b = WorldTransform(s, u, p)  OBVIOUS
  <2>1. /\ a = [i \in 1..Height(s, p) |-> Local(s, t, Up(p, i))]
        /\ b = [i \in 1..Height(s, p) |-> Local(s, u, Up(p, i))]
    BY <1>2, <2>a, <2>b, WorldIs
  <2>2. t # Always /\ u # Always  BY DEF Always
  <2>3. \A i \in 1..Height(s, p) :
            /\ a[i][1] = b[i][1] /\ a[i][2] = b[i][2]
            /\ (a[i][3] = Always) = (b[i][3] = Always)
    BY <2>1, <2>2 DEF Local, Evaluate
  <2>4. DOMAIN a = 1..Height(s, p) /\ DOMAIN b = 1..Height(s, p)  BY <2>1
  <2>5. \A i \in 1..Height(s, p) : <<a[i][1], a[i][2], a[i][3] = Always>> =
                                   <<b[i][1], b[i][2], b[i][3] = Always>>
    BY <2>3
  <2>. QED  BY <2>a, <2>b, <2>4, <2>5 DEF Untimed
<1>. QED  BY <1>1, <1>2

LEMMA SameAtAllTimes ==
    ASSUME NEW p \in Prims, NEW s, ~VariesIn(s, p), NEW t, NEW u
    PROVE  WorldTransform(s, t, p) = WorldTransform(s, u, p)
<1>1. CASE s[p] = Gone  BY <1>1, WorldIsMissing
<1>2. CASE s[p] # Gone
  <2>1. \A i \in 1..Height(s, p) : ~s[Up(p, i)].varying
    BY <1>2 DEF VariesIn, Varies, Chain
  <2>2. \A i \in 1..Height(s, p) : Local(s, t, Up(p, i)) = Local(s, u, Up(p, i))
    BY <2>1 DEF Local, Evaluate
  <2>a. PICK a : a = WorldTransform(s, t, p)  OBVIOUS
  <2>b. PICK b : b = WorldTransform(s, u, p)  OBVIOUS
  <2>3. /\ a = [i \in 1..Height(s, p) |-> Local(s, t, Up(p, i))]
        /\ b = [i \in 1..Height(s, p) |-> Local(s, u, Up(p, i))]
    BY <1>2, <2>a, <2>b, WorldIs
  <2>4. a = b  BY <2>2, <2>3, Zenon
  <2>. QED  BY <2>a, <2>b, <2>4
<1>. QED  BY <1>1, <1>2

-----------------------------------------------------------------------------
(* Queries.                                                                 *)
DependsOn(s, p) == IF s[p] = Gone THEN {p} ELSE Chain(s, p)

IsQuery(q) ==
    /\ q = [path |-> q.path, recipe |-> q.recipe, answer |-> q.answer, dirty |-> q.dirty,
            topologyDirty |-> q.topologyDirty, varying |-> q.varying,
            timeEpoch |-> q.timeEpoch, causes |-> q.causes, omitted |-> q.omitted]
    /\ q.path \in Prims /\ q.recipe \in SUBSET Prims /\ q.omitted \in Nat
    /\ q.dirty \in BOOLEAN /\ q.topologyDirty = q.dirty /\ q.varying \in BOOLEAN
    /\ q.dirty => \E c \in q.causes : c # TimeChange

Answered(q, s, t, now, epoch) ==
    /\ q.answer = WorldTransform(s, t, q.path) /\ q.varying = VariesIn(s, q.path)
    /\ q.timeEpoch = epoch => t = now

(* A clean query holds the answer of the scene that was consumed, at the    *)
(* time it last found out; a dirty one that of some scene.                  *)
QueryOK(q, s, now, epoch) ==
    /\ IsQuery(q) /\ q.timeEpoch \in 0..epoch
    /\ q.answer # NoAnswer => \E g : \E t \in Nat : Answered(q, g, t, now, epoch)
    /\ ~q.dirty => /\ q.recipe = DependsOn(s, q.path)
                   /\ \E t \in Nat : Answered(q, s, t, now, epoch)

Marked(q, m) ==
    /\ IsQuery(m) /\ m.dirty
    /\ m.path = q.path /\ m.recipe = q.recipe /\ m.answer = q.answer
    /\ m.varying = q.varying /\ m.timeEpoch = q.timeEpoch

LEMMA MarkedTwice ==
    ASSUME NEW q, NEW m, NEW n, Marked(q, m), Marked(m, n)
    PROVE  Marked(q, n)
BY DEF Marked

LEMMA OneMarked ==
    ASSUME NEW q, IsQuery(q), NEW cause, cause # TimeChange
    PROVE  Marked(q, Mark(q, cause))
<1>m. PICK m : m = Mark(q, cause)  OBVIOUS
<1>c. PICK causes : causes = IF q.dirty THEN q.causes ELSE {}  OBVIOUS
<1>o. PICK omitted : omitted = IF q.dirty THEN q.omitted ELSE 0  OBVIOUS
<1>1. m = [q EXCEPT !.dirty = TRUE, !.topologyDirty = @ \/ cause # TimeChange,
                    !.causes = IF Cardinality(causes) < MaxCauses THEN causes \cup {cause}
                               ELSE causes,
                    !.omitted = IF cause \in causes \/ Cardinality(causes) < MaxCauses
                                THEN omitted ELSE omitted + 1]
  BY <1>m, <1>c, <1>o DEF Mark
<1>2. /\ m.path = q.path /\ m.recipe = q.recipe /\ m.answer = q.answer /\ m.dirty = TRUE
      /\ m.varying = q.varying /\ m.timeEpoch = q.timeEpoch
      /\ m.causes = IF Cardinality(causes) < MaxCauses THEN causes \cup {cause} ELSE causes
      /\ m.omitted = IF cause \in causes \/ Cardinality(causes) < MaxCauses
                     THEN omitted ELSE omitted + 1
      /\ m = [path |-> m.path, recipe |-> m.recipe, answer |-> m.answer, dirty |-> m.dirty,
              topologyDirty |-> m.topologyDirty, varying |-> m.varying,
              timeEpoch |-> m.timeEpoch, causes |-> m.causes, omitted |-> m.omitted]
  BY <1>1 DEF IsQuery
<1>3. m.topologyDirty = TRUE
  <2>1. m.topologyDirty = (q.topologyDirty \/ cause # TimeChange)  BY <1>1 DEF IsQuery
  <2>. QED  BY <2>1
<1>4. omitted \in Nat /\ m.omitted \in Nat  BY <1>2, <1>o DEF IsQuery
<1>5. \E c \in m.causes : c # TimeChange
  <2>1. CASE q.dirty
    <3>1. \E c \in causes : c # TimeChange  BY <2>1, <1>c DEF IsQuery
    <3>. QED  BY <1>2, <3>1
  <2>2. CASE ~q.dirty
    <3>1. causes = {}  BY <2>2, <1>c
    <3>2. Cardinality(causes) = 0 /\ MaxCauses \in Nat /\ MaxCauses > 0
      BY <3>1, FS_EmptySet, HostAssumption
    <3>3. m.causes = causes \cup {cause}  BY <1>2, <3>2
    <3>. QED  BY <3>3
  <2>. QED  BY <2>1, <2>2
<1>6. IsQuery(m)  BY <1>2, <1>3, <1>4, <1>5 DEF IsQuery
<1>. QED  BY <1>m, <1>2, <1>6 DEF Marked

LEMMA AllMarked ==
    ASSUME NEW q, IsQuery(q), NEW S, IsFiniteSet(S), \A c \in S : c # TimeChange
    PROVE  IF S = {} THEN MarkAll(q, S) = q ELSE Marked(q, MarkAll(q, S))
<1>r. PICK run : Marks(run, q, S)  BY MarksExists
<1>1. /\ run[{}] = q
      /\ \A T \in SUBSET S : T # {} => \E x \in T : run[T] = Mark(run[T \ {x}], x)
      /\ MarkAll(q, S) = run[S]
  BY <1>r DEF Marks
<1>. DEFINE G == {T \in SUBSET S : IF T = {} THEN run[T] = q ELSE Marked(q, run[T])}
<1>2. {} \in G  BY <1>1
<1>3. ASSUME NEW T \in SUBSET S, T # {}, \A x \in T : T \ {x} \in G
      PROVE  T \in G
  <2>1. PICK x \in T : run[T] = Mark(run[T \ {x}], x)  BY <1>1, <1>3
  <2>b. PICK b : b = run[T \ {x}]  OBVIOUS
  <2>2. T \ {x} \in G /\ x # TimeChange  BY <1>3
  <2>3. b = q \/ Marked(q, b)  BY <2>2, <2>b
  <2>4. IsQuery(b)  BY <2>3 DEF Marked
  <2>5. Marked(b, run[T])  BY <2>1, <2>2, <2>4, <2>b, OneMarked
  <2>6. Marked(q, run[T])
    <3>1. CASE b = q  BY <2>5, <3>1
    <3>2. CASE Marked(q, b)  BY <2>5, <3>2, MarkedTwice
    <3>. QED  BY <2>3, <3>1, <3>2
  <2>. QED  BY <1>3, <2>6
<1>4. S \in G
  <2>1. G \in SUBSET (SUBSET S)  OBVIOUS
  <2>2. \A T \in SUBSET S : T # {} /\ (\A x \in T : T \ {x} \in G) => T \in G  BY <1>3
  <2>. HIDE DEF G
  <2>. QED  BY <1>2, <2>1, <2>2, SubsetsReached
<1>. QED  BY <1>1, <1>4

LEMMA ConcerningIs ==
    ASSUME NEW q, IsQuery(q), NEW e \in Reports
    PROVE  /\ IsFiniteSet(Concerning(q, e)) /\ \A c \in Concerning(q, e) : c # TimeChange
           /\ Concerning(q, e) = {} =>
                  \A p \in q.recipe : p \notin e.properties /\
                                      \A r \in e.resynced : ~IsPrefix(r, p)
<1>. DEFINE R == {s \in e.resynced : \E p \in q.recipe : IsPrefix(s, p)}
            P == q.recipe \cap e.properties
            CR == {Cause("Resync", r) : r \in R}
            CP == {Cause("Property", p) : p \in P}
<1>1. Concerning(q, e) = CR \cup CP  BY DEF Concerning
<1>2. IsFiniteSet(R) /\ IsFiniteSet(P)
  <2>1. R \in SUBSET Prims /\ P \in SUBSET Prims  BY DEF IsQuery, Reports
  <2>. QED  BY <2>1, FS_Subset, PrimsAssumption
<1>3. IsFiniteSet(CR) /\ IsFiniteSet(CP)
  <2>. HIDE DEF R, P
  <2>1. [r \in R |-> Cause("Resync", r)] \in Surjection(R, CR)  BY DEF Surjection
  <2>2. [p \in P |-> Cause("Property", p)] \in Surjection(P, CP)  BY DEF Surjection
  <2>3. IsFiniteSet(CR)  BY <1>2, <2>1, FS_Surjection
  <2>4. IsFiniteSet(CP)  BY <1>2, <2>2, FS_Surjection
  <2>. QED  BY <2>3, <2>4
<1>4. IsFiniteSet(CR \cup CP)
  <2>. HIDE DEF CR, CP
  <2>. QED  BY <1>3, FS_Union
<1>5. \A c \in CR \cup CP : c # TimeChange
  <2>1. \A r : Cause("Resync", r).kind = "Resync" /\ Cause("Property", r).kind = "Property"
    BY DEF Cause
  <2>2. TimeChange.kind = "Time"  BY DEF TimeChange, Cause
  <2>. QED  BY <2>1, <2>2
<1>6. CR \cup CP = {} => R = {} /\ P = {}  OBVIOUS
<1>. QED  BY <1>1, <1>4, <1>5, <1>6

-----------------------------------------------------------------------------
(* What consuming reports makes of the queries: one that none of them       *)
(* concerns is left as it is, the others are marked.                        *)
Untold(q, U) ==
    \A e \in U : \A p \in q.recipe :
        p \notin e.properties /\ \A r \in e.resynced : ~IsPrefix(r, p)

Told(q, m, U) == (m = q /\ Untold(q, U)) \/ Marked(q, m)

LEMMA ToldMore ==
    ASSUME NEW q, IsQuery(q), NEW m, NEW U, Told(q, m, U), NEW e \in Reports
    PROVE  Told(q, MarkAll(m, Concerning(m, e)), U \cup {e})
<1>1. IsQuery(m)  BY DEF Told, Marked
<1>S. PICK S : S = Concerning(m, e)  OBVIOUS
<1>2. /\ IsFiniteSet(S) /\ \A c \in S : c # TimeChange
      /\ S = {} => Untold(m, {e})
  BY <1>1, <1>S, ConcerningIs DEF Untold
<1>n. PICK n : n = MarkAll(m, S)  OBVIOUS
<1>3. IF S = {} THEN n = m ELSE Marked(m, n)  BY <1>1, <1>2, <1>n, AllMarked
<1>4. CASE Marked(q, m)
  <2>1. Marked(q, n)
    <3>1. CASE S = {}  BY <1>3, <1>4, <3>1
    <3>2. CASE S # {}  BY <1>3, <1>4, <3>2, MarkedTwice
    <3>. QED  BY <3>1, <3>2
  <2>. QED  BY <2>1, <1>S, <1>n DEF Told
<1>5. CASE m = q /\ Untold(q, U)
  <2>1. CASE S = {}
    <3>1. n = q /\ Untold(q, U) /\ Untold(q, {e})  BY <1>2, <1>3, <1>5, <2>1
    <3>2. Untold(q, U \cup {e})  BY <3>1 DEF Untold
    <3>. QED  BY <3>1, <3>2, <1>S, <1>n DEF Told
  <2>2. CASE S # {}
    <3>1. Marked(q, n)  BY <1>3, <1>5, <2>2
    <3>. QED  BY <3>1, <1>S, <1>n DEF Told
  <2>. QED  BY <2>1, <2>2
<1>. QED  BY <1>4, <1>5 DEF Told

ConsumedTo(st, U) ==
    /\ Applied(scene, cache, st.cache, U)
    /\ st.held = [h \in DOMAIN held |-> st.held[h]]
    /\ \A h \in DOMAIN held : Told(held[h], st.held[h], U)

LEMMA ConsumedOne ==
    ASSUME Arena(cache), \A h \in DOMAIN held : IsQuery(held[h]),
           NEW st, NEW U, ConsumedTo(st, U), NEW e \in Reports
    PROVE  IF e.rev <= cursor THEN Consumed(st, e) = st
           ELSE ConsumedTo(Consumed(st, e), U \cup {e})
<1>1. CASE e.rev <= cursor  BY <1>1 DEF Consumed
<1>2. CASE ~(e.rev <= cursor)
  <2>d. PICK d : d = ApplyChanges(scene, st.cache, e)  OBVIOUS
  <2>f. PICK f : f = [h \in DOMAIN st.held |->
                        MarkAll(st.held[h], Concerning(st.held[h], e))]
    OBVIOUS
  <2>t. PICK t : t = Consumed(st, e)  OBVIOUS
  <2>1. t = [cache |-> d, held |-> f]  BY <1>2, <2>d, <2>f, <2>t DEF Consumed
  <2>2. t.cache = d /\ t.held = f  BY <2>1
  <2>3. Arena(st.cache)  BY DEF ConsumedTo, Applied, Aged
  <2>4. Applied(scene, st.cache, d, {e})  BY <2>3, <2>d, ChangesApplied
  <2>5. Applied(scene, cache, d, U \cup {e})
    <3>1. Applied(scene, cache, st.cache, U)  BY DEF ConsumedTo
    <3>. QED  BY <2>4, <3>1, AppliedMore
  <2>6. DOMAIN st.held = DOMAIN held  BY DEF ConsumedTo
  <2>7. f = [h \in DOMAIN held |-> f[h]]  BY <2>6, <2>f
  <2>8. ASSUME NEW h \in DOMAIN held  PROVE Told(held[h], f[h], U \cup {e})
    <3>1. f[h] = MarkAll(st.held[h], Concerning(st.held[h], e))  BY <2>6, <2>f
    <3>2. IsQuery(held[h]) /\ Told(held[h], st.held[h], U)  BY DEF ConsumedTo
    <3>. QED  BY <3>1, <3>2, ToldMore
  <2>9. ConsumedTo(t, U \cup {e})  BY <2>2, <2>5, <2>7, <2>8 DEF ConsumedTo
  <2>. QED  BY <1>2, <2>9, <2>t
<1>. QED  BY <1>1, <1>2

FirstNewer(i) == {reports.entries[j] : j \in {k \in 1..i : reports.entries[k].rev > cursor}}

LEMMA FirstNewerIs ==
    ASSUME cursor \in Int, reports.entries \in Seq(Reports)
    PROVE  /\ FirstNewer(0) = {} /\ FirstNewer(Len(reports.entries)) = Newer(reports, cursor)
           /\ \A i \in 1..Len(reports.entries) :
                  /\ reports.entries[i] \in Reports /\ reports.entries[i].rev \in Nat
                  /\ FirstNewer(i) = FirstNewer(i - 1) \cup
                        (IF reports.entries[i].rev <= cursor THEN {} ELSE {reports.entries[i]})
<1>1. FirstNewer(0) = {}  BY DEF FirstNewer
<1>2. FirstNewer(Len(reports.entries)) = Newer(reports, cursor)  BY DEF FirstNewer, Newer
<1>3. ASSUME NEW i \in 1..Len(reports.entries)
      PROVE  /\ reports.entries[i] \in Reports /\ reports.entries[i].rev \in Nat
             /\ FirstNewer(i) = FirstNewer(i - 1) \cup
                   (IF reports.entries[i].rev <= cursor THEN {} ELSE {reports.entries[i]})
  <2>1. reports.entries[i] \in Reports  OBVIOUS
  <2>2. reports.entries[i].rev \in Nat  BY <2>1 DEF Reports
  <2>3. 1..i = (1..(i - 1)) \cup {i}  OBVIOUS
  <2>4. FirstNewer(i) = {reports.entries[j] : j \in {k \in (1..(i - 1)) \cup {i} : reports.entries[k].rev > cursor}}
    BY <2>3 DEF FirstNewer
  <2>5. CASE reports.entries[i].rev <= cursor
    <3>1. {k \in (1..(i - 1)) \cup {i} : reports.entries[k].rev > cursor} =
              {k \in 1..(i - 1) : reports.entries[k].rev > cursor}
      BY <2>2, <2>5
    <3>. QED  BY <2>1, <2>2, <2>4, <2>5, <3>1 DEF FirstNewer
  <2>6. CASE ~(reports.entries[i].rev <= cursor)
    <3>1. {k \in (1..(i - 1)) \cup {i} : reports.entries[k].rev > cursor} =
              {k \in 1..(i - 1) : reports.entries[k].rev > cursor} \cup {i}
      BY <2>2, <2>6
    <3>. QED  BY <2>1, <2>2, <2>4, <2>6, <3>1 DEF FirstNewer
  <2>. QED  BY <2>5, <2>6
<1>. QED  BY <1>1, <1>2, <1>3

LEMMA ConsumedReports ==
    ASSUME Arena(cache), held = [h \in DOMAIN held |-> held[h]],
           \A h \in DOMAIN held : IsQuery(held[h]),
           cursor \in Int, reports.entries \in Seq(Reports)
    PROVE  ConsumedTo(ConsumedAll, Newer(reports, cursor))
<1>b. PICK base : base = [cache |-> cache, held |-> held]  OBVIOUS
<1>n. PICK n \in Nat : n = Len(reports.entries)  OBVIOUS
<1>a. PICK at : Consumes(at, base, reports.entries)  BY ConsumesExists
<1>1. /\ at[0] = base /\ ConsumedAll = at[n]
      /\ \A i \in 1..n : at[i] = Consumed(at[i - 1], reports.entries[i])
  BY <1>a, <1>b, <1>n, ConsumedAllIs DEF Consumes
<1>. DEFINE G == {i \in 0..n : ConsumedTo(at[i], FirstNewer(i))}
<1>2. 0 \in G
  <2>1. base.cache = cache /\ base.held = held  BY <1>b
  <2>2. Applied(scene, cache, base.cache, {})  BY <2>1, NothingApplied
  <2>3. \A h \in DOMAIN held : Told(held[h], base.held[h], {})  BY <2>1 DEF Told, Untold
  <2>4. ConsumedTo(base, {})  BY <2>1, <2>2, <2>3 DEF ConsumedTo
  <2>5. at[0] = base /\ FirstNewer(0) = {} /\ 0 \in 0..n  BY <1>1, FirstNewerIs
  <2>6. ConsumedTo(at[0], FirstNewer(0))  BY <2>4, <2>5
  <2>. QED  BY <2>5, <2>6
<1>3. ASSUME NEW i \in 1..n, i - 1 \in G  PROVE i \in G
  <2>e. PICK e : e = reports.entries[i]  OBVIOUS
  <2>1. /\ e \in Reports
        /\ FirstNewer(i) = FirstNewer(i - 1) \cup (IF e.rev <= cursor THEN {} ELSE {e})
    BY <1>n, <2>e, FirstNewerIs
  <2>2. ConsumedTo(at[i - 1], FirstNewer(i - 1)) /\ at[i] = Consumed(at[i - 1], e)
    BY <1>1, <1>3, <2>e
  <2>3. ConsumedTo(at[i], FirstNewer(i))
    <3>1. CASE e.rev <= cursor
      <4>1. at[i] = at[i - 1] /\ FirstNewer(i) = FirstNewer(i - 1)
        BY <2>1, <2>2, <3>1, ConsumedOne
      <4>. QED  BY <2>2, <4>1
    <3>2. CASE ~(e.rev <= cursor)
      <4>1. ConsumedTo(at[i], FirstNewer(i - 1) \cup {e})  BY <2>1, <2>2, <3>2, ConsumedOne
      <4>. QED  BY <2>1, <3>2, <4>1
    <3>. QED  BY <3>1, <3>2
  <2>. QED  BY <2>3
<1>4. \A i \in 0..n : i \in G
  <2>1. \A i \in 1..n : i - 1 \in G => i \in G  BY <1>3
  <2>. HIDE DEF G
  <2>. QED  BY <1>2, <2>1, Upwards
<1>5. n \in 0..n  OBVIOUS
<1>6. n \in G  BY <1>4, <1>5
<1>. QED  BY <1>1, <1>6, <1>n, FirstNewerIs

-----------------------------------------------------------------------------
(* What becomes of a query.                                                 *)
LEMMA QueryRetimed ==
    ASSUME NEW q, NEW s, NEW t, NEW u, NEW epoch \in Nat, QueryOK(q, s, t, epoch)
    PROVE  QueryOK(q, s, u, epoch + 1)
<1>1. q.timeEpoch \in 0..(epoch + 1) /\ q.timeEpoch # epoch + 1 /\ IsQuery(q)
  BY DEF QueryOK
<1>2. ASSUME NEW g, NEW v, Answered(q, g, v, t, epoch)  PROVE Answered(q, g, v, u, epoch + 1)
  BY <1>1, <1>2 DEF Answered
<1>. QED  BY <1>1, <1>2 DEF QueryOK

LEMMA QueryMarked ==
    ASSUME NEW q, NEW s, NEW t, NEW epoch, QueryOK(q, s, t, epoch), NEW m, Marked(q, m), NEW g
    PROVE  QueryOK(m, g, t, epoch)
<1>1. /\ IsQuery(m) /\ m.dirty /\ m.timeEpoch \in 0..epoch /\ m.answer = q.answer
      /\ m.path = q.path /\ m.varying = q.varying /\ m.timeEpoch = q.timeEpoch
  BY DEF QueryOK, Marked
<1>2. ASSUME NEW f, NEW v, Answered(q, f, v, t, epoch)  PROVE Answered(m, f, v, t, epoch)
  BY <1>1, <1>2 DEF Answered
<1>. QED  BY <1>1, <1>2 DEF QueryOK

LEMMA QueryUntold ==
    ASSUME NEW q, NEW g, NEW t, NEW epoch, QueryOK(q, g, t, epoch), NEW U, Untold(q, U),
           NEW s, Accounted(g, s, U)
    PROVE  QueryOK(q, s, t, epoch)
<1>1. IsQuery(q) /\ q.path \in Prims /\ q.recipe \in SUBSET Prims  BY DEF QueryOK, IsQuery
<1>2. CASE q.dirty  BY <1>1, <1>2 DEF QueryOK
<1>3. CASE ~q.dirty
  <2>1. q.recipe = DependsOn(g, q.path)  BY <1>3 DEF QueryOK
  <2>2. \A p \in q.recipe : g[p] = s[p]  BY <1>1 DEF Untold, Accounted
  <2>3. /\ DependsOn(s, q.path) = DependsOn(g, q.path)
        /\ VariesIn(s, q.path) = VariesIn(g, q.path)
        /\ \A v : WorldTransform(s, v, q.path) = WorldTransform(g, v, q.path)
    <3>1. CASE g[q.path] = Gone
      <4>1. s[q.path] = Gone  BY <2>1, <2>2, <3>1 DEF DependsOn
      <4>2. DependsOn(s, q.path) = DependsOn(g, q.path)  BY <3>1, <4>1 DEF DependsOn
      <4>3. VariesIn(s, q.path) = VariesIn(g, q.path)  BY <3>1, <4>1 DEF VariesIn
      <4>. QED  BY <3>1, <4>1, <4>2, <4>3, WorldIsMissing
    <3>2. CASE g[q.path] # Gone
      <4>1. \A p \in Chain(g, q.path) : s[p] = g[p]  BY <2>1, <2>2, <3>2 DEF DependsOn
      <4>2. s[q.path] = g[q.path]  BY <1>1, <4>1, ChainFacts
      <4>3. Chain(s, q.path) = Chain(g, q.path) /\ Varies(s, q.path) = Varies(g, q.path)
        BY <1>1, <4>1, SameChain
      <4>4. DependsOn(s, q.path) = DependsOn(g, q.path)  BY <4>2, <4>3 DEF DependsOn
      <4>5. VariesIn(s, q.path) = VariesIn(g, q.path)  BY <4>2, <4>3 DEF VariesIn
      <4>. QED  BY <1>1, <4>1, <4>4, <4>5, SameWorld
    <3>. QED  BY <3>1, <3>2
  <2>4. ASSUME NEW v, Answered(q, g, v, t, epoch)  PROVE Answered(q, s, v, t, epoch)
    BY <2>3, <2>4 DEF Answered
  <2>. QED  BY <2>1, <2>3, <2>4 DEF QueryOK
<1>. QED  BY <1>1, <1>2, <1>3 DEF IsQuery

LEMMA QueryTold ==
    ASSUME NEW q, NEW g, NEW t, NEW epoch, QueryOK(q, g, t, epoch), NEW U, NEW m,
           Told(q, m, U), NEW s, Accounted(g, s, U)
    PROVE  QueryOK(m, s, t, epoch)
BY QueryUntold, QueryMarked DEF Told

LEMMA NewQueryOK ==
    ASSUME NEW p \in Prims, NEW s, NEW t, timeEpoch \in Nat
    PROVE  QueryOK(NewQuery(p), s, t, timeEpoch) /\ NewQuery(p).dirty
<1>1. Initial # TimeChange  BY DEF Initial, TimeChange, Cause
<1>q. PICK q : q = NewQuery(p)  OBVIOUS
<1>2. q = [path |-> p, recipe |-> {p}, answer |-> NoAnswer, dirty |-> TRUE,
           topologyDirty |-> TRUE, varying |-> TRUE, timeEpoch |-> timeEpoch,
           causes |-> {Initial}, omitted |-> 0]
  BY <1>q DEF NewQuery
<1>3. /\ q.path = p /\ q.recipe = {p} /\ q.answer = NoAnswer /\ q.dirty = TRUE
      /\ q.topologyDirty = TRUE /\ q.varying = TRUE /\ q.timeEpoch = timeEpoch
      /\ q.causes = {Initial} /\ q.omitted = 0
  BY <1>2
<1>4. q = [path |-> q.path, recipe |-> q.recipe, answer |-> q.answer, dirty |-> q.dirty,
            topologyDirty |-> q.topologyDirty, varying |-> q.varying,
            timeEpoch |-> q.timeEpoch, causes |-> q.causes, omitted |-> q.omitted]
  BY <1>2, <1>3
<1>5. IsQuery(q)
  <2>1. q.path \in Prims /\ q.recipe \in SUBSET Prims /\ q.omitted \in Nat  BY <1>3
  <2>2. q.dirty \in BOOLEAN /\ q.topologyDirty = q.dirty /\ q.varying \in BOOLEAN  BY <1>3
  <2>3. \E c \in q.causes : c # TimeChange  BY <1>1, <1>3
  <2>. HIDE DEF Initial, TimeChange
  <2>. QED  BY <1>4, <2>1, <2>2, <2>3 DEF IsQuery
<1>6. timeEpoch \in 0..timeEpoch  OBVIOUS
<1>. QED  BY <1>q, <1>3, <1>5, <1>6 DEF QueryOK

-----------------------------------------------------------------------------
(* A poll.                                                                  *)
IsLate(q) == q.timeEpoch # timeEpoch /\ q.varying

LEMMA TimedIs ==
    ASSUME NEW q, IsQuery(q)
    PROVE  LET m == Timed(q)
           IN  /\ m = [path |-> q.path, recipe |-> q.recipe, answer |-> q.answer,
                       dirty |-> m.dirty, topologyDirty |-> q.dirty, varying |-> q.varying,
                       timeEpoch |-> timeEpoch, causes |-> m.causes, omitted |-> m.omitted]
               /\ m.dirty = (q.dirty \/ IsLate(q)) /\ m.omitted \in Nat
               /\ q.dirty => \E c \in m.causes : c # TimeChange
               /\ IsLate(q) => TimeChange \in m.causes \/ m.omitted > 0
<1>m. PICK m : m = Timed(q)  OBVIOUS
<1>1. CASE ~IsLate(q)
  <2>1. m = [q EXCEPT !.timeEpoch = timeEpoch]  BY <1>1, <1>m DEF Timed, IsLate
  <2>2. /\ m.dirty = q.dirty /\ m.causes = q.causes /\ m.omitted = q.omitted
        /\ m.topologyDirty = q.topologyDirty
    BY <2>1 DEF IsQuery
  <2>3. m = [path |-> q.path, recipe |-> q.recipe, answer |-> q.answer,
             dirty |-> q.dirty, topologyDirty |-> q.topologyDirty, varying |-> q.varying,
             timeEpoch |-> timeEpoch, causes |-> q.causes, omitted |-> q.omitted]
    BY <2>1 DEF IsQuery
  <2>4. q.topologyDirty = q.dirty  BY DEF IsQuery
  <2>5. m = [path |-> q.path, recipe |-> q.recipe, answer |-> q.answer,
             dirty |-> m.dirty, topologyDirty |-> q.dirty, varying |-> q.varying,
             timeEpoch |-> timeEpoch, causes |-> m.causes, omitted |-> m.omitted]
    BY <2>2, <2>3, <2>4
  <2>6. m.omitted \in Nat /\ (q.dirty => \E c \in m.causes : c # TimeChange)
    BY <2>2 DEF IsQuery
  <2>7. m.dirty = (q.dirty \/ IsLate(q))
    <3>1. q.dirty \in BOOLEAN  BY DEF IsQuery
    <3>. QED  BY <1>1, <2>2, <3>1
  <2>. QED  BY <1>1, <1>m, <2>5, <2>6, <2>7
<1>2. CASE IsLate(q)
  <2>c. PICK causes : causes = IF q.dirty THEN q.causes ELSE {}  OBVIOUS
  <2>o. PICK omitted : omitted = IF q.dirty THEN q.omitted ELSE 0  OBVIOUS
  <2>k. PICK k : k = Mark(q, TimeChange)  OBVIOUS
  <2>1. k = [q EXCEPT !.dirty = TRUE, !.topologyDirty = @ \/ TimeChange # TimeChange,
                    !.causes = IF Cardinality(causes) < MaxCauses THEN causes \cup {TimeChange}
                               ELSE causes,
                    !.omitted = IF TimeChange \in causes \/ Cardinality(causes) < MaxCauses
                                THEN omitted ELSE omitted + 1]
    BY <2>k, <2>c, <2>o DEF Mark
  <2>t. PICK topology : topology = (q.topologyDirty \/ TimeChange # TimeChange)  OBVIOUS
  <2>2. topology = q.dirty
    <3>1. q.dirty \in BOOLEAN /\ q.topologyDirty = q.dirty  BY DEF IsQuery
    <3>. QED  BY <2>t, <3>1
  <2>3. k = [path |-> q.path, recipe |-> q.recipe, answer |-> q.answer,
             dirty |-> TRUE, topologyDirty |-> topology, varying |-> q.varying,
             timeEpoch |-> q.timeEpoch, causes |-> k.causes, omitted |-> k.omitted]
    BY <2>1, <2>t DEF IsQuery
  <2>4. /\ k.causes = IF Cardinality(causes) < MaxCauses THEN causes \cup {TimeChange}
                      ELSE causes
        /\ k.omitted = IF TimeChange \in causes \/ Cardinality(causes) < MaxCauses
                       THEN omitted ELSE omitted + 1
    BY <2>1 DEF IsQuery
  <2>5. m = [k EXCEPT !.timeEpoch = timeEpoch]  BY <1>2, <1>m, <2>k DEF Timed, IsLate
  <2>6. /\ m = [path |-> q.path, recipe |-> q.recipe, answer |-> q.answer,
                dirty |-> m.dirty, topologyDirty |-> q.dirty, varying |-> q.varying,
                timeEpoch |-> timeEpoch, causes |-> m.causes, omitted |-> m.omitted]
        /\ m.dirty = TRUE /\ m.causes = k.causes /\ m.omitted = k.omitted
    BY <2>2, <2>3, <2>5
  <2>7. omitted \in Nat  BY <2>o DEF IsQuery
  <2>8. m.omitted \in Nat  BY <2>4, <2>6, <2>7
  <2>9. q.dirty => \E c \in m.causes : c # TimeChange
    <3>. SUFFICES ASSUME q.dirty  PROVE \E c \in m.causes : c # TimeChange
      OBVIOUS
    <3>1. \E c \in causes : c # TimeChange  BY <2>c DEF IsQuery
    <3>. QED  BY <2>4, <2>6, <3>1
  <2>10. TimeChange \in m.causes \/ m.omitted > 0
    <3>1. CASE Cardinality(causes) < MaxCauses  BY <2>4, <2>6, <3>1
    <3>2. CASE ~(Cardinality(causes) < MaxCauses)
      <4>1. CASE TimeChange \in causes  BY <2>4, <2>6, <3>2, <4>1
      <4>2. CASE TimeChange \notin causes
        <5>1. m.omitted = omitted + 1  BY <2>4, <2>6, <3>2, <4>2
        <5>. QED  BY <2>7, <5>1
      <4>. QED  BY <4>1, <4>2
    <3>. QED  BY <3>1, <3>2
  <2>. QED  BY <1>2, <1>m, <2>6, <2>8, <2>9, <2>10
<1>. QED  BY <1>1, <1>2

AnsweredNow(q, s, t) ==
    /\ IsQuery(q) /\ ~q.dirty /\ q.timeEpoch = timeEpoch
    /\ q.recipe = DependsOn(s, q.path) /\ q.varying = VariesIn(s, q.path)
    /\ q.answer = WorldTransform(s, t, q.path)

LEMMA AnsweredNowOK ==
    ASSUME timeEpoch \in Nat, NEW q, NEW s, NEW t \in Nat, AnsweredNow(q, s, t)
    PROVE  QueryOK(q, s, t, timeEpoch)
<1>1. timeEpoch \in 0..timeEpoch  OBVIOUS
<1>2. Answered(q, s, t, t, timeEpoch)  BY DEF AnsweredNow, Answered
<1>. QED  BY <1>1, <1>2 DEF AnsweredNow, QueryOK

(* evaluate: what a query whose answer is computed depends on. *)
LEMMA LookedAndRead ==
    ASSUME IsScene(scene), CacheOK(cache, scene), NEW p \in Prims,
           scene[p].active \/ scene[p] = Gone
    PROVE  LET looked == LocalToWorld(scene, cache, p)
           IN  /\ CacheOK(looked.cache, scene) /\ looked.cache.time = cache.time
               /\ looked.matrix = WorldTransform(scene, cache.time, p)
               /\ WorldDependencies(looked.cache, p) = DependsOn(scene, p)
               /\ WorldMightVary(looked.cache, p) = VariesIn(scene, p)
<1>k. PICK looked : looked = LocalToWorld(scene, cache, p)  OBVIOUS
<1>1. CASE scene[p] = Gone
  <2>1. looked = [cache |-> cache, matrix |-> Missing]  BY <1>1, <1>k DEF LocalToWorld
  <2>2. looked.cache = cache /\ looked.matrix = Missing  BY <2>1
  <2>3. p \notin Cached(cache)  BY <1>1 DEF CacheOK
  <2>4. WorldDependencies(cache, p) = {p} /\ WorldMightVary(cache, p) = FALSE
    BY <2>3 DEF WorldDependencies, WorldMightVary
  <2>5. DependsOn(scene, p) = {p} /\ VariesIn(scene, p) = FALSE
    BY <1>1 DEF DependsOn, VariesIn
  <2>. QED  BY <1>1, <1>k, <2>2, <2>4, <2>5, WorldIsMissing
<1>2. CASE scene[p].active
  <2>0. scene[p] # Gone  BY <1>2, ActiveIsPresent
  <2>1. /\ CacheOK(looked.cache, scene) /\ Extends(cache, looked.cache)
        /\ p \in Cached(looked.cache) /\ Valid(looked.cache, scene, p)
        /\ looked.matrix = WorldTransform(scene, cache.time, p)
    BY <1>2, <1>k, LookedUp
  <2>2. looked.cache.time = cache.time  BY <2>1 DEF Extends
  <2>3. /\ WorldDependencies(looked.cache, p) = Chain(scene, p)
        /\ WorldMightVary(looked.cache, p) = Varies(scene, p)
    BY <1>2, <2>1, DependenciesAre
  <2>4. DependsOn(scene, p) = Chain(scene, p)  BY <2>0 DEF DependsOn
  <2>5. VariesIn(scene, p) = Varies(scene, p)  BY <2>0 DEF VariesIn, Varies
  <2>. QED  BY <1>k, <2>1, <2>2, <2>3, <2>4, <2>5
<1>. QED  BY <1>1, <1>2

PollOK(h, r) ==
    /\ CacheOK(r.cache, scene) /\ r.cache.time = time
    /\ AnsweredNow(r.query, scene, time) /\ r.query.path = held[h].path
    /\ held[h].dirty => \E c \in r.causes : c # TimeChange
    /\ IsLate(held[h]) => TimeChange \in r.causes \/ r.omitted > 0

LEMMA PolledOK ==
    ASSUME PollsInactive = FALSE,
           IsScene(scene), CacheOK(cache, scene), cache.time = time, time \in Nat,
           NEW h \in DOMAIN held, QueryOK(held[h], scene, time, timeEpoch),
           MayPoll(held[h].path)
    PROVE  PollOK(h, Polled(h))
<1>q. PICK q : q = held[h]  OBVIOUS
<1>m. PICK m : m = Timed(q)  OBVIOUS
<1>p. PICK p \in Prims : p = q.path  BY <1>q DEF QueryOK, IsQuery
<1>k. PICK looked : looked = LocalToWorld(scene, cache, p)  OBVIOUS
<1>r. PICK r : r = Polled(h)  OBVIOUS
<1>1. /\ QueryOK(q, scene, time, timeEpoch) /\ IsQuery(q)
      /\ q.recipe \in SUBSET Prims /\ q.dirty \in BOOLEAN /\ q.varying \in BOOLEAN
  BY <1>q DEF QueryOK, IsQuery
<1>2. /\ m = [path |-> q.path, recipe |-> q.recipe, answer |-> q.answer,
              dirty |-> m.dirty, topologyDirty |-> q.dirty, varying |-> q.varying,
              timeEpoch |-> timeEpoch, causes |-> m.causes, omitted |-> m.omitted]
      /\ m.dirty = (q.dirty \/ IsLate(q)) /\ m.omitted \in Nat
      /\ q.dirty => \E c \in m.causes : c # TimeChange
      /\ IsLate(q) => TimeChange \in m.causes \/ m.omitted > 0
  BY <1>1, <1>m, TimedIs
<1>3. m.path = p /\ m.recipe = q.recipe /\ m.answer = q.answer /\ m.topologyDirty = q.dirty
      /\ m.varying = q.varying /\ m.timeEpoch = timeEpoch
  BY <1>2, <1>p
<1>4. /\ CacheOK(looked.cache, scene) /\ looked.cache.time = time
      /\ looked.matrix = WorldTransform(scene, time, p)
      /\ WorldDependencies(looked.cache, p) = DependsOn(scene, p)
      /\ WorldMightVary(looked.cache, p) = VariesIn(scene, p)
  <2>1. scene[p].active \/ scene[p] = Gone  BY <1>p, <1>q DEF MayPoll, Active
  <2>. QED  BY <1>k, <2>1, LookedAndRead
<1>5. ~q.dirty => q.recipe = DependsOn(scene, p) /\ q.varying = VariesIn(scene, p)
  BY <1>1, <1>p DEF QueryOK, Answered
<1>6. CASE m.dirty
  <2>w. PICK now : now = Evaluated(m, looked.cache)  OBVIOUS
  <2>n. PICK n : n = [m EXCEPT !.answer = looked.matrix, !.recipe = now.recipe,
                               !.varying = now.varying, !.dirty = FALSE,
                               !.topologyDirty = FALSE]
    OBVIOUS
  <2>1. now.recipe = DependsOn(scene, p) /\ now.varying = VariesIn(scene, p)
    <3>1. CASE q.dirty
      <4>1. now = [recipe |-> DependsOn(scene, p), varying |-> VariesIn(scene, p)]
        BY <1>3, <1>4, <2>w, <3>1 DEF Evaluated
      <4>. QED  BY <4>1
    <3>2. CASE ~q.dirty
      <4>1. now = [recipe |-> q.recipe, varying |-> q.varying]
        BY <1>3, <2>w, <3>2 DEF Evaluated
      <4>. QED  BY <1>5, <3>2, <4>1
    <3>. QED  BY <3>1, <3>2
  <2>2. r = [query |-> n, cache |-> looked.cache, causes |-> m.causes, omitted |-> m.omitted]
    BY <1>6, <1>q, <1>m, <1>k, <1>r, <1>3, <2>w, <2>n DEF Polled
  <2>3. r.query = n /\ r.cache = looked.cache /\ r.causes = m.causes /\ r.omitted = m.omitted
    BY <2>2
  <2>4. n = [path |-> p, recipe |-> now.recipe, answer |-> looked.matrix, dirty |-> FALSE,
             topologyDirty |-> FALSE, varying |-> now.varying, timeEpoch |-> timeEpoch,
             causes |-> m.causes, omitted |-> m.omitted]
    BY <1>2, <1>3, <2>n
  <2>5. /\ n.path = p /\ n.recipe = now.recipe /\ n.answer = looked.matrix /\ n.dirty = FALSE
        /\ n.topologyDirty = FALSE /\ n.varying = now.varying /\ n.timeEpoch = timeEpoch
        /\ n.causes = m.causes /\ n.omitted = m.omitted
    BY <2>4
  <2>6. n = [path |-> n.path, recipe |-> n.recipe, answer |-> n.answer, dirty |-> n.dirty,
             topologyDirty |-> n.topologyDirty, varying |-> n.varying,
             timeEpoch |-> n.timeEpoch, causes |-> n.causes, omitted |-> n.omitted]
    BY <2>4, <2>5
  <2>7. n.recipe \in SUBSET Prims
    <3>1. DependsOn(scene, p) \subseteq Prims  BY ChainFacts DEF DependsOn
    <3>. QED  BY <2>1, <2>5, <3>1
  <2>8. n.varying \in BOOLEAN
    <3>1. VariesIn(scene, p) \in BOOLEAN  BY DEF VariesIn
    <3>. QED  BY <2>1, <2>5, <3>1
  <2>9. IsQuery(n)  BY <1>2, <2>5, <2>6, <2>7, <2>8 DEF IsQuery
  <2>10. AnsweredNow(n, scene, time)  BY <1>4, <2>1, <2>5, <2>9 DEF AnsweredNow
  <2>. QED  BY <1>2, <1>4, <1>q, <1>p, <1>r, <2>3, <2>5, <2>10 DEF PollOK
<1>7. CASE ~m.dirty
  <2>1. r = [query |-> m, cache |-> cache, causes |-> {}, omitted |-> 0]
    BY <1>7, <1>q, <1>m, <1>r DEF Polled
  <2>2. r.query = m /\ r.cache = cache  BY <2>1
  <2>3. ~q.dirty /\ ~IsLate(q)
    <3>1. (q.dirty \/ IsLate(q)) = m.dirty  BY <1>2
    <3>. QED  BY <1>7, <3>1
  <2>4. m.dirty = FALSE  BY <1>2, <2>3
  <2>5. PICK t \in Nat : Answered(q, scene, t, time, timeEpoch)  BY <1>1, <2>3 DEF QueryOK
  <2>6. q.answer = WorldTransform(scene, time, p)
    <3>1. CASE q.timeEpoch = timeEpoch  BY <1>p, <2>5, <3>1 DEF Answered
    <3>2. CASE q.timeEpoch # timeEpoch
      <4>1. ~VariesIn(scene, p)  BY <1>5, <2>3, <3>2 DEF IsLate
      <4>2. q.answer = WorldTransform(scene, t, p)  BY <1>p, <2>5 DEF Answered
      <4>. QED  BY <4>1, <4>2, SameAtAllTimes
    <3>. QED  BY <3>1, <3>2
  <2>7. q.dirty = FALSE  BY <1>1, <2>3
  <2>8. m = [path |-> m.path, recipe |-> m.recipe, answer |-> m.answer, dirty |-> m.dirty,
             topologyDirty |-> m.topologyDirty, varying |-> m.varying,
             timeEpoch |-> m.timeEpoch, causes |-> m.causes, omitted |-> m.omitted]
    BY <1>2, <1>3, <1>p
  <2>9. IsQuery(m)  BY <1>1, <1>2, <1>3, <2>4, <2>7, <2>8 DEF IsQuery
  <2>10. AnsweredNow(m, scene, time)  BY <1>3, <1>5, <2>3, <2>4, <2>6, <2>9 DEF AnsweredNow
  <2>. QED  BY <1>q, <1>p, <1>r, <1>3, <2>2, <2>3, <2>10 DEF PollOK
<1>. QED  BY <1>6, <1>7, <1>r

-----------------------------------------------------------------------------
(* The invariant.  Some scene is the one that was consumed: the cache and   *)
(* the clean queries are right in it, and the reports that are not consumed *)
(* account for what differs in the scene there is, if none of them is lost. *)
StateOK ==
    /\ IsScene(scene) /\ revision \in Nat /\ IsHistory(reports, revision)
    /\ time \in Nat /\ timeEpoch \in Nat /\ cache.time = time
    /\ cursor = NoCursor \/ cursor \in 0..revision
    /\ held = [h \in DOMAIN held |-> held[h]]

ConsumedScene(g) ==
    /\ IsScene(g) /\ CacheOK(cache, g)
    /\ \A h \in DOMAIN held : QueryOK(held[h], g, time, timeEpoch)
    /\ cursor # NoCursor /\ cursor >= reports.floor =>
           Accounted(g, scene, Newer(reports, cursor))

NothingYet == cursor = NoCursor =>
    Cached(cache) = {} /\ \A h \in DOMAIN held : held[h].dirty

IInv == StateOK /\ NothingYet /\ \E g : ConsumedScene(g)

(* A view that has consumed everything sees the scene there is.             *)
LEMMA AllConsumed ==
    ASSUME StateOK, NEW g, ConsumedScene(g), NEW c, NEW U \in SUBSET Reports,
           Applied(scene, cache, c, U), Accounted(g, scene, U)
    PROVE  CacheOK(c, scene)
BY AppliedFits, FitsOK DEF StateOK, ConsumedScene

LEMMA NewerThanAll ==
    ASSUME NEW n \in Nat, NEW h, IsHistory(h, n)
    PROVE  Newer(h, n) = {}
<1>1. \A i \in 1..Len(h.entries) : h.entries[i] \in Reports  BY DEF IsHistory
<1>2. \A i \in 1..Len(h.entries) : h.entries[i].rev \in Nat /\ h.entries[i].rev <= n
  BY <1>1 DEF IsHistory, Reports
<1>. QED  BY <1>2 DEF Newer

LEMMA NewerAreReports ==
    ASSUME NEW n \in Nat, NEW h, IsHistory(h, n), NEW k
    PROVE  Newer(h, k) \in SUBSET Reports
<1>1. \A i \in 1..Len(h.entries) : h.entries[i] \in Reports  BY DEF IsHistory
<1>. QED  BY <1>1 DEF Newer

LEMMA SynchronizedOK ==
    ASSUME IInv, Synchronized
    PROVE  /\ IsScene(scene) /\ CacheOK(cache, scene) /\ cache.time = time /\ time \in Nat
           /\ timeEpoch \in Nat
           /\ \A h \in DOMAIN held : QueryOK(held[h], scene, time, timeEpoch)
<1>1. PICK g : ConsumedScene(g)  BY DEF IInv
<1>2. StateOK  BY DEF IInv
<1>3. cursor \in Nat /\ cursor # NoCursor /\ cursor >= reports.floor
  BY <1>2 DEF StateOK, Synchronized, NoCursor, IsHistory
<1>4. Newer(reports, cursor) = {}  BY <1>2, NewerThanAll DEF StateOK, Synchronized
<1>5. Accounted(g, scene, {})  BY <1>1, <1>3, <1>4 DEF ConsumedScene
<1>6. CacheOK(cache, scene)
  <2>1. Applied(scene, cache, cache, {})  BY <1>1, NothingApplied DEF ConsumedScene, CacheOK
  <2>. QED  BY <1>1, <1>2, <1>5, <2>1, AllConsumed
<1>7. ASSUME NEW h \in DOMAIN held  PROVE QueryOK(held[h], scene, time, timeEpoch)
  <2>1. QueryOK(held[h], g, time, timeEpoch)  BY <1>1 DEF ConsumedScene
  <2>2. Untold(held[h], {})  BY DEF Untold
  <2>. QED  BY <1>5, <2>1, <2>2, QueryUntold
<1>. QED  BY <1>2, <1>6, <1>7 DEF StateOK

-----------------------------------------------------------------------------
LEMMA InitOK == Init => IInv
<1>. SUFFICES ASSUME Init  PROVE IInv
  OBVIOUS
<1>1. IsScene(scene) /\ revision = 0 /\ reports = EmptyHistory(Budget) /\ time \in Nat
      /\ timeEpoch = 0 /\ cache = NewCache(time) /\ cursor = NoCursor /\ held = <<>>
  BY HostAssumption DEF Init
<1>2. IsHistory(reports, 0)
  <2>1. reports = [entries |-> <<>>, budget |-> Budget, floor |-> 0]
    BY <1>1 DEF EmptyHistory
  <2>2. reports.entries = <<>> /\ reports.budget = Budget /\ reports.floor = 0  BY <2>1
  <2>3. Len(reports.entries) = 0 /\ reports.entries \in Seq(Reports)  BY <2>2
  <2>4. Budget \in [batches : Nat, bytes : Nat]  BY HostAssumption
  <2>. QED  BY <2>1, <2>2, <2>3, <2>4 DEF IsHistory, Ordered
<1>3. Arena(cache) /\ Cached(cache) = {} /\ cache.time = time
  BY <1>1, Cleared DEF NewCache
<1>4. DOMAIN held = {} /\ held = [h \in DOMAIN held |-> held[h]]
  <2>1. DOMAIN held = 1..0 /\ 1..0 = {}  BY <1>1
  <2>2. held = [h \in DOMAIN held |-> held[h]]  BY <1>1
  <2>. QED  BY <2>1, <2>2
<1>5. ConsumedScene(scene)  BY <1>1, <1>3, <1>4, EmptyOK DEF ConsumedScene
<1>. QED  BY <1>1, <1>2, <1>3, <1>4, <1>5 DEF IInv, StateOK, NothingYet

(* The stage changes: nothing is consumed, and there is one report more.    *)
LEMMA PublishOK ==
    ASSUME IInv, NEW new, IsScene(new), NEW roots \in SUBSET Prims, Publish(new, roots),
           \A p \in Prims : ~scene[p].active /\ new[p].active =>
               \E r \in roots : IsPrefix(r, p)
    PROVE  IInv'
<1>. USE DEF Publish
<1>1. PICK g : ConsumedScene(g)  BY DEF IInv
<1>2. /\ StateOK /\ NothingYet /\ revision \in Nat /\ IsHistory(reports, revision)
      /\ cursor = NoCursor \/ cursor \in 0..revision
  BY DEF IInv, StateOK
<1>3. /\ scene' = new /\ revision' = revision + 1 /\ time' = time /\ timeEpoch' = timeEpoch
      /\ cache' = cache /\ cursor' = cursor /\ held' = held
  OBVIOUS
<1>e. PICK e : e = Report(scene, new, roots)  OBVIOUS
<1>4. /\ e \in Reports /\ e.rev = revision + 1 /\ Reported(e, scene, new)
  <2>b. PICK B : B = {p \in Prims : \E r \in roots : IsPrefix(r, p)}  OBVIOUS
  <2>1. e = [rev |-> revision + 1, bytes |-> 1, resynced |-> roots,
             removed |-> Present(scene) \ Present(new),
             properties |-> {p \in Prims \ B : scene[p] # new[p]}]
    BY <1>e, <2>b DEF Report
  <2>2. /\ e.rev = revision + 1 /\ e.resynced = roots
        /\ e.removed = Present(scene) \ Present(new)
        /\ e.properties = {p \in Prims \ B : scene[p] # new[p]}
    BY <2>1
  <2>3. e \in Reports
    <3>1. Present(scene) \ Present(new) \in SUBSET Prims  BY DEF Present
    <3>2. {p \in Prims \ B : scene[p] # new[p]} \in SUBSET Prims  OBVIOUS
    <3>3. revision + 1 \in Nat  BY <1>2
    <3>. QED  BY <2>1, <3>1, <3>2, <3>3 DEF Reports
  <2>4. \A p \in Prims : scene[p] # new[p] =>
            p \in e.properties \/ \E r \in e.resynced : IsPrefix(r, p)
    BY <2>b, <2>2
  <2>. QED  BY <2>2, <2>3, <2>4 DEF Reported
<1>5. /\ IsHistory(reports', revision + 1)
      /\ cursor # NoCursor /\ cursor >= reports'.floor =>
             /\ cursor >= reports.floor
             /\ Newer(reports', cursor) = Newer(reports, cursor) \cup {e}
  <2>1. CASE cursor = NoCursor
    <3>1. reports' = reports  BY <2>1
    <3>2. IsHistory(reports, revision + 1)
      <4>1. \A i \in 1..Len(reports.entries) : reports.entries[i].rev \in Nat
        <5>1. \A i \in 1..Len(reports.entries) : reports.entries[i] \in Reports
          BY <1>2 DEF IsHistory
        <5>. QED  BY <5>1 DEF Reports
      <4>. QED  BY <1>2, <4>1 DEF IsHistory
    <3>. QED  BY <2>1, <3>1, <3>2
  <2>2. CASE cursor # NoCursor
    <3>1. reports' = Record(reports, e)  BY <1>e, <2>2
    <3>2. cursor \in Int /\ cursor <= revision  BY <1>2, <2>2
    <3>. QED  BY <1>2, <1>4, <3>1, <3>2, ReportRecorded
  <2>. QED  BY <2>1, <2>2
<1>6. StateOK'
  <2>1. IsScene(scene)'  BY <1>3 DEF IsScene
  <2>2. (cursor = NoCursor \/ cursor \in 0..revision)'  BY <1>2, <1>3
  <2>3. IsHistory(reports, revision)'  BY <1>3, <1>5
  <2>. QED  BY <1>2, <1>3, <2>1, <2>2, <2>3 DEF StateOK
<1>7. NothingYet'  BY <1>2, <1>3 DEF NothingYet, Cached
<1>8. ConsumedScene(g)'
  <2>1. (cursor # NoCursor /\ cursor >= reports.floor =>
             Accounted(g, scene, Newer(reports, cursor)))'
    <3>. SUFFICES ASSUME cursor' # NoCursor, cursor' >= reports'.floor
                  PROVE  Accounted(g, new, Newer(reports', cursor))
      BY <1>3
    <3>1. /\ cursor # NoCursor /\ cursor >= reports.floor
          /\ Newer(reports', cursor) = Newer(reports, cursor) \cup {e}
      BY <1>3, <1>5
    <3>2. Accounted(g, scene, Newer(reports, cursor))  BY <1>1, <3>1 DEF ConsumedScene
    <3>. QED  BY <1>4, <3>1, <3>2, AccountedMore
  <2>2. IsScene(g) /\ CacheOK(cache', g)  BY <1>1, <1>3 DEF ConsumedScene
  <2>3. \A h \in DOMAIN held' : QueryOK(held'[h], g, time', timeEpoch')
    BY <1>1, <1>3 DEF ConsumedScene
  <2>. QED  BY <2>1, <2>2, <2>3 DEF ConsumedScene
<1>. QED  BY <1>6, <1>7, <1>8 DEF IInv

LEMMA EditTransformOK ==
    ASSUME IInv, NEW p \in Prims, EditTransform(p)
    PROVE  IInv'
<1>1. PICK spec \in Specs[p] :
          spec.active = scene[p].active /\ Publish([scene EXCEPT ![p] = spec], {})
  BY DEF EditTransform
<1>2. scene[p] # Gone /\ IsScene(scene)  BY DEF EditTransform, IInv, StateOK
<1>n. PICK new : new = [scene EXCEPT ![p] = spec]  OBVIOUS
<1>3. DOMAIN new = Prims /\ new[p] = spec /\ \A q \in Prims : q # p => new[q] = scene[q]
  BY <1>2, <1>n DEF IsScene
<1>4. \A q \in Prims : new[q].active = scene[q].active  BY <1>1, <1>3
<1>5. IsScene(new)
  <2>1. ASSUME NEW q \in Prims
        PROVE  /\ new[q] \in Specs[q] \cup {Gone}
               /\ new[q] # Gone /\ Len(q) > 1 => new[Front(q)].active
    <3>1. new[q] \in Specs[q] \cup {Gone}  BY <1>2, <1>3 DEF IsScene
    <3>2. ASSUME new[q] # Gone, Len(q) > 1  PROVE new[Front(q)].active
      <4>1. scene[q] # Gone  BY <1>2, <1>3, <3>2
      <4>2. scene[Front(q)].active  BY <1>2, <3>2, <4>1 DEF IsScene
      <4>3. Front(q) \in Prims  BY <3>2, PrimFacts
      <4>. QED  BY <1>4, <4>2, <4>3
    <3>. QED  BY <3>1, <3>2
  <2>. QED  BY <1>3, <2>1 DEF IsScene
<1>6. \A q \in Prims : ~scene[q].active /\ new[q].active =>
          \E r \in {} : IsPrefix(r, q)
  BY <1>4
<1>7. Publish(new, {})  BY <1>1, <1>n
<1>. QED  BY <1>5, <1>6, <1>7, PublishOK

LEMMA ResyncOK ==
    ASSUME IInv, NEW root \in Prims, Resync(root)
    PROVE  IInv'
<1>1. PICK below, new : /\ new = [p \in Prims |-> IF p \in DOMAIN below THEN below[p] ELSE scene[p]]
                        /\ DOMAIN below = Below(root, Prims)
                        /\ IsScene(new) /\ Publish(new, {root})
  BY DEF Resync
<1>2. \A p \in Prims : ~IsPrefix(root, p) => new[p] = scene[p]  BY <1>1 DEF Below
<1>3. \A p \in Prims : ~scene[p].active /\ new[p].active =>
          \E r \in {root} : IsPrefix(r, p)
  BY <1>2
<1>. QED  BY <1>1, <1>3, PublishOK

(* A view: what was consumed is the scene there is.                         *)
LEMMA ViewSettles ==
    ASSUME IInv, View, CacheOK(cache', scene), cache'.time = time,
           held' = [h \in DOMAIN held' |-> held'[h]],
           \A h \in DOMAIN held' : QueryOK(held'[h], scene, time, timeEpoch)
    PROVE  IInv'
<1>1. StateOK /\ IsScene(scene) /\ revision \in Nat /\ IsHistory(reports, revision)
  BY DEF IInv, StateOK
<1>2. /\ cursor' = revision /\ scene' = scene /\ revision' = revision
      /\ reports' = reports /\ time' = time /\ timeEpoch' = timeEpoch
  BY DEF View
<1>3. StateOK'
  <2>1. IsScene(scene)'  BY <1>1, <1>2 DEF IsScene
  <2>2. (cursor = NoCursor \/ cursor \in 0..revision)'  BY <1>1, <1>2
  <2>3. IsHistory(reports, revision)'  BY <1>1, <1>2
  <2>. QED  BY <1>1, <1>2, <2>1, <2>2, <2>3 DEF StateOK
<1>4. NothingYet'
  <2>1. cursor' # NoCursor  BY <1>1, <1>2 DEF NoCursor
  <2>. QED  BY <2>1 DEF NothingYet
<1>5. ConsumedScene(scene)'
  <2>1. Newer(reports', cursor') = {}  BY <1>1, <1>2, NewerThanAll
  <2>2. Accounted(scene, scene, {})  BY NothingAccounted
  <2>3. (cursor # NoCursor /\ cursor >= reports.floor =>
             Accounted(scene, scene, Newer(reports, cursor)))'
    BY <1>2, <2>1, <2>2
  <2>4. IsScene(scene)'  BY <1>1, <1>2 DEF IsScene
  <2>5. CacheOK(cache', scene')  BY <1>2
  <2>6. \A h \in DOMAIN held' : QueryOK(held'[h], scene', time', timeEpoch')  BY <1>2
  <2>. QED  BY <2>3, <2>4, <2>5, <2>6 DEF ConsumedScene
<1>. QED  BY <1>3, <1>4, <1>5 DEF IInv

LEMMA ViewOK ==
    ASSUME IInv, View
    PROVE  IInv'
<1>1. PICK g : ConsumedScene(g)  BY DEF IInv
<1>2. /\ StateOK /\ NothingYet /\ IsHistory(reports, revision)
      /\ cache.time = time /\ held = [h \in DOMAIN held |-> held[h]]
      /\ cursor = NoCursor \/ cursor \in Nat
  BY DEF IInv, StateOK
<1>3. Arena(cache) /\ \A h \in DOMAIN held : QueryOK(held[h], g, time, timeEpoch)
  BY <1>1 DEF ConsumedScene, CacheOK
<1>4. CASE cursor = NoCursor
  <2>1. cache' = cache /\ held' = held  BY <1>4 DEF View
  <2>2. CacheOK(cache, scene)  BY <1>2, <1>3, <1>4, EmptyOK DEF NothingYet
  <2>3. ASSUME NEW h \in DOMAIN held  PROVE QueryOK(held[h], scene, time, timeEpoch)
    <3>1. held[h].dirty /\ QueryOK(held[h], g, time, timeEpoch)
      BY <1>2, <1>3, <1>4 DEF NothingYet
    <3>. QED  BY <3>1 DEF QueryOK
  <2>. QED  BY <1>2, <2>1, <2>2, <2>3, ViewSettles
<1>5. CASE cursor # NoCursor /\ cursor < reports.floor
  <2>1. cache' = NewCache(time) /\ held' = [h \in DOMAIN held |-> Mark(held[h], HistoryLost)]
    BY <1>5 DEF View
  <2>2. CacheOK(cache', scene) /\ cache'.time = time
    BY <2>1, ClearedOK, Cleared DEF NewCache
  <2>3. HistoryLost # TimeChange  BY DEF HistoryLost, TimeChange, Cause
  <2>4. ASSUME NEW h \in DOMAIN held'  PROVE QueryOK(held'[h], scene, time, timeEpoch)
    <3>1. h \in DOMAIN held /\ held'[h] = Mark(held[h], HistoryLost)  BY <2>1
    <3>2. QueryOK(held[h], g, time, timeEpoch) /\ IsQuery(held[h])
      BY <1>3, <3>1 DEF QueryOK
    <3>3. Marked(held[h], held'[h])  BY <2>3, <3>1, <3>2, OneMarked
    <3>. QED  BY <3>2, <3>3, QueryMarked
  <2>5. held' = [h \in DOMAIN held' |-> held'[h]]  BY <2>1
  <2>. QED  BY <2>2, <2>4, <2>5, ViewSettles
<1>6. CASE cursor # NoCursor /\ ~(cursor < reports.floor)
  <2>1. cache' = ConsumedAll.cache /\ held' = ConsumedAll.held  BY <1>6 DEF View
  <2>n. cursor \in Nat /\ reports.floor \in Nat /\ reports.entries \in Seq(Reports)
    BY <1>2, <1>6 DEF IsHistory
  <2>U. PICK U : U = Newer(reports, cursor)  OBVIOUS
  <2>2. U \in SUBSET Reports  BY <1>2, <2>U, NewerAreReports DEF StateOK
  <2>3. Accounted(g, scene, U)  BY <1>1, <1>6, <2>U, <2>n DEF ConsumedScene
  <2>4. ConsumedTo(ConsumedAll, U)
    <3>1. \A h \in DOMAIN held : IsQuery(held[h])  BY <1>3 DEF QueryOK
    <3>. QED  BY <1>2, <1>3, <2>n, <2>U, <3>1, ConsumedReports
  <2>5. /\ Applied(scene, cache, cache', U) /\ held' = [h \in DOMAIN held |-> held'[h]]
        /\ \A h \in DOMAIN held : Told(held[h], held'[h], U)
    BY <2>1, <2>4 DEF ConsumedTo
  <2>6. CacheOK(cache', scene)  BY <1>1, <1>2, <2>2, <2>3, <2>5, AllConsumed
  <2>7. cache'.time = time  BY <1>2, <2>5 DEF Applied, Aged
  <2>8. DOMAIN held' = DOMAIN held  BY <2>5
  <2>9. \A h \in DOMAIN held' : QueryOK(held'[h], scene, time, timeEpoch)
    BY <1>3, <2>3, <2>5, <2>8, QueryTold
  <2>10. held' = [h \in DOMAIN held' |-> held'[h]]  BY <2>5, <2>8
  <2>. QED  BY <2>6, <2>7, <2>9, <2>10, ViewSettles
<1>. QED  BY <1>4, <1>5, <1>6

-----------------------------------------------------------------------------
(* The observer: the scene that was consumed stays the one it was.          *)
ObserverOnly ==
    /\ scene' = scene /\ revision' = revision /\ reports' = reports /\ cursor' = cursor

LEMMA ObserverStep ==
    ASSUME IInv, ObserverOnly, NEW g, ConsumedScene(g),
           time' \in Nat, timeEpoch' \in Nat,
           CacheOK(cache', g), cache'.time = time',
           held' = [h \in DOMAIN held' |-> held'[h]],
           \A h \in DOMAIN held' : QueryOK(held'[h], g, time', timeEpoch'),
           NothingYet'
    PROVE  IInv'
<1>. USE DEF ObserverOnly
<1>1. StateOK'
  <2>1. IsScene(scene)'  BY DEF IInv, StateOK, IsScene
  <2>. QED  BY <2>1 DEF IInv, StateOK
<1>2. ConsumedScene(g)'
  <2>1. IsScene(g)  BY DEF ConsumedScene
  <2>2. (cursor # NoCursor /\ cursor >= reports.floor =>
             Accounted(g, scene, Newer(reports, cursor)))'
    BY DEF ConsumedScene
  <2>. QED  BY <2>1, <2>2 DEF ConsumedScene
<1>. QED  BY <1>1, <1>2 DEF IInv

LEMMA ChangeTimeOK ==
    ASSUME IInv, ChangeTime
    PROVE  IInv'
<1>1. PICK g : ConsumedScene(g)  BY DEF IInv
<1>2. PICK t \in Times : time' = t /\ cache' = SetTime(cache, t)  BY DEF ChangeTime
<1>3. /\ ObserverOnly /\ timeEpoch' = timeEpoch + 1 /\ held' = held /\ cursor' = cursor
      /\ timeEpoch \in Nat /\ held = [h \in DOMAIN held |-> held[h]]
  BY DEF ChangeTime, ObserverOnly, IInv, StateOK
<1>4. /\ CacheOK(cache', g) /\ cache'.time = t /\ Cached(cache') \subseteq Cached(cache)
  BY <1>1, <1>2, TimeSet DEF ConsumedScene
<1>5. t \in Nat  BY HostAssumption
<1>6. \A h \in DOMAIN held' : QueryOK(held'[h], g, time', timeEpoch')
  BY <1>1, <1>3, QueryRetimed DEF ConsumedScene
<1>7. NothingYet'
  <2>1. NothingYet  BY DEF IInv
  <2>. QED  BY <1>3, <1>4, <2>1 DEF NothingYet
<1>. QED  BY <1>1, <1>2, <1>3, <1>4, <1>5, <1>6, <1>7, ObserverStep

LEMMA QueriesOK ==
    ASSUME IInv, ObserverOnly, UNCHANGED <<time, timeEpoch, cache>>,
           NEW g, ConsumedScene(g), held' = [h \in DOMAIN held' |-> held'[h]],
           \A h \in DOMAIN held' : /\ QueryOK(held'[h], g, time, timeEpoch)
                                   /\ cursor = NoCursor => held'[h].dirty
    PROVE  IInv'
<1>1. time \in Nat /\ timeEpoch \in Nat /\ cache.time = time  BY DEF IInv, StateOK
<1>2. CacheOK(cache, g)  BY DEF ConsumedScene
<1>3. NothingYet'  BY DEF IInv, NothingYet, ObserverOnly
<1>. QED  BY <1>1, <1>2, <1>3, ObserverStep

LEMMA ObserveOK ==
    ASSUME IInv, Observe
    PROVE  IInv'
<1>1. PICK g : ConsumedScene(g)  BY DEF IInv
<1>2. PICK p \in Prims :
          held' = [h \in DOMAIN held \cup {nextId} |->
                      IF h = nextId THEN NewQuery(p) ELSE held[h]]
  BY DEF Observe
<1>3. ObserverOnly /\ UNCHANGED <<time, timeEpoch, cache>> /\ timeEpoch \in Nat /\ NothingYet
  BY DEF Observe, ObserverOnly, IInv, StateOK
<1>4. ASSUME NEW h \in DOMAIN held'
      PROVE  /\ QueryOK(held'[h], g, time, timeEpoch)
             /\ cursor = NoCursor => held'[h].dirty
  <2>1. CASE h = nextId
    <3>1. held'[h] = NewQuery(p)  BY <1>2, <2>1
    <3>. QED  BY <1>3, <3>1, NewQueryOK
  <2>2. CASE h # nextId
    <3>1. h \in DOMAIN held /\ held'[h] = held[h]  BY <1>2, <2>2
    <3>. QED  BY <1>1, <1>3, <3>1 DEF ConsumedScene, NothingYet
  <2>. QED  BY <2>1, <2>2
<1>5. held' = [h \in DOMAIN held' |-> held'[h]]  BY <1>2
<1>. QED  BY <1>1, <1>3, <1>4, <1>5, QueriesOK

LEMMA RemoveQueryOK ==
    ASSUME IInv, NEW h \in DOMAIN held, RemoveQuery(h)
    PROVE  IInv'
<1>1. PICK g : ConsumedScene(g)  BY DEF IInv
<1>2. held' = [other \in DOMAIN held \ {h} |-> held[other]]  BY DEF RemoveQuery
<1>3. ObserverOnly /\ UNCHANGED <<time, timeEpoch, cache>> /\ NothingYet
  BY DEF RemoveQuery, ObserverOnly, IInv
<1>4. ASSUME NEW k \in DOMAIN held'
      PROVE  /\ QueryOK(held'[k], g, time, timeEpoch)
             /\ cursor = NoCursor => held'[k].dirty
  <2>1. k \in DOMAIN held /\ held'[k] = held[k]  BY <1>2
  <2>. QED  BY <1>1, <1>3, <2>1 DEF ConsumedScene, NothingYet
<1>5. held' = [k \in DOMAIN held' |-> held'[k]]  BY <1>2
<1>. QED  BY <1>1, <1>3, <1>4, <1>5, QueriesOK

LEMMA PollStepOK ==
    ASSUME PollsInactive = FALSE, IInv, NEW h \in DOMAIN held, Poll(h)
    PROVE  IInv'
<1>r. PICK r : r = Polled(h)  OBVIOUS
<1>1. /\ Synchronized /\ held' = [held EXCEPT ![h] = r.query] /\ cache' = r.cache
      /\ ObserverOnly /\ UNCHANGED <<time, timeEpoch>> /\ MayPoll(held[h].path)
  BY <1>r DEF Poll, ObserverOnly
<1>2. /\ IsScene(scene) /\ CacheOK(cache, scene) /\ cache.time = time /\ time \in Nat
      /\ timeEpoch \in Nat
      /\ \A k \in DOMAIN held : QueryOK(held[k], scene, time, timeEpoch)
  BY <1>1, SynchronizedOK
<1>3. PollOK(h, r)  BY <1>1, <1>2, <1>r, PolledOK
<1>4. CacheOK(cache', scene) /\ cache'.time = time  BY <1>1, <1>3 DEF PollOK
<1>5. QueryOK(r.query, scene, time, timeEpoch)  BY <1>2, <1>3, AnsweredNowOK DEF PollOK
<1>6. DOMAIN held' = DOMAIN held /\ held' = [k \in DOMAIN held' |-> held'[k]]
  BY <1>1 DEF IInv, StateOK
<1>7. ASSUME NEW k \in DOMAIN held'  PROVE QueryOK(held'[k], scene, time, timeEpoch)
  <2>1. k \in DOMAIN held /\ held'[k] = IF k = h THEN r.query ELSE held[k]  BY <1>1, <1>6
  <2>. QED  BY <1>2, <1>5, <2>1
<1>8. cursor # NoCursor /\ cursor' = cursor /\ revision \in Nat /\ cursor = revision
  BY <1>1 DEF IInv, StateOK, Synchronized, ObserverOnly, NoCursor
<1>9. NothingYet'  BY <1>8 DEF NothingYet
<1>10. ConsumedScene(scene)
  <2>1. Newer(reports, cursor) = {}  BY <1>8, NewerThanAll DEF IInv, StateOK
  <2>2. Accounted(scene, scene, {})  BY NothingAccounted
  <2>. QED  BY <1>2, <2>1, <2>2 DEF ConsumedScene
<1>. QED  BY <1>1, <1>2, <1>4, <1>6, <1>7, <1>9, <1>10, ObserverStep

LEMMA StutterOK ==
    ASSUME IInv, UNCHANGED vars
    PROVE  IInv'
<1>1. PICK g : ConsumedScene(g)  BY DEF IInv
<1>2. /\ ObserverOnly /\ UNCHANGED <<time, timeEpoch, cache>> /\ held' = held
      /\ held = [h \in DOMAIN held |-> held[h]] /\ NothingYet
  BY DEF vars, ObserverOnly, IInv, StateOK
<1>3. \A h \in DOMAIN held' : /\ QueryOK(held'[h], g, time, timeEpoch)
                              /\ cursor = NoCursor => held'[h].dirty
  BY <1>1, <1>2 DEF ConsumedScene, NothingYet
<1>. QED  BY <1>1, <1>2, <1>3, QueriesOK

LEMMA NextOK ==
    ASSUME PollsInactive = FALSE, IInv, [Next]_vars
    PROVE  IInv'
<1>1. CASE UNCHANGED vars  BY <1>1, StutterOK
<1>2. ASSUME NEW p \in Prims, EditTransform(p)  PROVE IInv'  BY <1>2, EditTransformOK
<1>3. ASSUME NEW p \in Prims, Resync(p)  PROVE IInv'  BY <1>3, ResyncOK
<1>4. CASE View  BY <1>4, ViewOK
<1>5. CASE ChangeTime  BY <1>5, ChangeTimeOK
<1>6. CASE Observe  BY <1>6, ObserveOK
<1>7. ASSUME NEW h \in DOMAIN held, RemoveQuery(h)  PROVE IInv'  BY <1>7, RemoveQueryOK
<1>8. ASSUME NEW h \in DOMAIN held, Poll(h)  PROVE IInv'  BY <1>8, PollStepOK
<1>. QED  BY <1>1, <1>2, <1>3, <1>4, <1>5, <1>6, <1>7, <1>8 DEF Next

LEMMA InvariantHolds ==
    ASSUME PollsInactive = FALSE
    PROVE  Spec => []IInv
<1>1. IInv /\ [Next]_vars => IInv'  BY NextOK
<1>. QED  BY InitOK, <1>1, PTL DEF Spec

LEMMA LinkedArena ==
    ASSUME NEW c, NEW s, CacheOK(c, s), NEW paths,
           \A p \in Cached(c) \cap paths : s[p].active
    PROVE  ArenaIsLinked(c, paths)
<1>n. PICK n \in Nat : n = Len(c.nodes)  BY ArenaFacts DEF CacheOK
<1>1. /\ Arena(c) /\ Slots(c.entries, c.free, n) /\ DOMAIN c.nodes = 1..n
      /\ \A p \in Cached(c) : p \in Prims /\ c.entries[p] \in 1..n /\ NodeOf(c, p).path = p
      /\ \A p, q \in Cached(c) : c.entries[p] = c.entries[q] => p = q
  <2>1. Arena(c)  BY DEF CacheOK
  <2>. QED  BY <1>n, <2>1, ArenaFacts DEF Arena
<1>. DEFINE live == {c.entries[p] : p \in Cached(c)}
<1>2. Len(c.free) \in Nat /\ DOMAIN c.free = 1..Len(c.free) /\ \A i \in 1..Len(c.free) : c.free[i] \in 1..n
  BY <1>1 DEF Slots
<1>3. Range(c.free) = {c.free[i] : i \in 1..Len(c.free)}  BY <1>2 DEF Range
<1>4. live \cap Range(c.free) = {}  BY <1>1, <1>3 DEF Slots, Cached
<1>5. live \cup Range(c.free) = DOMAIN c.nodes
  <2>1. live \subseteq 1..n  BY <1>1
  <2>2. Range(c.free) \subseteq 1..n  BY <1>2, <1>3
  <2>3. 1..n \subseteq live \cup Range(c.free)  BY <1>1, <1>3 DEF Slots, Cached
  <2>. QED  BY <1>1, <2>1, <2>2, <2>3
<1>6. ASSUME NEW p \in Cached(c) \cap paths
      PROVE  LET node == c.nodes[c.entries[p]]
             IN  /\ node.parent # Vacant
                 /\ node.parent = Root => Len(p) = 1
                 /\ node.parent > Root =>
                        Front(p) \in Cached(c) /\ node.parent = c.entries[Front(p)]
  <2>l. PICK link : link = NodeOf(c, p).parent  OBVIOUS
  <2>1. \/ link = Unresolved
        \/ link = Root /\ Len(p) = 1
        \/ Front(p) \in Cached(c) /\ link = c.entries[Front(p)]
    BY <2>l DEF CacheOK, Linked
  <2>2. \A q \in Cached(c) : c.entries[q] \in Nat /\ c.entries[q] > 0  BY <1>1
  <2>3. /\ link # Vacant
        /\ link = Root => Len(p) = 1
        /\ link > Root => Front(p) \in Cached(c) /\ link = c.entries[Front(p)]
    BY <2>1, <2>2 DEF Unresolved, Root, Vacant
  <2>. QED  BY <2>l, <2>3 DEF NodeOf
<1>7. \A p \in Cached(c) : c.nodes[c.entries[p]].path = p  BY <1>1 DEF NodeOf
<1>. QED  BY <1>1, <1>4, <1>5, <1>6, <1>7 DEF ArenaIsLinked

LEMMA MaxOfFour ==
    ASSUME NEW n \in Nat, NEW a \in 0..n, NEW b \in 0..n, NEW c \in 0..n, NEW d \in 0..n
    PROVE  Max({a, b, c, d}) <= n
<1>S. PICK S : S = {a, b, c, d}  OBVIOUS
<1>1. S \in SUBSET (0..n) /\ S # {}  BY <1>S
<1>2. \E m \in S : \A k \in S : k <= m  BY <1>1, LargestNatural
<1>3. \A k, m \in S : k \in Nat /\ m \in Nat  BY <1>1
<1>4. \E m \in S : \A k \in S : m >= k  BY <1>2, <1>3
<1>5. Max(S) \in S  BY <1>4 DEF Max
<1>. QED  BY <1>1, <1>5, <1>S

(* While no query of an inactive prim is polled: whenever the cache may be  *)
(* walked its arena is linked as its walks assume, what it holds is in the  *)
(* scene, and its epoch bounds every stamp, for any prims, specifications,  *)
(* times, budgets and any largest epoch.                                    *)
THEOREM ArenaStaysLinked ==
    ASSUME PollsInactive = FALSE
    PROVE  Spec => []ArenaOK
<1>1. IInv => ArenaOK
  <2>. SUFFICES ASSUME IInv, Synchronized
                PROVE  /\ ArenaIsLinked(cache, {p \in Prims : MayPoll(p)})
                       /\ Cached(cache) \subseteq Present(scene)
                       /\ cache.epoch <= MaxEpoch
                       /\ \A i \in DOMAIN cache.nodes :
                              LET n == cache.nodes[i]
                              IN  Max({n.localStamp, n.worldStamp, n.validated,
                                       cache.timeStamp}) <= cache.epoch
    BY DEF ArenaOK
  <2>1. CacheOK(cache, scene)  BY SynchronizedOK
  <2>2. Arena(cache)  BY <2>1 DEF CacheOK
  <2>3. Cached(cache) \subseteq Present(scene)
    BY <2>1, <2>2, ArenaFacts DEF CacheOK, Present
  <2>4. cache.epoch <= MaxEpoch /\ cache.epoch \in Nat /\ cache.timeStamp \in 0..cache.epoch
    BY <2>2, EpochAssumption DEF Arena
  <2>5. ASSUME NEW i \in DOMAIN cache.nodes, NEW n, n = cache.nodes[i]
        PROVE  Max({n.localStamp, n.worldStamp, n.validated, cache.timeStamp}) <= cache.epoch
    <3>1. Stamped(n, cache.epoch)  BY <2>2, <2>5, ArenaFacts DEF Arena, Nodes
    <3>. QED  BY <2>4, <3>1, MaxOfFour DEF Stamped
  <2>6. ArenaIsLinked(cache, {p \in Prims : MayPoll(p)})
    <3>1. \A p \in Cached(cache) \cap {q \in Prims : MayPoll(q)} : scene[p].active
      BY <2>1 DEF CacheOK, MayPoll, Active
    <3>. QED  BY <2>1, <3>1, LinkedArena
  <2>. QED  BY <2>3, <2>4, <2>5, <2>6
<1>. QED  BY <1>1, InvariantHolds, PTL

(* While no query of an inactive prim is polled: a poll answers what        *)
(* evaluating the query anew would, with no cache, in the scene and at the  *)
(* time it is polled in.                                                    *)
THEOREM PollsAnswerTheScene ==
    ASSUME PollsInactive = FALSE
    PROVE  Spec => []AnswersAreCurrent
<1>1. IInv => AnswersAreCurrent
  <2>. SUFFICES ASSUME IInv, Synchronized, NEW h \in DOMAIN held, MayPoll(held[h].path)
                PROVE  Polled(h).query.answer = WorldTransform(scene, time, held[h].path)
    BY DEF AnswersAreCurrent
  <2>1. PollOK(h, Polled(h))  BY SynchronizedOK, PolledOK
  <2>. QED  BY <2>1 DEF PollOK, AnsweredNow
<1>. QED  BY <1>1, InvariantHolds, PTL

(* While no query of an inactive prim is polled: a poll whose answer        *)
(* differs from the last says why, but for causes left out for want of      *)
(* room.                                                                    *)
THEOREM PollsSayWhy ==
    ASSUME PollsInactive = FALSE
    PROVE  Spec => []ChangesAreExplained
<1>1. IInv => ChangesAreExplained
  <2>. SUFFICES ASSUME IInv, Synchronized, NEW h \in DOMAIN held,
                       MayPoll(held[h].path), held[h].answer # NoAnswer
                PROVE  Explains(Polled(h), Polled(h).query.answer, held[h].answer)
    BY DEF ChangesAreExplained
  <2>r. PICK r : r = Polled(h)  OBVIOUS
  <2>q. PICK q : q = held[h]  OBVIOUS
  <2>o. PICK old : old = q.answer  OBVIOUS
  <2>n. PICK new : new = r.query.answer  OBVIOUS
  <2>1. time \in Nat /\ timeEpoch \in Nat /\ QueryOK(q, scene, time, timeEpoch)
        /\ PollOK(h, r)
    BY <2>r, <2>q, SynchronizedOK, PolledOK
  <2>2. q.path \in Prims /\ new = WorldTransform(scene, time, q.path)
    BY <2>1, <2>q, <2>n DEF QueryOK, IsQuery, PollOK, AnsweredNow
  <2>3. Timely(new, time)  BY <2>2, AnswersAreTimely
  <2>4. CASE Untimed(new) # Untimed(old)
    <3>1. q.dirty
      <4>. SUFFICES ASSUME ~q.dirty  PROVE FALSE
        OBVIOUS
      <4>1. PICK t \in Nat : old = WorldTransform(scene, t, q.path)
        BY <2>1, <2>o DEF QueryOK, Answered
      <4>. QED  BY <2>1, <2>2, <2>4, <4>1, SameButTheTime
    <3>2. \E c \in r.causes : c # TimeChange  BY <2>1, <2>q, <3>1 DEF PollOK
    <3>. QED  BY <2>4, <2>r, <2>q, <2>o, <2>n, <3>2 DEF Explains
  <2>5. CASE Untimed(new) = Untimed(old) /\ new # old
    <3>g. PICK g : \E t \in Nat : Answered(q, g, t, time, timeEpoch)
      BY <2>1, <2>q DEF QueryOK
    <3>1. PICK t \in Nat : Answered(q, g, t, time, timeEpoch)  BY <3>g
    <3>2. old = WorldTransform(g, t, q.path) /\ q.varying = VariesIn(g, q.path)
      BY <2>o, <3>1 DEF Answered
    <3>3. old # WorldTransform(g, time, q.path)
      <4>. SUFFICES ASSUME old = WorldTransform(g, time, q.path)  PROVE FALSE
        OBVIOUS
      <4>1. Timely(old, time)  BY <2>2, AnswersAreTimely
      <4>. QED  BY <2>1, <2>3, <2>5, <4>1, SameAtOneTime
    <3>4. q.timeEpoch # timeEpoch  BY <3>1, <3>2, <3>3 DEF Answered
    <3>5. VariesIn(g, q.path)  BY <2>2, <3>2, <3>3, SameAtAllTimes
    <3>6. TimeChange \in r.causes \/ r.omitted > 0
      BY <2>1, <2>q, <3>2, <3>4, <3>5 DEF PollOK, IsLate
    <3>. QED  BY <2>5, <2>r, <2>q, <2>o, <2>n, <3>6 DEF Explains
  <2>6. CASE new = old  BY <2>6, <2>r, <2>q, <2>o, <2>n DEF Explains
  <2>. QED  BY <2>4, <2>5, <2>6, <2>r, <2>q, <2>o, <2>n
<1>. QED  BY <1>1, InvariantHolds, PTL

=============================================================================
