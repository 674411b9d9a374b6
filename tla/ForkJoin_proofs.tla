-------------------------- MODULE ForkJoin_proofs --------------------------
(***************************************************************************)
(* Any number of threads join on one budget: each b runs once, and the      *)
(* threads claimed are those of the joins under way.  The invariant behind  *)
(* both says where b is: waiting, with the caller, with the job, or done.   *)
(***************************************************************************)
EXTENDS ForkJoin, FiniteSetTheorems, TLAPS

Places == {"a", "b", "wait"}
Holding == {c \in Callers : pc[c] \in Places}

NotRun(c) == bRuns[c] = 0 /\ ~out[c] /\ ~helped[c]

BWaits(c) ==
    /\ task[c] /\ NotRun(c)
    /\ \/ pc[c] = "join" /\ job[c] = "none"
       \/ pc[c] = "a" /\ job[c] \in {"none", "queued"}
BWithCaller(c) == ~task[c] /\ NotRun(c) /\ pc[c] = "b" /\ job[c] # "b"
BWithJob(c) == ~task[c] /\ NotRun(c) /\ pc[c] \in {"a", "wait"} /\ job[c] = "b"
BDone(c) ==
    /\ bRuns[c] = 1 /\ (out[c] \/ helped[c]) /\ job[c] # "b"
    /\ \/ pc[c] \in {"a", "wait"} /\ ~task[c]
       \/ pc[c] = "end" /\ JobReturned(c)

WhereBIs(c) == BWaits(c) \/ BWithCaller(c) \/ BWithJob(c) \/ BDone(c)

IInv ==
    /\ TypeOK
    /\ spare + Cardinality(Holding) = Spare
    /\ \A c \in Callers : WhereBIs(c)

-----------------------------------------------------------------------------
(* What one thread claims and gives back is counted once. *)
LEMMA HoldingFinite == IsFiniteSet(Holding) /\ Cardinality(Holding) \in Nat
BY CallersAssumption, FS_Subset, FS_CardinalityType DEF Holding

LEMMA OneMoreHolds ==
    ASSUME NEW c \in Callers, c \notin Holding, Holding' = Holding \cup {c}
    PROVE  Cardinality(Holding') = Cardinality(Holding) + 1
BY HoldingFinite, FS_AddElement

LEMMA OneLessHolds ==
    ASSUME NEW c \in Callers, c \in Holding, Holding' = Holding \ {c}
    PROVE  /\ Cardinality(Holding') = Cardinality(Holding) - 1
           /\ Cardinality(Holding) > 0
<1>1. Cardinality(Holding') = Cardinality(Holding) - 1
  BY HoldingFinite, FS_RemoveElement
<1>2. Holding # {}  OBVIOUS
<1>. QED  BY <1>1, <1>2, HoldingFinite, FS_EmptySet

(* A step of caller c leaves every other one's b where it is. *)
LEMMA OthersKeepB ==
    ASSUME IInv, NEW c \in Callers, CallerStep(c) \/ JobStarts(c) \/ JobDoesB(c),
           NEW d \in Callers, d # c
    PROVE  WhereBIs(d)'
<1>1. WhereBIs(d) /\ TypeOK  BY DEF IInv
<1>2. /\ pc'[d] = pc[d] /\ job'[d] = job[d] /\ task'[d] = task[d]
      /\ helped'[d] = helped[d] /\ out'[d] = out[d] /\ bRuns'[d] = bRuns[d]
  BY <1>1 DEF TypeOK, CallerStep, Claim, RunAlone, AEnds, CallerDoesB, ScopeReturns,
              JobStarts, JobDoesB, Go, TakenOnce
<1>. QED  BY <1>1, <1>2 DEF WhereBIs, BWaits, BWithCaller, BWithJob, BDone, NotRun, JobReturned

(* The steps that neither claim nor give back. *)
LEMMA SameHolding ==
    ASSUME IInv, UNCHANGED spare, Holding' = Holding,
           pc' \in [Callers -> {"join", "a", "b", "wait", "end"}],
           job' \in [Callers -> {"none", "queued", "b", "returned"}],
           task' \in [Callers -> BOOLEAN], helped' \in [Callers -> BOOLEAN],
           out' \in [Callers -> BOOLEAN], bRuns' \in [Callers -> Nat],
           \A d \in Callers : WhereBIs(d)'
    PROVE  IInv'
BY DEF IInv, TypeOK

LEMMA InitIInv == Init => IInv
<1>. SUFFICES ASSUME Init  PROVE IInv
  OBVIOUS
<1>1. Holding = {}  BY DEF Init, Holding, Places
<1>2. spare + Cardinality(Holding) = Spare
  BY <1>1, SpareAssumption, FS_EmptySet DEF Init
<1>3. TypeOK  BY SpareAssumption DEF Init, TypeOK
<1>4. \A c \in Callers : WhereBIs(c)  BY DEF Init, WhereBIs, BWaits, NotRun
<1>. QED  BY <1>2, <1>3, <1>4 DEF IInv

LEMMA ClaimStep ==
    ASSUME IInv, NEW c \in Callers, Claim(c)
    PROVE  IInv'
<1>1. TypeOK /\ WhereBIs(c) /\ spare + Cardinality(Holding) = Spare  BY DEF IInv
<1>2. pc[c] = "join" /\ pc' = [pc EXCEPT ![c] = "a"]  BY DEF Claim, Go
<1>3. c \notin Holding /\ Holding' = Holding \cup {c}
  BY <1>1, <1>2 DEF Holding, Places, TypeOK
<1>4. spare' \in 0..Spare /\ spare' + Cardinality(Holding') = Spare
  BY <1>1, <1>3, OneMoreHolds, HoldingFinite, SpareAssumption DEF Claim, TypeOK
<1>5. TypeOK'  BY <1>1, <1>2, <1>4 DEF Claim, TypeOK
<1>6. WhereBIs(c)'
  BY <1>1, <1>2 DEF Claim, TypeOK, WhereBIs, BWaits, BWithCaller, BWithJob, BDone, NotRun
<1>7. \A d \in Callers : WhereBIs(d)'  BY <1>6, OthersKeepB DEF CallerStep
<1>. QED  BY <1>4, <1>5, <1>7 DEF IInv

LEMMA ScopeStep ==
    ASSUME IInv, NEW c \in Callers, ScopeReturns(c)
    PROVE  IInv'
<1>1. TypeOK /\ WhereBIs(c) /\ spare + Cardinality(Holding) = Spare  BY DEF IInv
<1>2. pc[c] = "wait" /\ pc' = [pc EXCEPT ![c] = "end"]  BY DEF ScopeReturns, Go
<1>3. c \in Holding /\ Holding' = Holding \ {c}
  BY <1>1, <1>2 DEF Holding, Places, TypeOK
<1>4. spare' \in 0..Spare /\ spare' + Cardinality(Holding') = Spare
  BY <1>1, <1>3, OneLessHolds, HoldingFinite, SpareAssumption DEF ScopeReturns, TypeOK
<1>5. TypeOK'  BY <1>1, <1>2, <1>4 DEF ScopeReturns, TypeOK
<1>6. WhereBIs(c)'
  BY <1>1, <1>2 DEF ScopeReturns, TypeOK, WhereBIs, BWaits, BWithCaller, BWithJob, BDone,
                    NotRun, JobReturned
<1>7. \A d \in Callers : WhereBIs(d)'  BY <1>6, OthersKeepB DEF CallerStep
<1>. QED  BY <1>4, <1>5, <1>7 DEF IInv

LEMMA NextIInv == IInv /\ [Next]_vars => IInv'
<1>. SUFFICES ASSUME IInv, [Next]_vars  PROVE IInv'
  OBVIOUS
<1>. USE DEF NotRun, JobReturned
<1>1. ASSUME NEW c \in Callers, Claim(c)  PROVE IInv'  BY <1>1, ClaimStep
<1>2. ASSUME NEW c \in Callers, RunAlone(c)  PROVE IInv'
  <2>1. TypeOK /\ WhereBIs(c)  BY DEF IInv
  <2>2. Holding' = Holding /\ WhereBIs(c)'
    BY <1>2, <2>1 DEF RunAlone, Go, TypeOK, Holding, Places,
                      WhereBIs, BWaits, BWithCaller, BWithJob, BDone
  <2>3. \A d \in Callers : WhereBIs(d)'  BY <1>2, <2>2, OthersKeepB DEF CallerStep
  <2>. QED  BY <1>2, <2>1, <2>2, <2>3, SameHolding DEF RunAlone, Go, TypeOK
<1>3. ASSUME NEW c \in Callers, AEnds(c)  PROVE IInv'
  <2>1. TypeOK /\ WhereBIs(c)  BY DEF IInv
  <2>2. Holding' = Holding /\ WhereBIs(c)'
    BY <1>3, <2>1 DEF AEnds, Go, TakenOnce, TypeOK, Holding, Places,
                      WhereBIs, BWaits, BWithCaller, BWithJob, BDone
  <2>3. \A d \in Callers : WhereBIs(d)'  BY <1>3, <2>2, OthersKeepB DEF CallerStep
  <2>. QED  BY <1>3, <2>1, <2>2, <2>3, SameHolding DEF AEnds, Go, TakenOnce, TypeOK
<1>4. ASSUME NEW c \in Callers, CallerDoesB(c)  PROVE IInv'
  <2>1. TypeOK /\ WhereBIs(c)  BY DEF IInv
  <2>2. Holding' = Holding /\ WhereBIs(c)'
    BY <1>4, <2>1 DEF CallerDoesB, Go, TypeOK, Holding, Places,
                      WhereBIs, BWaits, BWithCaller, BWithJob, BDone
  <2>3. \A d \in Callers : WhereBIs(d)'  BY <1>4, <2>2, OthersKeepB DEF CallerStep
  <2>. QED  BY <1>4, <2>1, <2>2, <2>3, SameHolding DEF CallerDoesB, Go, TypeOK
<1>5. ASSUME NEW c \in Callers, ScopeReturns(c)  PROVE IInv'  BY <1>5, ScopeStep
<1>6. ASSUME NEW c \in Callers, JobStarts(c)  PROVE IInv'
  <2>1. TypeOK /\ WhereBIs(c)  BY DEF IInv
  <2>2. Holding' = Holding /\ WhereBIs(c)'
    BY <1>6, <2>1 DEF JobStarts, TakenOnce, TypeOK, Holding, Places,
                      WhereBIs, BWaits, BWithCaller, BWithJob, BDone
  <2>3. \A d \in Callers : WhereBIs(d)'  BY <1>6, <2>2, OthersKeepB
  <2>. QED  BY <1>6, <2>1, <2>2, <2>3, SameHolding DEF JobStarts, TakenOnce, TypeOK
<1>7. ASSUME NEW c \in Callers, JobDoesB(c)  PROVE IInv'
  <2>1. TypeOK /\ WhereBIs(c)  BY DEF IInv
  <2>2. Holding' = Holding /\ WhereBIs(c)'
    BY <1>7, <2>1 DEF JobDoesB, TypeOK, Holding, Places,
                      WhereBIs, BWaits, BWithCaller, BWithJob, BDone
  <2>3. \A d \in Callers : WhereBIs(d)'  BY <1>7, <2>2, OthersKeepB
  <2>. QED  BY <1>7, <2>1, <2>2, <2>3, SameHolding DEF JobDoesB, TypeOK
<1>8. CASE UNCHANGED vars
  <2>1. Holding' = Holding /\ \A d \in Callers : WhereBIs(d)' = WhereBIs(d)
    BY <1>8 DEF vars, Holding, WhereBIs, BWaits, BWithCaller, BWithJob, BDone
  <2>. QED  BY <1>8, <2>1, SameHolding DEF vars, IInv, TypeOK
<1>. QED  BY <1>1, <1>2, <1>3, <1>4, <1>5, <1>6, <1>7, <1>8 DEF Next, CallerStep

LEMMA IInvHolds == Spec => []IInv
<1>. QED  BY InitIInv, NextIInv, PTL DEF Spec

(* The state of every join stays of its type; the budget is never overdrawn *)
(* nor given back more than it had.                                         *)
THEOREM JoinsKeepTypes == Spec => []TypeOK
<1>1. IInv => TypeOK  BY DEF IInv
<1>. QED  BY <1>1, IInvHolds, PTL

(* For any number of joins on any budget, b runs at most once, and its      *)
(* result is there when join returns.                                       *)
THEOREM EachBRunsOnce == Spec => []BRunsOnce
<1>1. IInv => BRunsOnce
  BY DEF IInv, TypeOK, WhereBIs, BWaits, BWithCaller, BWithJob, BDone, NotRun, BRunsOnce
<1>. QED  BY <1>1, IInvHolds, PTL

(* The threads claimed are those of the joins under way, and no job runs    *)
(* after its claim is given back.                                           *)
THEOREM ClaimsCoverJobs == Spec => []ClaimCoversJob
<1>1. IInv => ClaimCoversJob
  BY DEF IInv, WhereBIs, BWaits, BWithCaller, BWithJob, BDone, ClaimCoversJob, Holding, Places
<1>. QED  BY <1>1, IInvHolds, PTL
=============================================================================
