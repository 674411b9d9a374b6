------------------------- MODULE ThreadPool_proofs -------------------------
(***************************************************************************)
(* Theorems of ThreadPool, for any number of workers, any trees of tasks    *)
(* and any budget: the counts of threads and claims; where tasks are and    *)
(* who attends to them; and that the pool keeps the promise of TaskPhases.  *)
(***************************************************************************)
EXTENDS ThreadPool, FiniteSetTheorems, TLAPS

Started == {w \in Workers : pc[w] # "none"}

CountTypes ==
    /\ spare \in Nat /\ others \in Nat /\ workers \in Nat
    /\ pc \in [Threads -> Places]
    /\ holds \in [Workers -> BOOLEAN]

CInv ==
    /\ CountTypes
    /\ BudgetBalances
    /\ WorkersCounted
    /\ WorkOnlyOnClaimedThreads
    /\ \A w \in Workers : pc[w] = "none" => ~holds[w]

counted == <<spare, others, workers, holds>>

-----------------------------------------------------------------------------
(* Counting: what joins a finite set adds one, what leaves it takes one.    *)
LEMMA OneMore ==
    ASSUME NEW S, IsFiniteSet(S), NEW x, x \notin S
    PROVE  Cardinality(S \cup {x}) = Cardinality(S) + 1
BY FS_AddElement

LEMMA OneLess ==
    ASSUME NEW S, IsFiniteSet(S), NEW x \in S
    PROVE  Cardinality(S \ {x}) = Cardinality(S) - 1 /\ Cardinality(S) > 0
<1>1. Cardinality(S \ {x}) = Cardinality(S) - 1  BY FS_RemoveElement
<1>2. S \ {x} \subseteq S /\ IsFiniteSet(S \ {x})  BY FS_Subset
<1>3. Cardinality(S \ {x}) \in Nat /\ Cardinality(S) \in Nat  BY <1>2, FS_CardinalityType
<1>. QED  BY <1>1, <1>3

LEMMA CountsAreFinite ==
    /\ IsFiniteSet(Holders) /\ Cardinality(Holders) \in Nat
    /\ IsFiniteSet(Reserving) /\ Cardinality(Reserving) \in Nat
    /\ IsFiniteSet(Started) /\ Cardinality(Started) \in Nat
<1>1. IsFiniteSet(Workers)  BY WorkersAssumption
<1>2. IsFiniteSet(Threads)  BY <1>1, FS_AddElement DEF Threads
<1>3. Holders \subseteq Workers /\ Started \subseteq Workers /\ Reserving \subseteq Threads
  BY DEF Holders, Started, Reserving
<1>. QED  BY <1>1, <1>2, <1>3, FS_Subset, FS_CardinalityType

LEMMA MaxWorkersType == MaxWorkers \in Nat
BY LimitAssumption DEF MaxWorkers

LEMMA InitCInv == Init => CInv
<1>. SUFFICES ASSUME Init  PROVE CInv
  OBVIOUS
<1>1. \A w \in Workers : w \in Threads /\ pc[w] = "none" /\ ~holds[w]
  BY CallerAssumption DEF Init, Threads
<1>2. \A t \in Threads : pc[t] \in {"body", "none"}  BY DEF Init
<1>3. Holders = {} /\ Started = {} /\ Reserving = {}
  BY <1>1, <1>2 DEF Holders, Started, Reserving
<1>4. Cardinality({}) = 0  BY FS_EmptySet
<1>5. CountTypes  BY MaxWorkersType DEF Init, CountTypes, Places
<1>6. BudgetBalances /\ WorkersCounted
  <2>1. spare = MaxWorkers /\ others = 0 /\ workers = 0  BY DEF Init
  <2>2. MaxWorkers + 0 + 0 + 0 = MaxWorkers /\ 0 + 0 = 0  BY MaxWorkersType
  <2>. QED  BY <1>3, <1>4, <2>1, <2>2 DEF BudgetBalances, WorkersCounted, Started
<1>7. WorkOnlyOnClaimedThreads  BY <1>1 DEF WorkOnlyOnClaimedThreads, Doing
<1>. QED  BY <1>1, <1>5, <1>6, <1>7 DEF CInv

-----------------------------------------------------------------------------
(* A step that claims nothing, gives nothing back, starts no worker and     *)
(* puts none to work that has no thread.                                    *)
Quiet ==
    /\ pc' \in [Threads -> Places]
    /\ \A t \in Threads : (pc'[t] = "start") = (pc[t] = "start")
    /\ \A w \in Workers :
        /\ (pc'[w] = "none") = (pc[w] = "none")
        /\ w \in Doing' => w \in Doing
        /\ pc'[w] = "wait" => pc[w] = "wait"

LEMMA QuietStep ==
    ASSUME CInv, UNCHANGED counted, Quiet
    PROVE  CInv'
<1>1. Holders' = Holders /\ Reserving' = Reserving /\ Started' = Started
  BY DEF Quiet, counted, Holders, Reserving, Started
<1>2. BudgetBalances' /\ WorkersCounted'
  BY <1>1 DEF CInv, counted, BudgetBalances, WorkersCounted, Started
<1>3. WorkOnlyOnClaimedThreads'
  BY DEF CInv, counted, Quiet, WorkOnlyOnClaimedThreads
<1>. QED  BY <1>2, <1>3 DEF CInv, counted, Quiet, CountTypes

(* Waking threads is quiet. *)
LEMMA WokenIsQuiet ==
    ASSUME NEW place \in [Threads -> Places]
    PROVE  /\ Woken(place) \in [Threads -> Places]
           /\ \A t \in Threads : \/ Woken(place)[t] = place[t]
                                 \/ place[t] = "wait" /\ Woken(place)[t] = "woken"
BY DEF Woken, Places

(* One thread goes from a place to another, and waiting ones may be woken.  *)
Goes(t, from, to) ==
    /\ pc[t] \in from
    /\ \/ Go(t, to)
       \/ GoNotifyingAll(t, to)
       \/ \E w \in Threads : pc[w] = "wait" /\ pc' = [pc EXCEPT ![t] = to, ![w] = "woken"]

LEMMA GoesQuietly ==
    ASSUME CInv, NEW t \in Threads, NEW from, NEW to \in Places, Goes(t, from, to),
           "start" \notin from, to \notin {"start", "none"},
           t \in Workers => /\ "none" \notin from
                            /\ to # "wait"
                            /\ t \in Doing \/ to \in {"loop", "woken"}
    PROVE  Quiet
<1>1. pc \in [Threads -> Places]  BY DEF CInv, CountTypes
<1>2. /\ pc' \in [Threads -> Places]
      /\ pc'[t] \in {to, "woken"}
      /\ \A u \in Threads \ {t} : \/ pc'[u] = pc[u]
                                  \/ pc[u] = "wait" /\ pc'[u] = "woken"
  <2>. DEFINE there == [pc EXCEPT ![t] = to]
  <2>1. there \in [Threads -> Places]  BY <1>1
  <2>2. CASE Go(t, to)  BY <1>1, <2>2 DEF Go
  <2>3. CASE GoNotifyingAll(t, to)
    <3>1. pc' = Woken(there)  BY <2>3 DEF GoNotifyingAll
    <3>2. there[t] = to /\ \A u \in Threads \ {t} : there[u] = pc[u]  BY <1>1
    <3>. HIDE DEF there
    <3>. QED  BY <2>1, <3>1, <3>2, WokenIsQuiet
  <2>4. CASE \E w \in Threads : pc[w] = "wait" /\ pc' = [pc EXCEPT ![t] = to, ![w] = "woken"]
    BY <1>1, <2>4 DEF Places
  <2>. QED  BY <2>2, <2>3, <2>4 DEF Goes
<1>3. Workers \subseteq Threads /\ pc[t] \in from  BY DEF Threads, Goes
<1>4. \A u \in Threads : (pc'[u] = "start") = (pc[u] = "start")  BY <1>2, <1>3
<1>5. ASSUME NEW w \in Workers
      PROVE  /\ (pc'[w] = "none") = (pc[w] = "none")
             /\ w \in Doing' => w \in Doing
             /\ pc'[w] = "wait" => pc[w] = "wait"
  <2>1. CASE w = t  BY <1>2, <1>3, <2>1 DEF Doing
  <2>2. CASE w # t  BY <1>2, <1>3, <2>2 DEF Doing
  <2>. QED  BY <2>1, <2>2
<1>. QED  BY <1>2, <1>4, <1>5 DEF Quiet

-----------------------------------------------------------------------------
(* The steps of tasks, of the caller and of the condition variable.         *)
LEMMA MovesKeepCInv ==
    ASSUME CInv, UNCHANGED counted, NEW t \in Threads,
           \/ \E from, to \in {"work", "task", "share", "tell", "telling"} :
                 Goes(t, {from}, to)
           \/ Goes(t, {"work"}, "loop")
           \/ Goes(t, {"woken"}, "loop") \/ Goes(t, {"accepted"}, "loop")
           \/ Goes(t, {"wait"}, "woken")
    PROVE  CInv'
<1>. USE DEF Places
<1>1. ASSUME NEW from \in {"work", "task", "share", "tell", "telling"},
             NEW to \in {"work", "task", "share", "tell", "telling"}, Goes(t, {from}, to)
      PROVE  Quiet
  <2>1. t \in Doing  BY <1>1 DEF Goes, Doing
  <2>. QED  BY <1>1, <2>1, GoesQuietly
<1>2. ASSUME Goes(t, {"work"}, "loop")  PROVE Quiet  BY <1>2, GoesQuietly
<1>3. ASSUME NEW from \in {"woken", "accepted"}, Goes(t, {from}, "loop")  PROVE Quiet
  BY <1>3, GoesQuietly
<1>4. ASSUME Goes(t, {"wait"}, "woken")  PROVE Quiet  BY <1>4, GoesQuietly
<1>. QED  BY <1>1, <1>2, <1>3, <1>4, QuietStep

LEMMA CallerMovesKeepCInv ==
    ASSUME CInv, UNCHANGED counted,
           NEW from \in {"body", "loop", "shut down", "join"},
           NEW to \in {"loop", "work", "body", "wait", "shut down", "join", "end"},
           Goes(Caller, {from}, to)
    PROVE  CInv'
<1>1. Caller \in Threads /\ Caller \notin Workers  BY CallerAssumption DEF Threads
<1>2. Quiet  BY <1>1, GoesQuietly DEF Places
<1>. QED  BY <1>2, QuietStep

LEMMA TakeGoes ==
    ASSUME NEW t \in Threads, pc[t] = "loop", Take(t)
    PROVE  Goes(t, {"loop"}, "work") /\ UNCHANGED workers
BY DEF Take, Goes

-----------------------------------------------------------------------------
(* The steps that claim and give back. *)
LEMMA WorkerTakesStep ==
    ASSUME CInv, NEW w \in Workers, WorkerTakes(w)
    PROVE  CInv'
<1>1. w \in Threads /\ pc \in [Threads -> Places] /\ holds \in [Workers -> BOOLEAN]
      /\ Workers \subseteq Threads
  BY DEF CInv, CountTypes, Threads
<1>2. pc[w] = "loop" /\ Take(w) /\ Claims(w) /\ UNCHANGED others  BY DEF WorkerTakes
<1>3. /\ pc' \in [Threads -> Places] /\ pc'[w] = "work"
      /\ \A u \in Threads \ {w} : pc'[u] = pc[u] \/ (pc[u] = "wait" /\ pc'[u] = "woken")
      /\ UNCHANGED workers
  <2>. DEFINE there == [pc EXCEPT ![w] = "work"]
  <2>1. there \in [Threads -> Places] /\ there[w] = "work"
        /\ \A u \in Threads \ {w} : there[u] = pc[u]
    BY <1>1 DEF Places
  <2>2. UNCHANGED workers /\ (pc' = there \/ pc' = Woken(there))
    BY <1>2 DEF Take, Go, GoNotifyingAll
  <2>. HIDE DEF there
  <2>. QED  BY <1>1, <2>1, <2>2, WokenIsQuiet
<1>4. Reserving' = Reserving /\ Started' = Started
  BY <1>1, <1>2, <1>3 DEF Reserving, Started
<1>5. WorkersCounted'  BY <1>3, <1>4 DEF CInv, WorkersCounted, Started
<1>6. /\ holds' \in [Workers -> BOOLEAN] /\ holds'[w]
      /\ \A v \in Workers \ {w} : holds'[v] = holds[v]
  BY <1>1, <1>2 DEF Claims
<1>7. WorkOnlyOnClaimedThreads' /\ \A v \in Workers : pc'[v] = "none" => ~holds'[v]
  BY <1>1, <1>3, <1>6 DEF CInv, WorkOnlyOnClaimedThreads, Doing
<1>8. spare' \in Nat /\ BudgetBalances'
  <2>1. CASE holds[w]
    <3>1. UNCHANGED <<spare, holds>>  BY <1>2, <2>1 DEF Claims
    <3>2. Holders' = Holders  BY <3>1 DEF Holders
    <3>. QED  BY <1>2, <1>4, <3>1, <3>2 DEF CInv, CountTypes, BudgetBalances
  <2>2. CASE ~holds[w]
    <3>1. spare > 0 /\ spare' = spare - 1  BY <1>2, <2>2 DEF Claims
    <3>2. w \notin Holders /\ Holders' = Holders \cup {w}  BY <1>6, <2>2 DEF Holders
    <3>3. Cardinality(Holders') = Cardinality(Holders) + 1  BY <3>2, OneMore, CountsAreFinite
    <3>. QED  BY <1>2, <1>4, <3>1, <3>3, CountsAreFinite, MaxWorkersType
              DEF CInv, CountTypes, BudgetBalances
  <2>. QED  BY <2>1, <2>2
<1>. QED  BY <1>2, <1>3, <1>5, <1>6, <1>7, <1>8 DEF CInv, CountTypes

LEMMA WorkerIdlesStep ==
    ASSUME CInv, NEW w \in Workers, WorkerIdles(w)
    PROVE  CInv'
<1>1. /\ w \in Threads /\ pc \in [Threads -> Places] /\ holds \in [Workers -> BOOLEAN]
      /\ Workers \subseteq Threads /\ pc[w] = "loop"
      /\ spare \in Nat /\ others \in Nat /\ workers \in Nat
  BY DEF CInv, CountTypes, Threads, WorkerIdles
<1>2. /\ spare' = (IF holds[w] THEN spare + 1 ELSE spare)
      /\ holds' = [holds EXCEPT ![w] = FALSE] /\ UNCHANGED others
      /\ \/ workers' = workers - 1 /\ pc' = [pc EXCEPT ![w] = "none"]
         \/ workers' = workers /\ pc' = [pc EXCEPT ![w] = "wait"]
  BY DEF WorkerIdles, GivesBack, Go
<1>3. pc' \in [Threads -> Places] /\ holds' \in [Workers -> BOOLEAN] /\ spare' \in Nat
  <2>1. pc' \in [Threads -> Places] /\ holds' \in [Workers -> BOOLEAN]
    BY <1>1, <1>2 DEF Places
  <2>2. spare' \in Nat  BY <1>1, <1>2
  <2>. QED  BY <2>1, <2>2
<1>4. Reserving' = Reserving  BY <1>1, <1>2 DEF Reserving
<1>5. BudgetBalances'
  <2>1. CASE holds[w]
    <3>1. w \in Holders /\ Holders' = Holders \ {w}  BY <1>1, <1>2, <2>1 DEF Holders
    <3>2. Cardinality(Holders') = Cardinality(Holders) - 1  BY <3>1, OneLess, CountsAreFinite
    <3>. QED  BY <1>1, <1>2, <1>4, <2>1, <3>2, CountsAreFinite, MaxWorkersType
              DEF CInv, BudgetBalances
  <2>2. CASE ~holds[w]
    <3>1. Holders' = Holders  BY <1>1, <1>2, <2>2 DEF Holders
    <3>. QED  BY <1>1, <1>2, <1>4, <2>2, <3>1 DEF CInv, BudgetBalances
  <2>. QED  BY <2>1, <2>2
<1>6. workers' \in Nat /\ WorkersCounted'
  <2>0. workers = Cardinality(Started) + Cardinality(Reserving)
    BY DEF CInv, WorkersCounted, Started
  <2>1. CASE workers' = workers - 1 /\ pc' = [pc EXCEPT ![w] = "none"]
    <3>1. w \in Started /\ Started' = Started \ {w}  BY <1>1, <2>1 DEF Started
    <3>2. Cardinality(Started') = Cardinality(Started) - 1 /\ Cardinality(Started) > 0
      BY <3>1, OneLess, CountsAreFinite
    <3>3. workers' \in Nat /\ workers' = Cardinality(Started') + Cardinality(Reserving')
      BY <1>1, <1>4, <2>0, <2>1, <3>2, CountsAreFinite
    <3>. QED  BY <3>3 DEF WorkersCounted, Started
  <2>2. CASE workers' = workers /\ pc' = [pc EXCEPT ![w] = "wait"]
    <3>1. Started' = Started  BY <1>1, <2>2 DEF Started
    <3>. QED  BY <1>1, <1>4, <2>0, <2>2, <3>1 DEF WorkersCounted, Started
  <2>. QED  BY <1>2, <2>1, <2>2
<1>7. WorkOnlyOnClaimedThreads' /\ \A v \in Workers : pc'[v] = "none" => ~holds'[v]
  BY <1>1, <1>2 DEF CInv, WorkOnlyOnClaimedThreads, Doing
<1>. QED  BY <1>2, <1>3, <1>5, <1>6, <1>7 DEF CInv, CountTypes

(* A worker is reserved, or tasks are handed over without one. *)
LEMMA ReserveStep ==
    ASSUME CInv, NEW t \in Threads, NEW from \in {"share", "task"}, pc[t] = from,
           NEW start \in BOOLEAN, start => MayReserve,
           Reserve(start), UNCHANGED holds,
           Go(t, IF start THEN "start" ELSE "tell")
    PROVE  CInv'
<1>1. /\ pc \in [Threads -> Places] /\ holds \in [Workers -> BOOLEAN]
      /\ Workers \subseteq Threads
      /\ spare \in Nat /\ others \in Nat /\ workers \in Nat
  BY DEF CInv, CountTypes, Threads
<1>2. CASE ~start
  <2>1. UNCHANGED counted  BY <1>2 DEF Reserve, counted
  <2>2. Goes(t, {from}, "tell")  BY <1>2 DEF Goes
  <2>. QED  BY <2>1, <2>2, MovesKeepCInv
<1>3. CASE start
  <2>1. /\ spare > 0 /\ spare' = spare - 1 /\ workers' = workers + 1
        /\ UNCHANGED <<others, holds>> /\ pc' = [pc EXCEPT ![t] = "start"]
    BY <1>3 DEF Reserve, MayReserve, Go
  <2>2. Holders' = Holders /\ Started' = Started
    BY <1>1, <2>1 DEF Holders, Started
  <2>3. t \notin Reserving /\ Reserving' = Reserving \cup {t}
    BY <1>1, <2>1 DEF Reserving
  <2>4. Cardinality(Reserving') = Cardinality(Reserving) + 1
    BY <2>3, OneMore, CountsAreFinite
  <2>5. BudgetBalances'
    BY <1>1, <2>1, <2>2, <2>4, CountsAreFinite, MaxWorkersType DEF CInv, BudgetBalances
  <2>6. WorkersCounted'
    <3>1. workers = Cardinality(Started) + Cardinality(Reserving)
      BY DEF CInv, WorkersCounted, Started
    <3>2. workers' = Cardinality(Started') + Cardinality(Reserving')
      BY <1>1, <2>1, <2>2, <2>4, <3>1, CountsAreFinite
    <3>. QED  BY <3>2 DEF WorkersCounted, Started
  <2>7. WorkOnlyOnClaimedThreads' /\ \A v \in Workers : pc'[v] = "none" => ~holds'[v]
    BY <1>1, <2>1 DEF CInv, WorkOnlyOnClaimedThreads, Doing
  <2>8. pc' \in [Threads -> Places] /\ spare' \in Nat /\ workers' \in Nat
    <3>1. pc' \in [Threads -> Places]  BY <1>1, <2>1 DEF Places
    <3>2. spare' \in Nat /\ workers' \in Nat  BY <1>1, <2>1
    <3>. QED  BY <3>1, <3>2
  <2>. QED  BY <1>1, <2>1, <2>5, <2>6, <2>7, <2>8 DEF CInv, CountTypes
<1>. QED  BY <1>2, <1>3

LEMMA JobAcceptedStep ==
    ASSUME CInv, NEW t \in Threads, JobAccepted(t)
    PROVE  CInv'
<1>1. /\ pc \in [Threads -> Places] /\ holds \in [Workers -> BOOLEAN]
      /\ Workers \subseteq Threads
      /\ spare \in Nat /\ others \in Nat /\ workers \in Nat
  BY DEF CInv, CountTypes, Threads
<1>2. PICK w \in Workers :
        /\ pc[w] = "none" /\ pc[t] = "start"
        /\ pc' = [pc EXCEPT ![w] = "accepted", ![t] = "tell"]
        /\ holds' = [holds EXCEPT ![w] = TRUE]
        /\ UNCHANGED <<spare, others, workers>>
  BY DEF JobAccepted, shared, budget
<1>3. w # t /\ ~holds[w]  BY <1>2 DEF CInv
<1>4. /\ t \in Reserving /\ Reserving' = Reserving \ {t}
      /\ w \notin Started /\ Started' = Started \cup {w}
      /\ w \notin Holders /\ Holders' = Holders \cup {w}
  BY <1>1, <1>2, <1>3 DEF Reserving, Started, Holders
<1>5. /\ Cardinality(Reserving') = Cardinality(Reserving) - 1
      /\ Cardinality(Started') = Cardinality(Started) + 1
      /\ Cardinality(Holders') = Cardinality(Holders) + 1
  BY <1>4, OneLess, OneMore, CountsAreFinite
<1>6. BudgetBalances'
  BY <1>1, <1>2, <1>5, CountsAreFinite, MaxWorkersType DEF CInv, BudgetBalances
<1>7. WorkersCounted'
  <2>1. workers = Cardinality(Started) + Cardinality(Reserving)
    BY DEF CInv, WorkersCounted, Started
  <2>2. workers' = Cardinality(Started') + Cardinality(Reserving')
    BY <1>1, <1>2, <1>5, <2>1, CountsAreFinite
  <2>. QED  BY <2>2 DEF WorkersCounted, Started
<1>8. WorkOnlyOnClaimedThreads' /\ \A v \in Workers : pc'[v] = "none" => ~holds'[v]
  BY <1>1, <1>2, <1>3 DEF CInv, WorkOnlyOnClaimedThreads, Doing
<1>9. pc' \in [Threads -> Places] /\ holds' \in [Workers -> BOOLEAN]
  BY <1>1, <1>2 DEF Places
<1>. QED  BY <1>1, <1>2, <1>6, <1>7, <1>8, <1>9 DEF CInv, CountTypes

LEMMA JobRefusedStep ==
    ASSUME CInv, NEW t \in Threads, JobRefused(t)
    PROVE  CInv'
<1>1. /\ pc \in [Threads -> Places] /\ holds \in [Workers -> BOOLEAN]
      /\ Workers \subseteq Threads
      /\ spare \in Nat /\ others \in Nat /\ workers \in Nat
  BY DEF CInv, CountTypes, Threads
<1>2. /\ pc[t] = "start" /\ pc' = [pc EXCEPT ![t] = "tell"]
      /\ workers' = workers - 1 /\ spare' = spare + 1 /\ UNCHANGED <<others, holds>>
  BY DEF JobRefused, Go
<1>3. /\ t \in Reserving /\ Reserving' = Reserving \ {t}
      /\ Started' = Started /\ Holders' = Holders
  BY <1>1, <1>2 DEF Reserving, Started, Holders
<1>4. Cardinality(Reserving') = Cardinality(Reserving) - 1 /\ Cardinality(Reserving) > 0
  BY <1>3, OneLess, CountsAreFinite
<1>5. BudgetBalances'
  BY <1>1, <1>2, <1>3, <1>4, CountsAreFinite, MaxWorkersType DEF CInv, BudgetBalances
<1>6. workers' \in Nat /\ WorkersCounted'
  <2>1. workers = Cardinality(Started) + Cardinality(Reserving)
    BY DEF CInv, WorkersCounted, Started
  <2>2. workers' \in Nat /\ workers' = Cardinality(Started') + Cardinality(Reserving')
    BY <1>1, <1>2, <1>3, <1>4, <2>1, CountsAreFinite
  <2>. QED  BY <2>2 DEF WorkersCounted, Started
<1>7. WorkOnlyOnClaimedThreads' /\ \A v \in Workers : pc'[v] = "none" => ~holds'[v]
  BY <1>1, <1>2 DEF CInv, WorkOnlyOnClaimedThreads, Doing
<1>8. pc' \in [Threads -> Places] /\ spare' \in Nat
  <2>1. pc' \in [Threads -> Places]  BY <1>1, <1>2 DEF Places
  <2>2. spare' \in Nat  BY <1>1, <1>2
  <2>. QED  BY <2>1, <2>2
<1>. QED  BY <1>1, <1>2, <1>5, <1>6, <1>7, <1>8 DEF CInv, CountTypes

LEMMA OthersStep ==
    ASSUME CInv, OthersClaim \/ OthersGiveBack
    PROVE  CInv'
<1>1. /\ UNCHANGED <<pc, holds, workers>> /\ spare' + others' = spare + others
      /\ spare' \in Nat /\ others' \in Nat /\ spare \in Nat /\ others \in Nat
  BY DEF OthersClaim, OthersGiveBack, shared, CInv, CountTypes
<1>2. Holders' = Holders /\ Reserving' = Reserving
  BY <1>1 DEF Holders, Reserving
<1>3. BudgetBalances'  BY <1>1, <1>2 DEF CInv, BudgetBalances
<1>4. WorkersCounted' /\ WorkOnlyOnClaimedThreads'
  BY <1>1, <1>2 DEF CInv, WorkersCounted, WorkOnlyOnClaimedThreads, Doing
<1>. QED  BY <1>1, <1>3, <1>4 DEF CInv, CountTypes

-----------------------------------------------------------------------------
LEMMA CallerKeepsCInv == CInv /\ CallerStep => CInv'
<1>. SUFFICES ASSUME CInv, CallerStep  PROVE CInv'
  OBVIOUS
<1>. USE DEF shared, budget, counted, Goes
<1>0. Caller \in Threads  BY DEF Threads
<1>1. CASE Run  BY <1>1, CallerMovesKeepCInv DEF Run
<1>2. CASE CallerTakes
  <2>1. UNCHANGED counted /\ Goes(Caller, {"loop"}, "work")
    BY <1>0, <1>2, TakeGoes DEF CallerTakes
  <2>. QED  BY <2>1, CallerMovesKeepCInv
<1>3. CASE RunReturns  BY <1>3, CallerMovesKeepCInv DEF RunReturns
<1>4. CASE CallerWaits  BY <1>4, CallerMovesKeepCInv DEF CallerWaits
<1>5. CASE ShutDown  BY <1>5, CallerMovesKeepCInv DEF ShutDown
<1>6. CASE NotifyDone  BY <1>6, CallerMovesKeepCInv DEF NotifyDone
<1>7. CASE ScopeReturns  BY <1>7, CallerMovesKeepCInv DEF ScopeReturns
<1>. QED  BY <1>1, <1>2, <1>3, <1>4, <1>5, <1>6, <1>7 DEF CallerStep

LEMMA WorkKeepsCInv ==
    ASSUME CInv, NEW t \in Threads, WorkStep(t)
    PROVE  CInv'
<1>. USE DEF shared, budget, counted, Goes
<1>1. CASE Wake(t)  BY <1>1, MovesKeepCInv DEF Wake
<1>2. CASE BeginTask(t)
  <2>1. UNCHANGED counted /\ Goes(t, {"work"}, "task")  BY <1>2 DEF BeginTask
  <2>. QED  BY <2>1, MovesKeepCInv
<1>3. CASE Push(t)
  <2>1. UNCHANGED counted /\ UNCHANGED pc  BY <1>3 DEF Push
  <2>. QED  BY <2>1, QuietStep DEF Quiet, Doing, CInv, CountTypes
<1>4. CASE EndTask(t)
  <2>1. UNCHANGED counted /\ \E to \in {"work", "share"} : Goes(t, {"task"}, to)
    BY <1>4 DEF EndTask
  <2>. QED  BY <2>1, MovesKeepCInv
<1>5. CASE KeepAll(t)
  <2>1. UNCHANGED counted /\ Goes(t, {"share"}, "work")  BY <1>5 DEF KeepAll
  <2>. QED  BY <2>1, MovesKeepCInv
<1>6. CASE HandOver(t)
  <2>1. PICK start \in BOOLEAN :
          /\ start => MayReserve
          /\ Reserve(start) /\ Go(t, IF start THEN "start" ELSE "tell")
    BY <1>6 DEF HandOver, MayReserve, CanStart
  <2>2. pc[t] = "share" /\ UNCHANGED holds  BY <1>6 DEF HandOver
  <2>. QED  BY <2>1, <2>2, ReserveStep
<1>7. CASE JobAccepted(t)  BY <1>7, JobAcceptedStep
<1>8. CASE JobRefused(t)  BY <1>8, JobRefusedStep
<1>9. CASE TellAll(t)
  <2>1. /\ UNCHANGED counted
        /\ \E to \in {"work", "task"} : Goes(t, {"tell"}, to)
    BY <1>9 DEF TellAll, Resume
  <2>. QED  BY <2>1, MovesKeepCInv
<1>10. CASE TellOneEach(t)
  <2>1. UNCHANGED counted  BY <1>10 DEF TellOneEach
  <2>2. \E from \in {"tell", "telling"}, to \in {"work", "task", "telling"} :
           Goes(t, {from}, to)
    <3>. DEFINE to == IF handed[t] = 1 THEN Resume(t) ELSE "telling"
    <3>1. to \in {"work", "task", "telling"} /\ pc[t] \in {"tell", "telling"}
      BY <1>10 DEF TellOneEach, Resume
    <3>2. \/ pc' = [pc EXCEPT ![t] = to]
          \/ \E w \in Threads : pc[w] = "wait"
                /\ pc' = [pc EXCEPT ![t] = to, ![w] = "woken"]
      BY <1>10 DEF TellOneEach
    <3>. HIDE DEF to
    <3>. QED  BY <3>1, <3>2 DEF Go
  <2>. QED  BY <2>1, <2>2, MovesKeepCInv
<1>11. CASE Finish(t)
  <2>1. UNCHANGED counted /\ Goes(t, {"work"}, "loop")  BY <1>11 DEF Finish
  <2>. QED  BY <2>1, MovesKeepCInv
<1>. QED  BY <1>1, <1>2, <1>3, <1>4, <1>5, <1>6, <1>7, <1>8, <1>9, <1>10, <1>11 DEF WorkStep

LEMMA NextCInv == CInv /\ [Next]_vars => CInv'
<1>. SUFFICES ASSUME CInv, [Next]_vars  PROVE CInv'
  OBVIOUS
<1>1. CASE CallerStep  BY <1>1, CallerKeepsCInv
<1>2. ASSUME NEW w \in Workers, WorkerTakes(w)  PROVE CInv'  BY <1>2, WorkerTakesStep
<1>3. ASSUME NEW w \in Workers, WorkerIdles(w)  PROVE CInv'  BY <1>3, WorkerIdlesStep
<1>4. ASSUME NEW w \in Workers, StartJob(w)  PROVE CInv'
  BY <1>4, MovesKeepCInv DEF StartJob, shared, budget, counted, Goes, Threads
<1>5. ASSUME NEW t \in Threads, WorkStep(t)  PROVE CInv'  BY <1>5, WorkKeepsCInv
<1>6. ASSUME NEW t \in Threads, Offer(t)  PROVE CInv'
  <2>1. PICK start \in BOOLEAN :
          /\ start => MayReserve
          /\ Reserve(start) /\ Go(t, IF start THEN "start" ELSE "tell")
    BY <1>6 DEF Offer, MayReserve, CanStart
  <2>2. pc[t] = "task" /\ UNCHANGED holds  BY <1>6 DEF Offer
  <2>. QED  BY <2>1, <2>2, ReserveStep
<1>7. ASSUME NEW t \in Threads, WakeSpuriously(t)  PROVE CInv'
  BY <1>7, MovesKeepCInv DEF WakeSpuriously, shared, budget, counted, Goes
<1>8. CASE OthersClaim \/ OthersGiveBack  BY <1>8, OthersStep
<1>9. CASE UNCHANGED vars
  BY <1>9, QuietStep DEF vars, shared, budget, counted, Quiet, Doing, CInv, CountTypes
<1>. QED  BY <1>1, <1>2, <1>3, <1>4, <1>5, <1>6, <1>7, <1>8, <1>9 DEF Next, WorkerStep

LEMMA CInvHolds == Spec => []CInv
<1>. QED  BY InitCInv, NextCInv, PTL DEF Spec

(* No thread of the budget is lost or counted twice, however many workers   *)
(* start, wait, are refused or return, and whatever others claim.           *)
THEOREM BudgetNeverLeaks == Spec => []BudgetBalances
<1>1. CInv => BudgetBalances  BY DEF CInv
<1>. QED  BY <1>1, CInvHolds, PTL

(* The pool's count of its workers is right between any two steps.          *)
THEOREM PoolKnowsItsWorkers == Spec => []WorkersCounted
<1>1. CInv => WorkersCounted  BY DEF CInv
<1>. QED  BY <1>1, CInvHolds, PTL

(* A worker with a task holds a thread of the budget; one that waits for    *)
(* tasks does not.                                                          *)
THEOREM WorkIsClaimed == Spec => []WorkOnlyOnClaimedThreads
<1>1. CInv => WorkOnlyOnClaimedThreads  BY DEF CInv
<1>. QED  BY <1>1, CInvHolds, PTL

-----------------------------------------------------------------------------
(***************************************************************************)
(* The work: nothing handed to the pool waits where no thread looks.  A     *)
(* step moves one thread, so what is said of each thread is kept by looking *)
(* at the one that moved: what it holds in its hands is what its place says *)
(* (tidy), and what is counted as busy is what is between pop and settle.   *)
(* From that: pending work has a thread that will look for it, a caller     *)
(* who waits has one that will wake it, and between runs nothing is left.   *)
(***************************************************************************)

(* Stacks of tasks. *)
LEMMA ToSetOf ==
    ASSUME NEW S, NEW s \in Seq(S)
    PROVE  ToSet(s) = {s[i] : i \in 1..Len(s)} /\ ToSet(s) \subseteq S
BY DEF ToSet

LEMMA ReverseKeeps ==
    ASSUME NEW S, NEW s \in Seq(S)
    PROVE  /\ Reverse(s) \in Seq(S) /\ Len(Reverse(s)) = Len(s)
           /\ ToSet(Reverse(s)) = ToSet(s)
           /\ IsInjective(s) => IsInjective(Reverse(s))
<1>1. Reverse(s) \in Seq(S) /\ Len(Reverse(s)) = Len(s)  BY DEF Reverse
<1>2. DOMAIN Reverse(s) = 1..Len(s) /\ DOMAIN s = 1..Len(s)  BY DEF Reverse
<1>3. \A i \in 1..Len(s) : Reverse(s)[i] = s[Len(s) - i + 1] /\ Len(s) - i + 1 \in 1..Len(s)
  BY DEF Reverse
<1>4. ToSet(Reverse(s)) = ToSet(s)
  <2>1. ToSet(Reverse(s)) \subseteq ToSet(s)  BY <1>2, <1>3 DEF ToSet
  <2>2. \A i \in 1..Len(s) : /\ Len(s) - i + 1 \in 1..Len(s)
                             /\ s[i] = Reverse(s)[Len(s) - i + 1]
    BY DEF Reverse
  <2>. QED  BY <1>2, <2>1, <2>2 DEF ToSet
<1>5. IsInjective(s) => IsInjective(Reverse(s))
  BY <1>2, <1>3 DEF IsInjective
<1>. QED  BY <1>1, <1>4, <1>5

LEMMA ConcatHolds ==
    ASSUME NEW S, NEW s \in Seq(S), NEW r \in Seq(S)
    PROVE  /\ s \o r \in Seq(S) /\ Len(s \o r) = Len(s) + Len(r)
           /\ ToSet(s \o r) = ToSet(s) \cup ToSet(r)
           /\ (IsInjective(s) /\ IsInjective(r) /\ ToSet(s) \cap ToSet(r) = {})
                => IsInjective(s \o r)
<1>. DEFINE both == s \o r
            m == Len(s)
            n == Len(r)
<1>1. both \in Seq(S) /\ Len(both) = m + n  OBVIOUS
<1>2. DOMAIN both = 1..(m + n) /\ DOMAIN s = 1..m /\ DOMAIN r = 1..n /\ m \in Nat /\ n \in Nat
  OBVIOUS
<1>3. /\ \A i \in 1..m : both[i] = s[i] /\ i \in 1..(m + n)
      /\ \A i \in 1..(m + n) : i > m => i - m \in 1..n /\ both[i] = r[i - m]
      /\ \A i \in 1..n : both[m + i] = r[i] /\ m + i \in 1..(m + n)
  OBVIOUS
<1>. HIDE DEF both, m, n
<1>4. ToSet(both) = ToSet(s) \cup ToSet(r)
  <2>1. ToSet(both) \subseteq ToSet(s) \cup ToSet(r)
    <3>1. ASSUME NEW i \in 1..(m + n)  PROVE both[i] \in ToSet(s) \cup ToSet(r)
      <4>1. CASE i > m
        <5>1. i - m \in 1..n /\ both[i] = r[i - m]  BY <1>3, <4>1
        <5>. QED  BY <1>2, <5>1 DEF ToSet
      <4>2. CASE ~(i > m)
        <5>1. i \in 1..m /\ both[i] = s[i]  BY <1>2, <1>3, <4>2
        <5>. QED  BY <1>2, <5>1 DEF ToSet
      <4>. QED  BY <4>1, <4>2
    <3>. QED  BY <1>2, <3>1 DEF ToSet
  <2>2. ToSet(s) \subseteq ToSet(both)  BY <1>2, <1>3 DEF ToSet
  <2>3. ToSet(r) \subseteq ToSet(both)
    <3>1. ASSUME NEW i \in 1..n  PROVE r[i] \in ToSet(both)
      <4>1. m + i \in DOMAIN both /\ both[m + i] = r[i]  BY <1>2, <1>3
      <4>. QED  BY <4>1 DEF ToSet
    <3>. QED  BY <1>2, <3>1 DEF ToSet
  <2>. QED  BY <2>1, <2>2, <2>3
<1>5. ASSUME IsInjective(s), IsInjective(r), ToSet(s) \cap ToSet(r) = {},
             NEW i \in 1..(m + n), NEW j \in 1..(m + n), both[i] = both[j]
      PROVE  i = j
  <2>0. ASSUME NEW k \in 1..m, NEW l \in 1..n  PROVE s[k] # r[l]
    <3>1. s[k] \in ToSet(s) /\ r[l] \in ToSet(r)  BY <1>2 DEF ToSet
    <3>. QED  BY <1>5, <3>1
  <2>1. CASE i <= m /\ j <= m
    <3>1. i \in DOMAIN s /\ j \in DOMAIN s /\ s[i] = s[j]  BY <1>2, <1>3, <1>5, <2>1
    <3>. QED  BY <1>5, <3>1 DEF IsInjective
  <2>2. CASE i > m /\ j > m
    <3>1. i - m \in DOMAIN r /\ j - m \in DOMAIN r /\ r[i - m] = r[j - m]
      BY <1>2, <1>3, <1>5, <2>2
    <3>2. i - m = j - m  BY <1>5, <3>1 DEF IsInjective
    <3>. QED  BY <1>2, <3>2
  <2>3. CASE i <= m /\ j > m
    <3>1. i \in 1..m /\ j - m \in 1..n /\ s[i] = r[j - m]  BY <1>2, <1>3, <1>5, <2>3
    <3>. QED  BY <2>0, <3>1
  <2>4. CASE i > m /\ j <= m
    <3>1. j \in 1..m /\ i - m \in 1..n /\ s[j] = r[i - m]  BY <1>2, <1>3, <1>5, <2>4
    <3>. QED  BY <2>0, <3>1
  <2>. QED  BY <1>2, <2>1, <2>2, <2>3, <2>4
<1>6. (IsInjective(s) /\ IsInjective(r) /\ ToSet(s) \cap ToSet(r) = {}) => IsInjective(both)
  BY <1>2, <1>5 DEF IsInjective
<1>. QED  BY <1>1, <1>4, <1>6 DEF both, m, n

LEMMA OntoHolds ==
    ASSUME NEW S, NEW s \in Seq(S), NEW r \in Seq(S)
    PROVE  /\ Onto(s, r) \in Seq(S) /\ Len(Onto(s, r)) = Len(s) + Len(r)
           /\ ToSet(Onto(s, r)) = ToSet(s) \cup ToSet(r)
           /\ (IsInjective(s) /\ IsInjective(r) /\ ToSet(s) \cap ToSet(r) = {})
                => IsInjective(Onto(s, r))
BY ReverseKeeps, ConcatHolds DEF Onto

(* A stack cut in two. *)
Low(s, n) == SubSeq(s, 1, n)
High(s, n) == SubSeq(s, n + 1, Len(s))

LEMMA CutHolds ==
    ASSUME NEW S, NEW s \in Seq(S), NEW n \in 0..Len(s)
    PROVE  /\ Low(s, n) \in Seq(S) /\ Len(Low(s, n)) = n
           /\ High(s, n) \in Seq(S) /\ Len(High(s, n)) = Len(s) - n
           /\ ToSet(Low(s, n)) \cup ToSet(High(s, n)) = ToSet(s)
           /\ IsInjective(s) => /\ IsInjective(Low(s, n)) /\ IsInjective(High(s, n))
                                /\ ToSet(Low(s, n)) \cap ToSet(High(s, n)) = {}
<1>. DEFINE m == Len(s)
            low == Low(s, n)
            high == High(s, n)
<1>0. m \in Nat /\ n \in 0..m /\ DOMAIN s = 1..m  OBVIOUS
<1>1. /\ low \in Seq(S) /\ Len(low) = n /\ DOMAIN low = 1..n
      /\ high \in Seq(S) /\ Len(high) = m - n /\ DOMAIN high = 1..(m - n)
  BY DEF Low, High
<1>2. /\ \A i \in 1..n : low[i] = s[i] /\ i \in 1..m
      /\ \A i \in 1..(m - n) : high[i] = s[n + i] /\ n + i \in 1..m
  BY DEF Low, High
<1>. HIDE DEF m, low, high
<1>3. ToSet(low) \cup ToSet(high) = ToSet(s)
  <2>1. ASSUME NEW i \in 1..n  PROVE low[i] \in ToSet(s)  BY <1>0, <1>2 DEF ToSet
  <2>2. ASSUME NEW i \in 1..(m - n)  PROVE high[i] \in ToSet(s)
    <3>1. n + i \in 1..m /\ high[i] = s[n + i]  BY <1>2
    <3>. QED  BY <1>0, <3>1 DEF ToSet
  <2>3. ASSUME NEW i \in 1..m  PROVE s[i] \in ToSet(low) \cup ToSet(high)
    <3>1. CASE i <= n
      <4>1. i \in 1..n /\ s[i] = low[i]  BY <1>0, <1>2, <3>1
      <4>. QED  BY <1>1, <4>1 DEF ToSet
    <3>2. CASE i > n
      <4>1. i - n \in 1..(m - n) /\ n + (i - n) = i  BY <1>0, <3>2
      <4>2. high[i - n] = s[i]  BY <1>2, <4>1
      <4>. QED  BY <1>1, <4>1, <4>2 DEF ToSet
    <3>. QED  BY <1>0, <3>1, <3>2
  <2>4. ToSet(low) \subseteq ToSet(s)  BY <1>1, <2>1 DEF ToSet
  <2>5. ToSet(high) \subseteq ToSet(s)  BY <1>1, <2>2 DEF ToSet
  <2>6. ToSet(s) \subseteq ToSet(low) \cup ToSet(high)  BY <1>0, <2>3 DEF ToSet
  <2>. QED  BY <2>4, <2>5, <2>6
<1>4. ASSUME IsInjective(s)
      PROVE  IsInjective(low) /\ IsInjective(high) /\ ToSet(low) \cap ToSet(high) = {}
  <2>0. \A i, j \in 1..m : s[i] = s[j] => i = j  BY <1>0, <1>4 DEF IsInjective
  <2>1. \A i, j \in 1..n : low[i] = low[j] => i = j  BY <1>2, <2>0
  <2>2. ASSUME NEW i \in 1..(m - n), NEW j \in 1..(m - n), high[i] = high[j]  PROVE i = j
    <3>1. n + i \in 1..m /\ n + j \in 1..m /\ s[n + i] = s[n + j]  BY <1>2, <2>2
    <3>2. n + i = n + j  BY <2>0, <3>1
    <3>. QED  BY <1>0, <3>2
  <2>3. ASSUME NEW i \in 1..n, NEW j \in 1..(m - n)  PROVE low[i] # high[j]
    <3>1. /\ n + j \in 1..m /\ high[j] = s[n + j]
          /\ i \in 1..m /\ low[i] = s[i]
      BY <1>2
    <3>2. i # n + j  BY <1>0
    <3>. QED  BY <2>0, <3>1, <3>2
  <2>4. IsInjective(low) /\ IsInjective(high)  BY <1>1, <2>1, <2>2 DEF IsInjective
  <2>5. ToSet(low) \cap ToSet(high) = {}  BY <1>1, <2>3 DEF ToSet
  <2>. QED  BY <2>4, <2>5
<1>. QED  BY <1>1, <1>3, <1>4 DEF m, low, high

LEMMA FrontAndLast ==
    ASSUME NEW S, NEW s \in Seq(S), s # <<>>
    PROVE  /\ Len(s) > 0 /\ Last(s) \in S
           /\ Front(s) \in Seq(S) /\ Len(Front(s)) = Len(s) - 1
           /\ ToSet(s) = ToSet(Front(s)) \cup {Last(s)}
           /\ IsInjective(s) => IsInjective(Front(s)) /\ Last(s) \notin ToSet(Front(s))
<1>1. Len(s) \in Nat /\ Len(s) > 0 /\ Len(s) - 1 \in 0..Len(s)  OBVIOUS
<1>. DEFINE n == Len(s) - 1
            top == High(s, n)
<1>2. Front(s) = Low(s, n) /\ Len(top) = 1 /\ top \in Seq(S) /\ top[1] = Last(s)
  BY <1>1 DEF Front, Last, Low, High
<1>. HIDE DEF n
<1>3. /\ Len(Low(s, n)) = n /\ Low(s, n) \in Seq(S)
      /\ ToSet(Low(s, n)) \cup ToSet(top) = ToSet(s)
      /\ IsInjective(s) => IsInjective(Low(s, n)) /\ ToSet(Low(s, n)) \cap ToSet(top) = {}
  <2>1. n \in 0..Len(s)  BY <1>1 DEF n
  <2>. QED  BY <2>1, CutHolds
<1>. HIDE DEF top
<1>4. ToSet(top) = {Last(s)}  BY <1>2 DEF ToSet
<1>5. Last(s) \in S  BY <1>1 DEF Last
<1>. QED  BY <1>1, <1>2, <1>3, <1>4, <1>5 DEF n

LEMMA HeadAndTail ==
    ASSUME NEW S, NEW s \in Seq(S), s # <<>>
    PROVE  /\ Len(s) > 0 /\ Head(s) \in S
           /\ Tail(s) \in Seq(S) /\ Len(Tail(s)) = Len(s) - 1
           /\ ToSet(s) = {Head(s)} \cup ToSet(Tail(s))
           /\ IsInjective(s) => IsInjective(Tail(s)) /\ Head(s) \notin ToSet(Tail(s))
<1>1. /\ Len(s) \in Nat /\ Len(s) > 0 /\ Head(s) = s[1] /\ Head(s) \in S
      /\ Tail(s) \in Seq(S) /\ Len(Tail(s)) = Len(s) - 1
      /\ \A i \in 1..(Len(s) - 1) : Tail(s)[i] = s[i + 1] /\ i + 1 \in 1..Len(s)
      /\ DOMAIN s = 1..Len(s) /\ DOMAIN Tail(s) = 1..(Len(s) - 1)
  OBVIOUS
<1>2. ToSet(s) = {Head(s)} \cup ToSet(Tail(s))
  <2>1. ToSet(Tail(s)) \subseteq ToSet(s) /\ Head(s) \in ToSet(s)  BY <1>1 DEF ToSet
  <2>2. ASSUME NEW i \in 1..Len(s)  PROVE s[i] = Head(s) \/ s[i] \in ToSet(Tail(s))
    <3>1. CASE i = 1  BY <1>1, <3>1
    <3>2. CASE i # 1
      <4>1. i - 1 \in 1..(Len(s) - 1) /\ s[i] = Tail(s)[i - 1]  BY <1>1, <3>2
      <4>. QED  BY <1>1, <4>1 DEF ToSet
    <3>. QED  BY <3>1, <3>2
  <2>. QED  BY <1>1, <2>1, <2>2 DEF ToSet
<1>3. ASSUME IsInjective(s)  PROVE IsInjective(Tail(s)) /\ Head(s) \notin ToSet(Tail(s))
  <2>1. IsInjective(Tail(s))  BY <1>1, <1>3 DEF IsInjective
  <2>2. \A i \in 1..(Len(s) - 1) : Tail(s)[i] # s[1]  BY <1>1, <1>3 DEF IsInjective
  <2>. QED  BY <1>1, <2>1, <2>2 DEF ToSet
<1>. QED  BY <1>1, <1>2, <1>3

LEMMA AppendHolds ==
    ASSUME NEW S, NEW s \in Seq(S), NEW x \in S
    PROVE  /\ Append(s, x) \in Seq(S) /\ Append(s, x) # <<>> /\ Len(Append(s, x)) = Len(s) + 1
           /\ ToSet(Append(s, x)) = ToSet(s) \cup {x}
           /\ IsInjective(s) /\ x \notin ToSet(s) => IsInjective(Append(s, x))
<1>1. <<x>> \in Seq(S) /\ Len(<<x>>) = 1 /\ ToSet(<<x>>) = {x} /\ IsInjective(<<x>>)
  BY DEF ToSet, IsInjective
<1>2. Append(s, x) = s \o <<x>> /\ Append(s, x) # <<>> /\ Len(Append(s, x)) = Len(s) + 1
  OBVIOUS
<1>. DEFINE one == <<x>>
<1>3. one \in Seq(S) /\ ToSet(one) = {x} /\ IsInjective(one) /\ Append(s, x) = s \o one
  BY <1>1, <1>2
<1>. HIDE DEF one
<1>4. /\ s \o one \in Seq(S)
      /\ ToSet(s \o one) = ToSet(s) \cup ToSet(one)
      /\ (IsInjective(s) /\ IsInjective(one) /\ ToSet(s) \cap ToSet(one) = {})
            => IsInjective(s \o one)
  BY <1>3, ConcatHolds
<1>. QED  BY <1>2, <1>3, <1>4

LEMMA NothingIn ==
    /\ \A S : <<>> \in Seq(S)
    /\ ToSet(<<>>) = {} /\ IsInjective(<<>>)
BY DEF ToSet, IsInjective

-----------------------------------------------------------------------------
(* What a thread has in hand tells where it is: nothing when it is not at   *)
(* its tasks, no task in progress between tasks, two at least when it is to *)
(* share, and someone yet to tell while it tells.                           *)
TidyAt(t) ==
    /\ t \notin Doing => local[t] = <<>> /\ own[t] = {} /\ current[t] = NoTask
    /\ current[t] = NoTask => added[t] = <<>> /\ todo[t] = <<>>
    /\ pc[t] \in {"work", "share"} => current[t] = NoTask
    /\ pc[t] = "task" => current[t] # NoTask
    /\ pc[t] = "share" => Len(local[t]) >= 2
    /\ pc[t] \in {"start", "tell", "telling"} => handed[t] >= 1

Tidy == \A t \in Threads : TidyAt(t)

BusyCounted == busy = Cardinality(Doing)

AtWork == {"work", "task", "share", "start", "tell", "telling"}

(* A step of one thread, of the others' places and of what they have. *)
OnlyMoves(t) ==
    /\ pc' \in [Threads -> Places]
    /\ \A u \in Threads \ {t} :
          \/ pc'[u] = pc[u]
          \/ pc[u] = "wait" /\ pc'[u] = "woken"
          \/ u \in Workers /\ pc[u] = "none" /\ pc'[u] = "accepted"

HandOnly(t) ==
    \A u \in Threads \ {t} :
        /\ local'[u] = local[u] /\ own'[u] = own[u] /\ current'[u] = current[u]
        /\ added'[u] = added[u] /\ todo'[u] = todo[u] /\ handed'[u] = handed[u]

LEMMA GoMoves ==
    ASSUME CInv, NEW t \in Threads, NEW to \in Places,
           \/ Go(t, to)
           \/ to # "wait" /\ GoNotifyingAll(t, to)
           \/ \E w \in Threads \ {t} :
                 pc[w] = "wait" /\ pc' = [pc EXCEPT ![t] = to, ![w] = "woken"]
           \/ \E w \in Workers \ {t} :
                 pc[w] = "none" /\ pc' = [pc EXCEPT ![w] = "accepted", ![t] = to]
    PROVE  OnlyMoves(t) /\ pc'[t] = to
<1>1. pc \in [Threads -> Places] /\ Workers \subseteq Threads  BY DEF CInv, CountTypes, Threads
<1>2. CASE Go(t, to)  BY <1>1, <1>2 DEF Go, OnlyMoves
<1>3. CASE to # "wait" /\ GoNotifyingAll(t, to)
  <2>. DEFINE there == [pc EXCEPT ![t] = to]
  <2>1. there \in [Threads -> Places] /\ pc' = Woken(there)
    BY <1>1, <1>3 DEF GoNotifyingAll
  <2>2. there[t] = to /\ \A u \in Threads \ {t} : there[u] = pc[u]  BY <1>1
  <2>. HIDE DEF there
  <2>. QED  BY <1>3, <2>1, <2>2, WokenIsQuiet DEF OnlyMoves
<1>4. CASE \E w \in Threads \ {t} :
              pc[w] = "wait" /\ pc' = [pc EXCEPT ![t] = to, ![w] = "woken"]
  <2>1. "woken" \in Places  BY DEF Places
  <2>. QED  BY <1>1, <1>4, <2>1 DEF OnlyMoves
<1>5. CASE \E w \in Workers \ {t} :
              pc[w] = "none" /\ pc' = [pc EXCEPT ![w] = "accepted", ![t] = to]
  <2>1. "accepted" \in Places  BY DEF Places
  <2>. QED  BY <1>1, <1>5, <2>1 DEF OnlyMoves
<1>. QED  BY <1>2, <1>3, <1>4, <1>5

(* Where each step takes its thread. *)
Moves(t, from, to) == OnlyMoves(t) /\ pc[t] \in from /\ pc'[t] \in to

LEMMA CallerMoves ==
    ASSUME CInv
    PROVE  /\ Run => Moves(Caller, {"body"}, {"loop"})
           /\ RunReturns => Moves(Caller, {"loop"}, {"body"})
           /\ CallerWaits => Moves(Caller, {"loop"}, {"wait"})
           /\ ShutDown => Moves(Caller, {"body"}, {"shut down"})
           /\ NotifyDone => Moves(Caller, {"shut down"}, {"join"})
           /\ ScopeReturns => Moves(Caller, {"join"}, {"end"})
<1>. USE DEF Places, Moves
<1>0. Caller \in Threads  BY DEF Threads
<1>1. ASSUME Run  PROVE Moves(Caller, {"body"}, {"loop"})
  BY <1>0, <1>1, GoMoves DEF Run
<1>2. ASSUME RunReturns  PROVE Moves(Caller, {"loop"}, {"body"})
  BY <1>0, <1>2, GoMoves DEF RunReturns
<1>3. ASSUME CallerWaits  PROVE Moves(Caller, {"loop"}, {"wait"})
  BY <1>0, <1>3, GoMoves DEF CallerWaits
<1>4. ASSUME ShutDown  PROVE Moves(Caller, {"body"}, {"shut down"})
  BY <1>0, <1>4, GoMoves DEF ShutDown
<1>5. ASSUME NotifyDone  PROVE Moves(Caller, {"shut down"}, {"join"})
  BY <1>0, <1>5, GoMoves DEF NotifyDone
<1>6. ASSUME ScopeReturns  PROVE Moves(Caller, {"join"}, {"end"})
  BY <1>0, <1>6, GoMoves DEF ScopeReturns
<1>. QED  BY <1>1, <1>2, <1>3, <1>4, <1>5, <1>6

LEMMA WorkerMoves ==
    ASSUME CInv, NEW w \in Workers
    PROVE  /\ StartJob(w) => Moves(w, {"accepted"}, {"loop"})
           /\ WorkerIdles(w) => Moves(w, {"loop"}, {"none", "wait"})
<1>. USE DEF Places, Moves
<1>0. w \in Threads  BY DEF Threads
<1>1. ASSUME StartJob(w)  PROVE Moves(w, {"accepted"}, {"loop"})
  BY <1>0, <1>1, GoMoves DEF StartJob
<1>2. ASSUME WorkerIdles(w)  PROVE Moves(w, {"loop"}, {"none", "wait"})
  BY <1>0, <1>2, GoMoves DEF WorkerIdles
<1>. QED  BY <1>1, <1>2

LEMMA TaskMoves ==
    ASSUME CInv, NEW t \in Threads
    PROVE  /\ Wake(t) => Moves(t, {"woken"}, {"loop"})
           /\ WakeSpuriously(t) => Moves(t, {"wait"}, {"woken"})
           /\ pc[t] = "loop" /\ Take(t) => Moves(t, {"loop"}, {"work"})
           /\ BeginTask(t) => Moves(t, {"work"}, {"task"})
           /\ Push(t) => Moves(t, {"task"}, {"task"})
           /\ EndTask(t) => Moves(t, {"task"}, {"work", "share"})
           /\ KeepAll(t) => Moves(t, {"share"}, {"work"})
           /\ HandOver(t) => Moves(t, {"share"}, {"start", "tell"})
           /\ Offer(t) => Moves(t, {"task"}, {"start", "tell"})
           /\ JobAccepted(t) => Moves(t, {"start"}, {"tell"})
           /\ JobRefused(t) => Moves(t, {"start"}, {"tell"})
           /\ TellAll(t) => Moves(t, {"tell"}, {Resume(t)})
           /\ TellOneEach(t) =>
                 Moves(t, {"tell", "telling"}, {IF handed[t] = 1 THEN Resume(t) ELSE "telling"})
           /\ Finish(t) => Moves(t, {"work"}, {"loop"})
<1>. USE DEF Places, Moves
<1>0. Resume(t) \in {"work", "task"}  BY DEF Resume
<1>1. ASSUME Wake(t)  PROVE Moves(t, {"woken"}, {"loop"})  BY <1>1, GoMoves DEF Wake
<1>2. ASSUME WakeSpuriously(t)  PROVE Moves(t, {"wait"}, {"woken"})
  BY <1>2, GoMoves DEF WakeSpuriously
<1>3. ASSUME pc[t] = "loop", Take(t)  PROVE Moves(t, {"loop"}, {"work"})
  <2>1. Go(t, "work") \/ GoNotifyingAll(t, "work")  BY <1>3 DEF Take
  <2>. QED  BY <1>3, <2>1, GoMoves
<1>4. ASSUME BeginTask(t)  PROVE Moves(t, {"work"}, {"task"})
  BY <1>4, GoMoves DEF BeginTask
<1>5. ASSUME Push(t)  PROVE Moves(t, {"task"}, {"task"})
  BY <1>5 DEF CInv, CountTypes, Push, OnlyMoves
<1>6. ASSUME EndTask(t)  PROVE Moves(t, {"task"}, {"work", "share"})
  <2>1. Go(t, "work") \/ Go(t, "share")  BY <1>6 DEF EndTask
  <2>. QED  BY <1>6, <2>1, GoMoves DEF EndTask
<1>7. ASSUME KeepAll(t)  PROVE Moves(t, {"share"}, {"work"})  BY <1>7, GoMoves DEF KeepAll
<1>8. ASSUME HandOver(t)  PROVE Moves(t, {"share"}, {"start", "tell"})
  <2>1. Go(t, "start") \/ Go(t, "tell")  BY <1>8 DEF HandOver
  <2>. QED  BY <1>8, <2>1, GoMoves DEF HandOver
<1>9. ASSUME Offer(t)  PROVE Moves(t, {"task"}, {"start", "tell"})
  <2>1. Go(t, "start") \/ Go(t, "tell")  BY <1>9 DEF Offer
  <2>. QED  BY <1>9, <2>1, GoMoves DEF Offer
<1>10. ASSUME JobAccepted(t)  PROVE Moves(t, {"start"}, {"tell"})
  BY <1>10, GoMoves DEF JobAccepted
<1>11. ASSUME JobRefused(t)  PROVE Moves(t, {"start"}, {"tell"})
  BY <1>11, GoMoves DEF JobRefused
<1>12. ASSUME TellAll(t)  PROVE Moves(t, {"tell"}, {Resume(t)})
  BY <1>0, <1>12, GoMoves DEF TellAll
<1>13. ASSUME TellOneEach(t)
       PROVE  Moves(t, {"tell", "telling"}, {IF handed[t] = 1 THEN Resume(t) ELSE "telling"})
  <2>. DEFINE to == IF handed[t] = 1 THEN Resume(t) ELSE "telling"
  <2>1. to \in Places /\ pc[t] \in {"tell", "telling"}  BY <1>0, <1>13 DEF TellOneEach
  <2>2. \/ Go(t, to)
        \/ \E w \in Threads \ {t} : pc[w] = "wait" /\ pc' = [pc EXCEPT ![t] = to, ![w] = "woken"]
    BY <1>13, <2>1 DEF TellOneEach, Go
  <2>. HIDE DEF to
  <2>3. OnlyMoves(t) /\ pc'[t] = to  BY <2>1, <2>2, GoMoves
  <2>. QED  BY <2>1, <2>3 DEF to
<1>14. ASSUME Finish(t)  PROVE Moves(t, {"work"}, {"loop"})
  <2>1. Go(t, "loop") \/ GoNotifyingAll(t, "loop")  BY <1>14 DEF Finish
  <2>. QED  BY <1>14, <2>1, GoMoves DEF Finish
<1>. QED  BY <1>1, <1>2, <1>3, <1>4, <1>5, <1>6, <1>7, <1>8, <1>9, <1>10, <1>11, <1>12,
             <1>13, <1>14

LEMMA DoingIsFinite == IsFiniteSet(Doing) /\ Cardinality(Doing) \in Nat
<1>1. IsFiniteSet(Threads)  BY WorkersAssumption, FS_AddElement DEF Threads
<1>2. Doing \subseteq Threads  BY DEF Doing
<1>. QED  BY <1>1, <1>2, FS_Subset, FS_CardinalityType

LEMMA OneThreadSteps ==
    ASSUME Tidy, BusyCounted, NEW t \in Threads, OnlyMoves(t), HandOnly(t), TidyAt(t)',
           \/ busy' = busy /\ (t \in Doing') = (t \in Doing)
           \/ busy' = busy + 1 /\ t \notin Doing /\ t \in Doing'
           \/ busy' = busy - 1 /\ t \in Doing /\ t \notin Doing'
    PROVE  Tidy' /\ BusyCounted' /\ busy' \in Nat
<1>1. \A u \in Threads \ {t} : (u \in Doing') = (u \in Doing)
  BY DEF OnlyMoves, Doing
<1>2. Tidy'
  <2>1. ASSUME NEW u \in Threads \ {t}  PROVE TidyAt(u)'
    <3>1. TidyAt(u)  BY DEF Tidy
    <3>2. pc'[u] = pc[u] \/ (pc[u] \in {"wait", "none"} /\ pc'[u] \in {"woken", "accepted"})
      BY DEF OnlyMoves
    <3>. QED  BY <1>1, <3>1, <3>2 DEF HandOnly, TidyAt
  <2>. QED  BY <2>1 DEF Tidy
<1>3. Doing \subseteq Threads /\ Doing' \subseteq Threads  BY DEF Doing
<1>4. BusyCounted' /\ busy' \in Nat
  <2>1. CASE busy' = busy /\ (t \in Doing') = (t \in Doing)
    <3>1. Doing' = Doing  BY <1>1, <1>3, <2>1
    <3>. QED  BY <2>1, <3>1, DoingIsFinite DEF BusyCounted
  <2>2. CASE busy' = busy + 1 /\ t \notin Doing /\ t \in Doing'
    <3>1. Doing' = Doing \cup {t}  BY <1>1, <1>3, <2>2
    <3>. QED  BY <2>2, <3>1, DoingIsFinite, OneMore DEF BusyCounted
  <2>3. CASE busy' = busy - 1 /\ t \in Doing /\ t \notin Doing'
    <3>1. Doing' = Doing \ {t}  BY <1>1, <1>3, <2>3
    <3>2. Cardinality(Doing') = Cardinality(Doing) - 1 /\ Cardinality(Doing) > 0
      BY <2>3, <3>1, DoingIsFinite, OneLess
    <3>. QED  BY <2>3, <3>2, DoingIsFinite DEF BusyCounted
  <2>. QED  BY <2>1, <2>2, <2>3
<1>. QED  BY <1>2, <1>4

(* The types that the counts give. *)
CountBounds ==
    /\ spare \in 0..MaxWorkers /\ others \in 0..MaxWorkers
    /\ pc \in [Threads -> Places] /\ holds \in [Workers -> BOOLEAN] /\ workers \in Nat

LEMMA CountsBound == CInv => CountBounds
BY CountsAreFinite, MaxWorkersType DEF CInv, CountTypes, BudgetBalances, CountBounds

LEMMA CountsBoundNext == CInv' => CountBounds'
BY CountsBound, PTL

(* What the other types are of. *)
WorkTypes ==
    /\ workersWait \in BOOLEAN /\ lock \in Threads \cup {NoThread}
    /\ pending \in Seq(Tasks) /\ workers <= MaxWorkers
    /\ cannotStart \in BOOLEAN /\ results \subseteq Tasks /\ done \in BOOLEAN
    /\ local \in [Threads -> Seq(Tasks)] /\ canSpawn \in [Threads -> BOOLEAN]
    /\ own \in [Threads -> SUBSET Tasks]
    /\ current \in [Threads -> Tasks \cup {NoTask}]
    /\ added \in [Threads -> Seq(Tasks)] /\ todo \in [Threads -> Seq(Tasks)]
    /\ handed \in [Threads -> Nat]
    /\ phase \in 0..Len(Phases) /\ returned \in Seq(SUBSET Tasks)
    /\ begun \subseteq Tasks /\ ran \in [Tasks -> Nat]

WInv == CInv /\ WorkTypes /\ Tidy /\ BusyCounted

LEMMA TypesOfWork == WInv => TypeOK
BY CountsBound, DoingIsFinite, MaxWorkersType
   DEF WInv, CountBounds, WorkTypes, BusyCounted, TypeOK

LEMMA InitWInv == Init => WInv
<1>. SUFFICES ASSUME Init  PROVE WInv
  OBVIOUS
<1>1. CInv  BY InitCInv
<1>2. WorkTypes
  <2>1. Len(Phases) \in Nat /\ 0 \in 0..Len(Phases)  BY TaskAssumption
  <2>2. <<>> \in Seq(Tasks) /\ <<>> \in Seq(SUBSET Tasks)  BY NothingIn
  <2>3. 0 <= MaxWorkers  BY MaxWorkersType
  <2>. QED  BY <2>1, <2>2, <2>3 DEF Init, WorkTypes
<1>3. Doing = {}  BY DEF Init, Doing
<1>4. Tidy  BY <1>3 DEF Init, Tidy, TidyAt
<1>5. BusyCounted  BY <1>3, FS_EmptySet DEF Init, BusyCounted
<1>. QED  BY <1>1, <1>2, <1>4, <1>5 DEF WInv

(* A thread's step, of what it has in hand, its place and `busy`. *)
StepsAlone(t) ==
    /\ OnlyMoves(t) /\ HandOnly(t) /\ TidyAt(t)'
    /\ \/ busy' = busy /\ (t \in Doing') = (t \in Doing)
       \/ busy' = busy + 1 /\ t \notin Doing /\ t \in Doing'
       \/ busy' = busy - 1 /\ t \in Doing /\ t \notin Doing'

LEMMA StepsKeepWInv ==
    ASSUME WInv, CInv', NEW t \in Threads, StepsAlone(t), WorkTypes'
    PROVE  WInv'
BY OneThreadSteps DEF WInv, StepsAlone

-----------------------------------------------------------------------------
(* Steps that leave what is in hand alone, and neither enter nor leave the  *)
(* places of a thread at its tasks.                                         *)
LEMMA PlainSteps ==
    ASSUME WInv, NEW t \in Threads, OnlyMoves(t),
           UNCHANGED <<busy, local, own, current, added, todo, handed>>,
           \/ pc[t] \notin AtWork /\ pc'[t] \notin AtWork
           \/ pc[t] = "share" /\ pc'[t] = "work"
           \/ pc[t] = "start" /\ pc'[t] = "tell"
    PROVE  StepsAlone(t)
<1>1. TidyAt(t)  BY DEF WInv, Tidy
<1>2. TidyAt(t)'  BY <1>1 DEF TidyAt, Doing, AtWork
<1>3. (t \in Doing') = (t \in Doing)  BY DEF Doing, AtWork
<1>. QED  BY <1>2, <1>3 DEF StepsAlone, HandOnly

LEMMA PlainStepsKeepTypes ==
    ASSUME WInv, UNCHANGED <<workersWait, pending, cannotStart, results, local, own, current,
                             added, todo, handed, canSpawn, returned, begun, ran>>,
           lock' \in Threads \cup {NoThread}, workers' <= workers, done' \in BOOLEAN,
           phase' = phase, workers' \in Nat
    PROVE  WorkTypes'
<1>1. workers \in Nat  BY CountsBound DEF WInv, CountBounds
<1>2. workers' <= MaxWorkers  BY <1>1, MaxWorkersType DEF WInv, WorkTypes
<1>. QED  BY <1>2 DEF WInv, WorkTypes

LEMMA WakeWInv ==
    ASSUME WInv, CInv', NEW t \in Threads, Wake(t)
    PROVE  WInv'
<1>1. OnlyMoves(t) /\ pc'[t] = "loop" /\ pc[t] = "woken"
  BY TaskMoves DEF WInv, Moves
<1>2. StepsAlone(t)  BY <1>1, PlainSteps DEF Wake, shared, hand, AtWork
<1>3. WorkTypes'
  BY CountsBound, PlainStepsKeepTypes
     DEF WInv, WorkTypes, CountBounds, Wake, shared, hand, body
<1>. QED  BY <1>2, <1>3, StepsKeepWInv

LEMMA WakeSpuriouslyWInv ==
    ASSUME WInv, CInv', NEW t \in Threads, WakeSpuriously(t)
    PROVE  WInv'
<1>1. OnlyMoves(t) /\ pc'[t] = "woken" /\ pc[t] = "wait"
  BY TaskMoves DEF WInv, Moves
<1>2. StepsAlone(t)  BY <1>1, PlainSteps DEF WakeSpuriously, shared, hand, AtWork
<1>3. WorkTypes'
  BY CountsBound, PlainStepsKeepTypes
     DEF WInv, WorkTypes, CountBounds, WakeSpuriously, shared, hand, body
<1>. QED  BY <1>2, <1>3, StepsKeepWInv

LEMMA StartJobWInv ==
    ASSUME WInv, CInv', NEW w \in Workers, StartJob(w)
    PROVE  WInv'
<1>0. w \in Threads  BY DEF Threads
<1>1. OnlyMoves(w) /\ pc'[w] = "loop" /\ pc[w] = "accepted"
  BY WorkerMoves DEF WInv, Moves
<1>2. StepsAlone(w)  BY <1>0, <1>1, PlainSteps DEF StartJob, shared, hand, AtWork
<1>3. WorkTypes'
  BY <1>0, CountsBound, PlainStepsKeepTypes
     DEF WInv, WorkTypes, CountBounds, StartJob, shared, hand, body
<1>. QED  BY <1>0, <1>2, <1>3, StepsKeepWInv

LEMMA WorkerIdlesWInv ==
    ASSUME WInv, CInv', NEW w \in Workers, WorkerIdles(w)
    PROVE  WInv'
<1>0. w \in Threads  BY DEF Threads
<1>1. OnlyMoves(w) /\ pc'[w] \in {"none", "wait"} /\ pc[w] = "loop"
  BY WorkerMoves DEF WInv, Moves
<1>2. StepsAlone(w)  BY <1>0, <1>1, PlainSteps DEF WorkerIdles, hand, AtWork
<1>3. WorkTypes'
  <2>1. workers \in Nat /\ workers' \in Nat
    BY CountsBound, CountsBoundNext DEF WInv, CountBounds
  <2>2. workers' <= workers  BY <2>1 DEF WorkerIdles
  <2>. QED  BY <2>1, <2>2, PlainStepsKeepTypes DEF WInv, WorkTypes, WorkerIdles, hand, body
<1>. QED  BY <1>0, <1>2, <1>3, StepsKeepWInv

(* The caller's steps but for those that take tasks, run and return. *)
LEMMA CallerPlainWInv ==
    ASSUME WInv, CInv', CallerWaits \/ ShutDown \/ NotifyDone \/ ScopeReturns
    PROVE  WInv'
<1>0. Caller \in Threads  BY DEF Threads
<1>1. /\ OnlyMoves(Caller) /\ pc'[Caller] \in {"wait", "shut down", "join", "end"}
      /\ pc[Caller] \in {"loop", "body", "shut down", "join"}
  BY CallerMoves DEF WInv, Moves
<1>2. /\ UNCHANGED <<workersWait, pending, busy, workers, cannotStart, results, hand, body,
                     begun, ran>>
      /\ lock' \in {lock, NoThread} /\ done' \in {done, TRUE}
  BY DEF CallerWaits, ShutDown, NotifyDone, ScopeReturns, shared
<1>3. StepsAlone(Caller)  BY <1>0, <1>1, <1>2, PlainSteps DEF hand, AtWork
<1>4. WorkTypes'
  <2>1. /\ lock' \in Threads \cup {NoThread} /\ done' \in BOOLEAN
        /\ workers \in Nat /\ workers' = workers
    BY <1>2, CountsBound DEF WInv, WorkTypes, CountBounds
  <2>. QED  BY <1>2, <2>1, PlainStepsKeepTypes DEF hand, body
<1>. QED  BY <1>0, <1>3, <1>4, StepsKeepWInv

LEMMA KeepAllWInv ==
    ASSUME WInv, CInv', NEW t \in Threads, KeepAll(t)
    PROVE  WInv'
<1>1. OnlyMoves(t) /\ pc'[t] = "work" /\ pc[t] = "share"
  BY TaskMoves DEF WInv, Moves
<1>2. StepsAlone(t)  BY <1>1, PlainSteps DEF KeepAll, shared, hand, AtWork
<1>3. WorkTypes'
  BY CountsBound, PlainStepsKeepTypes
     DEF WInv, WorkTypes, CountBounds, KeepAll, shared, hand, body
<1>. QED  BY <1>2, <1>3, StepsKeepWInv

LEMMA JobAcceptedWInv ==
    ASSUME WInv, CInv', NEW t \in Threads, JobAccepted(t)
    PROVE  WInv'
<1>1. OnlyMoves(t) /\ pc'[t] = "tell" /\ pc[t] = "start"
  BY TaskMoves DEF WInv, Moves
<1>2. StepsAlone(t)  BY <1>1, PlainSteps DEF JobAccepted, shared, hand, AtWork
<1>3. WorkTypes'
  <2>1. UNCHANGED <<workersWait, lock, shared, hand, body, begun, ran>>  BY DEF JobAccepted
  <2>. QED  BY <2>1 DEF WInv, WorkTypes, shared, hand, body
<1>. QED  BY <1>2, <1>3, StepsKeepWInv

LEMMA JobRefusedWInv ==
    ASSUME WInv, CInv', NEW t \in Threads, JobRefused(t)
    PROVE  WInv'
<1>1. OnlyMoves(t) /\ pc'[t] = "tell" /\ pc[t] = "start"
  BY TaskMoves DEF WInv, Moves
<1>2. StepsAlone(t)  BY <1>1, PlainSteps DEF JobRefused, hand, AtWork
<1>3. WorkTypes'
  <2>1. workers \in Nat /\ workers' \in Nat
    BY CountsBound, CountsBoundNext DEF WInv, CountBounds
  <2>2. workers' <= MaxWorkers  BY <2>1, MaxWorkersType DEF WInv, WorkTypes, JobRefused
  <2>. QED  BY <2>2 DEF WInv, WorkTypes, JobRefused, hand, body
<1>. QED  BY <1>2, <1>3, StepsKeepWInv

LEMMA OthersWInv ==
    ASSUME WInv, CInv', OthersClaim \/ OthersGiveBack \/ UNCHANGED vars
    PROVE  WInv'
<1>1. UNCHANGED <<workersWait, lock, shared, pc, hand, body, begun, ran>>
  BY DEF OthersClaim, OthersGiveBack, vars
<1>2. WorkTypes'  BY <1>1 DEF WInv, WorkTypes, shared, hand, body
<1>3. Tidy'  BY <1>1 DEF WInv, Tidy, TidyAt, Doing, hand
<1>4. BusyCounted'  BY <1>1 DEF WInv, BusyCounted, Doing, shared
<1>. QED  BY <1>2, <1>3, <1>4 DEF WInv

-----------------------------------------------------------------------------
(* The caller's run: its tasks are pushed, and at its end results handed    *)
(* back.                                                                    *)
LEMMA RunWInv ==
    ASSUME WInv, CInv', Run
    PROVE  WInv'
<1>0. Caller \in Threads  BY DEF Threads
<1>1. OnlyMoves(Caller) /\ pc'[Caller] = "loop" /\ pc[Caller] = "body"
  BY CallerMoves DEF WInv, Moves
<1>2. StepsAlone(Caller)  BY <1>0, <1>1, PlainSteps DEF Run, hand, AtWork
<1>3. WorkTypes'
  <2>1. phase + 1 \in 1..Len(Phases) /\ Phases[phase + 1] \in Seq(Tasks)
    BY TaskAssumption DEF WInv, WorkTypes, Run
  <2>2. pending' \in Seq(Tasks)  BY <2>1, OntoHolds DEF WInv, WorkTypes, Run
  <2>3. phase' \in 0..Len(Phases)  BY <2>1 DEF Run
  <2>. QED  BY <1>0, <2>2, <2>3 DEF WInv, WorkTypes, Run, hand
<1>. QED  BY <1>0, <1>2, <1>3, StepsKeepWInv

LEMMA RunReturnsWInv ==
    ASSUME WInv, CInv', RunReturns
    PROVE  WInv'
<1>0. Caller \in Threads  BY DEF Threads
<1>1. OnlyMoves(Caller) /\ pc'[Caller] = "body" /\ pc[Caller] = "loop"
  BY CallerMoves DEF WInv, Moves
<1>2. StepsAlone(Caller)  BY <1>0, <1>1, PlainSteps DEF RunReturns, hand, AtWork
<1>3. WorkTypes'
  <2>1. returned' \in Seq(SUBSET Tasks)  BY DEF WInv, WorkTypes, RunReturns
  <2>. QED  BY <2>1 DEF WInv, WorkTypes, RunReturns, hand
<1>. QED  BY <1>0, <1>2, <1>3, StepsKeepWInv

-----------------------------------------------------------------------------
(* The share that is taken: some of the tasks, from the end. *)
Share ==
    LET even == Len(pending) \div (MaxWorkers + 1)
    IN  IF even > 1 THEN even ELSE 1

LEMMA ShareIsSome ==
    ASSUME pending \in Seq(Tasks), pending # <<>>
    PROVE  Share \in 1..Len(pending) /\ Len(pending) - Share \in 0..Len(pending)
<1>. DEFINE len == Len(pending)
            even == len \div (MaxWorkers + 1)
<1>1. len \in Nat /\ len > 0  OBVIOUS
<1>2. MaxWorkers + 1 \in Nat /\ MaxWorkers + 1 > 0  BY MaxWorkersType
<1>. HIDE DEF len
<1>3. even \in Nat /\ even <= len
  <2>. DEFINE n == MaxWorkers + 1
  <2>1. n \in Nat /\ n > 0  BY <1>2
  <2>. HIDE DEF n
  <2>2. len \div n \in Nat /\ len \div n <= len  BY <1>1, <2>1
  <2>. QED  BY <2>2 DEF n
<1>4. Share = IF even > 1 THEN even ELSE 1  BY DEF Share, len
<1>. HIDE DEF even
<1>. QED  BY <1>1, <1>3, <1>4 DEF len

LEMMA TakeShares ==
    ASSUME NEW t \in Threads, Take(t), pending \in Seq(Tasks), pending # <<>>
    PROVE  \E n \in 0..Len(pending) :
              /\ n < Len(pending)
              /\ pending' = Low(pending, n)
              /\ local' = [local EXCEPT ![t] = High(pending, n)]
<1>. DEFINE n == Len(pending) - Share
<1>1. n \in 0..Len(pending) /\ n < Len(pending) /\ Len(pending) \in Nat
  BY ShareIsSome
<1>2. pending' = Low(pending, n)  BY DEF Take, Share, Low
<1>3. local' = [local EXCEPT ![t] = High(pending, n)]  BY DEF Take, Share, High
<1>. HIDE DEF n
<1>. QED  BY <1>1, <1>2, <1>3

LEMMA TakeWInv ==
    ASSUME WInv, CInv', NEW t \in Threads, pc[t] = "loop", pending # <<>>, Take(t)
    PROVE  WInv'
<1>1. OnlyMoves(t) /\ pc'[t] = "work"
  BY TaskMoves DEF WInv, Moves
<1>2. PICK n \in 0..Len(pending) :
        /\ pending' = Low(pending, n)
        /\ local' = [local EXCEPT ![t] = High(pending, n)]
  BY TakeShares DEF WInv, WorkTypes
<1>3. Low(pending, n) \in Seq(Tasks) /\ High(pending, n) \in Seq(Tasks)
  BY CutHolds DEF WInv, WorkTypes
<1>4. /\ UNCHANGED <<workersWait, workers, cannotStart, results, done, own, current,
                     added, todo, handed, body, begun, ran>>
      /\ busy' = busy + 1 /\ lock' = NoThread
      /\ canSpawn' = [canSpawn EXCEPT ![t] = (t = Caller \/ ~workersWait) /\ CanStart(workers)]
  BY DEF Take
<1>5. WorkTypes'
  <2>1. canSpawn' \in [Threads -> BOOLEAN]  BY <1>4 DEF WInv, WorkTypes
  <2>2. local' \in [Threads -> Seq(Tasks)] /\ pending' \in Seq(Tasks)
    BY <1>2, <1>3 DEF WInv, WorkTypes
  <2>. QED  BY <1>4, <2>1, <2>2 DEF WInv, WorkTypes, body
<1>6. HandOnly(t)  BY <1>2, <1>4 DEF WInv, WorkTypes, HandOnly
<1>7. t \notin Doing /\ t \in Doing'  BY <1>1 DEF Doing
<1>8. TidyAt(t)'
  <2>1. TidyAt(t)  BY DEF WInv, Tidy
  <2>. QED  BY <1>1, <1>4, <1>7, <2>1 DEF TidyAt
<1>. QED  BY <1>1, <1>4, <1>5, <1>6, <1>7, <1>8, StepsKeepWInv DEF StepsAlone

-----------------------------------------------------------------------------
(* A task's steps. *)
LEMMA BeginTaskWInv ==
    ASSUME WInv, CInv', NEW t \in Threads, BeginTask(t)
    PROVE  WInv'
<1>1. OnlyMoves(t) /\ pc'[t] = "task" /\ pc[t] = "work"
  BY TaskMoves DEF WInv, Moves
<1>. DEFINE task == Last(local[t])
<1>2. task \in Tasks /\ Front(local[t]) \in Seq(Tasks) /\ Adds[task] \in Seq(Tasks)
  BY FrontAndLast, TaskAssumption DEF WInv, WorkTypes, BeginTask
<1>. HIDE DEF task
<1>3. /\ UNCHANGED <<workersWait, lock, pending, busy, workers, cannotStart, results, done,
                     canSpawn, own, added, handed, phase, returned, ran>>
      /\ current' = [current EXCEPT ![t] = task] /\ begun' = begun \cup {task}
      /\ todo' = [todo EXCEPT ![t] = Adds[task]]
      /\ local' = [local EXCEPT ![t] = Front(local[t])]
  BY DEF BeginTask, shared, body, task
<1>4. WorkTypes'  BY <1>2, <1>3 DEF WInv, WorkTypes
<1>5. HandOnly(t)  BY <1>3 DEF WInv, WorkTypes, HandOnly
<1>6. t \in Doing /\ t \in Doing'  BY <1>1 DEF Doing
<1>7. TidyAt(t)'
  <2>1. current'[t] \in Tasks  BY <1>2, <1>3 DEF WInv, WorkTypes
  <2>. QED  BY <1>1, <1>6, <2>1, NoTaskAssumption DEF TidyAt
<1>. QED  BY <1>1, <1>3, <1>4, <1>5, <1>6, <1>7, StepsKeepWInv DEF StepsAlone

LEMMA PushWInv ==
    ASSUME WInv, CInv', NEW t \in Threads, Push(t)
    PROVE  WInv'
<1>1. OnlyMoves(t) /\ pc'[t] = pc[t] /\ pc[t] = "task"
  BY TaskMoves DEF WInv, Moves
<1>2. /\ Head(todo[t]) \in Tasks /\ Tail(todo[t]) \in Seq(Tasks)
      /\ Append(added[t], Head(todo[t])) \in Seq(Tasks)
  BY HeadAndTail, AppendHolds DEF WInv, WorkTypes, Push
<1>3. /\ UNCHANGED <<workersWait, lock, pending, busy, workers, cannotStart, results, done,
                     local, canSpawn, own, current, handed, phase, returned, begun, ran>>
      /\ added' = [added EXCEPT ![t] = Append(added[t], Head(todo[t]))]
      /\ todo' = [todo EXCEPT ![t] = Tail(todo[t])]
  BY DEF Push, shared, body
<1>4. WorkTypes'  BY <1>2, <1>3 DEF WInv, WorkTypes
<1>5. HandOnly(t)  BY <1>3 DEF WInv, WorkTypes, HandOnly
<1>6. t \in Doing /\ t \in Doing'  BY <1>1 DEF Doing
<1>7. TidyAt(t)'
  <2>1. current[t] # NoTask  BY <1>1 DEF WInv, Tidy, TidyAt
  <2>. QED  BY <1>1, <1>3, <1>6, <2>1 DEF TidyAt
<1>. QED  BY <1>1, <1>3, <1>4, <1>5, <1>6, <1>7, StepsKeepWInv DEF StepsAlone

LEMMA EndTaskWInv ==
    ASSUME WInv, CInv', NEW t \in Threads, EndTask(t)
    PROVE  WInv'
<1>. DEFINE hands == Onto(local[t], added[t])
<1>0. hands \in Seq(Tasks) /\ current[t] \in Tasks
  <2>1. current[t] # NoTask  BY DEF WInv, Tidy, TidyAt, EndTask
  <2>. QED  BY <2>1, OntoHolds DEF WInv, WorkTypes
<1>. HIDE DEF hands
<1>1. /\ UNCHANGED <<workersWait, lock, pending, busy, workers, cannotStart, results, done,
                     canSpawn, todo, handed, phase, returned, begun>>
      /\ ran' = [ran EXCEPT ![current[t]] = @ + 1]
      /\ own' = [own EXCEPT ![t] = @ \cup {current[t]}]
      /\ local' = [local EXCEPT ![t] = hands]
      /\ added' = [added EXCEPT ![t] = <<>>]
      /\ current' = [current EXCEPT ![t] = NoTask]
      /\ pc[t] = "task" /\ todo[t] = <<>>
  BY DEF EndTask, shared, body, hands
<1>2. local'[t] = hands  BY <1>1 DEF WInv, WorkTypes
<1>3. /\ OnlyMoves(t) /\ pc'[t] \in {"work", "share"}
      /\ pc'[t] = "share" => Len(hands) >= 2
  <2>1. OnlyMoves(t) /\ pc'[t] \in {"work", "share"}  BY TaskMoves DEF WInv, Moves
  <2>2. Go(t, IF Len(hands) < 2 THEN "work" ELSE "share")  BY <1>2 DEF EndTask
  <2>3. Len(hands) < 2 => pc'[t] = "work"
    BY <2>2 DEF WInv, CInv, CountTypes, Go
  <2>4. Len(hands) \in Nat  BY <1>0
  <2>. QED  BY <2>1, <2>3, <2>4
<1>4. WorkTypes'
  <2>1. ran' \in [Tasks -> Nat] /\ own' \in [Threads -> SUBSET Tasks]
    BY <1>0, <1>1 DEF WInv, WorkTypes
  <2>2. local' \in [Threads -> Seq(Tasks)] /\ added' \in [Threads -> Seq(Tasks)]
    BY <1>0, <1>1, NothingIn DEF WInv, WorkTypes
  <2>3. current' \in [Threads -> Tasks \cup {NoTask}]  BY <1>1 DEF WInv, WorkTypes
  <2>. QED  BY <1>1, <2>1, <2>2, <2>3 DEF WInv, WorkTypes
<1>5. HandOnly(t)  BY <1>1 DEF WInv, WorkTypes, HandOnly
<1>6. t \in Doing /\ t \in Doing'  BY <1>1, <1>3 DEF Doing
<1>7. TidyAt(t)'
  <2>1. current'[t] = NoTask /\ added'[t] = <<>> /\ todo'[t] = <<>>
    BY <1>1 DEF WInv, WorkTypes
  <2>. QED  BY <1>2, <1>3, <1>6, <2>1 DEF TidyAt
<1>. QED  BY <1>1, <1>3, <1>4, <1>5, <1>6, <1>7, StepsKeepWInv DEF StepsAlone

-----------------------------------------------------------------------------
(* Handing tasks over, and telling of it. *)
LEMMA ReserveBounds ==
    ASSUME WInv, CInv', NEW start \in BOOLEAN, Reserve(start), start => MayReserve
    PROVE  workers' <= MaxWorkers
<1>1. workers \in Nat /\ MaxWorkers \in Nat /\ workers <= MaxWorkers
  BY CountsBound, MaxWorkersType DEF WInv, CountBounds, WorkTypes
<1>. QED  BY <1>1 DEF Reserve, MayReserve, CanStart

LEMMA HandOverWInv ==
    ASSUME WInv, CInv', NEW t \in Threads, HandOver(t)
    PROVE  WInv'
<1>1. PICK start \in BOOLEAN :
        /\ start => MayReserve
        /\ Reserve(start) /\ Go(t, IF start THEN "start" ELSE "tell")
        /\ canSpawn' = [canSpawn EXCEPT ![t] = @ /\ CanStart(workers')]
  BY DEF HandOver, MayReserve, CanStart
<1>2. OnlyMoves(t) /\ pc'[t] \in {"start", "tell"}
  BY TaskMoves DEF WInv, Moves
<1>3. /\ UNCHANGED <<workersWait, lock, busy, cannotStart, results, done, own, current, added,
                     todo, phase, returned, begun, ran>>
      /\ pending' = Onto(pending, Front(local[t]))
      /\ handed' = [handed EXCEPT ![t] = Len(local[t]) - 1]
      /\ local' = [local EXCEPT ![t] = <<Last(local[t])>>]
      /\ pc[t] = "share"
  BY DEF HandOver, body
<1>4. TidyAt(t) /\ Len(local[t]) >= 2 /\ Len(local[t]) \in Nat /\ local[t] # <<>>
  BY <1>3 DEF WInv, WorkTypes, Tidy, TidyAt
<1>5. Front(local[t]) \in Seq(Tasks) /\ Last(local[t]) \in Tasks
  BY <1>4, FrontAndLast DEF WInv, WorkTypes
<1>6. WorkTypes'
  <2>1. pending' \in Seq(Tasks)  BY <1>3, <1>5, OntoHolds DEF WInv, WorkTypes
  <2>2. <<Last(local[t])>> \in Seq(Tasks) /\ Len(local[t]) - 1 \in Nat  BY <1>4, <1>5
  <2>3. local' \in [Threads -> Seq(Tasks)] /\ handed' \in [Threads -> Nat]
    BY <1>3, <2>2 DEF WInv, WorkTypes
  <2>4. canSpawn' \in [Threads -> BOOLEAN]  BY <1>1 DEF WInv, WorkTypes, CanStart
  <2>5. workers' <= MaxWorkers  BY <1>1, ReserveBounds
  <2>. QED  BY <1>3, <2>1, <2>3, <2>4, <2>5 DEF WInv, WorkTypes
<1>7. HandOnly(t)  BY <1>3 DEF WInv, WorkTypes, HandOnly
<1>8. t \in Doing /\ t \in Doing'  BY <1>2, <1>3 DEF Doing
<1>9. TidyAt(t)'
  <2>1. handed'[t] = Len(local[t]) - 1  BY <1>3 DEF WInv, WorkTypes
  <2>. QED  BY <1>2, <1>3, <1>4, <1>8, <2>1 DEF TidyAt
<1>. QED  BY <1>2, <1>3, <1>6, <1>7, <1>8, <1>9, StepsKeepWInv DEF StepsAlone

LEMMA OfferWInv ==
    ASSUME WInv, CInv', NEW t \in Threads, Offer(t)
    PROVE  WInv'
<1>1. PICK start \in BOOLEAN :
        /\ start => MayReserve
        /\ Reserve(start) /\ Go(t, IF start THEN "start" ELSE "tell")
  BY DEF Offer, MayReserve, CanStart
<1>2. OnlyMoves(t) /\ pc'[t] \in {"start", "tell"}
  BY TaskMoves DEF WInv, Moves
<1>3. /\ UNCHANGED <<workersWait, lock, busy, cannotStart, results, done, local, canSpawn,
                     own, current, todo, phase, returned, begun, ran>>
      /\ pending' = Onto(pending, added[t])
      /\ handed' = [handed EXCEPT ![t] = Len(added[t])]
      /\ added' = [added EXCEPT ![t] = <<>>]
      /\ pc[t] = "task" /\ added[t] # <<>>
  BY DEF Offer, body
<1>4. TidyAt(t) /\ Len(added[t]) >= 1 /\ Len(added[t]) \in Nat
  BY <1>3 DEF WInv, WorkTypes, Tidy
<1>5. WorkTypes'
  <2>1. pending' \in Seq(Tasks)  BY <1>3, OntoHolds DEF WInv, WorkTypes
  <2>2. added' \in [Threads -> Seq(Tasks)]  BY <1>3, NothingIn DEF WInv, WorkTypes
  <2>3. handed' \in [Threads -> Nat]  BY <1>3, <1>4 DEF WInv, WorkTypes
  <2>4. workers' <= MaxWorkers  BY <1>1, ReserveBounds
  <2>. QED  BY <1>3, <2>1, <2>2, <2>3, <2>4 DEF WInv, WorkTypes
<1>6. HandOnly(t)  BY <1>3 DEF WInv, WorkTypes, HandOnly
<1>7. t \in Doing /\ t \in Doing'  BY <1>2, <1>3 DEF Doing
<1>8. TidyAt(t)'
  <2>1. handed'[t] = Len(added[t]) /\ added'[t] = <<>>  BY <1>3 DEF WInv, WorkTypes
  <2>2. current'[t] # NoTask  BY <1>3, <1>4 DEF TidyAt
  <2>. QED  BY <1>2, <1>4, <1>7, <2>1, <2>2 DEF TidyAt
<1>. QED  BY <1>2, <1>3, <1>5, <1>6, <1>7, <1>8, StepsKeepWInv DEF StepsAlone

LEMMA TellWInv ==
    ASSUME WInv, CInv', NEW t \in Threads, TellAll(t) \/ TellOneEach(t)
    PROVE  WInv'
<1>1. /\ UNCHANGED <<workersWait, lock, shared, local, canSpawn, own, current, added,
                     todo, body, begun, ran>>
      /\ pc[t] \in {"tell", "telling"}
  BY DEF TellAll, TellOneEach
<1>2. TidyAt(t) /\ handed[t] \in Nat /\ handed[t] >= 1
  BY <1>1 DEF WInv, WorkTypes, Tidy, TidyAt
<1>3. /\ OnlyMoves(t) /\ pc'[t] \in {Resume(t), "telling"}
      /\ handed' = [handed EXCEPT ![t] = 0] \/ handed' = [handed EXCEPT ![t] = handed[t] - 1]
      /\ pc'[t] = "telling" => handed'[t] >= 1
  <2>0. Resume(t) \in {"work", "task"}  BY DEF Resume
  <2>1. CASE TellAll(t)
    <3>1. handed' = [handed EXCEPT ![t] = 0]  BY <2>1 DEF TellAll
    <3>2. OnlyMoves(t) /\ pc'[t] = Resume(t)  BY <2>1, TaskMoves DEF WInv, Moves
    <3>. QED  BY <2>0, <3>1, <3>2
  <2>2. CASE TellOneEach(t)
    <3>1. handed' = [handed EXCEPT ![t] = handed[t] - 1]  BY <2>2 DEF TellOneEach
    <3>2. OnlyMoves(t) /\ pc'[t] = IF handed[t] = 1 THEN Resume(t) ELSE "telling"
      BY <2>2, TaskMoves DEF WInv, Moves
    <3>3. handed'[t] = handed[t] - 1  BY <3>1 DEF WInv, WorkTypes
    <3>. QED  BY <1>2, <2>0, <3>1, <3>2, <3>3
  <2>. QED  BY <1>1, <2>1, <2>2
<1>4. WorkTypes'
  <2>0. handed[t] - 1 \in Nat /\ 0 \in Nat  BY <1>2
  <2>1. handed' \in [Threads -> Nat]  BY <1>3, <2>0 DEF WInv, WorkTypes
  <2>. QED  BY <1>1, <2>1 DEF WInv, WorkTypes, shared, body
<1>5. HandOnly(t)  BY <1>1, <1>3 DEF WInv, WorkTypes, HandOnly
<1>6. t \in Doing /\ t \in Doing'  BY <1>1, <1>3 DEF Doing, Resume
<1>7. TidyAt(t)'
  <2>1. pc'[t] = "work" => current[t] = NoTask  BY <1>3 DEF Resume
  <2>2. pc'[t] = "task" => current[t] # NoTask  BY <1>3 DEF Resume
  <2>3. pc'[t] \in {"work", "task", "telling"}  BY <1>3 DEF Resume
  <2>. QED  BY <1>1, <1>2, <1>3, <1>6, <2>1, <2>2, <2>3 DEF TidyAt
<1>. QED  BY <1>1, <1>3, <1>4, <1>5, <1>6, <1>7, StepsKeepWInv DEF StepsAlone, shared

LEMMA FinishWInv ==
    ASSUME WInv, CInv', NEW t \in Threads, Finish(t)
    PROVE  WInv'
<1>1. OnlyMoves(t) /\ pc'[t] = "loop" /\ pc[t] = "work" /\ local[t] = <<>>
  BY TaskMoves DEF WInv, Moves, Finish
<1>2. /\ UNCHANGED <<workersWait, pending, workers, cannotStart, done, local, canSpawn,
                     current, added, todo, handed, phase, returned, begun, ran>>
      /\ busy' = busy - 1 /\ results' = results \cup own[t]
      /\ own' = [own EXCEPT ![t] = {}] /\ lock' = t
  BY DEF Finish, body
<1>3. WorkTypes'  BY <1>2 DEF WInv, WorkTypes
<1>4. HandOnly(t)  BY <1>2 DEF WInv, WorkTypes, HandOnly
<1>5. t \in Doing /\ t \notin Doing'  BY <1>1 DEF Doing
<1>6. TidyAt(t)'
  <2>1. TidyAt(t) /\ current[t] = NoTask  BY <1>1 DEF WInv, Tidy, TidyAt
  <2>2. own'[t] = {}  BY <1>2 DEF WInv, WorkTypes
  <2>. QED  BY <1>1, <1>2, <2>1, <2>2 DEF TidyAt
<1>. QED  BY <1>1, <1>2, <1>3, <1>4, <1>5, <1>6, StepsKeepWInv DEF StepsAlone

LEMMA NextWInv == WInv /\ [Next]_vars => WInv'
<1>. SUFFICES ASSUME WInv, [Next]_vars  PROVE WInv'
  OBVIOUS
<1>0. CInv'  BY NextCInv DEF WInv
<1>1. CASE CallerStep
  <2>1. CASE CallerTakes
    <3>1. Caller \in Threads /\ pc[Caller] = "loop" /\ pending # <<>> /\ Take(Caller)
      BY <2>1 DEF CallerTakes, Threads
    <3>. QED  BY <1>0, <3>1, TakeWInv
  <2>. QED  BY <1>0, <1>1, <2>1, RunWInv, RunReturnsWInv, CallerPlainWInv DEF CallerStep
<1>2. ASSUME NEW w \in Workers, WorkerTakes(w)  PROVE WInv'
  <2>1. w \in Threads /\ pc[w] = "loop" /\ pending # <<>> /\ Take(w)
    BY <1>2 DEF WorkerTakes, Threads
  <2>. QED  BY <1>0, <2>1, TakeWInv
<1>3. ASSUME NEW w \in Workers, WorkerIdles(w)  PROVE WInv'  BY <1>0, <1>3, WorkerIdlesWInv
<1>4. ASSUME NEW w \in Workers, StartJob(w)  PROVE WInv'  BY <1>0, <1>4, StartJobWInv
<1>5. ASSUME NEW t \in Threads, WorkStep(t)  PROVE WInv'
  BY <1>0, <1>5, WakeWInv, BeginTaskWInv, PushWInv, EndTaskWInv, KeepAllWInv, HandOverWInv,
     JobAcceptedWInv, JobRefusedWInv, TellWInv, FinishWInv DEF WorkStep
<1>6. ASSUME NEW t \in Threads, Offer(t)  PROVE WInv'  BY <1>0, <1>6, OfferWInv
<1>7. ASSUME NEW t \in Threads, WakeSpuriously(t)  PROVE WInv'
  BY <1>0, <1>7, WakeSpuriouslyWInv
<1>8. CASE OthersClaim \/ OthersGiveBack \/ UNCHANGED vars  BY <1>0, <1>8, OthersWInv
<1>. QED  BY <1>1, <1>2, <1>3, <1>4, <1>5, <1>6, <1>7, <1>8 DEF Next, WorkerStep

LEMMA WInvHolds == Spec => []WInv
<1>. QED  BY InitWInv, NextWInv, PTL DEF Spec

(* Every part of the pool's state, and every task of it, is of its type.    *)
THEOREM PoolKeepsTypes == Spec => []TypeOK
<1>. QED  BY TypesOfWork, WInvHolds, PTL

-----------------------------------------------------------------------------
(* Attendance: a thread that attends to what is pending goes on attending,  *)
(* or finds that nothing is.                                                *)
StaysAttended(t) ==
    \/ Attends(t)'
    \/ pending' = <<>>
    \/ pending' = pending /\ ~Attends(t)

LEMMA OneThreadAttends ==
    ASSUME PendingIsAttended, NEW t \in Threads, OnlyMoves(t), StaysAttended(t),
           \A u \in Workers \ {t} : holds[u] => holds'[u]
    PROVE  PendingIsAttended'
<1>. SUFFICES ASSUME pending' # <<>>, ~Attends(t)'  PROVE \E u \in Threads : Attends(u)'
  BY DEF PendingIsAttended
<1>1. pending # <<>> /\ ~Attends(t)  BY DEF StaysAttended
<1>2. PICK u \in Threads : Attends(u)  BY <1>1 DEF PendingIsAttended
<1>3. u # t /\ pc'[u] = pc[u]
  BY <1>1, <1>2, CallerAssumption DEF Attends, OnlyMoves, Doing
<1>4. Attends(u)'  BY <1>2, <1>3 DEF Attends, Doing
<1>. QED  BY <1>4

(* Who is at its tasks after its step attends. *)
LEMMA WorkersAttend ==
    ASSUME NEW t \in Threads, pc'[t] \in AtWork
    PROVE  Attends(t)'
BY DEF Attends, Doing, AtWork

LEMMA CallerAttendance ==
    ASSUME WInv, PendingIsAttended, CallerStep
    PROVE  PendingIsAttended'
<1>0. Caller \in Threads /\ Caller \notin Workers  BY CallerAssumption DEF Threads
<1>1. UNCHANGED holds
  BY DEF CallerStep, Run, CallerTakes, RunReturns, CallerWaits, ShutDown, NotifyDone,
         ScopeReturns
<1>2. OnlyMoves(Caller) /\ StaysAttended(Caller)
  <2>. USE DEF StaysAttended, Attends, Moves, Doing
  <2>1. CASE Run  BY <1>0, <2>1, CallerMoves DEF WInv
  <2>2. CASE CallerTakes
    <3>1. pc[Caller] = "loop" /\ Take(Caller)  BY <2>2 DEF CallerTakes
    <3>2. OnlyMoves(Caller) /\ pc'[Caller] = "work"  BY <1>0, <3>1, TaskMoves DEF WInv
    <3>. QED  BY <1>0, <3>2
  <2>3. CASE RunReturns
    <3>1. pending' = <<>>  BY <2>3 DEF RunReturns, PhaseDone
    <3>. QED  BY <2>3, <3>1, CallerMoves DEF WInv
  <2>4. CASE CallerWaits
    <3>1. pending' = <<>>  BY <2>4 DEF CallerWaits, shared
    <3>. QED  BY <2>4, <3>1, CallerMoves DEF WInv
  <2>5. CASE ShutDown
    <3>1. pending' = pending  BY <2>5 DEF ShutDown
    <3>. QED  BY <1>0, <2>5, <3>1, CallerMoves DEF WInv
  <2>6. CASE NotifyDone
    <3>1. pending' = pending  BY <2>6 DEF NotifyDone, shared
    <3>. QED  BY <1>0, <2>6, <3>1, CallerMoves DEF WInv
  <2>7. CASE ScopeReturns
    <3>1. pending' = pending  BY <2>7 DEF ScopeReturns, shared
    <3>. QED  BY <1>0, <2>7, <3>1, CallerMoves DEF WInv
  <2>. QED  BY <2>1, <2>2, <2>3, <2>4, <2>5, <2>6, <2>7 DEF CallerStep
<1>. QED  BY <1>0, <1>1, <1>2, OneThreadAttends

LEMMA WorkerAttendance ==
    ASSUME WInv, PendingIsAttended, NEW w \in Workers, WorkerStep(w) \/ StartJob(w)
    PROVE  PendingIsAttended'
<1>0. w \in Threads /\ w # Caller  BY CallerAssumption DEF Threads
<1>1. \A u \in Workers \ {w} : holds[u] => holds'[u]
  <2>1. holds \in [Workers -> BOOLEAN]  BY DEF WInv, CInv, CountTypes
  <2>. QED  BY <2>1 DEF WorkerStep, WorkerTakes, Claims, WorkerIdles, GivesBack, StartJob
<1>2. OnlyMoves(w) /\ StaysAttended(w)
  <2>1. CASE WorkerTakes(w)
    <3>1. Moves(w, {"loop"}, {"work"})  BY <1>0, <2>1, TaskMoves DEF WInv, WorkerTakes
    <3>. QED  BY <1>0, <3>1, WorkersAttend DEF Moves, StaysAttended, AtWork
  <2>2. CASE WorkerIdles(w)
    <3>1. Moves(w, {"loop"}, {"none", "wait"})  BY <2>2, WorkerMoves DEF WInv
    <3>2. pending' = pending /\ (pending = <<>> \/ ~holds[w])
      BY <2>2 DEF WorkerIdles, NothingToDo
    <3>3. pending' = <<>> \/ ~Attends(w)
      BY <1>0, <3>1, <3>2 DEF Attends, Moves, Doing
    <3>. QED  BY <3>1, <3>2, <3>3 DEF Moves, StaysAttended
  <2>3. CASE StartJob(w)
    <3>1. Moves(w, {"accepted"}, {"loop"})  BY <2>3, WorkerMoves DEF WInv
    <3>2. pending' = pending /\ holds' = holds  BY <2>3 DEF StartJob, shared
    <3>3. Attends(w) => Attends(w)'
      BY <1>0, <3>1, <3>2 DEF Attends, Moves, Doing
    <3>. QED  BY <3>1, <3>2, <3>3 DEF Moves, StaysAttended
  <2>. QED  BY <2>1, <2>2, <2>3 DEF WorkerStep
<1>. QED  BY <1>0, <1>1, <1>2, OneThreadAttends

LEMMA TaskAttendance ==
    ASSUME WInv, PendingIsAttended, NEW t \in Threads,
           WorkStep(t) \/ Offer(t) \/ WakeSpuriously(t)
    PROVE  PendingIsAttended'
<1>1. \A u \in Workers \ {t} : holds[u] => holds'[u]
  <2>1. holds \in [Workers -> BOOLEAN]  BY DEF WInv, CInv, CountTypes
  <2>. QED  BY <2>1 DEF WorkStep, Wake, BeginTask, Push, EndTask, KeepAll, HandOver, JobAccepted,
                 JobRefused, TellAll, TellOneEach, Finish, Offer, WakeSpuriously
<1>2. OnlyMoves(t) /\ StaysAttended(t)
  <2>1. CASE Wake(t)
    <3>1. Moves(t, {"woken"}, {"loop"}) /\ pending' = pending
      BY <2>1, TaskMoves DEF WInv, Wake, shared
    <3>2. CASE t = Caller  BY <3>1, <3>2 DEF Moves, StaysAttended, Attends
    <3>3. CASE t # Caller  BY <3>1, <3>3 DEF Moves, StaysAttended, Attends, Doing
    <3>. QED  BY <3>2, <3>3
  <2>2. CASE WakeSpuriously(t)
    <3>1. Moves(t, {"wait"}, {"woken"}) /\ pending' = pending
      BY <2>2, TaskMoves DEF WInv, WakeSpuriously, shared
    <3>. QED  BY <3>1 DEF Moves, StaysAttended, Attends, Doing
  <2>3. CASE Finish(t)
    <3>1. Moves(t, {"work"}, {"loop"}) /\ UNCHANGED holds
      BY <2>3, TaskMoves DEF WInv, Finish
    <3>2. t \in Workers => holds[t]
      BY <3>1 DEF Moves, WInv, CInv, WorkOnlyOnClaimedThreads, Doing
    <3>3. Attends(t)'  BY <3>1, <3>2 DEF Moves, Attends, Threads
    <3>. QED  BY <3>1, <3>3 DEF Moves, StaysAttended
  <2>4. ASSUME NEW from, Moves(t, from, AtWork)  PROVE OnlyMoves(t) /\ StaysAttended(t)
    BY <2>4, WorkersAttend DEF Moves, StaysAttended
  <2>5. CASE ~Wake(t) /\ ~WakeSpuriously(t) /\ ~Finish(t)
    <3>1. \E from : Moves(t, from, AtWork)
      BY <2>5, TaskMoves DEF WInv, WorkStep, Moves, AtWork, Resume
    <3>. QED  BY <2>4, <3>1
  <2>. QED  BY <2>1, <2>2, <2>3, <2>5
<1>. QED  BY <1>1, <1>2, OneThreadAttends

LEMMA NextAttended == WInv /\ PendingIsAttended /\ [Next]_vars => PendingIsAttended'
<1>. SUFFICES ASSUME WInv, PendingIsAttended, [Next]_vars  PROVE PendingIsAttended'
  OBVIOUS
<1>1. CASE OthersClaim \/ OthersGiveBack \/ UNCHANGED vars
  <2>1. UNCHANGED <<pending, pc, holds>>  BY <1>1 DEF OthersClaim, OthersGiveBack, vars, shared
  <2>. QED  BY <2>1 DEF PendingIsAttended, Attends, Doing
<1>. QED  BY <1>1, CallerAttendance, WorkerAttendance, TaskAttendance DEF Next

(* No task is stranded in the pool: whatever a thread made of the counts it *)
(* read without the lock, whoever claimed the budget's threads meanwhile,   *)
(* while a task is pending a thread is at its tasks and will look again, or *)
(* is on its way to the pool on a thread it holds.                          *)
THEOREM NoTaskIsStranded == Spec => []PendingIsAttended
<1>1. Init => PendingIsAttended  BY DEF Init, PendingIsAttended
<1>2. WInv /\ PendingIsAttended /\ [Next]_vars => PendingIsAttended'  BY NextAttended
<1>. QED  BY <1>1, <1>2, WInvHolds, PTL DEF Spec

-----------------------------------------------------------------------------
(* The waiting caller: who keeps it from waiting for ever. *)
Rescues(w) == w \in Doing \/ (pc[w] = "loop" /\ holds[w] /\ pending # <<>>)

LEMMA StrandedMeans ==
    CallerIsNotStranded <=> (pc[Caller] = "wait" => \E w \in Workers : Rescues(w))
BY DEF CallerIsNotStranded, Rescues

LEMMA StrandedMeansNext ==
    CallerIsNotStranded' <=> (pc'[Caller] = "wait" => \E w \in Workers : Rescues(w)')
BY DEF CallerIsNotStranded, Rescues

LEMMA OneWorkerRescues ==
    ASSUME CallerIsNotStranded, NEW t \in Workers, OnlyMoves(t),
           \A u \in Workers \ {t} : holds[u] => holds'[u],
           Rescues(t)' \/ (pending' = pending /\ ~Rescues(t))
    PROVE  CallerIsNotStranded'
<1>. SUFFICES ASSUME pc'[Caller] = "wait", ~Rescues(t)'
              PROVE  \E w \in Workers : Rescues(w)'
  BY StrandedMeansNext
<1>1. pending' = pending /\ ~Rescues(t)  OBVIOUS
<1>2. Caller \in Threads \ {t} /\ Workers \subseteq Threads  BY CallerAssumption DEF Threads
<1>3. pc[Caller] = "wait"  BY <1>2 DEF OnlyMoves
<1>4. PICK w \in Workers : Rescues(w)  BY <1>3, StrandedMeans
<1>5. w # t /\ pc'[w] = pc[w]
  BY <1>1, <1>2, <1>4 DEF Rescues, OnlyMoves, Doing
<1>6. Rescues(w)'  BY <1>1, <1>4, <1>5 DEF Rescues, Doing
<1>. QED  BY <1>6

LEMMA SomeoneIsBusy ==
    ASSUME BusyCounted, busy # 0, pc[Caller] \notin AtWork
    PROVE  \E w \in Workers : w \in Doing
<1>1. Doing # {}  BY FS_EmptySet DEF BusyCounted
<1>. QED  BY <1>1 DEF Doing, Threads, AtWork

LEMMA SomeoneIsBusyNext ==
    ASSUME BusyCounted', busy' # 0, pc'[Caller] \notin AtWork
    PROVE  \E w \in Workers : w \in Doing'
<1>1. Doing' # {}  BY FS_EmptySet DEF BusyCounted
<1>. QED  BY <1>1 DEF Doing, Threads, AtWork

LEMMA CallerRescue ==
    ASSUME WInv, CallerStep
    PROVE  CallerIsNotStranded'
<1>0. Caller \in Threads  BY DEF Threads
<1>1. CASE CallerWaits
  <2>1. busy # 0 /\ pc[Caller] = "loop" /\ Moves(Caller, {"loop"}, {"wait"})
    BY <1>1, CallerMoves DEF CallerWaits, WInv
  <2>2. PICK w \in Workers : w \in Doing  BY <2>1, SomeoneIsBusy DEF WInv, AtWork
  <2>3. w \in Threads \ {Caller}  BY CallerAssumption DEF Threads
  <2>4. w \in Doing'  BY <2>1, <2>2, <2>3 DEF Moves, OnlyMoves, Doing
  <2>. QED  BY <2>4, StrandedMeansNext DEF Rescues
<1>2. CASE ~CallerWaits
  <2>1. pc'[Caller] # "wait"
    BY <1>0, <1>2, CallerMoves, TaskMoves DEF CallerStep, CallerTakes, WInv, Moves
  <2>. QED  BY <2>1, StrandedMeansNext
<1>. QED  BY <1>1, <1>2

LEMMA WorkerRescue ==
    ASSUME WInv, CallerIsNotStranded, NEW w \in Workers, WorkerStep(w) \/ StartJob(w)
    PROVE  CallerIsNotStranded'
<1>0. w \in Threads  BY DEF Threads
<1>1. \A u \in Workers \ {w} : holds[u] => holds'[u]
  <2>1. holds \in [Workers -> BOOLEAN]  BY DEF WInv, CInv, CountTypes
  <2>. QED  BY <2>1 DEF WorkerStep, WorkerTakes, Claims, WorkerIdles, GivesBack, StartJob
<1>2. OnlyMoves(w) /\ (Rescues(w)' \/ (pending' = pending /\ ~Rescues(w)))
  <2>1. CASE WorkerTakes(w)
    <3>1. Moves(w, {"loop"}, {"work"})  BY <1>0, <2>1, TaskMoves DEF WInv, WorkerTakes
    <3>. QED  BY <1>0, <3>1 DEF Moves, Rescues, Doing
  <2>2. CASE WorkerIdles(w)
    <3>1. Moves(w, {"loop"}, {"none", "wait"})  BY <2>2, WorkerMoves DEF WInv
    <3>2. pending' = pending /\ (pending = <<>> \/ ~holds[w])
      BY <2>2 DEF WorkerIdles, NothingToDo
    <3>. QED  BY <3>1, <3>2 DEF Moves, Rescues, Doing
  <2>3. CASE StartJob(w)
    <3>1. Moves(w, {"accepted"}, {"loop"}) /\ pending' = pending
      BY <2>3, WorkerMoves DEF WInv, StartJob, shared
    <3>. QED  BY <3>1 DEF Moves, Rescues, Doing
  <2>. QED  BY <2>1, <2>2, <2>3 DEF WorkerStep
<1>. QED  BY <1>1, <1>2, OneWorkerRescues

(* The last to record its results tells the caller, if no task is pending.  *)
LEMMA FinishRescue ==
    ASSUME WInv, WInv', NEW w \in Workers, Finish(w)
    PROVE  CallerIsNotStranded'
<1>. SUFFICES ASSUME pc'[Caller] = "wait"  PROVE \E u \in Workers : Rescues(u)'
  BY StrandedMeansNext
<1>0. w \in Threads /\ Caller \in Threads \ {w}  BY CallerAssumption DEF Threads
<1>1. Moves(w, {"work"}, {"loop"}) /\ UNCHANGED <<pending, holds>>
  BY <1>0, TaskMoves DEF WInv, Finish
<1>2. CASE pending # <<>>
  <2>1. holds[w]  BY <1>0, <1>1 DEF Moves, WInv, CInv, WorkOnlyOnClaimedThreads, Doing
  <2>. QED  BY <1>1, <1>2, <2>1 DEF Moves, Rescues
<1>3. CASE pending = <<>>
  <2>1. ~PhaseOver
    <3>1. ASSUME GoNotifyingAll(w, "loop")  PROVE FALSE
      <4>. DEFINE there == [pc EXCEPT ![w] = "loop"]
      <4>1. there \in [Threads -> Places]
        BY DEF WInv, CInv, CountTypes, Places
      <4>2. pc'[Caller] = (IF there[Caller] = "wait" THEN "woken" ELSE there[Caller])
        BY <1>0, <3>1 DEF GoNotifyingAll, Woken
      <4>. QED  BY <4>2
    <3>. QED  BY <3>1 DEF Finish
  <2>2. busy' # 0  BY <1>3, <2>1 DEF PhaseOver
  <2>3. PICK u \in Workers : u \in Doing'
    BY <2>2, SomeoneIsBusyNext DEF WInv, AtWork
  <2>. QED  BY <2>3 DEF Rescues
<1>. QED  BY <1>2, <1>3

LEMMA TaskRescue ==
    ASSUME WInv, WInv', CallerIsNotStranded, NEW t \in Threads,
           WorkStep(t) \/ Offer(t) \/ WakeSpuriously(t)
    PROVE  CallerIsNotStranded'
<1>1. CASE t = Caller
  <2>1. pc'[Caller] # "wait"
    BY <1>1, TaskMoves DEF WInv, WorkStep, Moves, Resume
  <2>. QED  BY <2>1, StrandedMeansNext
<1>2. CASE t # Caller /\ Finish(t)
  <2>1. t \in Workers  BY <1>2 DEF Threads
  <2>. QED  BY <1>2, <2>1, FinishRescue
<1>3. CASE t # Caller /\ ~Finish(t)
  <2>1. t \in Workers  BY <1>3 DEF Threads
  <2>2. \A u \in Workers \ {t} : holds[u] => holds'[u]
    <3>1. holds \in [Workers -> BOOLEAN]  BY DEF WInv, CInv, CountTypes
    <3>. QED  BY <1>3, <3>1
              DEF WorkStep, Wake, BeginTask, Push, EndTask, KeepAll, HandOver, JobAccepted,
                  JobRefused, TellAll, TellOneEach, Offer, WakeSpuriously
  <2>3. OnlyMoves(t) /\ (Rescues(t)' \/ (pending' = pending /\ ~Rescues(t)))
    <3>1. CASE Wake(t)
      <4>1. Moves(t, {"woken"}, {"loop"}) /\ pending' = pending
        BY <3>1, TaskMoves DEF WInv, Wake, shared
      <4>. QED  BY <4>1 DEF Moves, Rescues, Doing
    <3>2. CASE WakeSpuriously(t)
      <4>1. Moves(t, {"wait"}, {"woken"}) /\ pending' = pending
        BY <3>2, TaskMoves DEF WInv, WakeSpuriously, shared
      <4>. QED  BY <4>1 DEF Moves, Rescues, Doing
    <3>3. CASE ~Wake(t) /\ ~WakeSpuriously(t)
      <4>1. \E from : Moves(t, from, AtWork)
        BY <1>3, <3>3, TaskMoves DEF WInv, WorkStep, Moves, AtWork, Resume
      <4>. QED  BY <4>1 DEF Moves, Rescues, Doing, AtWork
    <3>. QED  BY <3>1, <3>2, <3>3
  <2>. QED  BY <2>1, <2>2, <2>3, OneWorkerRescues
<1>. QED  BY <1>1, <1>2, <1>3

LEMMA NextRescued == WInv /\ WInv' /\ CallerIsNotStranded /\ [Next]_vars => CallerIsNotStranded'
<1>. SUFFICES ASSUME WInv, WInv', CallerIsNotStranded, [Next]_vars  PROVE CallerIsNotStranded'
  OBVIOUS
<1>1. CASE OthersClaim \/ OthersGiveBack \/ UNCHANGED vars
  <2>1. UNCHANGED <<pending, pc, holds>>  BY <1>1 DEF OthersClaim, OthersGiveBack, vars, shared
  <2>. QED  BY <2>1 DEF CallerIsNotStranded, Doing
<1>. QED  BY <1>1, CallerRescue, WorkerRescue, TaskRescue DEF Next

(* A caller waits for its phase only while a worker is at its tasks, or has *)
(* recorded the last it did and finds others pending.                       *)
THEOREM NoCallerIsStranded == Spec => []CallerIsNotStranded
<1>1. Init => CallerIsNotStranded
  BY DEF Init, CallerIsNotStranded, Threads
<1>2. WInv /\ WInv' /\ CallerIsNotStranded /\ [Next]_vars => CallerIsNotStranded'
  BY NextRescued
<1>. QED  BY <1>1, <1>2, WInvHolds, PTL DEF Spec

-----------------------------------------------------------------------------
(* Between runs the pool is idle, and every run but the one the caller is   *)
(* in has returned.                                                         *)
Between == pc[Caller] \in {"body", "shut down", "join", "end"}

Idle ==
    /\ Between => pending = <<>> /\ results = {} /\ busy = 0
    /\ Len(returned) = IF Between THEN phase ELSE phase - 1

LEMMA NobodyIsBusy ==
    ASSUME WInv, busy = 0
    PROVE  /\ Doing = {}
           /\ \A t \in Threads : /\ local[t] = <<>> /\ own[t] = {} /\ current[t] = NoTask
                                 /\ added[t] = <<>> /\ todo[t] = <<>>
<1>1. Doing = {}  BY DoingIsFinite, FS_EmptySet DEF WInv, BusyCounted
<1>2. \A t \in Threads : TidyAt(t)  BY DEF WInv, Tidy
<1>. QED  BY <1>1, <1>2 DEF TidyAt

LEMMA InitIdle == Init => Idle
BY DEF Init, Idle, Between, Threads

(* The steps of others leave a caller between runs there, and can take      *)
(* nothing from an idle pool.                                               *)
LEMMA OthersKeepIdle ==
    ASSUME WInv, Idle, NEW t \in Threads, OnlyMoves(t),
           t = Caller => pc'[t] \in AtWork \cup {"loop", "woken"} /\ ~Between,
           UNCHANGED <<phase, returned>>,
           Between => UNCHANGED <<pending, results, busy>>
    PROVE  Idle'
<1>1. Between' <=> Between
  <2>1. CASE t = Caller  BY <2>1 DEF Between, AtWork
  <2>2. CASE t # Caller
    <3>1. Caller \in Threads \ {t}  BY <2>2 DEF Threads
    <3>2. \/ pc'[Caller] = pc[Caller]
          \/ pc[Caller] = "wait" /\ pc'[Caller] = "woken"
      BY <3>1, CallerAssumption DEF OnlyMoves
    <3>. QED  BY <3>2 DEF Between
  <2>. QED  BY <2>1, <2>2
<1>. QED  BY <1>1 DEF Idle

LEMMA CallerKeepsIdle ==
    ASSUME WInv, Idle, CallerStep
    PROVE  Idle'
<1>0. /\ Caller \in Threads /\ phase \in Nat
      /\ returned \in Seq(SUBSET Tasks) /\ results \subseteq Tasks /\ Len(returned) \in Nat
  BY TaskAssumption DEF Threads, WInv, WorkTypes
<1>1. CASE Run
  <2>1. pc[Caller] = "body" /\ pc'[Caller] = "loop"
    BY <1>1, CallerMoves DEF WInv, Moves
  <2>2. phase' = phase + 1 /\ returned' = returned  BY <1>1 DEF Run
  <2>. QED  BY <1>0, <2>1, <2>2 DEF Idle, Between
<1>2. CASE CallerTakes
  <2>1. pc[Caller] = "loop" /\ pc'[Caller] = "work"
    BY <1>0, <1>2, TaskMoves DEF WInv, Moves, CallerTakes
  <2>2. UNCHANGED <<phase, returned>>  BY <1>2 DEF CallerTakes, Take, body
  <2>. QED  BY <2>1, <2>2 DEF Idle, Between
<1>3. CASE RunReturns
  <2>1. pc[Caller] = "loop" /\ pc'[Caller] = "body"
    BY <1>3, CallerMoves DEF WInv, Moves
  <2>2. /\ phase' = phase /\ returned' = Append(returned, results)
        /\ pending' = <<>> /\ busy' = 0 /\ results' = {}
    BY <1>3 DEF RunReturns, PhaseDone
  <2>3. Len(returned') = Len(returned) + 1
    <3>1. results \in SUBSET Tasks  BY <1>0
    <3>. QED  BY <1>0, <2>2, <3>1, AppendHolds
  <2>4. Len(returned) = phase - 1  BY <2>1 DEF Idle, Between
  <2>5. Len(returned') = phase'  BY <1>0, <2>2, <2>3, <2>4
  <2>6. Between'  BY <2>1 DEF Between
  <2>. QED  BY <2>2, <2>5, <2>6 DEF Idle
<1>4. CASE CallerWaits
  <2>1. pc[Caller] = "loop" /\ pc'[Caller] = "wait"
    BY <1>4, CallerMoves DEF WInv, Moves
  <2>2. UNCHANGED <<phase, returned>>  BY <1>4 DEF CallerWaits, body
  <2>. QED  BY <2>1, <2>2 DEF Idle, Between
<1>5. CASE ShutDown \/ NotifyDone \/ ScopeReturns
  <2>1. pc[Caller] \in {"body", "shut down", "join"}
        /\ pc'[Caller] \in {"shut down", "join", "end"}
    BY <1>5, CallerMoves DEF WInv, Moves
  <2>2. UNCHANGED <<phase, returned, pending, results, busy>>
    BY <1>5 DEF ShutDown, NotifyDone, ScopeReturns, body, shared
  <2>. QED  BY <2>1, <2>2 DEF Idle, Between
<1>. QED  BY <1>1, <1>2, <1>3, <1>4, <1>5 DEF CallerStep

LEMMA NextIdle == WInv /\ Idle /\ [Next]_vars => Idle'
<1>. SUFFICES ASSUME WInv, Idle, [Next]_vars  PROVE Idle'
  OBVIOUS
<1>1. CASE CallerStep  BY <1>1, CallerKeepsIdle
<1>2. ASSUME NEW w \in Workers, WorkerStep(w) \/ StartJob(w)  PROVE Idle'
  <2>0. w \in Threads /\ w # Caller  BY CallerAssumption DEF Threads
  <2>1. OnlyMoves(w)
    BY <1>2, <2>0, WorkerMoves, TaskMoves DEF WInv, Moves, WorkerStep, WorkerTakes
  <2>2. UNCHANGED <<phase, returned>>
    BY <1>2 DEF WorkerStep, WorkerTakes, Take, WorkerIdles, StartJob, body
  <2>3. Between => UNCHANGED <<pending, results, busy>>
    BY <1>2 DEF Idle, WorkerStep, WorkerTakes, WorkerIdles, StartJob, shared
  <2>. QED  BY <2>0, <2>1, <2>2, <2>3, OthersKeepIdle
<1>3. ASSUME NEW t \in Threads, WorkStep(t) \/ Offer(t) \/ WakeSpuriously(t)  PROVE Idle'
  <2>1. /\ OnlyMoves(t)
        /\ pc[t] \in AtWork \cup {"woken", "wait"}
        /\ pc'[t] \in AtWork \cup {"loop", "woken"}
    BY <1>3, TaskMoves DEF WInv, WorkStep, Moves, AtWork, Resume
  <2>2. UNCHANGED <<phase, returned>>
    BY <1>3 DEF WorkStep, Wake, BeginTask, Push, EndTask, KeepAll, HandOver, JobAccepted,
                JobRefused, TellAll, TellOneEach, Finish, Offer, WakeSpuriously, body
  <2>3. ASSUME Between  PROVE UNCHANGED <<pending, results, busy>>
    <3>1. t \notin Doing  BY <2>3, NobodyIsBusy DEF Idle
    <3>2. Wake(t) \/ WakeSpuriously(t)
      BY <1>3, <3>1, TaskMoves DEF WInv, WorkStep, Moves, Doing
    <3>. QED  BY <3>2 DEF Wake, WakeSpuriously, shared
  <2>4. t = Caller => ~Between  BY <2>1 DEF Between, AtWork
  <2>. QED  BY <2>1, <2>2, <2>3, <2>4, OthersKeepIdle
<1>4. CASE OthersClaim \/ OthersGiveBack \/ UNCHANGED vars
  <2>1. UNCHANGED <<pc, phase, returned, pending, results, busy>>
    BY <1>4 DEF OthersClaim, OthersGiveBack, vars, shared, body
  <2>. QED  BY <2>1 DEF Idle, Between
<1>. QED  BY <1>1, <1>2, <1>3, <1>4 DEF Next

LEMMA IdleHolds == Spec => [](WInv /\ Idle)
<1>. QED  BY InitIdle, NextIdle, WInvHolds, PTL DEF Spec

(* A run returns with nothing of it left behind: no task pending or in a    *)
(* thread's hands, no result unclaimed, no thread still counted busy, for   *)
(* the next run or the shutdown to find.                                    *)
THEOREM RunsLeaveNothing == Spec => []NothingLeftBetweenRuns
<1>1. WInv /\ Idle => NothingLeftBetweenRuns
  BY NobodyIsBusy DEF Idle, Between, NothingLeftBetweenRuns
<1>. QED  BY <1>1, IdleHolds, PTL

-----------------------------------------------------------------------------
(* The promise of TaskPhases: wherever a task waits (in the pool, in a       *)
(* thread's hands, among those it added or has yet to add) it waits once,   *)
(* is of the run in progress and was not begun; a task begun is under way   *)
(* on one thread or done once, and the results are those of the tasks done. *)

(* What waits, and where.                                                   *)
InHand(t) == ToSet(local[t]) \cup ToSet(added[t]) \cup ToSet(todo[t])

Waiting == ToSet(pending) \cup UNION {InHand(t) : t \in Threads}

ApartAt(t) ==
    /\ IsInjective(pending)
    /\ IsInjective(local[t]) /\ IsInjective(added[t]) /\ IsInjective(todo[t])
    /\ ToSet(local[t]) \cap ToSet(added[t]) = {}
    /\ ToSet(local[t]) \cap ToSet(todo[t]) = {}
    /\ ToSet(added[t]) \cap ToSet(todo[t]) = {}
    /\ InHand(t) \cap ToSet(pending) = {}

Apart ==
    /\ \A t \in Threads : ApartAt(t)
    /\ \A t, u \in Threads : t # u => InHand(t) \cap InHand(u) = {}
    /\ Waiting \cap begun = {}

(* The tasks of the runs so far, and those that tasks begun added: of the   *)
(* last run and of what was added, each waits or was begun.                 *)
Given == UNION {ToSet(Phases[r]) : r \in 1..phase}

Accounted ==
    /\ Waiting \subseteq Promise!RunTasks \cup Promise!Added(begun)
    /\ Promise!RunTasks \cup Promise!Added(begun) \subseteq begun \cup Waiting
    /\ begun \subseteq Given \cup Promise!Added(begun)

piles == <<pending, local, added, todo>>

LEMMA WaitingIs ==
    \A k : k \in Waiting <=> k \in ToSet(pending) \/ \E t \in Threads : k \in InHand(t)
BY DEF Waiting

LEMMA WaitingIsNext ==
    \A k : k \in Waiting' <=> k \in ToSet(pending') \/ \E t \in Threads : k \in InHand(t)'
BY DEF Waiting

LEMMA AddedIs ==
    ASSUME NEW set
    PROVE  \A k : k \in Promise!Added(set) <=> \E m \in set : k \in ToSet(Adds[m])
BY DEF Promise!Added, Promise!ToSet, ToSet

LEMMA GivenIs == \A k : k \in Given <=> \E r \in 1..phase : k \in ToSet(Phases[r])
BY DEF Given

LEMMA RunTasksAre ==
    Promise!RunTasks = IF phase = 0 THEN {} ELSE ToSet(Phases[phase])
BY DEF Promise!RunTasks, Promise!ToSet, ToSet

(* Only one thread's piles, and the pool's, change. *)
PilesOnly(t) ==
    \A u \in Threads \ {t} :
        local'[u] = local[u] /\ added'[u] = added[u] /\ todo'[u] = todo[u]

(* Tasks change piles between a thread's hands and the pool: they lie apart *)
(* as before.                                                               *)
LEMMA Shuffles ==
    ASSUME WInv, Apart, NEW t \in Threads, PilesOnly(t), ApartAt(t)', begun' = begun,
           InHand(t)' \cup ToSet(pending') = InHand(t) \cup ToSet(pending)
    PROVE  Apart' /\ Waiting' = Waiting
<1>1. ASSUME NEW u \in Threads, u # t
      PROVE  /\ InHand(u)' = InHand(u) /\ local'[u] = local[u] /\ added'[u] = added[u]
             /\ todo'[u] = todo[u]
             /\ InHand(u) \cap (InHand(t) \cup ToSet(pending)) = {}
  <2>1. local'[u] = local[u] /\ added'[u] = added[u] /\ todo'[u] = todo[u]
    BY <1>1 DEF PilesOnly
  <2>2. InHand(u)' = InHand(u)  BY <2>1 DEF InHand
  <2>3. InHand(u) \cap InHand(t) = {} /\ InHand(u) \cap ToSet(pending) = {}
    BY <1>1 DEF Apart, ApartAt
  <2>. QED  BY <2>1, <2>2, <2>3
<1>2. Waiting' = Waiting
  <2>1. ASSUME NEW k  PROVE k \in Waiting' <=> k \in Waiting
    BY <1>1, WaitingIs, WaitingIsNext
  <2>. QED  BY <2>1
<1>3. ASSUME NEW u \in Threads  PROVE ApartAt(u)'
  <2>1. CASE u = t  BY <2>1
  <2>2. CASE u # t
    <3>1. InHand(u)' \cap ToSet(pending') = {}  BY <1>1, <2>2
    <3>2. IsInjective(pending')  BY DEF ApartAt
    <3>3. ApartAt(u)  BY DEF Apart
    <3>. QED  BY <1>1, <2>2, <3>1, <3>2, <3>3 DEF ApartAt
  <2>. QED  BY <2>1, <2>2
<1>4. ASSUME NEW u \in Threads, NEW v \in Threads, u # v  PROVE InHand(u)' \cap InHand(v)' = {}
  <2>1. CASE u # t /\ v # t  BY <1>1, <1>4, <2>1 DEF Apart
  <2>2. CASE u = t  BY <1>1, <1>4, <2>2
  <2>3. CASE v = t  BY <1>1, <1>4, <2>3
  <2>. QED  BY <2>1, <2>2, <2>3
<1>5. Waiting' \cap begun' = {}  BY <1>2 DEF Apart
<1>. QED  BY <1>2, <1>3, <1>4, <1>5 DEF Apart

LEMMA ShufflesAccounted ==
    ASSUME Accounted, UNCHANGED <<begun, phase>>, Waiting' = Waiting
    PROVE  Accounted'
BY DEF Accounted, Promise!RunTasks, Promise!Added, Given

(* Nothing moves. *)
LEMMA StillPiles ==
    ASSUME Apart, Accounted, UNCHANGED <<piles, begun, phase>>
    PROVE  Apart' /\ Accounted'
<1>1. \A t \in Threads : InHand(t)' = InHand(t)  BY DEF InHand, piles
<1>2. Waiting' = Waiting  BY <1>1 DEF Waiting, piles
<1>3. Apart'  BY <1>1, <1>2 DEF Apart, ApartAt, piles
<1>. QED  BY <1>2, <1>3, ShufflesAccounted

-----------------------------------------------------------------------------
(* Tasks change hands: taken from the pool, added to a task's own, put on   *)
(* top of those in hand, handed over.                                       *)
LEMMA PilesAre ==
    ASSUME WInv, NEW t \in Threads
    PROVE  /\ pending \in Seq(Tasks) /\ local[t] \in Seq(Tasks)
           /\ added[t] \in Seq(Tasks) /\ todo[t] \in Seq(Tasks)
           /\ current[t] = NoTask => added[t] = <<>> /\ todo[t] = <<>>
           /\ t \notin Doing => local[t] = <<>> /\ added[t] = <<>> /\ todo[t] = <<>>
           /\ pc[t] \in {"work", "share"} => current[t] = NoTask
           /\ pc[t] = "task" => current[t] \in Tasks
           /\ pc[t] = "share" => local[t] # <<>>
<1>1. TidyAt(t)  BY DEF WInv, Tidy
<1>2. current[t] \in Tasks \cup {NoTask}  BY DEF WInv, WorkTypes
<1>3. Len(<<>>) = 0  OBVIOUS
<1>. QED  BY <1>1, <1>2, <1>3 DEF WInv, WorkTypes, TidyAt

LEMMA OntoApart ==
    ASSUME NEW s \in Seq(Tasks), NEW r \in Seq(Tasks), IsInjective(s), IsInjective(r),
           ToSet(s) \cap ToSet(r) = {}
    PROVE  ToSet(Onto(s, r)) = ToSet(s) \cup ToSet(r) /\ IsInjective(Onto(s, r))
<1>1. ToSet(Onto(s, r)) = ToSet(s) \cup ToSet(r)  BY OntoHolds
<1>2. IsInjective(Onto(s, r))  BY OntoHolds
<1>. QED  BY <1>1, <1>2

LEMMA TakeShuffles ==
    ASSUME WInv, Apart, NEW t \in Threads, pc[t] = "loop", pending # <<>>, Take(t)
    PROVE  Apart' /\ Waiting' = Waiting
<1>1. PICK n \in 0..Len(pending) :
        /\ pending' = Low(pending, n)
        /\ local' = [local EXCEPT ![t] = High(pending, n)]
  BY TakeShares DEF WInv, WorkTypes
<1>2. UNCHANGED <<added, todo, begun>>  BY DEF Take
<1>3. /\ pending \in Seq(Tasks) /\ local[t] = <<>> /\ added[t] = <<>> /\ todo[t] = <<>>
  BY PilesAre DEF Doing
<1>4. PilesOnly(t) /\ local'[t] = High(pending, n) /\ added'[t] = <<>> /\ todo'[t] = <<>>
  BY <1>1, <1>2, <1>3 DEF WInv, WorkTypes, PilesOnly
<1>5. IsInjective(pending)  BY DEF Apart, ApartAt
<1>6. /\ ToSet(pending') \cup ToSet(local'[t]) = ToSet(pending)
      /\ IsInjective(pending') /\ IsInjective(local'[t])
      /\ ToSet(pending') \cap ToSet(local'[t]) = {}
  BY <1>1, <1>3, <1>4, <1>5, CutHolds
<1>7. ApartAt(t)'  BY <1>4, <1>6, NothingIn DEF ApartAt, InHand
<1>8. InHand(t)' \cup ToSet(pending') = InHand(t) \cup ToSet(pending)
  BY <1>3, <1>4, <1>6, NothingIn DEF InHand
<1>. QED  BY <1>2, <1>4, <1>7, <1>8, Shuffles

LEMMA PushShuffles ==
    ASSUME WInv, Apart, NEW t \in Threads, Push(t)
    PROVE  Apart' /\ Waiting' = Waiting
<1>1. /\ UNCHANGED <<pending, local, begun>> /\ todo[t] # <<>>
      /\ added' = [added EXCEPT ![t] = Append(added[t], Head(todo[t]))]
      /\ todo' = [todo EXCEPT ![t] = Tail(todo[t])]
  BY DEF Push, shared
<1>2. /\ PilesOnly(t) /\ local'[t] = local[t] /\ pending' = pending
      /\ added'[t] = Append(added[t], Head(todo[t])) /\ todo'[t] = Tail(todo[t])
  BY <1>1 DEF WInv, WorkTypes, PilesOnly
<1>3. ApartAt(t) /\ added[t] \in Seq(Tasks) /\ todo[t] \in Seq(Tasks)
  BY PilesAre DEF Apart
<1>4. /\ Head(todo[t]) \in Tasks /\ ToSet(todo[t]) = {Head(todo[t])} \cup ToSet(todo'[t])
      /\ IsInjective(todo'[t]) /\ Head(todo[t]) \notin ToSet(todo'[t])
  BY <1>1, <1>2, <1>3, HeadAndTail DEF ApartAt
<1>5. ToSet(added'[t]) = ToSet(added[t]) \cup {Head(todo[t])} /\ IsInjective(added'[t])
  BY <1>2, <1>3, <1>4, AppendHolds DEF ApartAt
<1>6. InHand(t)' = InHand(t)  BY <1>2, <1>4, <1>5 DEF InHand
<1>7. ApartAt(t)'  BY <1>2, <1>3, <1>4, <1>5, <1>6 DEF ApartAt
<1>. QED  BY <1>1, <1>2, <1>6, <1>7, Shuffles

LEMMA EndTaskShuffles ==
    ASSUME WInv, Apart, NEW t \in Threads, EndTask(t)
    PROVE  Apart' /\ Waiting' = Waiting
<1>1. /\ UNCHANGED <<pending, todo, begun>> /\ todo[t] = <<>>
      /\ local' = [local EXCEPT ![t] = Onto(local[t], added[t])]
      /\ added' = [added EXCEPT ![t] = <<>>]
  BY DEF EndTask, shared
<1>2. /\ PilesOnly(t) /\ todo'[t] = <<>> /\ pending' = pending
      /\ local'[t] = Onto(local[t], added[t]) /\ added'[t] = <<>>
  BY <1>1 DEF WInv, WorkTypes, PilesOnly
<1>3. ApartAt(t) /\ added[t] \in Seq(Tasks) /\ local[t] \in Seq(Tasks)
  BY PilesAre DEF Apart
<1>4. ToSet(local'[t]) = ToSet(local[t]) \cup ToSet(added[t]) /\ IsInjective(local'[t])
  <2>1. IsInjective(local[t]) /\ IsInjective(added[t]) /\ ToSet(local[t]) \cap ToSet(added[t]) = {}
    BY <1>3 DEF ApartAt
  <2>. QED  BY <1>2, <1>3, <2>1, OntoApart
<1>5. InHand(t)' = InHand(t)  BY <1>1, <1>2, <1>4, NothingIn DEF InHand
<1>6. ApartAt(t)'  BY <1>2, <1>3, <1>4, <1>5, NothingIn DEF ApartAt
<1>. QED  BY <1>1, <1>2, <1>5, <1>6, Shuffles

LEMMA HandOverShuffles ==
    ASSUME WInv, Apart, NEW t \in Threads, HandOver(t)
    PROVE  Apart' /\ Waiting' = Waiting
<1>1. /\ UNCHANGED <<added, todo, begun>> /\ pc[t] = "share"
      /\ pending' = Onto(pending, Front(local[t]))
      /\ local' = [local EXCEPT ![t] = <<Last(local[t])>>]
  BY DEF HandOver
<1>2. /\ pending \in Seq(Tasks) /\ local[t] \in Seq(Tasks) /\ local[t] # <<>>
      /\ added[t] = <<>> /\ todo[t] = <<>> /\ ApartAt(t)
  BY <1>1, PilesAre DEF Apart
<1>3. /\ PilesOnly(t) /\ added'[t] = <<>> /\ todo'[t] = <<>>
      /\ local'[t] = <<Last(local[t])>>
  BY <1>1, <1>2 DEF WInv, WorkTypes, PilesOnly
<1>4. /\ Front(local[t]) \in Seq(Tasks) /\ IsInjective(Front(local[t]))
      /\ ToSet(local[t]) = ToSet(Front(local[t])) \cup {Last(local[t])}
      /\ Last(local[t]) \notin ToSet(Front(local[t]))
  BY <1>2, FrontAndLast DEF ApartAt
<1>5. InHand(t) = ToSet(local[t])  BY <1>2, NothingIn DEF InHand
<1>6. /\ ToSet(pending') = ToSet(pending) \cup ToSet(Front(local[t]))
      /\ IsInjective(pending')
  <2>1. ToSet(pending) \cap ToSet(Front(local[t])) = {}  BY <1>2, <1>4, <1>5 DEF ApartAt
  <2>2. IsInjective(pending)  BY <1>2 DEF ApartAt
  <2>. QED  BY <1>1, <1>2, <1>4, <2>1, <2>2, OntoApart
<1>7. ToSet(local'[t]) = {Last(local[t])} /\ IsInjective(local'[t])
  BY <1>3 DEF ToSet, IsInjective
<1>8. InHand(t)' = {Last(local[t])}  BY <1>3, <1>7, NothingIn DEF InHand
<1>9. ApartAt(t)'
  BY <1>2, <1>3, <1>4, <1>5, <1>6, <1>7, <1>8, NothingIn DEF ApartAt
<1>10. InHand(t)' \cup ToSet(pending') = InHand(t) \cup ToSet(pending)
  BY <1>4, <1>5, <1>6, <1>8
<1>. QED  BY <1>1, <1>3, <1>9, <1>10, Shuffles

LEMMA OfferShuffles ==
    ASSUME WInv, Apart, NEW t \in Threads, Offer(t)
    PROVE  Apart' /\ Waiting' = Waiting
<1>1. /\ UNCHANGED <<local, todo, begun>>
      /\ pending' = Onto(pending, added[t])
      /\ added' = [added EXCEPT ![t] = <<>>]
  BY DEF Offer
<1>2. /\ PilesOnly(t) /\ local'[t] = local[t] /\ todo'[t] = todo[t] /\ added'[t] = <<>>
  BY <1>1 DEF WInv, WorkTypes, PilesOnly
<1>3. ApartAt(t) /\ pending \in Seq(Tasks) /\ added[t] \in Seq(Tasks)
  BY PilesAre DEF Apart
<1>4. /\ ToSet(pending') = ToSet(pending) \cup ToSet(added[t])
      /\ IsInjective(pending')
  <2>1. ToSet(pending) \cap ToSet(added[t]) = {}  BY <1>3 DEF ApartAt, InHand
  <2>2. IsInjective(pending) /\ IsInjective(added[t])  BY <1>3 DEF ApartAt
  <2>. QED  BY <1>1, <1>3, <2>1, <2>2, OntoApart
<1>5. InHand(t)' = ToSet(local[t]) \cup ToSet(todo[t])  BY <1>2, NothingIn DEF InHand
<1>6. ApartAt(t)'  BY <1>2, <1>3, <1>4, <1>5, NothingIn DEF ApartAt, InHand
<1>7. InHand(t)' \cup ToSet(pending') = InHand(t) \cup ToSet(pending)
  BY <1>4, <1>5 DEF InHand
<1>. QED  BY <1>1, <1>2, <1>6, <1>7, Shuffles

-----------------------------------------------------------------------------
(* A task is begun: it was the last in hand, and what it will add was       *)
(* nowhere yet, for no other task adds it and no run gave it.               *)
LEMMA TaskIsOnItsOwn ==
    ASSUME NEW k \in Tasks, NEW m \in Tasks, NEW r \in DOMAIN Phases
    PROVE  /\ k # m => ToSet(Adds[k]) \cap ToSet(Adds[m]) = {}
           /\ ToSet(Phases[r]) \cap ToSet(Adds[k]) = {}
BY TreesAssumption

LEMMA PhaseOfRun ==
    ASSUME WInv, NEW r \in 1..phase
    PROVE  r \in DOMAIN Phases
BY TaskAssumption DEF WInv, WorkTypes

LEMMA WhereTasksComeFrom ==
    ASSUME WInv, Accounted, NEW k \in Waiting \cup begun
    PROVE  \/ \E r \in 1..phase : k \in ToSet(Phases[r])
           \/ \E m \in begun : k \in ToSet(Adds[m])
<1>1. CASE k \in Promise!Added(begun)  BY <1>1, AddedIs
<1>2. CASE k \in Given  BY <1>2, GivenIs
<1>3. CASE k \in Promise!RunTasks
  <2>1. phase # 0 /\ k \in ToSet(Phases[phase])  BY <1>3, RunTasksAre
  <2>2. phase \in 1..phase  BY <2>1, TaskAssumption DEF WInv, WorkTypes
  <2>. QED  BY <2>1, <2>2
<1>. QED  BY <1>1, <1>2, <1>3 DEF Accounted

LEMMA AddsAreNew ==
    ASSUME WInv, Apart, Accounted, NEW k \in Waiting, k \in Tasks
    PROVE  ToSet(Adds[k]) \cap (Waiting \cup begun) = {}
<1>. SUFFICES ASSUME NEW j \in Waiting \cup begun, j \in ToSet(Adds[k])  PROVE FALSE
  OBVIOUS
<1>1. k \notin begun /\ begun \subseteq Tasks  BY DEF Apart, WInv, WorkTypes
<1>2. ASSUME NEW r \in 1..phase  PROVE j \notin ToSet(Phases[r])
  BY <1>2, PhaseOfRun, TaskIsOnItsOwn
<1>3. ASSUME NEW m \in begun  PROVE j \notin ToSet(Adds[m])
  <2>1. m # k /\ m \in Tasks  BY <1>1
  <2>. QED  BY <2>1, TreesAssumption
<1>. QED  BY <1>2, <1>3, WhereTasksComeFrom

LEMMA BeginTaskPiles ==
    ASSUME WInv, Apart, Accounted, NEW t \in Threads, BeginTask(t)
    PROVE  Apart' /\ Accounted'
<1>. DEFINE task == Last(local[t])
<1>0. /\ local[t] \in Seq(Tasks) /\ local[t] # <<>> /\ added[t] = <<>> /\ todo[t] = <<>>
      /\ ApartAt(t)
  BY PilesAre DEF BeginTask, Apart
<1>1. /\ task \in Tasks /\ ToSet(local[t]) = ToSet(Front(local[t])) \cup {task}
      /\ IsInjective(Front(local[t])) /\ task \notin ToSet(Front(local[t]))
  BY <1>0, FrontAndLast DEF ApartAt
<1>2. /\ UNCHANGED <<pending, added, phase>>
      /\ begun' = begun \cup {task}
      /\ todo' = [todo EXCEPT ![t] = Adds[task]]
      /\ local' = [local EXCEPT ![t] = Front(local[t])]
  BY DEF BeginTask, shared, body
<1>. HIDE DEF task
<1>3. /\ PilesOnly(t) /\ local'[t] = Front(local[t]) /\ todo'[t] = Adds[task]
      /\ added'[t] = <<>>
  BY <1>0, <1>2 DEF WInv, WorkTypes, PilesOnly
<1>4. InHand(t) = ToSet(local'[t]) \cup {task} /\ task \notin ToSet(local'[t])
  BY <1>0, <1>1, <1>3, NothingIn DEF InHand
<1>5. task \in Waiting  BY <1>4, WaitingIs
<1>6. ToSet(Adds[task]) \cap (Waiting \cup begun) = {}  BY <1>1, <1>5, AddsAreNew
<1>7. InHand(t)' = ToSet(local'[t]) \cup ToSet(Adds[task])
  BY <1>3, NothingIn DEF InHand
<1>8. \A u \in Threads \ {t} : InHand(u)' = InHand(u)  BY <1>3 DEF PilesOnly, InHand
<1>9. \A u \in Threads \ {t} : InHand(u) \cap InHand(t) = {}  BY DEF Apart
<1>10. InHand(t) \cap ToSet(pending) = {}  BY <1>0 DEF ApartAt
<1>11. Waiting' = (Waiting \ {task}) \cup ToSet(Adds[task])
  <2>1. ASSUME NEW k
        PROVE  k \in Waiting' <=> (k \in Waiting /\ k # task) \/ k \in ToSet(Adds[task])
    <3>1. CASE k \in ToSet(Adds[task])  BY <1>7, <3>1, WaitingIsNext
    <3>2. CASE k \notin ToSet(Adds[task]) /\ k = task
      <4>1. k \in InHand(t)  BY <1>4, <3>2
      <4>2. k \notin InHand(t)'  BY <1>4, <1>7, <3>2
      <4>3. k \notin ToSet(pending') /\ \A u \in Threads \ {t} : k \notin InHand(u)'
        BY <1>2, <1>8, <1>9, <1>10, <4>1
      <4>. QED  BY <3>2, <4>2, <4>3, WaitingIsNext
    <3>3. CASE k \notin ToSet(Adds[task]) /\ k # task
      <4>1. k \in InHand(t)' <=> k \in InHand(t)  BY <1>4, <1>7, <3>3
      <4>2. \A u \in Threads : k \in InHand(u)' <=> k \in InHand(u)  BY <1>8, <4>1
      <4>. QED  BY <1>2, <3>3, <4>2, WaitingIs, WaitingIsNext
    <3>. QED  BY <3>1, <3>2, <3>3
  <2>. QED  BY <2>1
<1>12. \A u \in Threads : InHand(u) \subseteq Waiting  BY WaitingIs
<1>13. ToSet(pending) \subseteq Waiting  BY WaitingIs
<1>14. Apart'
  <2>1. ApartAt(t)'
    <3>1. IsInjective(todo'[t])  BY <1>1, <1>3, TreesAssumption
    <3>2. IsInjective(local'[t]) /\ IsInjective(pending')  BY <1>0, <1>1, <1>2, <1>3 DEF ApartAt
    <3>3. ToSet(local'[t]) \cap ToSet(todo'[t]) = {}  BY <1>3, <1>4, <1>6, <1>12
    <3>4. InHand(t)' \cap ToSet(pending') = {}
      BY <1>2, <1>4, <1>6, <1>7, <1>10, <1>13
    <3>. QED  BY <1>3, <3>1, <3>2, <3>3, <3>4, NothingIn DEF ApartAt
  <2>2. ASSUME NEW u \in Threads \ {t}  PROVE ApartAt(u)'
    <3>1. ApartAt(u)  BY DEF Apart
    <3>. QED  BY <1>2, <1>3, <1>8, <3>1 DEF ApartAt, PilesOnly
  <2>3. ASSUME NEW u \in Threads \ {t}  PROVE InHand(u)' \cap InHand(t)' = {}
    <3>1. InHand(u) \subseteq Waiting /\ InHand(u) \cap InHand(t) = {}  BY <1>9, <1>12
    <3>. QED  BY <1>4, <1>6, <1>7, <1>8, <3>1
  <2>4. ASSUME NEW u \in Threads, NEW v \in Threads, u # v
        PROVE  InHand(u)' \cap InHand(v)' = {}
    <3>1. CASE u # t /\ v # t  BY <1>8, <2>4, <3>1 DEF Apart
    <3>2. CASE u = t \/ v = t  BY <2>3, <2>4, <3>2
    <3>. QED  BY <3>1, <3>2
  <2>5. Waiting' \cap begun' = {}
    <3>1. Waiting \cap begun = {}  BY DEF Apart
    <3>2. task \notin ToSet(Adds[task])  BY <1>5, <1>6
    <3>. QED  BY <1>2, <1>6, <1>11, <3>1, <3>2
  <2>. QED  BY <2>1, <2>2, <2>4, <2>5 DEF Apart
<1>15. Promise!Added(begun') = Promise!Added(begun) \cup ToSet(Adds[task])
  BY <1>2, AddedIs
<1>16. Promise!RunTasks' = Promise!RunTasks /\ Given' = Given
  BY <1>2 DEF Promise!RunTasks, Given
<1>17. Accounted'
  <2>1. task \in Given \cup Promise!Added(begun)
    <3>1. \/ \E r \in 1..phase : task \in ToSet(Phases[r])
          \/ \E m \in begun : task \in ToSet(Adds[m])
      BY <1>5, WhereTasksComeFrom
    <3>. QED  BY <3>1, AddedIs, GivenIs
  <2>. QED  BY <1>2, <1>11, <1>15, <1>16, <2>1 DEF Accounted
<1>. QED  BY <1>14, <1>17

(* A run's tasks come to an empty pool: no earlier run gave them, no task   *)
(* added them.                                                              *)
LEMMA RunPiles ==
    ASSUME WInv, Idle, Apart, Accounted, Run
    PROVE  Apart' /\ Accounted'
<1>. DEFINE given == Phases[phase + 1]
<1>0. /\ pending = <<>> /\ busy = 0  BY DEF Run, Idle, Between
<1>1. /\ phase \in Nat /\ phase + 1 \in DOMAIN Phases /\ phase + 1 # 0
      /\ given \in Seq(Tasks) /\ IsInjective(given)
  <2>1. phase + 1 \in DOMAIN Phases /\ phase \in Nat  BY TaskAssumption DEF WInv, WorkTypes, Run
  <2>. QED  BY <2>1, TaskAssumption, TreesAssumption
<1>2. /\ UNCHANGED <<local, added, todo, begun>> /\ phase' = phase + 1
      /\ pending' = Onto(pending, given)
  BY DEF Run, hand
<1>3. \A t \in Threads : local[t] = <<>> /\ added[t] = <<>> /\ todo[t] = <<>>
  BY <1>0, NobodyIsBusy
<1>. HIDE DEF given
<1>4. ToSet(pending') = ToSet(given) /\ IsInjective(pending')
  <2>1. pending \in Seq(Tasks) /\ IsInjective(pending) /\ ToSet(pending) = {}
    BY <1>0, NothingIn
  <2>2. ToSet(pending) \cap ToSet(given) = {}  BY <2>1
  <2>3. /\ ToSet(Onto(pending, given)) = ToSet(pending) \cup ToSet(given)
        /\ IsInjective(Onto(pending, given))
    BY <1>1, <2>1, <2>2, OntoApart
  <2>. QED  BY <1>2, <2>1, <2>3
<1>5. \A t \in Threads : InHand(t) = {} /\ InHand(t)' = {}
  BY <1>2, <1>3, NothingIn DEF InHand
<1>6. Waiting = {} /\ Waiting' = ToSet(given)
  <2>1. \A k : k \notin Waiting  BY <1>0, <1>5, WaitingIs, NothingIn
  <2>2. \A k : k \in Waiting' <=> k \in ToSet(given)  BY <1>4, <1>5, WaitingIsNext
  <2>. QED  BY <2>1, <2>2
<1>7. ToSet(given) \cap begun = {}
  <2>. SUFFICES ASSUME NEW k \in begun, k \in ToSet(given)  PROVE FALSE
    OBVIOUS
  <2>1. CASE \E r \in 1..phase : k \in ToSet(Phases[r])
    <3>1. PICK r \in 1..phase : k \in ToSet(Phases[r])  BY <2>1
    <3>2. r \in DOMAIN Phases /\ r # phase + 1  BY <1>1, PhaseOfRun
    <3>. QED  BY <1>1, <3>1, <3>2, TreesAssumption DEF given
  <2>2. CASE \E m \in begun : k \in ToSet(Adds[m])
    <3>1. begun \subseteq Tasks  BY DEF WInv, WorkTypes
    <3>. QED  BY <1>1, <2>2, <3>1, TreesAssumption DEF given
  <2>. QED  BY <2>1, <2>2, WhereTasksComeFrom
<1>8. Apart'
  <2>1. ASSUME NEW t \in Threads  PROVE ApartAt(t)'
    BY <1>2, <1>3, <1>4, <1>5, NothingIn DEF ApartAt
  <2>2. Waiting' \cap begun' = {}  BY <1>2, <1>6, <1>7
  <2>. QED  BY <1>5, <2>1, <2>2 DEF Apart
<1>9. Promise!RunTasks' = ToSet(given)
  <2>1. Promise!RunTasks' = IF phase' = 0 THEN {} ELSE ToSet(Phases[phase'])
    BY DEF Promise!RunTasks, Promise!ToSet, ToSet
  <2>. QED  BY <1>1, <1>2, <2>1 DEF given
<1>10. Promise!Added(begun') = Promise!Added(begun)  BY <1>2
<1>11. Given \subseteq Given'  BY <1>1, <1>2 DEF Given
<1>12. Accounted'  BY <1>2, <1>6, <1>9, <1>10, <1>11 DEF Accounted
<1>. QED  BY <1>8, <1>12

Piled == Apart /\ Accounted

LEMMA InitPiled == Init => Piled
<1>. SUFFICES ASSUME Init  PROVE Piled
  OBVIOUS
<1>1. pending = <<>> /\ begun = {} /\ phase = 0  BY DEF Init
<1>2. \A t \in Threads : local[t] = <<>> /\ added[t] = <<>> /\ todo[t] = <<>>  BY DEF Init
<1>3. \A t \in Threads : InHand(t) = {}  BY <1>2, NothingIn DEF InHand
<1>4. Waiting = {}
  <2>1. \A k : k \notin Waiting  BY <1>1, <1>3, WaitingIs, NothingIn
  <2>. QED  BY <2>1
<1>5. Apart  BY <1>1, <1>2, <1>3, <1>4, NothingIn DEF Apart, ApartAt
<1>6. Promise!RunTasks = {}  BY <1>1, RunTasksAre
<1>7. Promise!Added(begun) = {}  BY <1>1 DEF Promise!Added
<1>. QED  BY <1>1, <1>4, <1>5, <1>6, <1>7 DEF Piled, Accounted

LEMMA NextPiled == WInv /\ Idle /\ Piled /\ [Next]_vars => Piled'
<1>. SUFFICES ASSUME WInv, Idle, Apart, Accounted, [Next]_vars  PROVE Apart' /\ Accounted'
  BY DEF Piled
<1>. USE DEF piles, shared, hand, body
<1>0. Caller \in Threads /\ Workers \subseteq Threads  BY DEF Threads
<1>1. CASE CallerStep
  <2>1. CASE CallerTakes
    <3>1. pc[Caller] = "loop" /\ pending # <<>> /\ Take(Caller)  BY <2>1 DEF CallerTakes
    <3>2. UNCHANGED <<begun, phase>>  BY <3>1 DEF Take
    <3>. QED  BY <1>0, <3>1, <3>2, TakeShuffles, ShufflesAccounted
  <2>2. CASE RunReturns \/ CallerWaits \/ ShutDown \/ NotifyDone \/ ScopeReturns
    <3>1. UNCHANGED <<piles, begun, phase>>
      BY <2>2 DEF RunReturns, CallerWaits, ShutDown, NotifyDone, ScopeReturns
    <3>. QED  BY <3>1, StillPiles
  <2>. QED  BY <1>1, <2>1, <2>2, RunPiles DEF CallerStep
<1>2. ASSUME NEW w \in Workers, WorkerTakes(w)  PROVE Apart' /\ Accounted'
  <2>1. w \in Threads /\ pc[w] = "loop" /\ pending # <<>> /\ Take(w)
    BY <1>0, <1>2 DEF WorkerTakes
  <2>2. UNCHANGED <<begun, phase>>  BY <2>1 DEF Take
  <2>. QED  BY <2>1, <2>2, TakeShuffles, ShufflesAccounted
<1>3. ASSUME NEW w \in Workers, WorkerIdles(w) \/ StartJob(w)  PROVE Apart' /\ Accounted'
  <2>1. UNCHANGED <<piles, begun, phase>>  BY <1>3 DEF WorkerIdles, StartJob
  <2>. QED  BY <2>1, StillPiles
<1>4. ASSUME NEW t \in Threads, BeginTask(t)  PROVE Apart' /\ Accounted'
  BY <1>4, BeginTaskPiles
<1>5. ASSUME NEW t \in Threads, Push(t) \/ EndTask(t) \/ HandOver(t) \/ Offer(t)
      PROVE  Apart' /\ Accounted'
  <2>1. UNCHANGED <<begun, phase>>  BY <1>5 DEF Push, EndTask, HandOver, Offer
  <2>2. Apart' /\ Waiting' = Waiting
    BY <1>5, PushShuffles, EndTaskShuffles, HandOverShuffles, OfferShuffles
  <2>. QED  BY <2>1, <2>2, ShufflesAccounted
<1>6. ASSUME NEW t \in Threads,
             \/ Wake(t) \/ KeepAll(t) \/ JobAccepted(t) \/ JobRefused(t) \/ TellAll(t)
             \/ TellOneEach(t) \/ Finish(t) \/ WakeSpuriously(t)
      PROVE  Apart' /\ Accounted'
  <2>1. UNCHANGED <<piles, begun, phase>>
    BY <1>6 DEF Wake, KeepAll, JobAccepted, JobRefused, TellAll, TellOneEach, Finish,
                WakeSpuriously
  <2>. QED  BY <2>1, StillPiles
<1>7. CASE OthersClaim \/ OthersGiveBack \/ UNCHANGED vars
  <2>1. UNCHANGED <<piles, begun, phase>>  BY <1>7 DEF OthersClaim, OthersGiveBack, vars
  <2>. QED  BY <2>1, StillPiles
<1>. QED  BY <1>1, <1>2, <1>3, <1>4, <1>5, <1>6, <1>7 DEF Next, WorkerStep, WorkStep

LEMMA PiledHolds == Spec => [](WInv /\ Idle /\ Piled)
<1>. QED  BY InitPiled, NextPiled, IdleHolds, PTL DEF Spec

-----------------------------------------------------------------------------
(* The results: a task begun is under way on one thread, or done, once; the *)
(* tasks done are those of what runs returned, of what was recorded for the *)
(* one in progress and of what threads have yet to record.                  *)
Kept == results \cup UNION {own[t] : t \in Threads}

Finished == {k \in Tasks : ran[k] = 1}

Recorded ==
    /\ \A t \in Threads : current[t] # NoTask => current[t] \in begun /\ ran[current[t]] = 0
    /\ \A t, u \in Threads : t # u /\ current[t] # NoTask => current[t] # current[u]
    /\ \A k \in begun : ran[k] = 1 \/ \E t \in Threads : current[t] = k
    /\ \A k \in Tasks : ran[k] \in {0, 1} /\ (ran[k] = 1 => k \in begun)
    /\ Promise!Before \cup Kept = Finished
    /\ Promise!Before \cap Kept = {}

LEMMA StillRecorded ==
    ASSUME Recorded, UNCHANGED <<results, own, returned, current, begun, ran>>
    PROVE  Recorded'
<1>1. Promise!Before' = Promise!Before  BY DEF Promise!Before
<1>2. Kept' = Kept /\ Finished' = Finished  BY DEF Kept, Finished
<1>. QED  BY <1>1, <1>2 DEF Recorded

LEMMA KeptIs == \A k : k \in Kept <=> k \in results \/ \E t \in Threads : k \in own[t]
BY DEF Kept

LEMMA KeptIsNext == \A k : k \in Kept' <=> k \in results' \/ \E t \in Threads : k \in own'[t]
BY DEF Kept

LEMMA BeginTaskRecorded ==
    ASSUME WInv, Apart, Recorded, NEW t \in Threads, BeginTask(t)
    PROVE  /\ Recorded'
           /\ Last(local[t]) \in Tasks /\ Last(local[t]) \in Waiting \ begun
           /\ begun' = begun \cup {Last(local[t])}
<1>. DEFINE task == Last(local[t])
<1>0. local[t] \in Seq(Tasks) /\ local[t] # <<>> /\ current[t] = NoTask
  BY PilesAre DEF BeginTask
<1>1. task \in Tasks /\ task \in ToSet(local[t])
  <2>1. Last(local[t]) \in Tasks  BY <1>0, FrontAndLast
  <2>2. ToSet(local[t]) = ToSet(Front(local[t])) \cup {Last(local[t])}
    BY <1>0, FrontAndLast
  <2>. QED  BY <2>1, <2>2
<1>2. /\ UNCHANGED <<results, own, returned, ran>>
      /\ begun' = begun \cup {task} /\ current' = [current EXCEPT ![t] = task]
  BY DEF BeginTask, shared, body
<1>. HIDE DEF task
<1>3. task \in Waiting /\ task \notin begun
  <2>1. task \in Waiting  BY <1>1, WaitingIs DEF InHand
  <2>. QED  BY <2>1 DEF Apart
<1>4. ran[task] = 0 /\ task # NoTask  BY <1>1, <1>3, NoTaskAssumption DEF Recorded
<1>5. \A u \in Threads : u # t => current'[u] = current[u] /\ current[u] # task
  BY <1>1, <1>2, <1>3, <1>4 DEF WInv, WorkTypes, Recorded
<1>6. current'[t] = task  BY <1>2 DEF WInv, WorkTypes
<1>7. Promise!Before' = Promise!Before /\ Kept' = Kept /\ Finished' = Finished
  BY <1>2 DEF Promise!Before, Kept, Finished
<1>8. Recorded'
  <2>1. \A u \in Threads : current'[u] # NoTask => current'[u] \in begun' /\ ran'[current'[u]] = 0
    BY <1>2, <1>4, <1>5, <1>6 DEF Recorded
  <2>2. \A u, v \in Threads : u # v /\ current'[u] # NoTask => current'[u] # current'[v]
    BY <1>5, <1>6 DEF Recorded
  <2>3. \A k \in begun' : ran'[k] = 1 \/ \E u \in Threads : current'[u] = k
    <3>1. ASSUME NEW k \in begun, ran[k] # 1  PROVE \E u \in Threads : current'[u] = k
      <4>1. PICK u \in Threads : current[u] = k  BY <3>1 DEF Recorded
      <4>2. u # t  BY <1>0, <3>1, <4>1, NoTaskAssumption DEF WInv, WorkTypes
      <4>. QED  BY <1>5, <4>1, <4>2
    <3>. QED  BY <1>2, <1>6, <3>1
  <2>4. \A k \in Tasks : ran'[k] \in {0, 1} /\ (ran'[k] = 1 => k \in begun')
    BY <1>2 DEF Recorded
  <2>. QED  BY <1>7, <2>1, <2>2, <2>3, <2>4 DEF Recorded
<1>. QED  BY <1>1, <1>2, <1>3, <1>8 DEF task

LEMMA EndTaskRecorded ==
    ASSUME WInv, Recorded, NEW t \in Threads, EndTask(t)
    PROVE  /\ Recorded' /\ UNCHANGED <<phase, returned, begun>>
           /\ current[t] \in Tasks /\ current[t] \in begun /\ ran[current[t]] = 0
           /\ ran' = [ran EXCEPT ![current[t]] = 1]
<1>. DEFINE task == current[t]
<1>1. task \in Tasks /\ task # NoTask  BY PilesAre, NoTaskAssumption DEF EndTask
<1>2. task \in begun /\ ran[task] = 0  BY <1>1 DEF Recorded
<1>3. /\ UNCHANGED <<results, returned, begun, phase>>
      /\ ran' = [ran EXCEPT ![task] = ran[task] + 1]
      /\ own' = [own EXCEPT ![t] = own[t] \cup {task}]
      /\ current' = [current EXCEPT ![t] = NoTask]
  BY DEF EndTask, shared, body
<1>4. ran' = [ran EXCEPT ![task] = 1]  BY <1>2, <1>3
<1>5. \A u \in Threads : /\ current'[u] = IF u = t THEN NoTask ELSE current[u]
                         /\ u # t => current[u] # task
  BY <1>1, <1>3 DEF WInv, WorkTypes, Recorded
<1>6. \A k \in Tasks : ran'[k] = IF k = task THEN 1 ELSE ran[k]
  BY <1>1, <1>4 DEF WInv, WorkTypes
<1>. HIDE DEF task
<1>7. begun \subseteq Tasks  BY DEF WInv, WorkTypes
<1>8. Promise!Before' = Promise!Before  BY <1>3 DEF Promise!Before
<1>9. Kept' = Kept \cup {task}
  <2>1. \A u \in Threads : own'[u] = IF u = t THEN own[u] \cup {task} ELSE own[u]
    BY <1>3 DEF WInv, WorkTypes
  <2>2. \A k : k \in Kept' <=> k \in Kept \/ k = task
    BY <1>3, <2>1, KeptIs, KeptIsNext
  <2>. QED  BY <2>2
<1>10. Finished' = Finished \cup {task}  BY <1>1, <1>6 DEF Finished
<1>11. task \notin Promise!Before  BY <1>2 DEF Recorded, Finished
<1>12. Recorded'
  <2>1. \A u \in Threads : current'[u] # NoTask => current'[u] \in begun' /\ ran'[current'[u]] = 0
    BY <1>3, <1>5, <1>6, <1>7 DEF Recorded
  <2>2. \A u, v \in Threads : u # v /\ current'[u] # NoTask => current'[u] # current'[v]
    BY <1>5 DEF Recorded
  <2>3. \A k \in begun' : ran'[k] = 1 \/ \E u \in Threads : current'[u] = k
    <3>1. ASSUME NEW k \in begun, k # task, ran[k] # 1
          PROVE  \E u \in Threads : current'[u] = k
      <4>1. PICK u \in Threads : current[u] = k  BY <3>1 DEF Recorded
      <4>2. u # t  BY <3>1, <4>1 DEF task
      <4>. QED  BY <1>5, <4>1, <4>2
    <3>. QED  BY <1>3, <1>6, <1>7, <3>1
  <2>4. \A k \in Tasks : ran'[k] \in {0, 1} /\ (ran'[k] = 1 => k \in begun')
    BY <1>2, <1>3, <1>6 DEF Recorded
  <2>5. Promise!Before' \cup Kept' = Finished' /\ Promise!Before' \cap Kept' = {}
    BY <1>8, <1>9, <1>10, <1>11 DEF Recorded
  <2>. QED  BY <2>1, <2>2, <2>3, <2>4, <2>5 DEF Recorded
<1>. QED  BY <1>1, <1>2, <1>3, <1>4, <1>12 DEF task

LEMMA FinishRecorded ==
    ASSUME WInv, Recorded, NEW t \in Threads, Finish(t)
    PROVE  Recorded'
<1>1. /\ UNCHANGED <<returned, current, begun, ran>>
      /\ results' = results \cup own[t] /\ own' = [own EXCEPT ![t] = {}]
  BY DEF Finish, body
<1>2. \A u \in Threads : own'[u] = IF u = t THEN {} ELSE own[u]
  BY <1>1 DEF WInv, WorkTypes
<1>3. Kept' = Kept
  <2>1. \A k : k \in Kept' <=> k \in Kept  BY <1>1, <1>2, KeptIs, KeptIsNext
  <2>. QED  BY <2>1
<1>4. Promise!Before' = Promise!Before /\ Finished' = Finished
  BY <1>1 DEF Promise!Before, Finished
<1>. QED  BY <1>1, <1>3, <1>4 DEF Recorded

LEMMA BeforeGrows ==
    ASSUME WInv, NEW set \in SUBSET Tasks, returned' = Append(returned, set)
    PROVE  Promise!Before' = Promise!Before \cup set
<1>. DEFINE n == Len(returned)
            after == Append(returned, set)
<1>1. returned \in Seq(SUBSET Tasks)  BY DEF WInv, WorkTypes
<1>2. /\ n \in Nat /\ DOMAIN returned = 1..n /\ DOMAIN after = 1..(n + 1)
      /\ after[n + 1] = set /\ \A r \in 1..n : after[r] = returned[r]
  BY <1>1
<1>3. Promise!Before' = UNION {after[r] : r \in DOMAIN after}  BY DEF Promise!Before
<1>4. Promise!Before = UNION {returned[r] : r \in DOMAIN returned}  BY DEF Promise!Before
<1>. HIDE DEF n, after
<1>5. \A r : r \in 1..(n + 1) <=> r \in 1..n \/ r = n + 1  BY <1>2
<1>6. \A k : k \in Promise!Before' <=> k \in Promise!Before \/ k \in set
  BY <1>2, <1>3, <1>4, <1>5
<1>. QED  BY <1>6

LEMMA RunReturnsRecorded ==
    ASSUME WInv, Recorded, RunReturns
    PROVE  /\ Recorded' /\ UNCHANGED <<phase, begun, ran>>
           /\ \A k \in begun : ran[k] = 1
           /\ returned' = Append(returned, begun \ Promise!Before)
<1>0. busy = 0  BY DEF RunReturns, PhaseDone
<1>1. \A t \in Threads : own[t] = {} /\ current[t] = NoTask  BY <1>0, NobodyIsBusy
<1>2. /\ UNCHANGED <<own, current, phase, begun, ran>>
      /\ returned' = Append(returned, results) /\ results' = {}
  BY DEF RunReturns, hand
<1>3. Kept = results /\ Kept' = {}
  <2>1. \A k : k \in Kept <=> k \in results  BY <1>1, KeptIs
  <2>2. \A k : k \notin Kept'  BY <1>1, <1>2, KeptIsNext
  <2>. QED  BY <2>1, <2>2
<1>4. begun \subseteq Tasks /\ results \in SUBSET Tasks  BY DEF WInv, WorkTypes
<1>5. \A k \in begun : ran[k] = 1
  BY <1>1, <1>4, NoTaskAssumption DEF Recorded
<1>6. Finished = begun  BY <1>4, <1>5 DEF Finished, Recorded
<1>7. results = begun \ Promise!Before  BY <1>3, <1>6 DEF Recorded
<1>8. Promise!Before' = Promise!Before \cup results  BY <1>2, <1>4, BeforeGrows
<1>9. Finished' = Finished  BY <1>2 DEF Finished
<1>10. Recorded'  BY <1>2, <1>3, <1>8, <1>9 DEF Recorded
<1>. QED  BY <1>2, <1>5, <1>7, <1>10

LEMMA InitRecorded == Init => Recorded
<1>. SUFFICES ASSUME Init  PROVE Recorded
  OBVIOUS
<1>1. /\ results = {} /\ returned = <<>> /\ begun = {} /\ ran = [k \in Tasks |-> 0]
      /\ \A t \in Threads : own[t] = {} /\ current[t] = NoTask
  BY DEF Init
<1>2. Promise!Before = {}  BY <1>1 DEF Promise!Before
<1>3. Kept = {} /\ Finished = {}
  <2>1. \A k : k \notin Kept  BY <1>1, KeptIs
  <2>2. Finished = {}  BY <1>1 DEF Finished
  <2>. QED  BY <2>1, <2>2
<1>. QED  BY <1>1, <1>2, <1>3 DEF Recorded

(* The pool's state is sound, and what the promise sees of it is right. *)
Sound == WInv /\ Idle /\ Piled /\ Recorded

promised == <<phase, returned, begun, ran>>

(* A task that is begun waited, and was of the run in progress. *)
LEMMA TaskWasDue ==
    ASSUME Sound, NEW k \in Waiting \ begun
    PROVE  k \in (Promise!RunTasks \cup Promise!Added(begun)) \ begun
BY DEF Sound, Piled, Accounted

LEMMA RunningIs ==
    ASSUME Sound
    PROVE  /\ Between => ~Promise!Running
           /\ ~Between => Promise!Running
           /\ Doing # {} => ~Between
<1>1. phase \in Nat /\ Len(returned) \in Nat
  BY TaskAssumption DEF Sound, WInv, WorkTypes
<1>2. Len(returned) = IF Between THEN phase ELSE phase - 1  BY DEF Sound, Idle
<1>3. Between => ~Promise!Running  BY <1>1, <1>2 DEF Promise!Running
<1>4. ~Between => Promise!Running  BY <1>1, <1>2 DEF Promise!Running
<1>5. Between => Doing = {}  BY NobodyIsBusy DEF Sound, Idle
<1>. QED  BY <1>3, <1>4, <1>5

LEMMA RunPromised ==
    ASSUME Sound, Run
    PROVE  Promise!Run /\ Recorded'
<1>1. /\ phase < Len(Phases) /\ phase' = phase + 1 /\ UNCHANGED <<returned, begun, ran>>
      /\ pc[Caller] = "body" /\ UNCHANGED <<results, own, current>>
  BY DEF Run, hand
<1>2. ~Promise!Running  BY <1>1, RunningIs DEF Between
<1>3. Recorded'  BY <1>1, StillRecorded DEF Sound
<1>. QED  BY <1>1, <1>2, <1>3 DEF Promise!Run

LEMMA BeginTaskPromised ==
    ASSUME Sound, NEW t \in Threads, BeginTask(t)
    PROVE  Recorded' /\ \E k \in Tasks : Promise!Begin(k)
<1>1. /\ Recorded' /\ Last(local[t]) \in Tasks /\ Last(local[t]) \in Waiting \ begun
      /\ begun' = begun \cup {Last(local[t])}
  BY BeginTaskRecorded DEF Sound, Piled
<1>2. UNCHANGED <<phase, returned, ran>> /\ t \in Doing  BY DEF BeginTask, body, Doing
<1>3. Promise!Running  BY <1>2, RunningIs
<1>4. Promise!Begin(Last(local[t]))
  BY <1>1, <1>2, <1>3, TaskWasDue DEF Promise!Begin
<1>. QED  BY <1>1, <1>4

LEMMA EndTaskPromised ==
    ASSUME Sound, NEW t \in Threads, EndTask(t)
    PROVE  Recorded' /\ \E k \in Tasks : Promise!Do(k)
<1>1. /\ Recorded' /\ UNCHANGED <<phase, returned, begun>>
      /\ current[t] \in Tasks /\ current[t] \in begun /\ ran[current[t]] = 0
      /\ ran' = [ran EXCEPT ![current[t]] = 1]
  BY EndTaskRecorded DEF Sound
<1>2. Promise!Do(current[t])  BY <1>1 DEF Promise!Do
<1>. QED  BY <1>1, <1>2

LEMMA RunReturnsPromised ==
    ASSUME Sound, RunReturns
    PROVE  Promise!Return /\ Recorded'
<1>1. /\ Recorded' /\ UNCHANGED <<phase, begun, ran>> /\ \A k \in begun : ran[k] = 1
      /\ returned' = Append(returned, begun \ Promise!Before)
  BY RunReturnsRecorded DEF Sound
<1>2. pending = <<>> /\ busy = 0 /\ pc[Caller] = "loop"  BY DEF RunReturns, PhaseDone
<1>3. Promise!Running  BY <1>2, RunningIs DEF Between
<1>4. Waiting = {}
  <2>1. \A t \in Threads : local[t] = <<>> /\ added[t] = <<>> /\ todo[t] = <<>>
    BY <1>2, NobodyIsBusy DEF Sound
  <2>2. \A t \in Threads : InHand(t) = {}  BY <2>1, NothingIn DEF InHand
  <2>3. \A k : k \notin Waiting  BY <1>2, <2>2, NothingIn, WaitingIs
  <2>. QED  BY <2>3
<1>5. Promise!RunTasks \cup Promise!Added(begun) \subseteq begun
  BY <1>4 DEF Sound, Piled, Accounted
<1>. QED  BY <1>1, <1>3, <1>5 DEF Promise!Return

(* Every step of the pool is a step of the promise, or one it does not see. *)
LEMMA StepsArePromised ==
    ASSUME Sound, [Next]_vars
    PROVE  Recorded' /\ [Promise!Next]_promised
<1>. USE DEF shared, hand, body, promised
<1>0. ASSUME UNCHANGED <<results, own, current, promised>>
      PROVE  Recorded' /\ [Promise!Next]_promised
  <2>1. Recorded'  BY <1>0, StillRecorded DEF Sound
  <2>. QED  BY <1>0, <2>1
<1>1. CASE CallerStep
  <2>1. CASE Run  BY <2>1, RunPromised DEF Promise!Next
  <2>2. CASE RunReturns  BY <2>2, RunReturnsPromised DEF Promise!Next
  <2>3. CASE CallerTakes \/ CallerWaits \/ ShutDown \/ NotifyDone \/ ScopeReturns
    <3>1. UNCHANGED <<results, own, current, promised>>
      BY <2>3 DEF CallerTakes, Take, CallerWaits, ShutDown, NotifyDone, ScopeReturns
    <3>. QED  BY <1>0, <3>1
  <2>. QED  BY <1>1, <2>1, <2>2, <2>3 DEF CallerStep
<1>2. ASSUME NEW w \in Workers, WorkerStep(w) \/ StartJob(w)
      PROVE  Recorded' /\ [Promise!Next]_promised
  <2>1. UNCHANGED <<results, own, current, promised>>
    BY <1>2 DEF WorkerStep, WorkerTakes, Take, WorkerIdles, StartJob
  <2>. QED  BY <1>0, <2>1
<1>3. ASSUME NEW t \in Threads, WorkStep(t) \/ Offer(t) \/ WakeSpuriously(t)
      PROVE  Recorded' /\ [Promise!Next]_promised
  <2>1. CASE BeginTask(t)  BY <2>1, BeginTaskPromised DEF Promise!Next
  <2>2. CASE EndTask(t)  BY <2>2, EndTaskPromised DEF Promise!Next
  <2>3. CASE Finish(t)
    <3>1. Recorded'  BY <2>3, FinishRecorded DEF Sound
    <3>2. UNCHANGED promised  BY <2>3 DEF Finish
    <3>. QED  BY <3>1, <3>2
  <2>4. CASE \/ Wake(t) \/ Push(t) \/ KeepAll(t) \/ HandOver(t) \/ JobAccepted(t)
             \/ JobRefused(t) \/ TellAll(t) \/ TellOneEach(t) \/ Offer(t) \/ WakeSpuriously(t)
    <3>1. UNCHANGED <<results, own, current, promised>>
      BY <2>4 DEF Wake, Push, KeepAll, HandOver, JobAccepted, JobRefused, TellAll,
                  TellOneEach, Offer, WakeSpuriously
    <3>. QED  BY <1>0, <3>1
  <2>. QED  BY <1>3, <2>1, <2>2, <2>3, <2>4 DEF WorkStep
<1>4. CASE OthersClaim \/ OthersGiveBack \/ UNCHANGED vars
  <2>1. UNCHANGED <<results, own, current, promised>>
    BY <1>4 DEF OthersClaim, OthersGiveBack, vars
  <2>. QED  BY <1>0, <2>1
<1>. QED  BY <1>1, <1>2, <1>3, <1>4 DEF Next

LEMMA SoundHolds == Spec => []Sound
<1>1. Init => Sound  BY InitWInv, InitIdle, InitPiled, InitRecorded DEF Sound
<1>2. Sound /\ [Next]_vars => Sound'
  BY NextWInv, NextIdle, NextPiled, StepsArePromised DEF Sound
<1>. QED  BY <1>1, <1>2, PTL DEF Spec

(* The pool does what TaskPhases promises the body: each run does its tasks *)
(* and those they add, each once and only when its turn has come, and       *)
(* returns the results of exactly those, whichever thread did which, and    *)
(* whatever was handed over, taken, refused or claimed meanwhile.           *)
THEOREM PoolKeepsItsPromise == Spec => KeepsPromise
<1>1. Init => Promise!Init  BY DEF Init, Promise!Init
<1>2. Sound /\ [Next]_vars => [Promise!Next]_(Promise!vars)
  BY StepsArePromised DEF promised, Promise!vars
<1>. QED  BY <1>1, <1>2, SoundHolds, PTL DEF Spec, KeepsPromise, Promise!Spec
=============================================================================
