----------------------------- MODULE ThreadPool -----------------------------
(***************************************************************************)
(* The work pool of layerstack/src/parallel/pool.rs: one caller runs       *)
(* phases of tree-shaped work (Pool::run) and helps with it, and workers   *)
(* started on an executor (serve) take shares of it.  Threads are claimed  *)
(* from a budget (Threads of parallel.rs) that others draw on too.         *)
(*                                                                         *)
(* A section between lock and unlock is one action, but for the sections   *)
(* that pass their guard on (work_on is entered and left with the lock     *)
(* held): `lock` names the thread that holds it between two actions.       *)
(*                                                                         *)
(* `takers` and `spare` are read by a busy thread without the lock, from   *)
(* relaxed atomics: such a read may return any value it ever could, and    *)
(* what the code does with it is a hint.  The model chooses any count.     *)
(***************************************************************************)
EXTENDS Integers, FiniteSets, Sequences, SequencesExt

CONSTANTS
    Caller, Workers,  \* the thread in with_pool_in, and room for its workers
    Tasks,
    Adds,             \* Adds[k]: the tasks that task k adds, in order
    Phases,           \* the tasks of each Pool::run of the body, in order
    Limit             \* the budget's threads, the caller among them

Threads == Workers \cup {Caller}
MaxWorkers == Limit - 1

ASSUME CallerAssumption == Caller \notin Workers
ASSUME LimitAssumption == Limit \in Nat /\ Limit >= 2
ASSUME WorkersAssumption == IsFiniteSet(Workers) /\ Cardinality(Workers) = MaxWorkers
ASSUME TaskAssumption == Adds \in [Tasks -> Seq(Tasks)] /\ Phases \in Seq(Seq(Tasks))

(* A task is a value that is moved: given to one run or added by one task,  *)
(* once.                                                                   *)
ASSUME TreesAssumption ==
    /\ \A k \in Tasks : IsInjective(Adds[k])
    /\ \A r \in DOMAIN Phases : IsInjective(Phases[r])
    /\ \A k, m \in Tasks : k # m => ToSet(Adds[k]) \cap ToSet(Adds[m]) = {}
    /\ \A r, q \in DOMAIN Phases : r # q => ToSet(Phases[r]) \cap ToSet(Phases[q]) = {}
    /\ \A r \in DOMAIN Phases, k \in Tasks : ToSet(Phases[r]) \cap ToSet(Adds[k]) = {}

VARIABLES
    workersWait,  \* layerstack's own threads wait for tasks, a host's executor's do not
    lock,                                                \* Shared's mutex
    pending, busy, workers, cannotStart, results, done,  \* Shared
    spare, others,   \* the budget: threads left, and those other pools hold
    pc,              \* where each thread is
    local, canSpawn, \* work_on's tasks in hand, and whether it may start a worker
    own,             \* the results it has not yet recorded
    current, added, todo,  \* the task in progress, what it added, what it has yet to add
    holds,           \* serve: whether the worker holds a thread of the budget
    handed,          \* the tasks handed over that a thread has yet to tell others of
    phase, returned, \* the body: the run it is in, and what the runs returned
    begun, ran       \* the tasks begun, and how often each was done

shared == <<pending, busy, workers, cannotStart, results, done>>
budget == <<spare, others>>
hand == <<local, canSpawn, own, current, added, todo, handed>>
body == <<phase, returned>>
vars == <<workersWait, lock, shared, budget, pc, hand, holds, body, begun, ran>>

NoThread == "no thread"
NoTask == "no task"

ASSUME NoTaskAssumption == NoTask \notin Tasks

Init ==
    /\ workersWait \in BOOLEAN
    /\ lock = NoThread
    /\ pending = <<>> /\ busy = 0 /\ workers = 0 /\ cannotStart = FALSE
    /\ results = {} /\ done = FALSE
    /\ spare = MaxWorkers /\ others = 0
    /\ pc = [t \in Threads |-> IF t = Caller THEN "body" ELSE "none"]
    /\ local = [t \in Threads |-> <<>>]
    /\ canSpawn = [t \in Threads |-> FALSE]
    /\ own = [t \in Threads |-> {}]
    /\ current = [t \in Threads |-> NoTask]
    /\ added = [t \in Threads |-> <<>>]
    /\ todo = [t \in Threads |-> <<>>]
    /\ holds = [w \in Workers |-> FALSE]
    /\ handed = [t \in Threads |-> 0]
    /\ phase = 0 /\ returned = <<>>
    /\ begun = {} /\ ran = [k \in Tasks |-> 0]

-----------------------------------------------------------------------------
(* The condition variable `changed`: a waiting thread is at "wait", a woken *)
(* one at "woken" until it has the lock again.                              *)
Go(t, place) == pc' = [pc EXCEPT ![t] = place]

Woken(place) == [t \in Threads |-> IF place[t] = "wait" THEN "woken" ELSE place[t]]

GoNotifyingAll(t, place) == pc' = Woken([pc EXCEPT ![t] = place])

Free == lock = NoThread

(* Any count of other threads a relaxed read may come to. *)
Counts == 0..Cardinality(Workers)

\* Mutant: only the executor's refusal stops the pool from starting workers.
MutantCanStart(running) == ~cannotStart

CanStart(running) == ~cannotStart /\ running < MaxWorkers

-----------------------------------------------------------------------------
\* Mutant: the tasks replace those that were pending.
MutantOnto(stack, tasks) == Reverse(tasks)

(* Tasks go onto a stack so that the first is popped first. *)
Onto(stack, tasks) == stack \o Reverse(tasks)

(* Pool::run *)
Run ==
    /\ pc[Caller] = "body" /\ phase < Len(Phases) /\ Free
    /\ phase' = phase + 1
    /\ pending' = Onto(pending, Phases[phase + 1])
    /\ lock' = Caller
    /\ GoNotifyingAll(Caller, "loop")
    /\ UNCHANGED <<workersWait, busy, workers, cannotStart, results, done, budget, hand,
                   holds, returned, begun, ran>>

(* work_on, up to its unlock: an even share of the tasks, from the end. *)
Take(t) ==
    LET len == Len(pending)
        even == len \div (MaxWorkers + 1)
        share == IF even > 1 THEN even ELSE 1
        left == SubSeq(pending, 1, len - share)
    IN  /\ local' = [local EXCEPT ![t] = SubSeq(pending, len - share + 1, len)]
        /\ pending' = left
        /\ busy' = busy + 1
        /\ canSpawn' = [canSpawn EXCEPT ![t] = (t = Caller \/ ~workersWait) /\ CanStart(workers)]
        /\ lock' = NoThread
        /\ \E takers \in Counts :
              IF left # <<>> /\ takers > 0 THEN GoNotifyingAll(t, "work") ELSE Go(t, "work")
        /\ UNCHANGED <<workersWait, workers, cannotStart, results, done, own, current,
                       added, todo, handed, body, begun, ran>>

CallerTakes ==
    /\ pc[Caller] = "loop" /\ pending # <<>>
    /\ Take(Caller)
    /\ UNCHANGED <<budget, holds>>

\* Mutant: an empty pool is taken for a finished phase.
MutantPhaseDone == pending = <<>>

PhaseDone == pending = <<>> /\ busy = 0

RunReturns ==
    /\ pc[Caller] = "loop" /\ PhaseDone
    /\ returned' = Append(returned, results)
    /\ results' = {}
    /\ lock' = NoThread
    /\ Go(Caller, "body")
    /\ UNCHANGED <<workersWait, pending, busy, workers, cannotStart, done, budget, hand,
                   holds, phase, begun, ran>>

CallerWaits ==
    /\ pc[Caller] = "loop" /\ pending = <<>> /\ busy # 0
    /\ lock' = NoThread
    /\ Go(Caller, "wait")
    /\ UNCHANGED <<workersWait, shared, budget, hand, holds, body, begun, ran>>

(* A notified thread takes the lock again; a wait may also end by itself. *)
Wake(t) ==
    /\ pc[t] = "woken" /\ Free
    /\ lock' = t
    /\ Go(t, "loop")
    /\ UNCHANGED <<workersWait, shared, budget, hand, holds, body, begun, ran>>

WakeSpuriously(t) ==
    /\ pc[t] = "wait"
    /\ Go(t, "woken")
    /\ UNCHANGED <<workersWait, lock, shared, budget, hand, holds, body, begun, ran>>

-----------------------------------------------------------------------------
(* serve: a started worker looks for tasks, on the thread claimed for it. *)
StartJob(w) ==
    /\ pc[w] = "accepted" /\ Free
    /\ lock' = w
    /\ Go(w, "loop")
    /\ UNCHANGED <<workersWait, shared, budget, hand, holds, body, begun, ran>>

\* Mutant: a worker that waited takes tasks without claiming a thread again.
MutantClaims(w) == UNCHANGED <<spare, holds>>

Claims(w) ==
    \/ holds[w] /\ UNCHANGED <<spare, holds>>
    \/ /\ ~holds[w] /\ spare > 0
       /\ spare' = spare - 1
       /\ holds' = [holds EXCEPT ![w] = TRUE]

WorkerTakes(w) ==
    /\ pc[w] = "loop" /\ pending # <<>>
    /\ Claims(w)
    /\ Take(w)
    /\ UNCHANGED others

\* Mutant: a worker gives up when the budget is spent, whether or not it holds a thread.
MutantNothingToDo(w) == pending = <<>> \/ spare = 0

NothingToDo(w) == pending = <<>> \/ (~holds[w] /\ spare = 0)

\* Mutant: a thread is given back whether or not the worker holds one.
MutantGivesBack(w) ==
    /\ spare' = spare + 1
    /\ holds' = [holds EXCEPT ![w] = FALSE]
    /\ UNCHANGED others

(* With no task, or no thread to do it on, it gives its thread back. *)
GivesBack(w) ==
    /\ spare' = IF holds[w] THEN spare + 1 ELSE spare
    /\ holds' = [holds EXCEPT ![w] = FALSE]
    /\ UNCHANGED others

WorkerIdles(w) ==
    /\ pc[w] = "loop" /\ NothingToDo(w)
    /\ GivesBack(w)
    /\ lock' = NoThread
    /\ IF done \/ ~workersWait
       THEN workers' = workers - 1 /\ Go(w, "none")
       ELSE UNCHANGED workers /\ Go(w, "wait")
    /\ UNCHANGED <<workersWait, pending, busy, cannotStart, results, done, hand, body,
                   begun, ran>>

-----------------------------------------------------------------------------
(* work_on without the lock: a task is popped and done, and adds its tasks  *)
(* one by one.                                                              *)
BeginTask(t) ==
    /\ pc[t] = "work" /\ local[t] # <<>>
    /\ LET task == Last(local[t])
       IN  /\ current' = [current EXCEPT ![t] = task]
           /\ begun' = begun \cup {task}
           /\ todo' = [todo EXCEPT ![t] = Adds[task]]
    /\ local' = [local EXCEPT ![t] = Front(@)]
    /\ Go(t, "task")
    /\ UNCHANGED <<workersWait, lock, shared, budget, canSpawn, own, added, handed, holds,
                   body, ran>>

Push(t) ==
    /\ pc[t] = "task" /\ todo[t] # <<>>
    /\ added' = [added EXCEPT ![t] = Append(@, Head(todo[t]))]
    /\ todo' = [todo EXCEPT ![t] = Tail(@)]
    /\ UNCHANGED <<workersWait, lock, shared, budget, pc, local, canSpawn, own, current,
                   handed, holds, body, begun, ran>>

(* Its result is kept, and what it added is next in hand, the first on top. *)
EndTask(t) ==
    /\ pc[t] = "task" /\ todo[t] = <<>>
    /\ ran' = [ran EXCEPT ![current[t]] = @ + 1]
    /\ own' = [own EXCEPT ![t] = @ \cup {current[t]}]
    /\ local' = [local EXCEPT ![t] = Onto(@, added[t])]
    /\ added' = [added EXCEPT ![t] = <<>>]
    /\ current' = [current EXCEPT ![t] = NoTask]
    /\ Go(t, IF Len(local'[t]) < 2 THEN "work" ELSE "share")
    /\ UNCHANGED <<workersWait, lock, shared, budget, canSpawn, todo, handed, holds, body,
                   begun>>

(* reserve_worker: a place in the pool and a thread of the budget, for a    *)
(* worker to be started once the lock is released.                          *)
MayReserve == CanStart(workers) /\ spare > 0

Reserve(start) ==
    /\ workers' = IF start THEN workers + 1 ELSE workers
    /\ spare' = IF start THEN spare - 1 ELSE spare
    /\ UNCHANGED others

(* All tasks in hand but the next go to the pool, if a thread waits for one *)
(* or a worker could be started: the oldest on top.                         *)
KeepAll(t) ==
    /\ pc[t] = "share"
    /\ \E takers \in Counts, seen \in 0..MaxWorkers :
          takers = 0 /\ ~(canSpawn[t] /\ seen > 0)
    /\ Go(t, "work")
    /\ UNCHANGED <<workersWait, lock, shared, budget, hand, holds, body, begun, ran>>

HandOver(t) ==
    /\ pc[t] = "share" /\ Free
    /\ \E takers \in Counts, seen \in 0..MaxWorkers :
          /\ takers > 0 \/ (canSpawn[t] /\ seen > 0)
          /\ LET start == takers = 0 /\ canSpawn[t] /\ MayReserve
             IN  /\ Reserve(start)
                 /\ canSpawn' = [canSpawn EXCEPT ![t] = @ /\ CanStart(workers')]
                 /\ Go(t, IF start THEN "start" ELSE "tell")
    /\ pending' = Onto(pending, Front(local[t]))
    /\ handed' = [handed EXCEPT ![t] = Len(local[t]) - 1]
    /\ local' = [local EXCEPT ![t] = <<Last(@)>>]
    /\ UNCHANGED <<workersWait, lock, busy, cannotStart, results, done, own, current, added,
                   todo, holds, body, begun, ran>>

(* Added::offer in the middle of a task. *)
Offer(t) ==
    /\ pc[t] = "task" /\ added[t] # <<>> /\ Free
    /\ \E takers \in Counts, seen \in 0..MaxWorkers :
          /\ takers > 0 \/ seen > 0
          /\ LET start == takers = 0 /\ MayReserve
             IN  Reserve(start) /\ Go(t, IF start THEN "start" ELSE "tell")
    /\ pending' = Onto(pending, added[t])
    /\ handed' = [handed EXCEPT ![t] = Len(added[t])]
    /\ added' = [added EXCEPT ![t] = <<>>]
    /\ UNCHANGED <<workersWait, lock, busy, cannotStart, results, done, local, canSpawn,
                   own, current, todo, holds, body, begun, ran>>

(* start_worker: the executor accepts the job, which holds the reserved     *)
(* thread, or refuses it.                                                   *)
JobAccepted(t) ==
    /\ pc[t] = "start"
    /\ \E w \in Workers :
          /\ pc[w] = "none"
          /\ pc' = [pc EXCEPT ![w] = "accepted", ![t] = "tell"]
          /\ holds' = [holds EXCEPT ![w] = TRUE]
    /\ UNCHANGED <<workersWait, lock, shared, budget, hand, body, begun, ran>>

\* Mutant: the refused worker still counts.
MutantJobRefused(t) ==
    /\ pc[t] = "start" /\ Free
    /\ cannotStart' = TRUE
    /\ spare' = spare + 1
    /\ Go(t, "tell")
    /\ UNCHANGED <<workersWait, lock, pending, busy, workers, results, done, others, hand,
                   holds, body, begun, ran>>

JobRefused(t) ==
    /\ pc[t] = "start" /\ Free
    /\ workers' = workers - 1
    /\ cannotStart' = TRUE
    /\ spare' = spare + 1
    /\ Go(t, "tell")
    /\ UNCHANGED <<workersWait, lock, pending, busy, results, done, others, hand, holds,
                   body, begun, ran>>

(* Every waiting thread is told of the tasks handed over, or one for each   *)
(* if more seem to wait; then the thread is back at its task or its tasks.  *)
Resume(t) == IF current[t] = NoTask THEN "work" ELSE "task"

TellAll(t) ==
    /\ pc[t] = "tell"
    /\ \E takers \in Counts : handed[t] >= takers
    /\ handed' = [handed EXCEPT ![t] = 0]
    /\ GoNotifyingAll(t, Resume(t))
    /\ UNCHANGED <<workersWait, lock, shared, budget, local, canSpawn, own, current, added,
                   todo, holds, body, begun, ran>>

TellOneEach(t) ==
    /\ \/ pc[t] = "tell" /\ \E takers \in Counts : handed[t] < takers
       \/ pc[t] = "telling"
    /\ handed' = [handed EXCEPT ![t] = @ - 1]
    /\ LET there == [pc EXCEPT ![t] = IF handed[t] = 1 THEN Resume(t) ELSE "telling"]
       IN  IF \E w \in Threads : pc[w] = "wait"
           THEN \E w \in Threads : pc[w] = "wait" /\ pc' = [there EXCEPT ![w] = "woken"]
           ELSE pc' = there
    /\ UNCHANGED <<workersWait, lock, shared, budget, local, canSpawn, own, current, added,
                   todo, holds, body, begun, ran>>

\* Mutant: the count from before this thread finished is looked at.
MutantPhaseOver == busy = 0 /\ pending = <<>>

PhaseOver == busy' = 0 /\ pending = <<>>

(* work_on's end: the results are recorded, and if nothing is left the      *)
(* caller is told.  The lock is kept.                                       *)
Finish(t) ==
    /\ pc[t] = "work" /\ local[t] = <<>> /\ Free
    /\ busy' = busy - 1
    /\ results' = results \cup own[t]
    /\ own' = [own EXCEPT ![t] = {}]
    /\ lock' = t
    /\ IF PhaseOver THEN GoNotifyingAll(t, "loop") ELSE Go(t, "loop")
    /\ UNCHANGED <<workersWait, pending, workers, cannotStart, done, budget, local,
                   canSpawn, current, added, todo, handed, holds, body, begun, ran>>

-----------------------------------------------------------------------------
(* pool_in after the body: workers that wait are told to return, and the    *)
(* executor's scope returns when every job has.                             *)
ShutDown ==
    /\ pc[Caller] = "body" /\ phase = Len(Phases) /\ Free
    /\ done' = TRUE
    /\ Go(Caller, "shut down")
    /\ UNCHANGED <<workersWait, lock, pending, busy, workers, cannotStart, results, budget,
                   hand, holds, body, begun, ran>>

\* Mutant: nobody is told of the shutdown.
MutantNotifyDone ==
    /\ pc[Caller] = "shut down"
    /\ Go(Caller, "join")
    /\ UNCHANGED <<workersWait, lock, shared, budget, hand, holds, body, begun, ran>>

NotifyDone ==
    /\ pc[Caller] = "shut down"
    /\ GoNotifyingAll(Caller, "join")
    /\ UNCHANGED <<workersWait, lock, shared, budget, hand, holds, body, begun, ran>>

ScopeReturns ==
    /\ pc[Caller] = "join" /\ \A w \in Workers : pc[w] = "none"
    /\ Go(Caller, "end")
    /\ UNCHANGED <<workersWait, lock, shared, budget, hand, holds, body, begun, ran>>

(* Other pools and joins on the same budget. *)
OthersClaim ==
    /\ spare > 0 /\ pc[Caller] # "end"
    /\ spare' = spare - 1 /\ others' = others + 1
    /\ UNCHANGED <<workersWait, lock, shared, pc, hand, holds, body, begun, ran>>

OthersGiveBack ==
    /\ others > 0
    /\ spare' = spare + 1 /\ others' = others - 1
    /\ UNCHANGED <<workersWait, lock, shared, pc, hand, holds, body, begun, ran>>

CallerStep ==
    \/ Run \/ CallerTakes \/ RunReturns \/ CallerWaits
    \/ ShutDown \/ NotifyDone \/ ScopeReturns

WorkerStep(w) == WorkerTakes(w) \/ WorkerIdles(w)

WorkStep(t) ==
    \/ Wake(t) \/ BeginTask(t) \/ Push(t) \/ EndTask(t) \/ KeepAll(t) \/ HandOver(t)
    \/ JobAccepted(t) \/ JobRefused(t) \/ TellAll(t) \/ TellOneEach(t) \/ Finish(t)

Next ==
    \/ CallerStep
    \/ \E w \in Workers : WorkerStep(w) \/ StartJob(w)
    \/ \E t \in Threads : WorkStep(t) \/ Offer(t) \/ WakeSpuriously(t)
    \/ OthersClaim \/ OthersGiveBack

(* Running threads keep running, one that wants the lock gets it in the end *)
(* however often others take it first, and the jobs layerstack's own        *)
(* threads accepted start.  A host may start a job as late as when its      *)
(* scope waits for it.                                                      *)
StartsAtLast(w) == (workersWait \/ pc[Caller] = "join") /\ StartJob(w)

Fairness ==
    /\ SF_vars(CallerStep)
    /\ \A w \in Workers : WF_vars(WorkerStep(w)) /\ SF_vars(StartsAtLast(w))
    /\ \A t \in Threads : SF_vars(WorkStep(t))

Spec == Init /\ [][Next]_vars
FairSpec == Spec /\ Fairness

-----------------------------------------------------------------------------
Places == {"body", "loop", "wait", "woken", "work", "task", "share", "start", "tell", "telling",
           "none", "accepted", "shut down", "join", "end"}

TypeOK ==
    /\ workersWait \in BOOLEAN /\ lock \in Threads \cup {NoThread}
    /\ pending \in Seq(Tasks) /\ busy \in Nat /\ workers \in 0..MaxWorkers
    /\ cannotStart \in BOOLEAN /\ results \subseteq Tasks /\ done \in BOOLEAN
    /\ spare \in 0..MaxWorkers /\ others \in 0..MaxWorkers
    /\ pc \in [Threads -> Places]
    /\ local \in [Threads -> Seq(Tasks)] /\ canSpawn \in [Threads -> BOOLEAN]
    /\ own \in [Threads -> SUBSET Tasks]
    /\ current \in [Threads -> Tasks \cup {NoTask}]
    /\ added \in [Threads -> Seq(Tasks)] /\ todo \in [Threads -> Seq(Tasks)]
    /\ holds \in [Workers -> BOOLEAN] /\ handed \in [Threads -> Nat]
    /\ phase \in 0..Len(Phases) /\ returned \in Seq(SUBSET Tasks)
    /\ begun \subseteq Tasks /\ ran \in [Tasks -> Nat]

Doing == {t \in Threads : pc[t] \in {"work", "task", "share", "start", "tell", "telling"}}
Reserving == {t \in Threads : pc[t] = "start"}
Holders == {w \in Workers : holds[w]}

(* The budget is never overdrawn and no thread of it is lost: what is left, *)
(* what others hold, what workers hold and what is claimed for a worker yet *)
(* to start add up, through refusals, early returns and shutdown.           *)
BudgetBalances == spare + others + Cardinality(Holders) + Cardinality(Reserving) = MaxWorkers

(* A thread does tasks only on the calling thread or on one claimed, so     *)
(* never more run at once than the budget holds; a worker that waits for    *)
(* tasks holds none.                                                        *)
WorkOnlyOnClaimedThreads ==
    \A w \in Workers : (w \in Doing => holds[w]) /\ (pc[w] = "wait" => ~holds[w])

(* The pool knows its workers: those started that have not returned, and    *)
(* the ones about to start, never more than its most.                       *)
WorkersCounted ==
    workers = Cardinality({w \in Workers : pc[w] # "none"}) + Cardinality(Reserving)

(* Tasks never lie in the pool with no thread sure to look at them: some    *)
(* thread is at its tasks and will look again, or is at the lock and needs  *)
(* no thread of the budget it does not have.                                *)
Attends(t) ==
    \/ t \in Doing
    \/ t = Caller /\ pc[t] \in {"loop", "woken"}
    \/ t \in Workers /\ pc[t] \in {"loop", "accepted"} /\ holds[t]

PendingIsAttended == pending # <<>> => \E t \in Threads : Attends(t)

(* A caller waiting for its phase to end is woken: while it waits, a thread *)
(* has tasks in hand, or has just recorded some and finds others, and the   *)
(* last to record its own will tell the caller.                             *)
CallerIsNotStranded ==
    pc[Caller] = "wait" =>
        \E w \in Workers : w \in Doing \/ (pc[w] = "loop" /\ holds[w] /\ pending # <<>>)

(* The phase's end leaves nothing behind for the next one. *)
NothingLeftBetweenRuns ==
    pc[Caller] \in {"body", "shut down", "join", "end"} =>
        /\ pending = <<>> /\ results = {} /\ busy = 0
        /\ \A t \in Threads : local[t] = <<>> /\ own[t] = {} /\ current[t] = NoTask

(* Runs do each task once, on any number of threads, and return exactly the *)
(* results of theirs.                                                       *)
Promise == INSTANCE TaskPhases
KeepsPromise == Promise!Spec

(* The body and its scope end: no notification is lost that a thread needed, *)
(* whatever the relaxed reads returned, whoever claims the budget's threads  *)
(* and whichever jobs start late or are refused.                             *)
PoolEnds == <>(pc[Caller] = "end")
=============================================================================
