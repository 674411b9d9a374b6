-------------------------- MODULE ThreadPoolPanics --------------------------
(***************************************************************************)
(* ThreadPool with tasks that may panic.  Nothing between work.call and    *)
(* the end of the thread runs for one that does: work_on counts it in      *)
(* `busy` for ever, serve does not give its thread back, and a body that   *)
(* unwinds does not reach the line that shuts the pool down.               *)
(***************************************************************************)
EXTENDS ThreadPool

Panic(t) ==
    /\ pc[t] = "task"
    /\ Go(t, "unwound")
    /\ UNCHANGED <<workersWait, lock, shared, budget, hand, holds, body, begun, ran>>

(* The executor's scope waits for every job, then resumes the body's panic. *)
ScopeUnwinds ==
    /\ pc[Caller] = "unwound" /\ \A w \in Workers : pc[w] \in {"none", "unwound"}
    /\ Go(Caller, "end")
    /\ UNCHANGED <<workersWait, lock, shared, budget, hand, holds, body, begun, ran>>

PanicNext == Next \/ ScopeUnwinds \/ \E t \in Threads : Panic(t)

PanicSpec == Init /\ [][PanicNext]_vars

(* The contract of Executor says that no thread waits on work no thread is  *)
(* doing: a caller that waits in run waits for a worker at its tasks.       *)
WaitsOnlyOnWorkBeingDone == CallerIsNotStranded
=============================================================================
