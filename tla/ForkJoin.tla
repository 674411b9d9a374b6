------------------------------ MODULE ForkJoin ------------------------------
(***************************************************************************)
(* join of layerstack/src/parallel/pool.rs: a thread runs `a`, and `b` is  *)
(* done by a job on a thread of the budget or by itself after `a`,         *)
(* whichever comes to it first.  Several threads join on one budget.       *)
(***************************************************************************)
EXTENDS Integers, FiniteSets

CONSTANTS Callers, Spare, MayRefuse

ASSUME CallersAssumption == IsFiniteSet(Callers)
ASSUME SpareAssumption == Spare \in Nat /\ MayRefuse \in BOOLEAN

VARIABLES
    spare,      \* threads of the budget left
    pc,         \* where each caller is
    job,        \* the job each started for its b
    task,       \* whether b is still there to take
    helped,     \* whether the job left b's result
    out,        \* whether the caller did b itself
    bRuns       \* how often b ran

vars == <<spare, pc, job, task, helped, out, bRuns>>

Init ==
    /\ spare = Spare
    /\ pc = [c \in Callers |-> "join"]
    /\ job = [c \in Callers |-> "none"]
    /\ task = [c \in Callers |-> TRUE]
    /\ helped = [c \in Callers |-> FALSE]
    /\ out = [c \in Callers |-> FALSE]
    /\ bRuns = [c \in Callers |-> 0]

Go(c, place) == pc' = [pc EXCEPT ![c] = place]

\* Mutant: a thread may be claimed that is not there.
MutantClaim(c) ==
    /\ pc[c] = "join"
    /\ spare' = spare - 1
    /\ Go(c, "a")
    /\ job' = [job EXCEPT ![c] = "queued"]
    /\ UNCHANGED <<task, helped, out, bRuns>>

(* A refused job is dropped unrun, and join does not ask. *)
Claim(c) ==
    /\ pc[c] = "join" /\ spare > 0
    /\ spare' = spare - 1
    /\ Go(c, "a")
    /\ \/ job' = [job EXCEPT ![c] = "queued"]
       \/ MayRefuse /\ UNCHANGED job
    /\ UNCHANGED <<task, helped, out, bRuns>>

RunAlone(c) ==
    /\ pc[c] = "join" /\ spare = 0
    /\ Go(c, "end")
    /\ bRuns' = [bRuns EXCEPT ![c] = @ + 1]
    /\ out' = [out EXCEPT ![c] = TRUE]
    /\ UNCHANGED <<spare, job, task, helped>>

\* Mutant: b is looked at, not taken.
MutantTakenOnce(c) == UNCHANGED task

(* Taken under its mutex by one or the other. *)
TakenOnce(c) == task' = [task EXCEPT ![c] = FALSE]

AEnds(c) ==
    /\ pc[c] = "a"
    /\ IF task[c] THEN Go(c, "b") /\ TakenOnce(c) ELSE Go(c, "wait") /\ UNCHANGED task
    /\ UNCHANGED <<spare, job, helped, out, bRuns>>

CallerDoesB(c) ==
    /\ pc[c] = "b"
    /\ bRuns' = [bRuns EXCEPT ![c] = @ + 1]
    /\ out' = [out EXCEPT ![c] = TRUE]
    /\ Go(c, "wait")
    /\ UNCHANGED <<spare, job, task, helped>>

JobStarts(c) ==
    /\ job[c] = "queued"
    /\ IF task[c]
       THEN job' = [job EXCEPT ![c] = "b"] /\ TakenOnce(c)
       ELSE job' = [job EXCEPT ![c] = "returned"] /\ UNCHANGED task
    /\ UNCHANGED <<spare, pc, helped, out, bRuns>>

JobDoesB(c) ==
    /\ job[c] = "b"
    /\ bRuns' = [bRuns EXCEPT ![c] = @ + 1]
    /\ helped' = [helped EXCEPT ![c] = TRUE]
    /\ job' = [job EXCEPT ![c] = "returned"]
    /\ UNCHANGED <<spare, pc, task, out>>

\* Mutant: the scope is left while the job still runs.
MutantJobReturned(c) == job[c] # "queued"

(* The scope returns once its job has. *)
JobReturned(c) == job[c] \in {"none", "returned"}

\* Mutant: the job must have been accepted.
MutantScopeReturns(c) ==
    /\ pc[c] = "wait" /\ job[c] = "returned"
    /\ spare' = spare + 1
    /\ Go(c, "end")
    /\ UNCHANGED <<job, task, helped, out, bRuns>>

ScopeReturns(c) ==
    /\ pc[c] = "wait" /\ JobReturned(c)
    /\ spare' = spare + 1
    /\ Go(c, "end")
    /\ UNCHANGED <<job, task, helped, out, bRuns>>

CallerStep(c) == Claim(c) \/ RunAlone(c) \/ AEnds(c) \/ CallerDoesB(c) \/ ScopeReturns(c)

Next == \E c \in Callers : CallerStep(c) \/ JobStarts(c) \/ JobDoesB(c)

(* A job may start as late as when the scope waits for it. *)
StartsAtLast(c) == pc[c] = "wait" /\ JobStarts(c)

Spec == /\ Init /\ [][Next]_vars
        /\ \A c \in Callers : WF_vars(CallerStep(c)) /\ WF_vars(StartsAtLast(c))
                              /\ WF_vars(JobDoesB(c))

-----------------------------------------------------------------------------
TypeOK ==
    /\ spare \in 0..Spare
    /\ pc \in [Callers -> {"join", "a", "b", "wait", "end"}]
    /\ job \in [Callers -> {"none", "queued", "b", "returned"}]
    /\ task \in [Callers -> BOOLEAN] /\ helped \in [Callers -> BOOLEAN]
    /\ out \in [Callers -> BOOLEAN] /\ bRuns \in [Callers -> Nat]

(* However late or early the job comes, b runs once, and its result is      *)
(* where join looks for it when it returns.                                 *)
BRunsOnce ==
    \A c \in Callers :
        /\ bRuns[c] <= 1
        /\ pc[c] = "end" => bRuns[c] = 1 /\ (out[c] \/ helped[c])

(* The thread claimed for b's job is given back when the scope returns, not *)
(* while the job may still run on it.                                       *)
ClaimCoversJob ==
    /\ spare + Cardinality({c \in Callers : pc[c] \in {"a", "b", "wait"}}) = Spare
    /\ \A c \in Callers : job[c] = "b" => pc[c] \in {"a", "b", "wait"}

(* Every join returns, on budgets with and without a thread to spare. *)
JoinsReturn == \A c \in Callers : <>(pc[c] = "end")
=============================================================================
