----------------------------- MODULE TaskPhases -----------------------------
(***************************************************************************)
(* What a pool promises the body that runs work on it, on however many     *)
(* threads: each run does its tasks and all they add, each once and none   *)
(* before the task that adds it has begun, and returns exactly their       *)
(* results when the last is done.                                          *)
(***************************************************************************)
EXTENDS Integers, Sequences, SequencesExt

CONSTANTS Tasks, Adds, Phases

VARIABLES phase, returned, begun, ran
vars == <<phase, returned, begun, ran>>

Added(set) == UNION {ToSet(Adds[k]) : k \in set}
RunTasks == IF phase = 0 THEN {} ELSE ToSet(Phases[phase])
Before == UNION {returned[i] : i \in DOMAIN returned}
Running == Len(returned) < phase

Init == phase = 0 /\ returned = <<>> /\ begun = {} /\ ran = [k \in Tasks |-> 0]

Run == /\ ~Running /\ phase < Len(Phases)
       /\ phase' = phase + 1
       /\ UNCHANGED <<returned, begun, ran>>

Begin(k) == /\ Running
            /\ k \in (RunTasks \cup Added(begun)) \ begun
            /\ begun' = begun \cup {k}
            /\ UNCHANGED <<phase, returned, ran>>

Do(k) == /\ k \in begun /\ ran[k] = 0
         /\ ran' = [ran EXCEPT ![k] = 1]
         /\ UNCHANGED <<phase, returned, begun>>

Return == /\ Running
          /\ RunTasks \cup Added(begun) \subseteq begun
          /\ \A k \in begun : ran[k] = 1
          /\ returned' = Append(returned, begun \ Before)
          /\ UNCHANGED <<phase, begun, ran>>

Next == Run \/ Return \/ \E k \in Tasks : Begin(k) \/ Do(k)

Spec == Init /\ [][Next]_vars
=============================================================================
