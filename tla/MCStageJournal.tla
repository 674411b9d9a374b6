-------------------------- MODULE MCStageJournal --------------------------
(* StageJournal on a small instance.                                       *)
EXTENDS StageJournal, TLC

Small == {1, 2}
TwoBatches == [batches |-> 2, bytes |-> 3]
Few == {TwoBatches, [batches |-> 0, bytes |-> 3], [batches |-> 3, bytes |-> 1]}

(* Observers and subscribers are told apart by nothing they do.            *)
Symmetric == Permutations(Observers) \cup Permutations(Subscribers)
=============================================================================
