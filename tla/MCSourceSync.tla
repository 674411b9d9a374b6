---------------------------- MODULE MCSourceSync ----------------------------
(* SourceSync with small budgets.                                          *)
EXTENDS SourceSync

One == [batches |-> 1, bytes |-> 1]
Small == {[batches |-> 0, bytes |-> 1], One}
=============================================================================
