------------------------------ MODULE UndoLine ------------------------------
(***************************************************************************)
(* UndoHistory implements LinearHistory as long as the host makes every    *)
(* edit itself and takes no mark to unwind to.  The line a history stands  *)
(* for is the layers its steps would reach, each applied to the one        *)
(* before; `line` holds that state function, so that TLC evaluates it once *)
(* a state.                                                                *)
(***************************************************************************)
EXTENDS UndoHistory

VARIABLE line

\* The layers that applying steps one after the other, last first, reaches.
Reached(from, steps) ==
    LET Reach(reached, step) == <<Apply(reached[1], step.txn).layer>> \o reached
    IN  Front(Through(Reach, <<from>>, Reverse(steps)))

Began == [i \in DOMAIN levels |->
    Apply(layer, Combine(SubSeq(group, levels[i] + 1, Len(group)))).layer]

View == [past |-> Reached(IF Open THEN Began[1] ELSE layer, undo),
         future |-> Reached(layer, redo),
         open |-> Began]

NoView == [past |-> <<>>, future |-> <<>>, open |-> <<>>]

\* Nobody else has edited the layer, and no mark was taken.
Alone == alien = 0 /\ marks = {}

LineInit == Init /\ line = View
LineNext == Next /\ line' = IF Alone' THEN View' ELSE NoView
LineSpec == LineInit /\ [][LineNext]_<<vars, line>>

Line == INSTANCE LinearHistory WITH
    past <- line.past, now <- layer, future <- line.future, open <- line.open

(* To a host that makes every edit itself the history is a line of whole   *)
(* layers that undo and redo move along, up to the step where somebody     *)
(* else edits or the host takes a mark (LinearHistory).                    *)
IsLinear == Line!Init /\ [][Alone' => [Line!Next]_(Line!vars)]_<<vars, line>>

(* Until then no step is ever stale (UndoHistory, "Staleness").            *)
NothingStaleAlone == Alone => refused # "stale"
=============================================================================
