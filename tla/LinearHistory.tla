--------------------------- MODULE LinearHistory ---------------------------
(***************************************************************************)
(* What UndoHistory promises a host that makes every edit itself: a line   *)
(* of whole layers, with the present one in the middle.  Undo and redo     *)
(* move along the line, an edit cuts off its future, a group is one step   *)
(* of it, and abandoning a level goes back to where the level began.       *)
(***************************************************************************)
EXTENDS Integers, Sequences, SequencesExt

CONSTANTS Limit, None

VARIABLES
    past, now, future,  \* the next layer to go to is last in both
    open                \* the layer as each open level found it

vars == <<past, now, future, open>>

Init == past = <<>> /\ future = <<>> /\ open = <<>>

\* A bounded line loses its oldest layer.
Reaching(from, ahead) ==
    LET line == Append(past, from)
    IN  IF Limit # None /\ Len(line) + Len(ahead) > Limit THEN Tail(line) ELSE line

Edit ==
    /\ future' = <<>>
    /\ past' = IF open = <<>> THEN Reaching(now, <<>>) ELSE past
    /\ UNCHANGED open

Begin == open' = Append(open, now) /\ UNCHANGED <<past, now, future>>

End ==
    /\ open # <<>>
    /\ open' = Front(open)
    /\ UNCHANGED <<now, future>>
    /\ \/ Len(open) = 1 /\ past' = Reaching(open[1], future)
       \/ (Len(open) = 1 => now = open[1]) /\ UNCHANGED past

Abandon ==
    /\ open # <<>>
    /\ now' = Last(open)
    /\ open' = Front(open)
    /\ UNCHANGED <<past, future>>

Undo ==
    /\ open = <<>> /\ past # <<>>
    /\ now' = Last(past)
    /\ past' = Front(past)
    /\ future' = Append(future, now)
    /\ UNCHANGED open

Redo ==
    /\ open = <<>> /\ future # <<>>
    /\ now' = Last(future)
    /\ past' = Append(past, now)
    /\ future' = Front(future)
    /\ UNCHANGED open

Reset == past' = <<>> /\ future' = <<>> /\ open' = <<>> /\ UNCHANGED now

Next == Edit \/ Begin \/ End \/ Abandon \/ Undo \/ Redo \/ Reset

Spec == Init /\ [][Next]_vars
=============================================================================
