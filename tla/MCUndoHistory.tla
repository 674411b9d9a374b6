--------------------------- MODULE MCUndoHistory ---------------------------
(* Instances: a prim a with a child b, and prims c and d beside it.        *)
EXTENDS UndoHistory

CONSTANTS a, b, c, d, v, w

A == <<a>>
B == <<a, b>>
C == <<c>>
D == <<d>>

Pair == {<<>>, A, B}
Family == {<<>>, A, B, C}
Row == {<<>>, A, C, D}

Create(p) == [edit |-> "create", at |-> p]
Delete(p) == [edit |-> "remove", at |-> p]
Set(p, x) == [edit |-> "set", at |-> p, value |-> x]
Clear(p) == [edit |-> "clear", at |-> p]

\* The second may fail at its second edit, the last fails at its third.
Shared == {<<Delete(A)>>, <<Set(A, v), Create(B)>>, <<Clear(A)>>,
           <<Delete(A), Set(A, w), Create(A)>>}

\* Another tool replaces what is there, or puts c before or behind a.
Foreign == {<<Delete(A), Create(B)>>, <<Create(C), Set(A, w)>>}

\* Edits of one slot, of two, and of the specs they lie in.
Marked == {<<Set(A, v)>>, <<Set(A, w)>>, <<Create(B)>>, <<Delete(A)>>}

\* The last of three prims in a row is removed; another tool puts one under
\* its name in front of one of the others.
InRow == {<<Create(C), Create(D), Create(A)>>, <<Delete(A)>>}
Moved == {<<Delete(C), Delete(D), Create(A), Create(C)>>}
=============================================================================
