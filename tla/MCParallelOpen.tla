--------------------------- MODULE MCParallelOpen ---------------------------
EXTENDS ParallelOpen

CONSTANTS A, B, C

Each(root, a, b, c) == Root :> root @@ A :> a @@ B :> b @@ C :> c

(* A root reaching two sources, which reach a third, each other or the root. *)
MCGraphs ==
    {Each(root, a, b, c) : root \in {<<A, B>>, <<A, B, A>>},
                           a \in {<<>>, <<C>>, <<B, C>>, <<Root, Nowhere>>},
                           b \in {<<C>>, <<A>>},
                           c \in {<<>>, <<A>>, <<B>>}}

MCContents ==
    {Each("read", a, b, c) : a \in {"read", "badText", "badBinary"},
                             b \in {"read", "missing", "badText"},
                             c \in {"read", "unreadable", "flawed"}}

(* Every source derives one id, or each its own; and the catalog held        *)
(* nothing, a host's layer under a first candidate, C as it was read before  *)
(* (by the root's open, when this is the session layer's), or C as it was    *)
(* named by a read that rejected it.                                         *)
Empty == [x \in {} |-> x]

MCCatalogs ==
    UNION {{[first |-> f, known |-> Empty, state |-> Empty, reserved |-> {}],
            [first |-> f, known |-> Empty, state |-> Empty, reserved |-> {f[B]}],
            [first |-> f, known |-> C :> f[C], state |-> f[C] :> "Loaded",
             reserved |-> {f[C]}],
            [first |-> f, known |-> C :> f[C], state |-> Empty, reserved |-> {f[C]}]} :
           f \in {Each(1, 1, 1, 1), Each(1, 11, 21, 31)}}
=============================================================================
