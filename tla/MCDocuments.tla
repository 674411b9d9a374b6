---------------------------- MODULE MCDocuments -----------------------------
(* Documents with few layers, contents and outside writes.                 *)
EXTENDS Documents, TLC

CONSTANTS a, b, x, y, n

Layers == {a, b}
Contents == {x, y}
Symmetry == Permutations(Layers) \cup Permutations(Contents)

(* Two files are written, removed or replaced at most twice in all.        *)
FewWrites == Len(file[a]) + Len(file[b]) <= 4
=============================================================================
