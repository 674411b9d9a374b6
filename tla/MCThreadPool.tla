--------------------------- MODULE MCThreadPool ---------------------------
(* ThreadPool on trees of a few tasks and two workers; the runs of tasks that panic
   use PanicSpec. *)
EXTENDS ThreadPoolPanics

CONSTANTS a, b, c, d, e, f, g, h, i, j

(* Two runs: of a tree whose root adds two subtrees, and of six tasks, of  *)
(* which a thread takes two at once.                                       *)
Wood == {a, b, c, d, e, f, g, h, i, j}
WoodAdds == [k \in Wood |-> CASE k = a -> <<b, c>> [] k = c -> <<d>> [] OTHER -> <<>>]
WoodPhases == <<<<a>>, <<e, f, g, h, i, j>>>>
=============================================================================
