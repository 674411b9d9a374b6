----------------------------- MODULE MCUndoLine -----------------------------
(* The instance of MCUndoHistory, seen as a line of layers.                *)
EXTENDS MCUndoHistory, UndoLine
=============================================================================
