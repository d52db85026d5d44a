------------------------- MODULE MCCompletionHistory -------------------------
(* The instance of MCCompletion, with the history variables. *)
EXTENDS MCCompletion, CompletionHistory
=============================================================================
