----------------------------- MODULE MCRunLoop -----------------------------
(* RunLoop for TLC.  A budget of two turns makes the last turn and the one  *)
(* before it differ; two dispatches let a run dispatch, stop and dispatch   *)
(* again; a history of two outcomes forgets the oldest of three commands.   *)
EXTENDS RunLoop
=============================================================================
