-------------------------- MODULE MCPublicSession --------------------------
(* PublicSession for TLC.  The client never repeats a command (admit answers *)
(* a repeated one itself), so a history of one outcome makes three commands  *)
(* an endless supply: one remembered, one pending, one new.                  *)
EXTENDS SessionLifecycle, TLC

CommandSymmetry == Permutations(CommandIds)
=============================================================================
