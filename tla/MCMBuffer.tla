------------------------------ MODULE MCMBuffer -----------------------------
(* MBuffer for TLC; its constants have their values in the .cfg files.     *)
EXTENDS MBuffer, TLC
=============================================================================
