---------------------------- MODULE MCFlagStorage ---------------------------
(* Instance of FlagStorage for TLC: a flag of two variants, an editor or    *)
(* two, a few operations and a failure of the server.       *)
EXTENDS FlagStorage
=============================================================================
