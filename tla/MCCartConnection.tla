-------------------------- MODULE MCCartConnection -------------------------
(* Instance of CartConnection for TLC: three calls and two failures of a    *)
(* connection.                                                              *)
EXTENDS CartConnection
=============================================================================
