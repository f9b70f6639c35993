-------------------------- MODULE MCSingleVerifier --------------------------
(* A small instance of SingleVerifier. *)
EXTENDS SingleVerifier, MCVerifier
=============================================================================
