--------------------------- MODULE MCBatchVerifier ---------------------------
(* A small instance of BatchVerifier. *)
EXTENDS BatchVerifier, MCVerifier
=============================================================================
