--------------------------- MODULE MCNoteEncryption ---------------------------
(* A small instance of NoteEncryption. *)
EXTENDS NoteEncryption, TLC

CONSTANTS alice, bob, carol

\* A wallet with two accounts; carol is somebody else.
MCIvks == <<alice, bob>>

\* Two valid diversifiers differ in name only.
MCSymmetry == Permutations(ValidDiversifiers)
=============================================================================
