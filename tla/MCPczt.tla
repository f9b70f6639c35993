------------------------------- MODULE MCPczt -------------------------------
(* A small instance of Pczt: a payment of a wallet's spends or dummies. *)
EXTENDS Pczt, TLC

\* The randomizer of either spend, a value commitment randomness, and what
\* the Prover needs of the output.
MCRedactable == {<<1, "alpha">>, <<2, "alpha">>, <<1, "rcv">>, <<3, "note">>}

\* The two sighashes are interchangeable: every property is a safety property.
MCSymmetry == Permutations(Sighashes)
=============================================================================
