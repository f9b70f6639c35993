---------------------------- MODULE MCShieldedPool ----------------------------
(* A tree of depth 2, a wallet, and another key. *)
EXTENDS ShieldedPool

MCWalletKey == ExpandSpendingKey("wallet")
MCOtherKeys == {ExpandSpendingKey("other")}
MCRseeds == {AfterZip212("r")}
MCCiphers == {[i \in Index |-> i]}
=============================================================================
