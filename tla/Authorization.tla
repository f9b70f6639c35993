--------------------------- MODULE Authorization ---------------------------
(***************************************************************************)
(* What every way of authorizing a Sapling bundle promises, however the    *)
(* signatures and proofs were gathered: the bundle becomes authorized in   *)
(* one step, over one sighash, and only when every spend holds a signature *)
(* that is valid for its own key under that sighash and every description  *)
(* has its proof; from then on nothing about it changes.                   *)
(*                                                                         *)
(* Signing (the in-progress bundle of builder.rs) and Pczt (the partially  *)
(* created transaction of pczt.rs) are shown to implement this module.     *)
(***************************************************************************)
CONSTANTS Spends, Items, Sighashes, NoSighash

VARIABLES
  status,     \* "open", "authorized" or "abandoned"
  valid_for,  \* the sighash each spend's signature is valid for, if any
  proven,     \* the descriptions that have their proof
  bound       \* the sighash the binding signature commits to, once there is one

Init ==
  /\ status = "open"
  /\ valid_for = [i \in Spends |-> NoSighash]
  /\ proven = {}
  /\ bound = NoSighash

\* Signatures and proofs come and go while the bundle is being worked on.
Collect ==
  /\ status = "open"
  /\ valid_for' \in [Spends -> Sighashes \cup {NoSighash}]
  /\ proven' \subseteq Items
  /\ UNCHANGED <<status, bound>>

Authorize(h) ==
  /\ status = "open"
  /\ valid_for' = [i \in Spends |-> h]
  /\ proven' = Items
  /\ status' = "authorized"
  /\ bound' = h

\* The bundle is dropped, for example with the error of a failed call.
Abandon ==
  /\ status = "open"
  /\ status' = "abandoned"
  /\ UNCHANGED <<valid_for, proven, bound>>

Next ==
  \/ Collect
  \/ \E h \in Sighashes : Authorize(h)
  \/ Abandon

vars == <<status, valid_for, proven, bound>>
Spec == Init /\ [][Next]_vars

=============================================================================
