----------------------------- MODULE MCBuilder -----------------------------
(* Small instances of Builder. *)
EXTENDS Builder

\* Two owners; notes of value zero, one and the greatest u64; one valued and
\* one worthless note whose path leads to another anchor.
MCSpendRequests ==
  { [note |-> "n1", fvk |-> "alice", value |-> 1, root |-> "a1"],
    [note |-> "n2", fvk |-> "bob", value |-> U64Max, root |-> "a1"],
    [note |-> "n3", fvk |-> "alice", value |-> 1, root |-> "a2"],
    [note |-> "n4", fvk |-> "alice", value |-> 0, root |-> "a2"] }

MCOutputRequests ==
  { [to |-> "carol", value |-> 1], [to |-> "dave", value |-> U64Max] }

MCExtskSets == { {"alice"}, {"alice", "bob"} }

\* A balance in a type that takes every i64, or in one without negatives
MCValueTypes == { I64, {v \in I64 : v >= 0} }

\* A prover that prepares any circuit, and one that refuses alice's first note
MCSpendProvers == { {}, {"n1"} }
=============================================================================
