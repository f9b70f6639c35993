---------------------------- MODULE MCPcztFields ----------------------------
(* Two accounts of a wallet, and two fields that are not as they were.      *)
EXTENDS PcztFields

MCCiphers == {[i \in Index |-> i]}
MCAccounts == [a \in {0, 1} |-> ExpandSpendingKey(<<"account", a>>)]
MCDummyKey == ExpandSpendingKey(<<"dummy">>)

\* The accounts' keys, and the first one's ak with an nsk it does not have
MCSpenders ==
  LET Key(a) == proof_generation_key(MCAccounts[a])
  IN  {Key(0), Key(1), [Key(0) EXCEPT !.nsk = Key(1).nsk]}

Address(pgk, d) == ToPaymentAddress(Ivk(to_viewing_key(pgk)), d)[1]
MCRecipient == Address(proof_generation_key(MCDummyKey), 0)

NoteAt(pgk, d, value) == Note(Address(pgk, d), value, AfterZip212(<<"r">>))
Nk(pgk) == to_viewing_key(pgk).nk
Path == MerklePathOf(<<<<"another cmu">>, <<"a third cmu">>>>, 0)
Derivation(path) == Some([seed_fingerprint |-> SeedFp, derivation_path |-> path])

\* What may be in a field instead: bytes that do not decode, nothing, or what
\* fits another key, diversifier, value or place
MCDeviations ==
  {<<"spend", f, Malformed>> : f \in {"cv", "rk", "recipient", "rcm", "rcv",
       "proof_generation_key", "witness", "alpha", "dummy_ask"}}
  \cup {<<"spend", f, None>> : f \in {"recipient", "value", "rseed", "rcv", "witness", "alpha",
       "zip32_derivation"}}
  \cup {<<"spend", "cv", ValueCommit(v, <<"rcv">>)>> : v \in {0, 1}}
  \cup {<<"spend", "value", Some(v)>> : v \in {0, 1}}
  \cup {<<"spend", "rcv", Some(<<"rcv2">>)>>, <<"spend", "alpha", Some(<<"alpha2">>)>>,
        <<"spend", "rcm", Some(<<"r">>)>>, <<"spend", "rseed", Some(<<"r2">>)>>,
        <<"spend", "witness", Some(Path)>>, <<"spend", "dummy_ask", Some(MCAccounts[0].ask)>>}
  \cup {<<"spend", "nullifier", nf(NoteAt(k, 0, 1), Nk(j), 1)>> : k, j \in MCSpenders}
  \cup {<<"spend", "nullifier", nf(NoteAt(proof_generation_key(MCAccounts[0]), 1, 1),
                                  Nk(proof_generation_key(MCAccounts[0])), 1)>>}
  \cup {<<"spend", "recipient", Some(Address(k, d))>> : k \in MCSpenders, d \in {0, 1}}
  \cup {<<"spend", "proof_generation_key", Some(k)>> : k \in MCSpenders}
  \cup {<<"spend", "zip32_derivation", Derivation(p)>> :
          p \in {<<132, 101, 101>>, <<132, 102, 100>>, <<132, 101>>, <<144, 101, 100>>,
                 <<132, 101, 0>>}}
  \cup {<<"output", f, Malformed>> : f \in {"cv", "cmu", "ephemeral_key", "enc_ciphertext",
       "out_ciphertext", "recipient", "rcv"}}
  \cup {<<"output", f, None>> : f \in {"recipient", "value", "rseed", "rcv"}}
  \cup {<<"output", "value", Some(7)>>, <<"output", "cv", ValueCommit(7, <<"output_rcv">>)>>,
        <<"output", "rseed", Some(<<"s2">>)>>, <<"output", "ock", Some(<<"ock">>)>>}
  \cup {<<"output", "zip32_derivation", Derivation(<<132, 101, n>>)>> : n \in {0, 100}}
  \cup {<<"bundle", "anchor", RootOf(<<>>)>>, <<"bundle", "anchor", Malformed>>,
        <<"bundle", "bsk", None>>, <<"bundle", "bsk", Malformed>>}
=============================================================================
