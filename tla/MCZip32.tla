------------------------------- MODULE MCZip32 -------------------------------
(* Small instances of Zip32. *)
EXTENDS Zip32

\* Two permutations that agree on no index: one begins with an invalid
\* diversifier, the other ends with one.
MCCiphers == {[j \in 0 .. 2 |-> (j + 1) % 3], [j \in 0 .. 2 |-> (j + 2) % 3]}

\* A key from elsewhere, one level down, and encodings that no key has
Child1 ==
  [len |-> 169, depth |-> 1, tag |-> <<"elsewhere">>, index |-> 2, c |-> <<"c">>,
   expsk |-> ExpandSpendingKey(<<"elsewhere">>), dk |-> <<"dk", <<"elsewhere">>>>]

MCBackups ==
  <<Child1,
    [Child1 EXCEPT !.len = 168],
    [Child1 EXCEPT !.len = 170, !.expsk = ExpandSpendingKey(<<"followed by more">>)],
    [Child1 EXCEPT !.index = 1],
    [Child1 EXCEPT !.depth = 0],
    [Child1 EXCEPT !.expsk.ask = {}],
    [Child1 EXCEPT !.expsk.nsk = {Unreduced}]>>
=============================================================================
