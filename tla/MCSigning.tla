----------------------------- MODULE MCSigning -----------------------------
(* Small instances of Signing. *)
EXTENDS Signing, SequencesExt

SomeSighash == CHOOSE h \in Sighashes : TRUE

\* No signature, any one, or two that start with one over SomeSighash: the
\* same one twice, two for one spend and two for different spends included.
MCSignatureLists ==
  {l \in BoundedSeq(Sigs, 2) : Len(l) = 2 => l[1].msg = SomeSighash}

MCAskSets == SUBSET Asks
=============================================================================
