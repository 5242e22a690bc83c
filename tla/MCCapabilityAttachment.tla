------------------------ MODULE MCCapabilityAttachment ------------------------
(***************************************************************************)
(* Instance for TLC: three capability sets in batches of two, so that a    *)
(* role may need a full batch, a partial one or both.                      *)
(***************************************************************************)
EXTENDS CapabilityAttachment

CONSTANTS s1, s2, s3, r1, r2

MCCapSet == {s1, s2, s3}
MCTwoSets == {s1, s2}
MCRole == {r1, r2}
MCOneRole == {r1}


=============================================================================
