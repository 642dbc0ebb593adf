------------------------------ MODULE MCShamir ------------------------------
(* Sample secrets for Shamir; a .cfg cannot hold sequences. *)
EXTENDS Shamir

SampleSecrets == {<<>>, <<0>>, <<83>>, <<255, 1>>}
=============================================================================
