---------------------------- MODULE MCMediaUploads ----------------------------
(***************************************************************************)
(* Instances of MediaUploads for TLC: invocations are alike.               *)
(***************************************************************************)
EXTENDS MediaUploads, TLC

Invocations == Permutations(Calls)
=============================================================================
