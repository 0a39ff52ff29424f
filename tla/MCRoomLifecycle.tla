--------------------------- MODULE MCRoomLifecycle ---------------------------
(***************************************************************************)
(* Instances of RoomLifecycle for TLC: overlapping passes are alike.       *)
(***************************************************************************)
EXTENDS RoomLifecycle, TLC

Workers == Permutations(Passes)
=============================================================================
