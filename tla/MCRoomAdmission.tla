-------------------------- MODULE MCRoomAdmission --------------------------
(* Small instances of RoomAdmission for TLC. *)
EXTENDS RoomAdmission, TLC

CONSTANTS h, g

Browsers == Permutations(Identities)
Symmetric == Permutations(Identities) \union Permutations(Connections)
=============================================================================
