----------------------------- MODULE MCRoomClient -----------------------------
(* Device requests and remote connections as model values.                  *)
EXTENDS RoomClient, TLC
Symmetric == Permutations(Request)
=============================================================================
