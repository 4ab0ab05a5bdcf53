------------------------------ MODULE MCRoomRelay ------------------------------
(* Tabs as model values, interchangeable.                                   *)
EXTENDS RoomRelay, TLC
Symmetric == Permutations(Tab)
=============================================================================
