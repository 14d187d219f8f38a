--------------------------- MODULE MCSessionRooms ---------------------------
(* SessionRooms with a few connections; they are interchangeable, so the   *)
(* runs that check safety use them as a symmetry set.                      *)
EXTENDS SessionRoomsService, TLC

Symmetry == Permutations(Conn)
=============================================================================
