------------------------- MODULE SessionRoomsService -------------------------
(***************************************************************************)
(* SessionRooms implements RoomService: the refinement mapping.  A request *)
(* takes effect when its handler changes the registry, and is about to     *)
(* from the step in which the handler made up its mind.                    *)
(***************************************************************************)
EXTENDS SessionRooms

OpenRoom(r) == [by |-> rooms[r].anchor, in |-> PeersOf(r),
                lead |-> {c \in PeersOf(r) : rooms[r].conns[c] = rooms[r].owner}]

Nothing == [what |-> "nothing"]
Asked(what, whom, room) == [what |-> what, whom |-> whom, room |-> room]

Removal(c, j) ==
  IF j.who = c THEN Asked("part", c, IF j.all THEN 0 ELSE j.room)
  ELSE Asked(IF j.seed THEN "expel" ELSE "remove", j.who, j.room)

Doing(c, l, j) ==
  CASE l = "create_reg" -> Asked("open", c, j.room)
    [] l = "seed_reg" -> Asked("open", j.who, j.room)
    [] l = "join_reg" -> Asked("enter", c, j.room)
    [] l \in {"close", "depart"} -> Removal(c, j)
    [] l = "promote_set" -> Asked("pass", c, j.room)
    [] OTHER -> Nothing

OpenRooms == [r \in active |-> OpenRoom(r)]
Gone == {c \in Conn : sock[c] # "up"}
Requests == [c \in Conn |-> Doing(c, pc[c], job[c])]

Service == INSTANCE RoomService WITH open <- OpenRooms, gone <- Gone, doing <- Requests

(* Under every interleaving of the handlers, what they do to the registry  *)
(* is what RoomService allows, a request at a time: nobody enters or       *)
(* leaves a room but at its own request, removed by the leader the room    *)
(* has at that moment, or gone; a new room is for one alone; and nobody    *)
(* gets to lead but from the leader or where there is none                 *)
(* (session_manager.py:2158-2841).                                         *)
ImplementsRoomService == Service!Spec
=============================================================================
