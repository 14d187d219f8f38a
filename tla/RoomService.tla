----------------------------- MODULE RoomService -----------------------------
(***************************************************************************)
(* What the room registry promises its clients, every request taking       *)
(* effect in one step: who is in a room and who leads it changes only at   *)
(* the request of those concerned, or because somebody is gone.  The       *)
(* handlers of SessionRooms, which take several critical sections for a    *)
(* request and interleave, implement this (SessionRoomsService).           *)
(***************************************************************************)
EXTENDS Naturals

CONSTANT Conn

VARIABLES
  open,   \* the open rooms: by whom they were created, who is in and leads
  gone,   \* connections whose client is gone, or that were closed
  doing   \* the request of a connection that is about to take effect

vars == <<open, gone, doing>>

(* A connection enters a room, leaves one or all (0), removes another one, *)
(* passes the lead on, or opens a room, for itself or for one it has       *)
(* removed.                                                                *)
Request == [what : {"open", "enter", "part", "expel", "remove", "pass"},
            whom : Conn, room : Nat]
Idle == [what |-> "nothing"]

Alone(c) == [by |-> c, in |-> {c}, lead |-> {c}]
By(c) == {r \in DOMAIN open : open[r].by = c}
Closed(S) == [r \in DOMAIN open \ S |-> open[r]]
Entered(room, c, lead) == [by |-> room.by, in |-> room.in \cup {c},
                           lead |-> (room.lead \ {c}) \cup lead]
Rid(room, c) == [by |-> room.by, in |-> room.in \ {c}, lead |-> room.lead \ {c}]
Left(c, S) == [r \in DOMAIN open |-> IF r \in S THEN Rid(open[r], c) ELSE open[r]]

Init == /\ open = [r \in {} |-> Idle]
        /\ gone = {}
        /\ doing = [c \in Conn |-> Idle]

-----------------------------------------------------------------------------
Asks(c) == /\ doing[c] = Idle
           /\ doing' \in [Conn -> Request \cup {Idle}]
           /\ \A d \in Conn \ {c} : doing'[d] = doing[d]
           /\ doing'[c] # Idle
Answered(c) == doing' = [doing EXCEPT ![c] = Idle]
Does(c, what) == doing[c].what = what /\ Answered(c)

Leads(c, r) == r \in DOMAIN open => c \in open[r].lead

(* Nobody but the leader of a room is about to remove another one from it, *)
(* or to pass the lead on.                                                 *)
Begin(c) ==
  /\ Asks(c)
  /\ doing'[c].what \in {"expel", "pass"} => Leads(c, doing'[c].room)
  /\ UNCHANGED <<open, gone>>

(* Whoever leaves may close rooms it has created.                          *)
Retire(c) ==
  /\ Asks(c) /\ doing'[c].what = "part" /\ doing'[c].whom = c
  /\ \E S \in SUBSET By(c) : open' = Closed(S)
  /\ UNCHANGED gone

(* A new room holds the one it is for, and replaces rooms of that one.     *)
Open(c) ==
  LET q == doing[c] IN
  /\ Does(c, "open")
  /\ q.room \notin DOMAIN open
  /\ \E S \in SUBSET By(q.whom) :
       open' = [r \in (DOMAIN open \ S) \cup {q.room} |->
                  IF r = q.room THEN Alone(q.whom) ELSE open[r]]
  /\ UNCHANGED gone

(* A connection enters by itself, if the room is still there.  It leads    *)
(* only where nobody else does.                                            *)
Enter(c) ==
  LET r == doing[c].room IN
  /\ Does(c, "enter")
  /\ \/ /\ r \in DOMAIN open
        /\ \E lead \in SUBSET {c} :
             /\ lead = {} \/ open[r].lead \subseteq {c}
             /\ open' = [open EXCEPT ![r] = Entered(@, c, lead)]
     \/ r \notin DOMAIN open /\ UNCHANGED open
  /\ UNCHANGED gone

(* It leaves by itself, and may be closed with that.                       *)
Part(c) ==
  LET r == doing[c].room IN
  /\ Does(c, "part")
  /\ open' = Left(c, IF r = 0 THEN DOMAIN open ELSE {r})
  /\ gone' \in {gone, gone \cup {c}}

(* Or the request fails.                                                   *)
Lapse(c) == Does(c, "part") /\ UNCHANGED <<open, gone>>

(* Another one removes it: who still leads the room, or is gone itself by  *)
(* now.                                                                    *)
Expel(c) ==
  LET q == doing[c] IN
  /\ Does(c, "expel")
  /\ c \in gone \/ Leads(c, q.room)
  /\ open' = Left(q.whom, {q.room})
  /\ UNCHANGED gone

(* Or any member, if it is gone.                                           *)
Remove(c) ==
  LET q == doing[c] IN
  /\ Does(c, "remove")
  /\ q.whom \in gone
  /\ open' = Left(q.whom, {q.room})
  /\ UNCHANGED gone

(* The leader passes the lead on, to one member or to nobody, if it still  *)
(* leads the room or is gone by now.                                       *)
Pass(c) ==
  LET r == doing[c].room IN
  /\ Does(c, "pass")
  /\ c \in gone \/ Leads(c, r)
  /\ \/ /\ r \in DOMAIN open
        /\ \E lead \in {{}} \cup {{d} : d \in open[r].in} : open' = [open EXCEPT ![r].lead = lead]
     \/ r \notin DOMAIN open /\ UNCHANGED open
  /\ UNCHANGED gone

(* A room whose creator is gone may be closed by anybody.                  *)
Abandon(r) ==
  /\ open[r].by \in gone
  /\ open' = Closed({r})
  /\ UNCHANGED <<gone, doing>>

Vanish(c) == gone' = gone \cup {c} /\ UNCHANGED <<open, doing>>

Next == \/ \E c \in Conn : \/ Begin(c) \/ Retire(c) \/ Open(c) \/ Enter(c) \/ Part(c) \/ Lapse(c)
                           \/ Expel(c) \/ Remove(c) \/ Pass(c) \/ Vanish(c)
        \/ \E r \in DOMAIN open : Abandon(r)

Spec == Init /\ [][Next]_vars

-----------------------------------------------------------------------------
(* No room ever has two leaders, and leaders are members.                  *)
OneLeader ==
  \A r \in DOMAIN open : /\ open[r].lead \subseteq open[r].in
                         /\ \A c, d \in open[r].lead : c = d
=============================================================================
