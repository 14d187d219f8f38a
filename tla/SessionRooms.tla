---------------------------- MODULE SessionRooms ----------------------------
(***************************************************************************)
(* The room registry of the session manager (server/session_manager.py).   *)
(*                                                                         *)
(* One handler thread per client connection reads a message at a time and  *)
(* works on the rooms registered in active_rooms.  The threads share       *)
(* rooms_lock, but a handler takes and releases it several times and sends *)
(* to client sockets in between, so handlers interleave at those points:   *)
(* an action below is what one thread does from one release of the lock to *)
(* the next.  pc[c] names the point thread c has reached, job[c] holds the *)
(* local variables of the handler.                                         *)
(*                                                                         *)
(* A room keeps the id the server minted for it for as long as any thread  *)
(* holds a reference to it, so rooms is indexed by the ids minted so far   *)
(* and active is the set of those registered.  The clients are external:   *)
(* view[c] is what client c has been told, one record for its party object *)
(* and one for its game object.                                            *)
(***************************************************************************)
EXTENDS Integers, FiniteSets

CONSTANTS
  Conn,       \* the client connections
  Ops,        \* the messages the clients send, and the events that happen
  CapInputs,  \* capacities a RoomCreate may carry
  RetailMax,  \* RETAIL_MAX_PLAYERS
  MaxRooms,   \* bound: room ids minted
  MaxMid,     \* bound: member ids allocated in one room
  MaxBusy     \* bound: handlers in the middle of a message at once

Creates == {"party", "private", "public"}
AllOps == Creates \cup
          {"join", "leave", "kick", "latekick", "promote", "data", "drop", "idle", "raise"}

ASSUME BoundsAssumption ==
  /\ Conn # {} /\ IsFiniteSet(Conn)
  /\ Ops \subseteq AllOps
  /\ CapInputs \subseteq Int
  /\ RetailMax \in Nat \ {0}
  /\ MaxRooms \in Nat /\ MaxMid \in Nat \ {0} /\ MaxBusy \in Nat

MEMBER_ID == 1          \* the creator's member id
JoinersFromOne == 1     \* a mutant of the next
JOINER_MEMBER_ID == 2   \* the first id handed to a joiner

Id == Nat \ {0}         \* room ids and member ids; 0 stands for none
Mid == 1 .. MaxMid      \* the member ids a message may name
Kind == {"party", "game"}

VARIABLES
  sock,     \* the connection's socket: up, lost (peer gone) or closed
  pc,       \* where the connection's handler thread is
  job,      \* the handler's local variables
  seq,      \* _public_room_seq, shared by the three mints
  active,   \* ids registered in active_rooms
  rooms,    \* the room objects
  blobs,    \* keys of member_blobs
  refresh,  \* the room the connection's registered refresher re-sends, or 0
  view      \* what the client has been told, per room object

vars == <<sock, pc, job, seq, active, rooms, blobs, refresh, view>>

Minted == 1 .. seq

(***************************************************************************)
(* Records                                                                 *)
(***************************************************************************)
Room == [anchor  : Conn,            \* "conn": whose registry key it is under
         kind    : Kind,            \* is_party_ptr(room_ptr)
         public  : BOOLEAN,
         cap     : 1 .. RetailMax,  \* max_players
         conns   : [Conn -> Nat],   \* "conns": member id, 0 if absent
         members : SUBSET Id,       \* "members"
         owner   : Id,              \* owner_member_id
         next    : Id]              \* next_member_id

Job == [room    : Nat,               \* the room the handler works on
        mid     : Nat,               \* new_mid, sender_member_id, new_owner_id
        roster  : SUBSET Id,         \* full_members
        peers   : SUBSET Conn,       \* existing, targets, conns
        who     : Conn,              \* departing_key
        all     : BOOLEAN,           \* room_id=None
        seed    : BOOLEAN,           \* reseed_party
        fin     : BOOLEAN,           \* in the finally block
        closing : SUBSET Id,         \* closing
        left    : SUBSET (Id \X Id)] \* affected

Slot == [room : Nat, roster : SUBSET Id, owner : Nat]

NoJob(c) == [room |-> 0, mid |-> 0, roster |-> {}, peers |-> {}, who |-> c,
             all |-> FALSE, seed |-> FALSE, fin |-> FALSE, closing |-> {},
             left |-> {}]

Empty == [room |-> 0, roster |-> {}, owner |-> 0]

SoloRoom(c, kind, public, cap) ==
  [anchor |-> c, kind |-> kind, public |-> public, cap |-> cap,
   conns |-> [k \in Conn |-> IF k = c THEN MEMBER_ID ELSE 0],
   members |-> {MEMBER_ID}, owner |-> MEMBER_ID, next |-> JOINER_MEMBER_ID]

(* The room with member m on connection k and the given roster.            *)
With(room, k, m, roster) == [room EXCEPT !.conns[k] = m, !.members = roster]

(* The room without connection k and its entry in the roster.  (Here and   *)
(* below, a definition without a comment of its own, just before one that  *)
(* has the same parameters, is a mutant of it.)                            *)
KeepsRoster(room, k) == [room EXCEPT !.conns[k] = 0]
Without(room, k) ==
  [room EXCEPT !.conns[k] = 0, !.members = @ \ {room.conns[k]}]

(* clamp_max_players *)
NotAboveUnchecked(v) == IF v <= 0 THEN RetailMax ELSE v
Clamp(v) == IF v <= 0 THEN RetailMax
            ELSE IF v <= RetailMax THEN v ELSE RetailMax

InRoom(c, r) == r \in active /\ rooms[r].conns[c] # 0
FirstOwnedBy(c) == {r \in active : /\ rooms[r].anchor = c
                                   /\ \A q \in active : rooms[q].anchor = c => r <= q}
OwnedBy(c) == {r \in active : rooms[r].anchor = c}
FullAboveCap(r) == Cardinality(rooms[r].members) > rooms[r].cap
Full(r) == Cardinality(rooms[r].members) >= rooms[r].cap
PeersOf(r) == {k \in Conn : rooms[r].conns[k] # 0}
AnyMember(c, r) == rooms[r].conns[c] # 0
IsOwner(c, r) == rooms[r].conns[c] # 0 /\ rooms[r].conns[c] = rooms[r].owner

(***************************************************************************)
(* Sockets and clients                                                     *)
(***************************************************************************)

(* The outcomes of sendall: a peer that is gone may or may not have been   *)
(* noticed by the kernel, a socket this process closed always fails.       *)
Sends(c) == IF sock[c] = "up" THEN {TRUE}
            ELSE IF sock[c] = "lost" THEN BOOLEAN ELSE {FALSE}

(* 0x131, 0x134, 0x138 and 0x139 (which both end a room for the client)    *)
(* and 0x13d.                                                              *)
Message == [type : {"Member", "RoomLeave", "RoomGone", "OwnerMember"},
            room : Id, id : Nat, roster : SUBSET Id]
Member(r, roster) == [type |-> "Member", room |-> r, id |-> 0, roster |-> roster]
RoomLeave(r, m) == [type |-> "RoomLeave", room |-> r, id |-> m, roster |-> {}]
RoomGone(r) == [type |-> "RoomGone", room |-> r, id |-> 0, roster |-> {}]
OwnerMember(r, m) == [type |-> "OwnerMember", room |-> r, id |-> m, roster |-> {}]

(* What a client's room object holds after a message about its kind of     *)
(* object.  Member names the object, so it replaces what that held; the    *)
(* others reach the object whose room id they carry.                       *)
Handled(slot, m) ==
  CASE m.type = "Member" ->
         [room |-> m.room, roster |-> m.roster,
          owner |-> IF slot.room = m.room THEN slot.owner ELSE MEMBER_ID]
    [] m.type = "RoomLeave" /\ slot.room = m.room -> [slot EXCEPT !.roster = @ \ {m.id}]
    [] m.type = "RoomGone" /\ slot.room = m.room -> Empty
    [] m.type = "OwnerMember" /\ slot.room = m.room -> [slot EXCEPT !.owner = m.id]
    [] OTHER -> slot

(* view after every client of S that is still there has handled m.         *)
Deliver(S, kind, m) ==
  [c \in Conn |-> IF c \in S /\ sock[c] = "up"
                  THEN [view[c] EXCEPT ![kind] = Handled(@, m)]
                  ELSE view[c]]

(***************************************************************************)
(* Threads                                                                 *)
(***************************************************************************)
Busy == {c \in Conn : pc[c] \notin {"recv", "done"}}
(* The bounds leave room for what the handlers under way may still take.   *)
CanMint == seq + Cardinality({c \in Busy : job[c].seed}) < MaxRooms
CanAdmit(r) ==
  rooms[r].next + Cardinality({c \in Busy : pc[c] = "join_gate" /\ job[c].room = r})
    <= MaxMid

(* Thread c reads a message its client sent.                               *)
Receive(c, op) == /\ op \in Ops
                  /\ pc[c] = "recv" /\ sock[c] = "up"
                  /\ Cardinality(Busy) < MaxBusy

(* Its handler goes on at l with the local variables j, or is done with    *)
(* the message.                                                            *)
Goto(c, l, j) == /\ pc' = [pc EXCEPT ![c] = l]
                 /\ job' = [job EXCEPT ![c] = j]
Return(c) == Goto(c, "recv", NoJob(c))

(* The end of the finally block closes the socket.                         *)
Finish(c) == /\ Goto(c, "done", NoJob(c))
             /\ sock' = [sock EXCEPT ![c] = "closed"]

(* start_member_refresher: it cancels whatever the connection had, then    *)
(* starts one for a room with a single member that is not a party.         *)
WhateverTheSize(r, kind, roster) == IF kind = "game" THEN r ELSE 0
Refresher(r, kind, roster) ==
  IF kind = "game" /\ Cardinality(roster) <= 1 THEN r ELSE 0

(* entry["stop_event"].set(): the refresher of room r stops.               *)
Stopped(r) ==
  [c \in Conn |-> IF c = rooms[r].anchor /\ refresh[c] = r THEN 0 ELSE refresh[c]]

Purged(r) == {b \in blobs : b[1] # r}

(* member_blobs.pop of the members that left.                              *)
Kept(gone) == blobs
Forgotten(gone) == blobs \ gone

-----------------------------------------------------------------------------
Init == /\ sock = [c \in Conn |-> "up"]
        /\ pc = [c \in Conn |-> "recv"]
        /\ job = [c \in Conn |-> NoJob(c)]
        /\ seq = 0
        /\ active = {}
        /\ rooms = <<>>
        /\ blobs = {}
        /\ refresh = [c \in Conn |-> 0]
        /\ view = [c \in Conn |-> [k \in Kind |-> Empty]]

(***************************************************************************)
(* RoomCreate (0x12f)                                                      *)
(***************************************************************************)

(* A party, or a game that is public (its playlist field says matchmaking) *)
(* or private.  Mint an id and cache the creator's blob.  The record that  *)
(* registration will publish is complete from here on; nobody can reach it *)
(* yet.                                                                    *)
Create(c, op, cap) ==
  LET kind == IF op = "party" THEN "party" ELSE "game" IN
  /\ Receive(c, op) /\ CanMint
  /\ view[c][kind].room = 0
  /\ seq' = seq + 1
  /\ rooms' = [r \in 1 .. seq + 1 |->
                 IF r \in Minted THEN rooms[r]
                 ELSE SoloRoom(c, kind, op = "public", Clamp(cap))]
  /\ blobs' = Purged(seq + 1) \cup {<<seq + 1, MEMBER_ID>>}
  /\ Goto(c, "create_send", [job[c] EXCEPT !.room = seq + 1])
  /\ UNCHANGED <<sock, active, refresh, view>>

(* After a quarter of a second: answer, and start the refresher.           *)
CreateSend(c) ==
  LET r == job[c].room
      kind == rooms[r].kind
  IN
  /\ pc[c] = "create_send"
  /\ \/ /\ TRUE \in Sends(c)
        /\ view' = Deliver({c}, kind, Member(r, {MEMBER_ID}))
        /\ refresh' = [refresh EXCEPT ![c] = Refresher(r, kind, {MEMBER_ID})]
        /\ Goto(c, "create_reg", job[c])
     \/ /\ FALSE \in Sends(c)
        /\ Goto(c, "fin", job[c])
        /\ UNCHANGED <<refresh, view>>
  /\ UNCHANGED <<sock, seq, active, rooms, blobs>>

CreateRegister(c) ==
  /\ pc[c] = "create_reg"
  /\ active' = active \cup {job[c].room}
  /\ Return(c)
  /\ UNCHANGED <<sock, seq, rooms, blobs, refresh, view>>

(***************************************************************************)
(* RoomJoin (0x130)                                                        *)
(***************************************************************************)

(* What a client's own state machine lets it ask for: its object is idle,  *)
(* or is a party it has to itself.                                         *)
MayJoin(c, r) ==
  LET kind == rooms[r].kind
      slot == view[c][kind]
  IN
  slot.room # 0 => /\ kind = "party" /\ slot.room # r
                   /\ rooms[slot.room].anchor = c
                   /\ slot.roster = {MEMBER_ID}

(* First critical section: a room of that id on another connection.  A     *)
(* miss is not answered and changes nothing.                               *)
Join(c, r) ==
  /\ Receive(c, "join") /\ CanAdmit(r)
  /\ r \in active /\ rooms[r].anchor # c
  /\ MayJoin(c, r)
  /\ Goto(c, "join_gate", [job[c] EXCEPT !.room = r])
  /\ UNCHANGED <<sock, seq, active, rooms, blobs, refresh, view>>

(* Second: the capacity gate, and the member id of an admitted joiner.     *)
JoinGate(c) ==
  LET r == job[c].room IN
  /\ pc[c] = "join_gate"
  /\ \/ /\ Full(r)
        /\ Return(c)
        /\ UNCHANGED rooms
     \/ /\ ~ Full(r)
        /\ rooms' = [rooms EXCEPT ![r].next = @ + 1]
        /\ Goto(c, "join_snap", [job[c] EXCEPT !.mid = rooms[r].next])
  /\ UNCHANGED <<sock, seq, active, blobs, refresh, view>>

(* Third: cache the joiner's blob and copy the roster and the connections. *)
JoinSnapshot(c) ==
  LET r == job[c].room IN
  /\ pc[c] = "join_snap"
  /\ blobs' = blobs \cup {<<r, job[c].mid>>}
  /\ Goto(c, "join_send", [job[c] EXCEPT !.roster = rooms[r].members \cup {job[c].mid},
                                         !.peers = PeersOf(r)])
  /\ UNCHANGED <<sock, seq, active, rooms, refresh, view>>

(* The new roster goes to the existing members first.  When the push to    *)
(* the host fails the room is purged and the joiner not admitted; when the *)
(* reply to the joiner fails the exception ends its connection.            *)
JoinSend(c) ==
  LET r == job[c].room
      host == rooms[r].anchor
      Push(S) == Deliver(S, rooms[r].kind, Member(r, job[c].roster))
  IN
  /\ pc[c] = "join_send"
  /\ \/ /\ host \in job[c].peers /\ FALSE \in Sends(host)
        /\ active' = active \ {r}
        /\ refresh' = IF r \in active THEN Stopped(r) ELSE refresh
        /\ blobs' = Purged(r)
        /\ view' = Push(job[c].peers)
        /\ Return(c)
     \/ /\ host \in job[c].peers => TRUE \in Sends(host)
        /\ \/ /\ TRUE \in Sends(c)
              /\ view' = Push(job[c].peers \cup {c})
              /\ Goto(c, "join_reg", job[c])
           \/ /\ FALSE \in Sends(c)
              /\ view' = Push(job[c].peers)
              /\ Goto(c, "fin", job[c])
        /\ UNCHANGED <<active, refresh, blobs>>
  /\ UNCHANGED <<sock, seq, rooms>>

(* Fourth: register the joiner with the copied roster.                     *)
JoinRegister(c) ==
  LET r == job[c].room
      keepalive == Refresher(r, rooms[r].kind, job[c].roster)
  IN
  /\ pc[c] = "join_reg"
  /\ rooms' = [rooms EXCEPT ![r] = With(@, c, job[c].mid, job[c].roster)]
  /\ refresh' = [refresh EXCEPT ![rooms[r].anchor] = keepalive, ![c] = keepalive]
  /\ Return(c)
  /\ UNCHANGED <<sock, seq, active, blobs, view>>

(***************************************************************************)
(* Departures: RoomLeaving (0x133), the handler's finally block, and the   *)
(* removal they share with Kickout                                         *)
(***************************************************************************)

(* What comes next once the rooms to close are known.                      *)
NobodyTold(j) == "depart"
AfterRetire(j) == IF j.closing # {} THEN "close" ELSE "depart"

(* A client leaves the room one of its objects holds, which clears the     *)
(* object; or its frame crossed the RoomClosed of that room; or it answers *)
(* a Kickedout by leaving, while its kicker removes it and gives it a new  *)
(* party.                                                                  *)
Evicted(c, r) == \E k \in Conn \ {c} : /\ pc[k] \in {"depart", "tell", "seed_send"}
                                       /\ job[k].seed /\ job[k].who = c /\ job[k].room = r
MayLeave(c, r) ==
  \/ \E k \in Kind : view[c][k].room = r
  \/ /\ r \notin active /\ rooms[r].anchor # c /\ rooms[r].conns[c] # 0
     /\ view[c][rooms[r].kind].room = 0
  \/ Evicted(c, r)

(* The room this connection registered under that id, failing that the     *)
(* first public room it owns, is taken out of the registry.  A client that *)
(* answers a Kickedout gets the party its kicker had an id left for.       *)
Leave(c, r) ==
  LET public == {p \in OwnedBy(c) : rooms[p].public}
      retired == IF r \in OwnedBy(c) THEN {r}
                 ELSE {p \in public : \A q \in public : p <= q}
      j == [job[c] EXCEPT !.room = r, !.seed = TRUE, !.closing = retired]
  IN
  /\ Receive(c, "leave")
  /\ r \in Minted /\ MayLeave(c, r) /\ (rooms[r].kind = "party" => CanMint \/ Evicted(c, r))
  /\ active' = active \ retired
  /\ view' = Deliver({c}, rooms[r].kind, RoomGone(r))
  /\ refresh' = [refresh EXCEPT ![c] = 0]
  /\ Goto(c, AfterRetire(j), j)
  /\ UNCHANGED <<sock, seq, rooms, blobs>>

(* The finally block: end of stream, the 600 s idle timeout, or a send to  *)
(* this client that raised.  Every room the connection owns is retired.    *)
Finally(c) ==
  LET j == [NoJob(c) EXCEPT !.all = TRUE, !.fin = TRUE, !.closing = OwnedBy(c)] IN
  /\ \/ pc[c] = "fin"
     \/ /\ pc[c] = "recv" /\ Cardinality(Busy) < MaxBusy
        /\ sock[c] = "lost" \/ "idle" \in Ops
  /\ active' = active \ OwnedBy(c)
  /\ refresh' = [refresh EXCEPT ![c] = 0]
  /\ Goto(c, AfterRetire(j), j)
  /\ UNCHANGED <<sock, seq, rooms, blobs, view>>

(* close_room_and_notify, one retired room at a time.  After it, the       *)
(* RoomLeaving handler cancels the connection's refresher once more.       *)
CloseRoom(c, r) ==
  LET j == [job[c] EXCEPT !.closing = @ \ {r}] IN
  /\ pc[c] = "close" /\ r \in job[c].closing
  /\ view' = Deliver(PeersOf(r) \ {c}, rooms[r].kind, RoomGone(r))
  /\ refresh' = [Stopped(r) EXCEPT ![c] = IF j.closing = {} /\ ~ j.fin THEN 0 ELSE @]
  /\ blobs' = Purged(r)
  /\ Goto(c, AfterRetire(j), j)
  /\ UNCHANGED <<sock, seq, active, rooms>>

(* Or a log write of it raises where nothing catches it: the one that      *)
(* reports a failed one, or that there is nobody to tell.  Members it has  *)
(* not come to are not told, nor the refresher stopped and the blobs       *)
(* purged; RoomLeaving ends the connection then, and the finally block     *)
(* just ends: no departure, no conn.close.                                 *)
CloseRaises(c, r) ==
  /\ "raise" \in Ops
  /\ pc[c] = "close" /\ r \in job[c].closing
  /\ \E told \in SUBSET (PeersOf(r) \ {c}) : view' = Deliver(told, rooms[r].kind, RoomGone(r))
  /\ \/ job[c].fin /\ Goto(c, "done", NoJob(c))
     \/ ~ job[c].fin /\ Goto(c, "fin", job[c])
  /\ UNCHANGED <<sock, seq, active, rooms, blobs, refresh>>

(* What thread c does once it has taken a member out of its rooms: tell    *)
(* the others, give it a new party, or end the handler.                    *)
NeverFinished(c, j) == IF j.left # {} THEN Goto(c, "tell", j) /\ UNCHANGED sock
                       ELSE Return(c) /\ UNCHANGED sock
GoOn(c, j) ==
  \/ j.left # {} /\ Goto(c, "tell", j) /\ UNCHANGED sock
  \/ j.left = {} /\ j.fin /\ Finish(c)
  \/ j.left = {} /\ ~ j.fin /\ j.seed /\ Goto(c, "seed_send", j) /\ UNCHANGED sock
  \/ j.left = {} /\ ~ j.fin /\ ~ j.seed /\ Return(c) /\ UNCHANGED sock

(* broadcast_member_departure, its critical section: job[c].who is taken   *)
(* out of the room of the message, or of every room.                       *)
Depart(c) ==
  LET k == job[c].who
      hit == {r \in active : /\ rooms[r].conns[k] # 0
                             /\ job[c].all \/ r = job[c].room}
      gone == {<<r, rooms[r].conns[k]>> : r \in hit}
      j == [job[c] EXCEPT !.left = gone,
                          !.seed = @ /\ \E r \in hit : rooms[r].kind = "party"]
  IN
  /\ pc[c] = "depart"
  /\ rooms' = [r \in Minted |->
                 IF r \in hit THEN Without(rooms[r], k) ELSE rooms[r]]
  /\ blobs' = Forgotten(gone)
  /\ GoOn(c, j)
  /\ UNCHANGED <<seq, active, refresh, view>>

(* Then, room by room: RoomLeave to whoever is left, and the refresher of  *)
(* the room's own connection restarted with the roster as it is now.       *)
TellDeparture(c, r, m) ==
  /\ pc[c] = "tell" /\ <<r, m>> \in job[c].left
  /\ view' = Deliver(PeersOf(r), rooms[r].kind, RoomLeave(r, m))
  /\ refresh' = [refresh EXCEPT ![rooms[r].anchor] =
                   Refresher(r, rooms[r].kind, rooms[r].members)]
  /\ GoOn(c, [job[c] EXCEPT !.left = @ \ {<<r, m>>}])
  /\ UNCHANGED <<seq, active, rooms, blobs>>

(* reseed_departed_party: mint a party for the leaver and send it; a       *)
(* failed send ends it.                                                    *)
SeedSend(c) ==
  LET k == job[c].who IN
  /\ pc[c] = "seed_send"
  /\ seq' = seq + 1
  /\ rooms' = [r \in 1 .. seq + 1 |->
                 IF r \in Minted THEN rooms[r]
                 ELSE SoloRoom(k, "party", FALSE, rooms[job[c].room].cap)]
  /\ \/ /\ TRUE \in Sends(k)
        /\ view' = Deliver({k}, "party", Member(seq + 1, {MEMBER_ID}))
        /\ Goto(c, "seed_reg", [job[c] EXCEPT !.room = seq + 1])
     \/ /\ FALSE \in Sends(k)
        /\ UNCHANGED view
        /\ Return(c)
  /\ UNCHANGED <<sock, active, blobs, refresh>>

(* Register it in place of every other party the leaver owns.              *)
SeedRegister(c) ==
  LET stale == {r \in OwnedBy(job[c].who) : rooms[r].kind = "party"} IN
  /\ pc[c] = "seed_reg"
  /\ active' = (active \ stale) \cup {job[c].room}
  /\ Return(c)
  /\ UNCHANGED <<sock, seq, rooms, blobs, refresh, view>>

(***************************************************************************)
(* Kickout (0x137)                                                         *)
(***************************************************************************)

(* A requesting member: look the room and the target's connection up.  A   *)
(* client offers it in a party, on the other members.                      *)
Kick(c, r, m) ==
  /\ Receive(c, "kick") /\ CanMint
  /\ InRoom(c, r) /\ rooms[r].kind = "party"
  /\ \E k \in PeersOf(r) \ {c} :
       /\ rooms[r].conns[k] = m
       /\ Goto(c, "kick_send", [job[c] EXCEPT !.room = r, !.who = k, !.seed = TRUE])
  /\ UNCHANGED <<sock, seq, active, rooms, blobs, refresh, view>>

(* The rejection is logged with the sender's member id, looked up in the   *)
(* room again: if another thread has removed the sender since, that raises *)
(* KeyError, which nothing catches, and the connection is torn down.       *)
Reject(c, r) == IF rooms[r].conns[c] # 0 THEN Return(c)
                ELSE Goto(c, "fin", job[c])

(* Only the owner may kick: the target is told, then removed.              *)
KickSend(c) ==
  LET r == job[c].room IN
  /\ pc[c] = "kick_send"
  /\ \/ /\ IsOwner(c, r)
        /\ view' = Deliver({job[c].who}, rooms[r].kind, RoomGone(r))
        /\ Goto(c, "depart", job[c])
     \/ /\ ~ IsOwner(c, r)
        /\ Reject(c, r)
        /\ UNCHANGED view
  /\ UNCHANGED <<sock, seq, active, rooms, blobs, refresh>>

(* No requesting member: evaluate_late_dead_peer_removal.  Its two time    *)
(* conditions are abstracted: enough time may always have passed since the *)
(* last join, and the silent targets are those whose peer is gone.         *)
LateKick(c, r, m) ==
  /\ Receive(c, "latekick")
  /\ InRoom(c, r)
  /\ \E k \in PeersOf(r) \ {c} :
       /\ rooms[r].conns[k] = m /\ m # rooms[r].owner
       /\ sock[k] = "lost"
       /\ Goto(c, "depart", [job[c] EXCEPT !.room = r, !.who = k])
  /\ UNCHANGED <<sock, seq, active, rooms, blobs, refresh, view>>

(***************************************************************************)
(* Promote (0x13c) and SetPartyData (0x13a)                                *)
(***************************************************************************)

(* The new leader is any member id the sender may have seen.  Promote is a *)
(* party opcode.                                                           *)
Promote(c, r, m) ==
  /\ Receive(c, "promote")
  /\ InRoom(c, r) /\ rooms[r].kind = "party" /\ m < rooms[r].next
  /\ Goto(c, "promote_check",
          [job[c] EXCEPT !.room = r, !.mid = m, !.peers = PeersOf(r)])
  /\ UNCHANGED <<sock, seq, active, rooms, blobs, refresh, view>>

(* Only the owner may promote: sender_is_room_owner, without the lock.     *)
PromoteCheck(c) ==
  LET r == job[c].room IN
  /\ pc[c] = "promote_check"
  /\ \/ IsOwner(c, r) /\ Goto(c, "promote_set", job[c])
     \/ ~ IsOwner(c, r) /\ Reject(c, r)
  /\ UNCHANGED <<sock, seq, active, rooms, blobs, refresh, view>>

(* Then, with it, the new owner, and last the announcement.                *)
PromoteSet(c) ==
  /\ pc[c] = "promote_set"
  /\ rooms' = [rooms EXCEPT ![job[c].room].owner = job[c].mid]
  /\ Goto(c, "promote_send", job[c])
  /\ UNCHANGED <<sock, seq, active, blobs, refresh, view>>

PromoteSend(c) ==
  LET r == job[c].room IN
  /\ pc[c] = "promote_send"
  /\ view' = Deliver(job[c].peers, rooms[r].kind, OwnerMember(r, job[c].mid))
  /\ Return(c)
  /\ UNCHANGED <<sock, seq, active, rooms, blobs, refresh>>

(* The room named, or failing that any room the sender is in: one critical *)
(* section finds it and the sender's member id ...                         *)
SetPartyData(c, r) ==
  /\ Receive(c, "data")
  /\ InRoom(c, r)
  /\ Goto(c, "data_cache", [job[c] EXCEPT !.room = r, !.mid = rooms[r].conns[c]])
  /\ UNCHANGED <<sock, seq, active, rooms, blobs, refresh, view>>

(* ... and another one caches the blob, before the relay.                  *)
CacheData(c) ==
  /\ pc[c] = "data_cache"
  /\ blobs' = blobs \cup {<<job[c].room, job[c].mid>>}
  /\ Return(c)
  /\ UNCHANGED <<sock, seq, active, rooms, refresh, view>>

-----------------------------------------------------------------------------
(* A client goes away without a word, and its memory with it.              *)
Drop(c) ==
  /\ "drop" \in Ops /\ sock[c] = "up"
  /\ sock' = [sock EXCEPT ![c] = "lost"]
  /\ view' = [view EXCEPT ![c] = [k \in Kind |-> Empty]]
  /\ UNCHANGED <<pc, job, seq, active, rooms, blobs, refresh>>

Request(c) ==
  \/ \E op \in Creates, cap \in CapInputs : Create(c, op, cap)
  \/ \E r \in Minted : \/ Join(c, r)
                       \/ Leave(c, r)
                       \/ SetPartyData(c, r)
                       \/ \E m \in Mid : \/ Kick(c, r, m)
                                         \/ LateKick(c, r, m)
                                         \/ Promote(c, r, m)

(* The steps a handler takes once it has read a message.                   *)
Continue(c) ==
  \/ CreateSend(c) \/ CreateRegister(c)
  \/ JoinGate(c) \/ JoinSnapshot(c) \/ JoinSend(c) \/ JoinRegister(c)
  \/ KickSend(c) \/ PromoteCheck(c) \/ PromoteSet(c) \/ PromoteSend(c) \/ CacheData(c)
  \/ \E r \in Minted : CloseRoom(c, r)
  \/ Depart(c)
  \/ \E d \in job[c].left : TellDeparture(c, d[1], d[2])
  \/ SeedSend(c) \/ SeedRegister(c)

Raise(c) == \E r \in Minted : CloseRaises(c, r)

Next == \E c \in Conn : Request(c) \/ Continue(c) \/ Finally(c) \/ Drop(c) \/ Raise(c)

Spec == Init /\ [][Next]_vars

(* A thread in the middle of a handler is scheduled again, a failed one    *)
(* runs its finally block, and a connection whose peer is gone is noticed: *)
(* recv returns, or times out.                                             *)
Fairness(c) == /\ WF_vars(Continue(c))
               /\ WF_vars((pc[c] = "fin" \/ sock[c] = "lost") /\ Finally(c))

(* One connection stands for all of them: the model treats them alike.     *)
(* Nothing is assumed of the others' threads.                              *)
Someone == CHOOSE c \in Conn : TRUE
FairSpec == Spec /\ Fairness(Someone)

-----------------------------------------------------------------------------
PCs == {"recv", "create_send", "create_reg", "join_gate", "join_snap",
        "join_send", "join_reg", "close", "depart", "tell", "seed_send",
        "seed_reg", "kick_send", "promote_check", "promote_set", "promote_send",
        "data_cache", "fin", "done"}
(* Where job[c].mid is the member id the handler works with.               *)
MidPCs == {"join_snap", "join_send", "join_reg", "promote_check", "promote_set",
           "promote_send", "data_cache"}

(* What thread c holds at l: a handler that works on a room holds one that  *)
(* was minted, one that works with a member id holds one.                  *)
JobOK(l, j, minted) ==
  /\ l \notin {"recv", "fin", "close", "depart", "tell", "done"} \/ j.seed
       => j.room \in minted
  /\ l \in MidPCs => j.mid # 0
  /\ j.closing \subseteq minted
  /\ \A d \in j.left : d[1] \in minted

(* Every variable holds what the code stores in it, and every thread a job  *)
(* that fits where it is.                                                  *)
TypeOK ==
  /\ sock \in [Conn -> {"up", "lost", "closed"}]
  /\ pc \in [Conn -> PCs]
  /\ job \in [Conn -> Job]
  /\ seq \in Nat
  /\ active \subseteq Minted
  /\ rooms \in [Minted -> Room]
  /\ blobs \subseteq Id \X Id
  /\ refresh \in [Conn -> 0 .. seq]
  /\ view \in [Conn -> [Kind -> Slot]]
  /\ \A c \in Conn : JobOK(pc[c], job[c], Minted)

(***************************************************************************)
(* Safety under every interleaving of the handlers                         *)
(***************************************************************************)
JoiningPCs == {"join_snap", "join_send", "join_reg"}
Coming(c, r) == IF pc[c] \in JoiningPCs /\ job[c].room = r THEN job[c].mid ELSE 0

(* A member id names one member for the life of the room: no two           *)
(* connections hold the same id, no id held or handed to a joiner will be   *)
(* handed out again (the capacity gate, session_manager.py:2224).          *)
UniqueMemberIds ==
  \A r \in Minted : \A c \in Conn :
    /\ rooms[r].conns[c] < rooms[r].next /\ Coming(c, r) < rooms[r].next
    /\ \A d \in Conn :
         /\ c # d /\ rooms[r].conns[c] # 0 => rooms[r].conns[c] # rooms[r].conns[d]
         /\ c # d /\ Coming(c, r) # 0 => Coming(c, r) # Coming(d, r)
         /\ Coming(c, r) # 0 => Coming(c, r) # rooms[r].conns[d]

(* Kickout checks the sender against owner_member_id without the lock and   *)
(* removes the target later.  A sender that is still there still is the     *)
(* owner then, whatever joins, departures and promotions the other threads  *)
(* did in between (session_manager.py:2731-2773).                           *)
Kicking(c) == pc[c] = "depart" /\ job[c].seed /\ job[c].who # c
KickAuthority ==
  \A c \in Conn : Kicking(c) /\ sock[c] = "up"
                    => rooms[job[c].room].conns[c] = rooms[job[c].room].owner

(* "concurrent joins cannot both pass it and overfill the room", says the   *)
(* comment of the capacity gate (session_manager.py:2215).  It is true of   *)
(* one message at a time (MaxBusy = 1), when the place an admitted joiner   *)
(* was given is still there when it is registered, and not of two.          *)
CapacityGate == \A r \in Minted : Cardinality(rooms[r].members) <= rooms[r].cap

(* Once the finally block of a connection has closed its socket, no         *)
(* registered room has the connection in it, and none that it created is    *)
(* registered but a party a reseed put back.                                *)
GoneMeansGone ==
  \A c \in Conn : sock[c] = "closed" =>
    \A r \in active :
      /\ rooms[r].anchor # c => rooms[r].conns[c] = 0
      /\ rooms[r].anchor = c => rooms[r].kind = "party"

(***************************************************************************)
(* Agreement between messages.  No handler is under way: what the clients  *)
(* were told and what the registry holds can be compared.  The runs that   *)
(* check these formulas take one message at a time (MaxBusy = 1); other    *)
(* runs show that interleaved handlers break them.                         *)
(***************************************************************************)
Quiet == Busy = {}

(* Whoever the server would send to is in the roster it sends, and in a     *)
(* match the roster holds nobody else: joins, departures and reseeds keep   *)
(* the two fields of the entry together (session_manager.py:1243, 2381).    *)
(* In a party, a member that moves its party object to another and comes    *)
(* back is registered under a new id; the old one stays in the roster.      *)
ServerAgreement ==
  Quiet => \A r \in active :
    LET ids == {rooms[r].conns[c] : c \in PeersOf(r)} IN
    /\ ids \subseteq rooms[r].members
    /\ rooms[r].kind = "game" => ids = rooms[r].members

(* A client that believes it is in a registered room is in it, and sees     *)
(* everybody who is: nobody is invisible to it, and nobody who was removed  *)
(* or has moved is left believing (session_manager.py:2285-2330).           *)
ClientAgreement ==
  Quiet => \A c \in Conn, k \in Kind :
    LET r == view[c][k].room IN
    sock[c] = "up" /\ r \in active
      => InRoom(c, r) /\ rooms[r].members \subseteq view[c][k].roster

(* Nobody is left in a room its creator has closed: when                    *)
(* close_room_and_notify is through with it, nobody else who can be told    *)
(* believes to be in it any more (session_manager.py:1036, 2589, 2885).     *)
ClosedIsTold ==
  [][\A c \in Conn : \A r \in job[c].closing \ job'[c].closing : \A k \in Conn \ {c} :
       sock[k] = "up" => view'[k][rooms[r].kind].room # r]_vars

(* A refresher re-sends the roster of a registered game room to the         *)
(* connection that created it while nobody else is there: it neither        *)
(* outlives the room nor pushes a roster without a member that has joined.  *)
KeepaliveTarget ==
  Quiet => \A c \in Conn :
    LET r == refresh[c] IN
    sock[c] = "up" /\ r # 0
      => r \in OwnedBy(c) /\ rooms[r].kind = "game" /\ rooms[r].members = {MEMBER_ID}

(* No blob of a member that has left is kept to be replayed to a future     *)
(* joiner (session_manager.py:1252).                                        *)
BlobsOfMembers ==
  Quiet => \A b \in blobs : b[1] \in active => b[2] \in rooms[b[1]].members

(***************************************************************************)
(* Liveness                                                                *)
(***************************************************************************)

(* A connection whose peer is gone is cleaned up: whatever its handler and  *)
(* the others were doing, its finally block runs, and to the end unless it  *)
(* raises.                                                                  *)
LostIsFinished == sock[Someone] = "lost" ~> pc[Someone] = "done"
=============================================================================
