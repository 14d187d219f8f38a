------------------------- MODULE SessionRoomsProofs -------------------------
(***************************************************************************)
(* Theorems about SessionRooms for every set of connections and every      *)
(* bound.                                                                  *)
(***************************************************************************)
EXTENDS SessionRooms, TLAPS

(***************************************************************************)
(* Type correctness: the records                                           *)
(***************************************************************************)

(* A handler between messages holds an empty job.                           *)
LEMMA NoJobType == \A c \in Conn : NoJob(c) \in Job
  BY DEF NoJob, Job, Id

(* Storing a value of the right type in a local variable.                   *)
LEMMA FieldUpdate ==
  ASSUME NEW j \in Job
  PROVE  /\ \A n \in Nat : [j EXCEPT !.room = n] \in Job /\ [j EXCEPT !.mid = n] \in Job
         /\ \A k \in Conn : [j EXCEPT !.who = k] \in Job
         /\ \A b \in BOOLEAN : /\ [j EXCEPT !.all = b] \in Job
                               /\ [j EXCEPT !.seed = b] \in Job
                               /\ [j EXCEPT !.fin = b] \in Job
         /\ \A S \in SUBSET Id : [j EXCEPT !.roster = S] \in Job
         /\ \A S \in SUBSET Id : [j EXCEPT !.closing = S] \in Job
         /\ \A P \in SUBSET Conn : [j EXCEPT !.peers = P] \in Job
         /\ \A L \in SUBSET (Id \X Id) : [j EXCEPT !.left = L] \in Job
<1>1. \A n \in Nat : [j EXCEPT !.room = n] \in Job /\ [j EXCEPT !.mid = n] \in Job
  BY DEF Job
<1>2. \A k \in Conn : [j EXCEPT !.who = k] \in Job
  BY DEF Job
<1>3. \A b \in BOOLEAN : /\ [j EXCEPT !.all = b] \in Job /\ [j EXCEPT !.seed = b] \in Job
                         /\ [j EXCEPT !.fin = b] \in Job
  BY DEF Job
<1>4. \A S \in SUBSET Id : [j EXCEPT !.roster = S] \in Job
  BY DEF Job
<1>5. \A S \in SUBSET Id : [j EXCEPT !.closing = S] \in Job
  BY DEF Job
<1>6. \A P \in SUBSET Conn : [j EXCEPT !.peers = P] \in Job
  BY DEF Job
<1>7. \A L \in SUBSET (Id \X Id) : [j EXCEPT !.left = L] \in Job
  BY DEF Job
<1> QED
  BY <1>1, <1>2, <1>3, <1>4, <1>5, <1>6, <1>7

(* clamp_max_players stays between 1 and the retail maximum.                *)
LEMMA ClampType == \A v \in Int : Clamp(v) \in 1 .. RetailMax
  BY BoundsAssumption DEF Clamp

(* A room as it is registered is a well-formed room.                        *)
LEMMA SoloRoomType ==
  ASSUME NEW c \in Conn, NEW kind \in Kind, NEW public \in BOOLEAN,
         NEW cap \in 1 .. RetailMax
  PROVE  SoloRoom(c, kind, public, cap) \in Room
  BY DEF SoloRoom, Room, MEMBER_ID, JOINER_MEMBER_ID, Id

(* Admitting a member and removing one keep it so.                          *)
LEMMA WithType ==
  ASSUME NEW room \in Room, NEW k \in Conn, NEW m \in Nat, NEW S \in SUBSET Id
  PROVE  With(room, k, m, S) \in Room
<1>1. [room EXCEPT !.conns = [@ EXCEPT ![k] = m]] \in Room
  BY DEF Room
<1>2. \A q \in Room : [q EXCEPT !.members = S] \in Room
  BY DEF Room
<1>3. With(room, k, m, S) = [[room EXCEPT !.conns = [@ EXCEPT ![k] = m]] EXCEPT !.members = S]
  BY DEF With, Room
<1> QED
  BY <1>1, <1>2, <1>3

LEMMA WithoutType ==
  ASSUME NEW room \in Room, NEW k \in Conn
  PROVE  Without(room, k) \in Room
<1>1. Without(room, k) = With(room, k, 0, room.members \ {room.conns[k]})
  BY DEF Without, With, Room
<1>2. room.members \ {room.conns[k]} \in SUBSET Id
  BY DEF Room
<1> QED
  BY <1>1, <1>2, WithType

(* A client's room object stays well-formed whatever message it handles.    *)
LEMMA DeliverType ==
  ASSUME TypeOK, NEW S \in SUBSET Conn, NEW kind \in Kind, NEW m \in Message
  PROVE  Deliver(S, kind, m) \in [Conn -> [Kind -> Slot]]
<1>1. ASSUME NEW slot \in Slot PROVE Handled(slot, m) \in Slot
  BY DEF Handled, Message, Slot, Empty, MEMBER_ID, Id
<1> QED
  BY <1>1 DEF TypeOK, Deliver

(* A refresher is for a minted room or there is none.                       *)
LEMMA RefresherType ==
  ASSUME TypeOK, NEW r \in Minted, NEW kind, NEW roster
  PROVE  Refresher(r, kind, roster) \in 0 .. seq
  BY DEF Refresher, TypeOK, Minted

LEMMA StoppedType ==
  ASSUME TypeOK, NEW r PROVE Stopped(r) \in [Conn -> 0 .. seq]
  BY DEF TypeOK, Stopped

(* The messages the handlers send are messages.                             *)
LEMMA MessageType ==
  ASSUME NEW r \in Id, NEW m \in Nat, NEW S \in SUBSET Id
  PROVE  {Member(r, S), RoomLeave(r, m), RoomGone(r), OwnerMember(r, m)} \subseteq Message
  BY DEF Message, Member, RoomLeave, RoomGone, OwnerMember

LEMMA InitType == Init => TypeOK
<1> SUFFICES ASSUME Init PROVE TypeOK
  OBVIOUS
<1>1. rooms \in [Minted -> Room]
  BY DEF Init, Minted
<1>2. job \in [Conn -> Job] /\ \A c \in Conn : JobOK(pc[c], job[c], Minted)
  BY NoJobType DEF Init, JobOK, NoJob, MidPCs
<1>3. view \in [Conn -> [Kind -> Slot]]
  BY DEF Init, Slot, Empty
<1> QED
  BY <1>1, <1>2, <1>3 DEF Init, TypeOK, PCs, Minted

(* The part of the type invariant about pc and job.  A step of thread c has *)
(* to show it for its own only: the others keep theirs as ids stay minted.  *)
Threads == /\ pc \in [Conn -> PCs] /\ job \in [Conn -> Job]
           /\ \A k \in Conn : JobOK(pc[k], job[k], Minted)

LEMMA GotoType ==
  ASSUME TypeOK, NEW c \in Conn, NEW l \in PCs, NEW j \in Job, Goto(c, l, j),
         seq' \in Nat, seq' >= seq, JobOK(l, j, Minted')
  PROVE  Threads'
<1>1. pc' = [pc EXCEPT ![c] = l] /\ job' = [job EXCEPT ![c] = j]
  BY DEF Goto
<1>2. pc \in [Conn -> PCs] /\ job \in [Conn -> Job]
      /\ \A k \in Conn : JobOK(pc[k], job[k], Minted)
  BY DEF TypeOK
<1>3. Minted \subseteq Minted'
  BY DEF TypeOK, Minted
<1>4. ASSUME NEW k \in Conn PROVE JobOK(pc'[k], job'[k], Minted')
  <2>1. CASE k = c
    BY <2>1, <1>1, <1>2 DEF JobOK
  <2>2. CASE k # c
    <3>1. pc'[k] = pc[k] /\ job'[k] = job[k]
      BY <2>2, <1>1, <1>2
    <3> QED
      BY <3>1, <1>2, <1>3 DEF JobOK
  <2> QED BY <2>1, <2>2
<1> QED BY <1>1, <1>2, <1>4 DEF Threads

LEMMA ReturnType ==
  ASSUME TypeOK, NEW c \in Conn, Return(c), seq' \in Nat, seq' >= seq
  PROVE  Threads'
<1>1. JobOK("recv", NoJob(c), Minted') /\ "recv" \in PCs
  BY DEF JobOK, NoJob, MidPCs, PCs
<1> QED
  BY <1>1, NoJobType, GotoType DEF Return

(* What every step starts from.                                             *)
LEMMA JobFacts ==
  ASSUME TypeOK, NEW c \in Conn
  PROVE  /\ job[c] \in Job /\ pc[c] \in PCs /\ JobOK(pc[c], job[c], Minted)
         /\ Minted \subseteq Id
         /\ \A r \in Minted : rooms[r] \in Room
  BY DEF TypeOK, Minted, Id

LEMMA RoomFacts ==
  ASSUME TypeOK, NEW r \in Minted
  PROVE  /\ r \in Nat /\ r \in Id /\ r \in 0 .. seq
         /\ rooms[r] \in Room
         /\ rooms[r].anchor \in Conn /\ rooms[r].kind \in Kind
         /\ rooms[r].cap \in 1 .. RetailMax
         /\ rooms[r].conns \in [Conn -> Nat] /\ rooms[r].members \in SUBSET Id
         /\ rooms[r].owner \in Id /\ rooms[r].next \in Id
<1>1. r \in Nat /\ r \in Id /\ r \in 0 .. seq
  BY DEF TypeOK, Minted, Id
<1>2. rooms[r] \in Room
  BY DEF TypeOK
<1> QED
  BY <1>1, <1>2 DEF Room

(* The room of a handler at a point where it works on one.                  *)
RoomPCs == PCs \ {"recv", "fin", "close", "depart", "tell", "done"}
LEMMA JobRoom ==
  ASSUME TypeOK, NEW c \in Conn, pc[c] \in RoomPCs \/ job[c].seed
  PROVE  job[c].room \in Minted
  BY JobFacts DEF JobOK, RoomPCs

(* A step that mints no id leaves the set of minted ids alone.              *)
LEMMA SameIds ==
  ASSUME TypeOK, seq' = seq
  PROVE  seq' \in Nat /\ seq' >= seq /\ Minted' = Minted
  BY DEF TypeOK, Minted

(* A handler that goes on with a room and leaves its lists alone.           *)
LEMMA WorkType ==
  ASSUME TypeOK, NEW c \in Conn, NEW l \in PCs, NEW j \in Job, Goto(c, l, j),
         seq' \in Nat, seq' >= seq,
         j.closing = job[c].closing, j.left = job[c].left, j.room \in Minted',
         l \in MidPCs => j.mid # 0
  PROVE  Threads'
<1>1. JobOK(pc[c], job[c], Minted) /\ job[c] \in Job
  BY JobFacts
<1>2. Minted \subseteq Minted'
  BY DEF TypeOK, Minted
<1>3. JobOK(l, j, Minted')
  BY <1>1, <1>2 DEF JobOK
<1> QED
  BY <1>3, GotoType

(* RoomCreate                                                               *)
LEMMA CreateType ==
  ASSUME TypeOK, NEW c \in Conn, NEW op \in Creates, NEW cap \in CapInputs,
         Create(c, op, cap)
  PROVE  TypeOK'
<1> DEFINE kind == IF op = "party" THEN "party" ELSE "game"
           j == [job[c] EXCEPT !.room = seq + 1]
<1>1. seq' \in Nat /\ seq' >= seq /\ Minted' = 1 .. seq + 1 /\ seq + 1 \in Id
      /\ Minted \subseteq Minted'
  BY DEF TypeOK, Create, Minted, Id
<1>2. rooms' \in [Minted' -> Room]
  <2>1. SoloRoom(c, kind, op = "public", Clamp(cap)) \in Room
    BY SoloRoomType, ClampType, BoundsAssumption DEF Kind
  <2> QED
    BY <2>1, <1>1, JobFacts DEF Create
<1>3. blobs' \subseteq Id \X Id
  BY <1>1 DEF TypeOK, Create, Purged, MEMBER_ID, Id
<1>4. Threads'
  <2>1. j \in Job
    BY <1>1, JobFacts DEF Job, Id
  <2>2. /\ j.room = seq + 1 /\ j.seed = job[c].seed
        /\ j.closing = job[c].closing /\ j.left = job[c].left
    BY JobFacts DEF Job
  <2>3. seq + 1 \in Minted' /\ "create_send" \notin MidPCs /\ "create_send" \in PCs
    BY <1>1 DEF MidPCs, TypeOK, PCs
  <2> QED
    BY <1>1, <2>1, <2>2, <2>3, WorkType DEF Create
<1> QED
  BY <1>1, <1>2, <1>3, <1>4 DEF TypeOK, Create, Threads

LEMMA CreateSendType ==
  ASSUME TypeOK, NEW c \in Conn, CreateSend(c)
  PROVE  TypeOK'
<1> DEFINE r == job[c].room
           msg == Member(r, {MEMBER_ID})
           told == Deliver({c}, rooms[r].kind, msg)
           keepalive == Refresher(r, rooms[r].kind, {MEMBER_ID})
<1>1. seq' \in Nat /\ seq' >= seq /\ Minted' = Minted
  BY SameIds DEF CreateSend
<1>2. r \in Minted
  BY JobRoom DEF CreateSend, RoomPCs, PCs
<1>3. told \in [Conn -> [Kind -> Slot]]
  <2>1. msg \in Message
    BY <1>2, RoomFacts, MessageType DEF Id, MEMBER_ID
  <2> QED
    BY <1>2, <2>1, RoomFacts, DeliverType
<1>4. keepalive \in 0 .. seq
  BY <1>2, RefresherType
<1>5. Threads'
  <2>1. job[c] \in Job
    BY JobFacts
  <2>2. CASE Goto(c, "create_reg", job[c])
    BY <1>1, <1>2, <2>1, <2>2, WorkType DEF PCs, MidPCs
  <2>3. CASE Goto(c, "fin", job[c])
    BY <1>1, <1>2, <2>1, <2>3, WorkType DEF PCs, MidPCs
  <2> QED
    BY <2>2, <2>3 DEF CreateSend
<1>6. /\ view' = told \/ view' = view
      /\ refresh' = [refresh EXCEPT ![c] = keepalive] \/ refresh' = refresh
      /\ UNCHANGED <<sock, active, rooms, blobs>>
  BY DEF CreateSend
<1>7. view' \in [Conn -> [Kind -> Slot]]
  BY <1>3, <1>6 DEF TypeOK
<1>8. refresh' \in [Conn -> 0 .. seq']
  <2> HIDE DEF keepalive
  <2> QED
    BY <1>1, <1>4, <1>6 DEF TypeOK, CreateSend
<1> QED
  BY <1>1, <1>5, <1>6, <1>7, <1>8 DEF TypeOK, Threads

LEMMA CreateRegisterType ==
  ASSUME TypeOK, NEW c \in Conn, CreateRegister(c)
  PROVE  TypeOK'
<1>1. seq' \in Nat /\ seq' >= seq /\ Minted' = Minted
  BY SameIds DEF CreateRegister
<1>2. job[c].room \in Minted
  BY JobRoom DEF CreateRegister, RoomPCs, PCs
<1>3. Threads'
  BY <1>1, ReturnType DEF CreateRegister
<1> QED
  BY <1>1, <1>2, <1>3 DEF TypeOK, CreateRegister, Threads

(* RoomJoin                                                                 *)
LEMMA JoinType ==
  ASSUME TypeOK, NEW c \in Conn, NEW r \in Minted, Join(c, r)
  PROVE  TypeOK'
<1> DEFINE j == [job[c] EXCEPT !.room = r]
<1>1. seq' \in Nat /\ seq' >= seq /\ Minted' = Minted
  BY SameIds DEF Join
<1>2. Threads'
  <2>1. j \in Job /\ j.room = r /\ j.closing = job[c].closing /\ j.left = job[c].left
    BY JobFacts, RoomFacts DEF Job
  <2>2. "join_gate" \in PCs /\ "join_gate" \notin MidPCs
    BY DEF PCs, MidPCs
  <2>3. Goto(c, "join_gate", j)
    BY DEF Join
  <2> HIDE DEF j
  <2> QED
    BY <1>1, <2>1, <2>2, <2>3, WorkType
<1> QED
  BY <1>1, <1>2 DEF TypeOK, Join, Threads

LEMMA JoinGateType ==
  ASSUME TypeOK, NEW c \in Conn, JoinGate(c)
  PROVE  TypeOK'
<1> DEFINE r == job[c].room
           j == [job[c] EXCEPT !.mid = rooms[r].next]
<1>1. seq' \in Nat /\ seq' >= seq /\ Minted' = Minted
  BY SameIds DEF JoinGate
<1>2. r \in Minted
  BY JobRoom DEF JoinGate, RoomPCs, PCs
<1>3. rooms' \in [Minted' -> Room]
  <2>1. [rooms[r] EXCEPT !.next = @ + 1] \in Room
    BY <1>2, RoomFacts DEF Room, Id
  <2>2. rooms' = rooms \/ rooms' = [rooms EXCEPT ![r].next = @ + 1]
    BY DEF JoinGate
  <2>3. rooms \in [Minted -> Room]
    BY DEF TypeOK
  <2> QED
    BY <1>1, <1>2, <2>1, <2>2, <2>3
<1>4. Threads'
  <2>1. CASE Return(c)
    BY <1>1, <2>1, ReturnType
  <2>2. CASE Goto(c, "join_snap", j)
    <3>1. rooms[r].next \in Nat \ {0}
      BY <1>2, RoomFacts DEF Id
    <3>2. /\ j \in Job /\ j.room = r /\ j.mid = rooms[r].next
          /\ j.closing = job[c].closing /\ j.left = job[c].left
      BY <3>1, JobFacts DEF Job
    <3>3. "join_snap" \in PCs
      BY DEF PCs
    <3> HIDE DEF j
    <3> QED
      BY <1>1, <1>2, <2>2, <3>1, <3>2, <3>3, WorkType
  <2> QED
    BY <2>1, <2>2 DEF JoinGate
<1> QED
  BY <1>1, <1>3, <1>4 DEF TypeOK, JoinGate, Threads

LEMMA JoinSnapshotType ==
  ASSUME TypeOK, NEW c \in Conn, JoinSnapshot(c)
  PROVE  TypeOK'
<1> DEFINE r == job[c].room
           j == [job[c] EXCEPT !.roster = rooms[r].members \cup {job[c].mid},
                               !.peers = PeersOf(r)]
<1>1. seq' \in Nat /\ seq' >= seq /\ Minted' = Minted
  BY SameIds DEF JoinSnapshot
<1>2. r \in Minted /\ job[c].mid \in Id
  <2>1. pc[c] = "join_snap" /\ job[c] \in Job /\ JobOK(pc[c], job[c], Minted)
    BY JobFacts DEF JoinSnapshot
  <2>2. job[c].mid # 0
    BY <2>1 DEF JobOK, MidPCs
  <2> QED
    BY <2>1, <2>2, JobRoom DEF RoomPCs, PCs, Job, Id
<1>3. blobs' \subseteq Id \X Id
  BY <1>2, RoomFacts DEF TypeOK, JoinSnapshot
<1>4. Threads'
  <2>1. rooms[r].members \cup {job[c].mid} \in SUBSET Id
    BY <1>2, RoomFacts
  <2>2. PeersOf(r) \in SUBSET Conn
    BY DEF PeersOf
  <2>3. ASSUME NEW S \in SUBSET Id, NEW P \in SUBSET Conn,
               NEW k \in Job, k = [job[c] EXCEPT !.roster = S, !.peers = P]
        PROVE  /\ k.room = r /\ k.mid = job[c].mid
               /\ k.closing = job[c].closing /\ k.left = job[c].left
    BY <2>3, JobFacts DEF Job
  <2>4. ASSUME NEW S \in SUBSET Id, NEW P \in SUBSET Conn
        PROVE  [job[c] EXCEPT !.roster = S, !.peers = P] \in Job
    <3>1. [[job[c] EXCEPT !.roster = S] EXCEPT !.peers = P] \in Job
      BY FieldUpdate, JobFacts
    <3> QED
      BY <3>1, JobFacts DEF Job
  <2>5. /\ j \in Job /\ j.room = r /\ j.mid = job[c].mid
        /\ j.closing = job[c].closing /\ j.left = job[c].left
    BY <2>1, <2>2, <2>3, <2>4
  <2>6. "join_send" \in PCs /\ job[c].mid # 0
    BY <1>2 DEF PCs, Id
  <2>7. Goto(c, "join_send", j)
    BY DEF JoinSnapshot
  <2> HIDE DEF j
  <2> QED
    BY <1>1, <1>2, <2>5, <2>6, <2>7, WorkType
<1> QED
  BY <1>1, <1>3, <1>4 DEF TypeOK, JoinSnapshot, Threads

LEMMA JoinSendType ==
  ASSUME TypeOK, NEW c \in Conn, JoinSend(c)
  PROVE  TypeOK'
<1> DEFINE r == job[c].room
           msg == Member(r, job[c].roster)
           pushed == {Deliver(S, rooms[r].kind, msg) : S \in SUBSET Conn}
<1>1. seq' \in Nat /\ seq' >= seq /\ Minted' = Minted
  BY SameIds DEF JoinSend
<1>2. r \in Minted
  BY JobRoom DEF JoinSend, RoomPCs, PCs
<1>3. view' \in [Conn -> [Kind -> Slot]]
  <2>1. job[c].roster \in SUBSET Id /\ job[c].peers \in SUBSET Conn
    BY JobFacts DEF Job
  <2>2. msg \in Message
    BY <1>2, <2>1, RoomFacts, MessageType
  <2>3. \A S \in SUBSET Conn : Deliver(S, rooms[r].kind, msg) \in [Conn -> [Kind -> Slot]]
    BY <1>2, <2>2, RoomFacts, DeliverType
  <2>4. \/ view' = Deliver(job[c].peers, rooms[r].kind, msg)
        \/ view' = Deliver(job[c].peers \cup {c}, rooms[r].kind, msg)
    BY DEF JoinSend
  <2> HIDE DEF msg
  <2> QED
    BY <2>1, <2>3, <2>4
<1>4. refresh' \in [Conn -> 0 .. seq']
  <2>1. refresh' = refresh \/ refresh' = Stopped(r)
    BY DEF JoinSend
  <2>2. Stopped(r) \in [Conn -> 0 .. seq] /\ refresh \in [Conn -> 0 .. seq] /\ seq' = seq
    BY StoppedType DEF TypeOK, JoinSend
  <2> QED
    BY <2>1, <2>2
<1>5. Threads'
  <2>1. job[c] \in Job
    BY JobFacts
  <2>2. CASE Return(c)
    BY <1>1, <2>2, ReturnType
  <2>3. CASE Goto(c, "join_reg", job[c])
    <3>1. job[c].mid # 0
      <4>1. JobOK(pc[c], job[c], Minted) /\ pc[c] = "join_send"
        BY JobFacts DEF JoinSend
      <4> QED
        BY <4>1 DEF JobOK, MidPCs
    <3> QED
      BY <1>1, <1>2, <2>1, <2>3, <3>1, WorkType DEF PCs
  <2>4. CASE Goto(c, "fin", job[c])
    BY <1>1, <1>2, <2>1, <2>4, WorkType DEF PCs, MidPCs
  <2> QED
    BY <2>2, <2>3, <2>4 DEF JoinSend
<1>6. active' \subseteq Minted /\ blobs' \subseteq Id \X Id
  BY DEF TypeOK, JoinSend, Purged
<1> QED
  BY <1>1, <1>3, <1>4, <1>5, <1>6 DEF TypeOK, JoinSend, Threads

LEMMA JoinRegisterType ==
  ASSUME TypeOK, NEW c \in Conn, JoinRegister(c)
  PROVE  TypeOK'
<1> DEFINE r == job[c].room
           keepalive == Refresher(r, rooms[r].kind, job[c].roster)
<1>1. seq' \in Nat /\ seq' >= seq /\ Minted' = Minted
  BY SameIds DEF JoinRegister
<1>2. r \in Minted
  BY JobRoom DEF JoinRegister, RoomPCs, PCs
<1>3. rooms' \in [Minted' -> Room]
  <2>1. job[c].mid \in Nat /\ job[c].roster \in SUBSET Id
    BY JobFacts DEF Job
  <2>2. With(rooms[r], c, job[c].mid, job[c].roster) \in Room
    BY <1>2, <2>1, RoomFacts, WithType
  <2>3. rooms' = [rooms EXCEPT ![r] = With(@, c, job[c].mid, job[c].roster)]
    BY DEF JoinRegister
  <2>4. rooms \in [Minted -> Room]
    BY DEF TypeOK
  <2> QED
    BY <1>1, <1>2, <2>2, <2>3, <2>4
<1>4. refresh' \in [Conn -> 0 .. seq']
  <2>1. keepalive \in 0 .. seq
    BY <1>2, RefresherType
  <2>2. refresh' = [refresh EXCEPT ![rooms[r].anchor] = keepalive, ![c] = keepalive]
    BY DEF JoinRegister
  <2>3. refresh \in [Conn -> 0 .. seq] /\ seq' = seq
    BY DEF TypeOK, JoinRegister
  <2> HIDE DEF keepalive
  <2> QED
    BY <2>1, <2>2, <2>3
<1>5. Threads'
  BY <1>1, ReturnType DEF JoinRegister
<1> QED
  BY <1>1, <1>3, <1>4, <1>5 DEF TypeOK, JoinRegister, Threads

(* Departures                                                               *)
LEMMA AfterRetireType == \A j : AfterRetire(j) \in {"close", "depart"}
  BY DEF AfterRetire

LEMMA LeaveType ==
  ASSUME TypeOK, NEW c \in Conn, NEW r \in Minted, Leave(c, r)
  PROVE  TypeOK'
<1>1. seq' \in Nat /\ seq' >= seq /\ Minted' = Minted
  BY SameIds DEF Leave
<1>2. active \subseteq Minted /\ Minted \subseteq Id
  BY JobFacts DEF TypeOK
<1>3. PICK retired \in SUBSET Minted :
        /\ active' = active \ retired
        /\ Goto(c, AfterRetire([job[c] EXCEPT !.room = r, !.seed = TRUE, !.closing = retired]),
                [job[c] EXCEPT !.room = r, !.seed = TRUE, !.closing = retired])
  <2> DEFINE public == {p \in OwnedBy(c) : rooms[p].public}
             gone == IF r \in OwnedBy(c) THEN {r}
                     ELSE {p \in public : \A q \in public : p <= q}
  <2>1. gone \in SUBSET Minted
    BY <1>2 DEF OwnedBy
  <2> QED
    BY <2>1 DEF Leave
<1> DEFINE j == [job[c] EXCEPT !.room = r, !.seed = TRUE, !.closing = retired]
<1>4. j \in Job /\ j.room = r /\ j.closing = retired /\ j.left = job[c].left
  <2>1. retired \in SUBSET Id /\ r \in Nat
    BY <1>2, RoomFacts
  <2>2. [[[job[c] EXCEPT !.room = r] EXCEPT !.seed = TRUE] EXCEPT !.closing = retired] \in Job
    BY <2>1, FieldUpdate, JobFacts
  <2> QED
    BY <2>2, JobFacts DEF Job
<1>5. view' \in [Conn -> [Kind -> Slot]]
  <2>1. RoomGone(r) \in Message
    BY RoomFacts, MessageType, 0 \in Nat, {} \in SUBSET Id
  <2>2. Deliver({c}, rooms[r].kind, RoomGone(r)) \in [Conn -> [Kind -> Slot]]
    BY <2>1, RoomFacts, DeliverType
  <2> QED
    BY <2>2 DEF Leave
<1>6. Threads'
  <2>1. Goto(c, AfterRetire(j), j)
    BY <1>3
  <2> HIDE DEF j
  <2>2. AfterRetire(j) \in {"close", "depart"}
    BY AfterRetireType
  <2>3. JobOK(pc[c], job[c], Minted)
    BY JobFacts
  <2>4. JobOK(AfterRetire(j), j, Minted')
    BY <1>1, <1>3, <1>4, <2>2, <2>3 DEF JobOK, MidPCs
  <2>5. AfterRetire(j) \in PCs
    BY <2>2 DEF PCs
  <2> QED
    BY <1>1, <1>4, <2>1, <2>4, <2>5, GotoType
<1>7. refresh' \in [Conn -> 0 .. seq']
  BY <1>1 DEF TypeOK, Leave
<1> QED
  BY <1>1, <1>3, <1>5, <1>6, <1>7 DEF TypeOK, Leave, Threads

LEMMA FinallyType ==
  ASSUME TypeOK, NEW c \in Conn, Finally(c)
  PROVE  TypeOK'
<1> DEFINE j == [NoJob(c) EXCEPT !.all = TRUE, !.fin = TRUE, !.closing = OwnedBy(c)]
<1>1. seq' \in Nat /\ seq' >= seq /\ Minted' = Minted
  BY SameIds DEF Finally
<1>2. OwnedBy(c) \in SUBSET Minted /\ OwnedBy(c) \in SUBSET Id
  BY JobFacts DEF TypeOK, OwnedBy
<1>3. j \in Job /\ ~ j.seed /\ j.closing = OwnedBy(c) /\ j.left = {}
  <2>1. [[[NoJob(c) EXCEPT !.all = TRUE] EXCEPT !.fin = TRUE] EXCEPT !.closing = OwnedBy(c)] \in Job
    BY <1>2, FieldUpdate, NoJobType
  <2> QED
    BY <2>1 DEF NoJob
<1>4. Threads'
  <2>1. Goto(c, AfterRetire(j), j)
    BY DEF Finally
  <2> HIDE DEF j
  <2>2. AfterRetire(j) \in {"close", "depart"}
    BY AfterRetireType
  <2>3. JobOK(AfterRetire(j), j, Minted')
    BY <1>1, <1>2, <1>3, <2>2 DEF JobOK, MidPCs
  <2>4. AfterRetire(j) \in PCs
    BY <2>2 DEF PCs
  <2> QED
    BY <1>1, <1>3, <2>1, <2>3, <2>4, GotoType
<1>5. refresh' \in [Conn -> 0 .. seq']
  BY <1>1 DEF TypeOK, Finally
<1> QED
  BY <1>1, <1>4, <1>5 DEF TypeOK, Finally, Threads

LEMMA CloseRoomType ==
  ASSUME TypeOK, NEW c \in Conn, NEW r \in Minted, CloseRoom(c, r)
  PROVE  TypeOK'
<1> DEFINE j == [job[c] EXCEPT !.closing = @ \ {r}]
<1>1. seq' \in Nat /\ seq' >= seq /\ Minted' = Minted
  BY SameIds DEF CloseRoom
<1>2. /\ j \in Job /\ j.seed = job[c].seed /\ j.closing = job[c].closing \ {r}
      /\ j.room = job[c].room /\ j.left = job[c].left
  <2>1. job[c].closing \ {r} \in SUBSET Id
    BY JobFacts DEF Job
  <2>2. j \in Job
    BY <2>1, FieldUpdate, JobFacts
  <2> QED
    BY <2>2, JobFacts DEF Job
<1>3. Threads'
  <2>1. Goto(c, AfterRetire(j), j)
    BY DEF CloseRoom
  <2>2. JobOK(pc[c], job[c], Minted)
    BY JobFacts
  <2> HIDE DEF j
  <2>3. AfterRetire(j) \in {"close", "depart"}
    BY AfterRetireType
  <2>4. JobOK(AfterRetire(j), j, Minted')
    BY <1>1, <1>2, <2>2, <2>3 DEF JobOK, MidPCs
  <2>5. AfterRetire(j) \in PCs
    BY <2>3 DEF PCs
  <2> QED
    BY <1>1, <1>2, <2>1, <2>4, <2>5, GotoType
<1>4. view' \in [Conn -> [Kind -> Slot]]
  <2>1. RoomGone(r) \in Message
    BY RoomFacts, MessageType, 0 \in Nat, {} \in SUBSET Id
  <2>2. PeersOf(r) \ {c} \in SUBSET Conn
    BY DEF PeersOf
  <2>3. Deliver(PeersOf(r) \ {c}, rooms[r].kind, RoomGone(r)) \in [Conn -> [Kind -> Slot]]
    BY <2>1, <2>2, RoomFacts, DeliverType
  <2> QED
    BY <2>3 DEF CloseRoom
<1>5. refresh' \in [Conn -> 0 .. seq']
  <2>1. Stopped(r) \in [Conn -> 0 .. seq] /\ seq' = seq
    BY StoppedType DEF CloseRoom
  <2>2. PICK n \in {0, Stopped(r)[c]} : refresh' = [Stopped(r) EXCEPT ![c] = n]
    BY DEF CloseRoom
  <2> QED
    BY <1>1, <2>1, <2>2
<1>6. blobs' \subseteq Id \X Id
  BY DEF TypeOK, CloseRoom, Purged
<1> QED
  BY <1>1, <1>3, <1>4, <1>5, <1>6 DEF TypeOK, CloseRoom, Threads

LEMMA CloseRaisesType ==
  ASSUME TypeOK, NEW c \in Conn, NEW r \in Minted, CloseRaises(c, r)
  PROVE  TypeOK'
<1>1. seq' \in Nat /\ seq' >= seq /\ Minted' = Minted
  BY SameIds DEF CloseRaises
<1>2. Threads'
  <2>1. JobOK(pc[c], job[c], Minted) /\ job[c] \in Job
    BY JobFacts
  <2>2. JobOK("fin", job[c], Minted') /\ "fin" \in PCs
    BY <1>1, <2>1 DEF JobOK, MidPCs, PCs
  <2>3. JobOK("done", NoJob(c), Minted') /\ NoJob(c) \in Job /\ "done" \in PCs
    BY NoJobType DEF JobOK, NoJob, MidPCs, PCs
  <2> QED
    BY <1>1, <2>1, <2>2, <2>3, GotoType DEF CloseRaises
<1>3. view' \in [Conn -> [Kind -> Slot]]
  <2>1. RoomGone(r) \in Message
    BY RoomFacts, MessageType, 0 \in Nat, {} \in SUBSET Id
  <2>2. PICK told \in SUBSET (PeersOf(r) \ {c}) : view' = Deliver(told, rooms[r].kind, RoomGone(r))
    BY DEF CloseRaises
  <2>3. told \in SUBSET Conn
    BY DEF PeersOf
  <2>4. Deliver(told, rooms[r].kind, RoomGone(r)) \in [Conn -> [Kind -> Slot]]
    BY <2>1, <2>3, RoomFacts, DeliverType
  <2> QED
    BY <2>2, <2>4
<1> QED
  BY <1>1, <1>2, <1>3 DEF TypeOK, CloseRaises, Threads

LEMMA GoOnType ==
  ASSUME TypeOK, NEW c \in Conn, NEW j \in Job, GoOn(c, j), seq' = seq,
         JobOK("tell", j, Minted)
  PROVE  Threads' /\ sock' \in [Conn -> {"up", "lost", "closed"}]
<1>1. seq' \in Nat /\ seq' >= seq /\ Minted' = Minted
  BY SameIds
<1>2. sock \in [Conn -> {"up", "lost", "closed"}]
  BY DEF TypeOK
<1>3. CASE Goto(c, "tell", j) /\ UNCHANGED sock
  BY <1>1, <1>2, <1>3, GotoType DEF PCs
<1>4. CASE Finish(c)
  <2>1. JobOK("done", NoJob(c), Minted') /\ "done" \in PCs
    BY DEF JobOK, NoJob, MidPCs, PCs
  <2> QED
    BY <1>1, <1>2, <1>4, <2>1, NoJobType, GotoType DEF Finish
<1>5. CASE j.seed /\ Goto(c, "seed_send", j) /\ UNCHANGED sock
  <2>1. JobOK("seed_send", j, Minted') /\ "seed_send" \in PCs
    BY <1>1, <1>5 DEF JobOK, MidPCs, PCs
  <2> QED
    BY <1>1, <1>2, <1>5, <2>1, GotoType
<1>6. CASE Return(c) /\ UNCHANGED sock
  BY <1>1, <1>2, <1>6, ReturnType
<1> QED
  BY <1>3, <1>4, <1>5, <1>6 DEF GoOn

LEMMA DepartType ==
  ASSUME TypeOK, NEW c \in Conn, Depart(c)
  PROVE  TypeOK'
<1> DEFINE k == job[c].who
           hit == {r \in active : rooms[r].conns[k] # 0 /\ (job[c].all \/ r = job[c].room)}
           gone == {<<r, rooms[r].conns[k]>> : r \in hit}
           party == \E r \in hit : rooms[r].kind = "party"
           j == [job[c] EXCEPT !.left = gone, !.seed = @ /\ party]
<1>1. seq' \in Nat /\ seq' >= seq /\ Minted' = Minted /\ seq' = seq
  BY SameIds DEF Depart
<1>2. k \in Conn /\ hit \in SUBSET Minted
  BY JobFacts DEF TypeOK, Job
<1>3. gone \in SUBSET (Id \X Id) /\ \A d \in gone : d[1] \in Minted
  <2>1. \A r \in hit : r \in Id /\ r \in Minted /\ rooms[r].conns[k] \in Id
    BY <1>2, RoomFacts DEF Id
  <2> HIDE DEF hit, k
  <2> QED
    BY <2>1
<1>4. rooms' \in [Minted' -> Room]
  <2>1. rooms' = [r \in Minted |-> IF r \in hit THEN Without(rooms[r], k) ELSE rooms[r]]
    BY DEF Depart
  <2>2. \A r \in Minted : Without(rooms[r], k) \in Room /\ rooms[r] \in Room
    BY <1>2, RoomFacts, WithoutType
  <2> HIDE DEF hit, k
  <2> QED
    BY <1>1, <2>1, <2>2
<1>5. /\ j \in Job /\ j.left = gone /\ j.seed = (job[c].seed /\ party)
      /\ j.closing = job[c].closing /\ j.room = job[c].room
  <2> HIDE DEF gone, party
  <2>1. job[c].seed \in BOOLEAN /\ (job[c].seed /\ party) \in BOOLEAN
    BY JobFacts DEF Job
  <2>2. [[job[c] EXCEPT !.left = gone] EXCEPT !.seed = (job[c].seed /\ party)] \in Job
    BY <1>3, <2>1, FieldUpdate, JobFacts
  <2> QED
    BY <2>2, JobFacts DEF Job
<1>6. JobOK("tell", j, Minted)
  <2>1. JobOK(pc[c], job[c], Minted)
    BY JobFacts
  <2>2. job[c].seed \in BOOLEAN
    BY JobFacts DEF Job
  <2> HIDE DEF j, gone, party
  <2> QED
    BY <1>3, <1>5, <2>1, <2>2 DEF JobOK, MidPCs
<1>7. GoOn(c, j) /\ blobs' = Forgotten(gone) /\ UNCHANGED <<active, refresh, view>>
  BY DEF Depart
<1>8. Threads' /\ sock' \in [Conn -> {"up", "lost", "closed"}]
  <2> HIDE DEF j
  <2> QED
    BY <1>1, <1>5, <1>6, <1>7, GoOnType
<1>9. blobs' \subseteq Id \X Id
  BY <1>7 DEF TypeOK, Forgotten
<1> QED
  BY <1>1, <1>4, <1>7, <1>8, <1>9 DEF TypeOK, Threads

LEMMA TellDepartureType ==
  ASSUME TypeOK, NEW c \in Conn, NEW d \in job[c].left, TellDeparture(c, d[1], d[2])
  PROVE  TypeOK'
<1> DEFINE r == d[1]
           j == [job[c] EXCEPT !.left = @ \ {<<d[1], d[2]>>}]
           keepalive == Refresher(r, rooms[r].kind, rooms[r].members)
<1>1. seq' \in Nat /\ seq' >= seq /\ Minted' = Minted /\ seq' = seq
  BY SameIds DEF TellDeparture
<1>2. d \in Id \X Id /\ r \in Minted /\ d[2] \in Nat
  <2>1. job[c].left \in SUBSET (Id \X Id)
    BY JobFacts DEF Job
  <2>2. JobOK(pc[c], job[c], Minted)
    BY JobFacts
  <2> QED
    BY <2>1, <2>2 DEF JobOK, Id
<1>3. /\ j \in Job /\ j.left = job[c].left \ {<<d[1], d[2]>>}
      /\ j.seed = job[c].seed /\ j.room = job[c].room /\ j.closing = job[c].closing
  <2>1. job[c].left \ {<<d[1], d[2]>>} \in SUBSET (Id \X Id)
    BY JobFacts DEF Job
  <2>2. j \in Job
    BY <2>1, FieldUpdate, JobFacts
  <2> QED
    BY <2>2, JobFacts DEF Job
<1>4. JobOK("tell", j, Minted)
  <2>1. JobOK(pc[c], job[c], Minted) /\ pc[c] = "tell"
    BY JobFacts DEF TellDeparture
  <2> HIDE DEF j
  <2> QED
    BY <1>3, <2>1 DEF JobOK, MidPCs
<1>5. Threads' /\ sock' \in [Conn -> {"up", "lost", "closed"}]
  <2>1. GoOn(c, j)
    BY DEF TellDeparture
  <2> HIDE DEF j
  <2> QED
    BY <1>1, <1>3, <1>4, <2>1, GoOnType
<1>6. view' \in [Conn -> [Kind -> Slot]]
  <2>1. RoomLeave(r, d[2]) \in Message
    BY <1>2, RoomFacts, MessageType, {} \in SUBSET Id
  <2>2. PeersOf(r) \in SUBSET Conn
    BY DEF PeersOf
  <2>3. Deliver(PeersOf(r), rooms[r].kind, RoomLeave(r, d[2])) \in [Conn -> [Kind -> Slot]]
    BY <1>2, <2>1, <2>2, RoomFacts, DeliverType
  <2> QED
    BY <2>3 DEF TellDeparture
<1>7. refresh' \in [Conn -> 0 .. seq']
  <2>1. keepalive \in 0 .. seq
    BY <1>2, RefresherType
  <2>2. refresh' = [refresh EXCEPT ![rooms[r].anchor] = keepalive]
    BY DEF TellDeparture
  <2>3. refresh \in [Conn -> 0 .. seq]
    BY DEF TypeOK
  <2> HIDE DEF keepalive
  <2> QED
    BY <1>1, <2>1, <2>2, <2>3
<1> QED
  BY <1>1, <1>5, <1>6, <1>7 DEF TypeOK, TellDeparture, Threads

LEMMA SeedSendType ==
  ASSUME TypeOK, NEW c \in Conn, SeedSend(c)
  PROVE  TypeOK'
<1> DEFINE k == job[c].who
           j == [job[c] EXCEPT !.room = seq + 1]
           msg == Member(seq + 1, {MEMBER_ID})
<1>1. seq' \in Nat /\ seq' >= seq /\ Minted' = 1 .. seq + 1 /\ seq + 1 \in Id
      /\ seq + 1 \in Minted' /\ Minted \subseteq Minted'
  BY DEF TypeOK, SeedSend, Minted, Id
<1>2. job[c].room \in Minted /\ k \in Conn
  BY JobRoom, JobFacts DEF SeedSend, RoomPCs, PCs, Job
<1>3. rooms' \in [Minted' -> Room]
  <2>1. SoloRoom(k, "party", FALSE, rooms[job[c].room].cap) \in Room
    BY <1>2, RoomFacts, SoloRoomType DEF Kind
  <2> QED
    BY <2>1, <1>1, JobFacts DEF SeedSend
<1>4. view' \in [Conn -> [Kind -> Slot]]
  <2>1. msg \in Message
    BY <1>1, MessageType, 0 \in Nat DEF MEMBER_ID, Id
  <2>2. Deliver({k}, "party", msg) \in [Conn -> [Kind -> Slot]]
    BY <1>2, <2>1, DeliverType DEF Kind
  <2>3. view \in [Conn -> [Kind -> Slot]]
    BY DEF TypeOK
  <2> QED
    BY <2>2, <2>3 DEF SeedSend
<1>5. Threads'
  <2>1. CASE Return(c)
    BY <1>1, <2>1, ReturnType
  <2>2. CASE Goto(c, "seed_reg", j)
    <3>1. j \in Job
      BY <1>1, FieldUpdate, JobFacts DEF Id
    <3>2. j.room = seq + 1 /\ j.closing = job[c].closing /\ j.left = job[c].left
      BY JobFacts DEF Job
    <3>3. "seed_reg" \in PCs /\ "seed_reg" \notin MidPCs
      BY DEF PCs, MidPCs
    <3> HIDE DEF j
    <3> QED
      BY <1>1, <2>2, <3>1, <3>2, <3>3, WorkType
  <2> QED
    BY <2>1, <2>2 DEF SeedSend
<1>6. refresh' \in [Conn -> 0 .. seq']
  BY <1>1 DEF TypeOK, SeedSend
<1> QED
  BY <1>1, <1>3, <1>4, <1>5, <1>6 DEF TypeOK, SeedSend, Threads

LEMMA SeedRegisterType ==
  ASSUME TypeOK, NEW c \in Conn, SeedRegister(c)
  PROVE  TypeOK'
<1>1. seq' \in Nat /\ seq' >= seq /\ Minted' = Minted
  BY SameIds DEF SeedRegister
<1>2. job[c].room \in Minted
  BY JobRoom DEF SeedRegister, RoomPCs, PCs
<1>3. Threads'
  BY <1>1, ReturnType DEF SeedRegister
<1> QED
  BY <1>1, <1>2, <1>3 DEF TypeOK, SeedRegister, Threads

(* Kickout                                                                  *)
LEMMA KickType ==
  ASSUME TypeOK, NEW c \in Conn, NEW r \in Minted, NEW m \in Mid, Kick(c, r, m)
  PROVE  TypeOK'
<1>1. seq' \in Nat /\ seq' >= seq /\ Minted' = Minted
  BY SameIds DEF Kick
<1>2. PICK k \in Conn : Goto(c, "kick_send", [job[c] EXCEPT !.room = r, !.who = k, !.seed = TRUE])
  BY DEF Kick, PeersOf
<1> DEFINE j == [job[c] EXCEPT !.room = r, !.who = k, !.seed = TRUE]
<1>3. j \in Job /\ j.room = r /\ j.closing = job[c].closing /\ j.left = job[c].left
  <2>1. [[[job[c] EXCEPT !.room = r] EXCEPT !.who = k] EXCEPT !.seed = TRUE] \in Job
    BY RoomFacts, FieldUpdate, JobFacts
  <2> QED
    BY <2>1, JobFacts DEF Job
<1>4. Threads'
  <2>1. Goto(c, "kick_send", j)
    BY <1>2
  <2>2. "kick_send" \in PCs /\ "kick_send" \notin MidPCs
    BY DEF PCs, MidPCs
  <2> HIDE DEF j
  <2> QED
    BY <1>1, <1>3, <2>1, <2>2, WorkType
<1> QED
  BY <1>1, <1>4 DEF TypeOK, Kick, Threads

LEMMA RejectType ==
  ASSUME TypeOK, NEW c \in Conn, NEW r, Reject(c, r), job[c].room \in Minted, seq' = seq
  PROVE  Threads'
<1>1. seq' \in Nat /\ seq' >= seq /\ Minted' = Minted
  BY SameIds
<1>2. CASE Return(c)
  BY <1>1, <1>2, ReturnType
<1>3. CASE Goto(c, "fin", job[c])
  BY <1>1, <1>3, JobFacts, WorkType DEF PCs, MidPCs
<1> QED
  BY <1>2, <1>3 DEF Reject

LEMMA KickSendType ==
  ASSUME TypeOK, NEW c \in Conn, KickSend(c)
  PROVE  TypeOK'
<1> DEFINE r == job[c].room
<1>1. seq' \in Nat /\ seq' >= seq /\ Minted' = Minted /\ seq' = seq
  BY SameIds DEF KickSend
<1>2. r \in Minted /\ job[c] \in Job
  BY JobRoom, JobFacts DEF KickSend, RoomPCs, PCs
<1>3. Threads'
  <2>1. CASE Goto(c, "depart", job[c])
    BY <1>1, <1>2, <2>1, WorkType DEF PCs, MidPCs
  <2>2. CASE Reject(c, r)
    BY <1>1, <1>2, <2>2, RejectType
  <2> QED
    BY <2>1, <2>2 DEF KickSend
<1>4. view' \in [Conn -> [Kind -> Slot]]
  <2>1. RoomGone(r) \in Message
    BY <1>2, RoomFacts, MessageType, 0 \in Nat, {} \in SUBSET Id
  <2>2. {job[c].who} \in SUBSET Conn
    BY <1>2 DEF Job
  <2>3. Deliver({job[c].who}, rooms[r].kind, RoomGone(r)) \in [Conn -> [Kind -> Slot]]
    BY <1>2, <2>1, <2>2, RoomFacts, DeliverType
  <2>4. view \in [Conn -> [Kind -> Slot]]
    BY DEF TypeOK
  <2> QED
    BY <2>3, <2>4 DEF KickSend
<1> QED
  BY <1>1, <1>3, <1>4 DEF TypeOK, KickSend, Threads

LEMMA LateKickType ==
  ASSUME TypeOK, NEW c \in Conn, NEW r \in Minted, NEW m \in Mid, LateKick(c, r, m)
  PROVE  TypeOK'
<1>1. seq' \in Nat /\ seq' >= seq /\ Minted' = Minted
  BY SameIds DEF LateKick
<1>2. PICK k \in Conn : Goto(c, "depart", [job[c] EXCEPT !.room = r, !.who = k])
  BY DEF LateKick, PeersOf
<1> DEFINE j == [job[c] EXCEPT !.room = r, !.who = k]
<1>3. j \in Job /\ j.room = r /\ j.closing = job[c].closing /\ j.left = job[c].left
  <2>1. [[job[c] EXCEPT !.room = r] EXCEPT !.who = k] \in Job
    BY RoomFacts, FieldUpdate, JobFacts
  <2> QED
    BY <2>1, JobFacts DEF Job
<1>4. Threads'
  <2>1. Goto(c, "depart", j)
    BY <1>2
  <2>2. "depart" \in PCs /\ "depart" \notin MidPCs
    BY DEF PCs, MidPCs
  <2> HIDE DEF j
  <2> QED
    BY <1>1, <1>3, <2>1, <2>2, WorkType
<1> QED
  BY <1>1, <1>4 DEF TypeOK, LateKick, Threads

(* Promote and SetPartyData                                                 *)
LEMMA PromoteType ==
  ASSUME TypeOK, NEW c \in Conn, NEW r \in Minted, NEW m \in Mid, Promote(c, r, m)
  PROVE  TypeOK'
<1> DEFINE j == [job[c] EXCEPT !.room = r, !.mid = m, !.peers = PeersOf(r)]
<1>1. seq' \in Nat /\ seq' >= seq /\ Minted' = Minted
  BY SameIds DEF Promote
<1>2. m \in Nat /\ m # 0
  BY DEF Mid
<1>3. j \in Job /\ j.room = r /\ j.mid = m /\ j.closing = job[c].closing /\ j.left = job[c].left
  <2>1. PeersOf(r) \in SUBSET Conn
    BY DEF PeersOf
  <2>2. [[[job[c] EXCEPT !.room = r] EXCEPT !.mid = m] EXCEPT !.peers = PeersOf(r)] \in Job
    BY <1>2, <2>1, RoomFacts, FieldUpdate, JobFacts
  <2> QED
    BY <2>2, JobFacts DEF Job
<1>4. Threads'
  <2>1. Goto(c, "promote_check", j)
    BY DEF Promote
  <2>2. "promote_check" \in PCs
    BY DEF PCs
  <2> HIDE DEF j
  <2> QED
    BY <1>1, <1>2, <1>3, <2>1, <2>2, WorkType
<1> QED
  BY <1>1, <1>4 DEF TypeOK, Promote, Threads

LEMMA PromoteCheckType ==
  ASSUME TypeOK, NEW c \in Conn, PromoteCheck(c)
  PROVE  TypeOK'
<1> DEFINE r == job[c].room
<1>1. seq' \in Nat /\ seq' >= seq /\ Minted' = Minted /\ seq' = seq
  BY SameIds DEF PromoteCheck
<1>2. r \in Minted /\ job[c] \in Job
  BY JobRoom, JobFacts DEF PromoteCheck, RoomPCs, PCs
<1>3. Threads'
  <2>1. CASE Goto(c, "promote_set", job[c])
    <3>1. JobOK(pc[c], job[c], Minted) /\ pc[c] = "promote_check"
      BY JobFacts DEF PromoteCheck
    <3>2. job[c].mid # 0
      BY <3>1 DEF JobOK, MidPCs
    <3> QED
      BY <1>1, <1>2, <2>1, <3>2, WorkType DEF PCs
  <2>2. CASE Reject(c, r)
    BY <1>1, <1>2, <2>2, RejectType
  <2> QED
    BY <2>1, <2>2 DEF PromoteCheck
<1> QED
  BY <1>1, <1>3 DEF TypeOK, PromoteCheck, Threads

LEMMA PromoteSetType ==
  ASSUME TypeOK, NEW c \in Conn, PromoteSet(c)
  PROVE  TypeOK'
<1> DEFINE r == job[c].room
<1>1. seq' \in Nat /\ seq' >= seq /\ Minted' = Minted /\ seq' = seq
  BY SameIds DEF PromoteSet
<1>2. r \in Minted /\ job[c] \in Job
  BY JobRoom, JobFacts DEF PromoteSet, RoomPCs, PCs
<1>3. job[c].mid \in Id
  <2>1. JobOK(pc[c], job[c], Minted) /\ pc[c] = "promote_set"
    BY JobFacts DEF PromoteSet
  <2>2. job[c].mid # 0
    BY <2>1 DEF JobOK, MidPCs
  <2> QED
    BY <1>2, <2>2 DEF Job, Id
<1>4. rooms' \in [Minted' -> Room]
  <2>1. [rooms[r] EXCEPT !.owner = job[c].mid] \in Room
    BY <1>2, <1>3, RoomFacts DEF Room
  <2>2. rooms' = [rooms EXCEPT ![r].owner = job[c].mid]
    BY DEF PromoteSet
  <2>3. rooms \in [Minted -> Room]
    BY DEF TypeOK
  <2> QED
    BY <1>1, <1>2, <2>1, <2>2, <2>3
<1>5. Threads'
  <2>1. Goto(c, "promote_send", job[c])
    BY DEF PromoteSet
  <2> QED
    BY <1>1, <1>2, <1>3, <2>1, WorkType DEF PCs, Id
<1> QED
  BY <1>1, <1>4, <1>5 DEF TypeOK, PromoteSet, Threads

LEMMA PromoteSendType ==
  ASSUME TypeOK, NEW c \in Conn, PromoteSend(c)
  PROVE  TypeOK'
<1> DEFINE r == job[c].room
           msg == OwnerMember(r, job[c].mid)
<1>1. seq' \in Nat /\ seq' >= seq /\ Minted' = Minted
  BY SameIds DEF PromoteSend
<1>2. r \in Minted /\ job[c] \in Job
  BY JobRoom, JobFacts DEF PromoteSend, RoomPCs, PCs
<1>3. view' \in [Conn -> [Kind -> Slot]]
  <2>1. job[c].mid \in Nat /\ job[c].peers \in SUBSET Conn
    BY <1>2 DEF Job
  <2>2. msg \in Message
    BY <1>2, <2>1, RoomFacts, MessageType, {} \in SUBSET Id
  <2>3. Deliver(job[c].peers, rooms[r].kind, msg) \in [Conn -> [Kind -> Slot]]
    BY <1>2, <2>1, <2>2, RoomFacts, DeliverType
  <2> QED
    BY <2>3 DEF PromoteSend
<1>4. Threads'
  BY <1>1, ReturnType DEF PromoteSend
<1> QED
  BY <1>1, <1>3, <1>4 DEF TypeOK, PromoteSend, Threads

LEMMA SetPartyDataType ==
  ASSUME TypeOK, NEW c \in Conn, NEW r \in Minted, SetPartyData(c, r)
  PROVE  TypeOK'
<1> DEFINE j == [job[c] EXCEPT !.room = r, !.mid = rooms[r].conns[c]]
<1>1. seq' \in Nat /\ seq' >= seq /\ Minted' = Minted
  BY SameIds DEF SetPartyData
<1>2. rooms[r].conns[c] \in Nat /\ rooms[r].conns[c] # 0
  BY RoomFacts DEF SetPartyData, InRoom
<1>3. ASSUME NEW m \in Nat, NEW i, i = [job[c] EXCEPT !.room = r, !.mid = m]
      PROVE  i \in Job /\ i.room = r /\ i.mid = m
             /\ i.closing = job[c].closing /\ i.left = job[c].left
  <2>1. [[job[c] EXCEPT !.room = r] EXCEPT !.mid = m] \in Job
    BY RoomFacts, FieldUpdate, JobFacts
  <2> QED
    BY <1>3, <2>1, JobFacts DEF Job
<1>4. Threads'
  <2>1. Goto(c, "data_cache", j)
    BY DEF SetPartyData
  <2>2. "data_cache" \in PCs
    BY DEF PCs
  <2>3. /\ j \in Job /\ j.room = r /\ j.mid # 0
        /\ j.closing = job[c].closing /\ j.left = job[c].left
    BY <1>2, <1>3
  <2> HIDE DEF j
  <2> QED
    BY <1>1, <2>1, <2>2, <2>3, WorkType
<1> QED
  BY <1>1, <1>4 DEF TypeOK, SetPartyData, Threads

LEMMA CacheDataType ==
  ASSUME TypeOK, NEW c \in Conn, CacheData(c)
  PROVE  TypeOK'
<1>1. seq' \in Nat /\ seq' >= seq /\ Minted' = Minted
  BY SameIds DEF CacheData
<1>2. job[c].room \in Id /\ job[c].mid \in Id
  <2>1. JobOK(pc[c], job[c], Minted) /\ pc[c] = "data_cache" /\ job[c] \in Job
    BY JobFacts DEF CacheData
  <2>2. job[c].mid # 0
    BY <2>1 DEF JobOK, MidPCs
  <2> QED
    BY <2>1, <2>2, JobRoom, RoomFacts DEF RoomPCs, PCs, Job, Id
<1>3. Threads'
  BY <1>1, ReturnType DEF CacheData
<1> QED
  BY <1>1, <1>2, <1>3 DEF TypeOK, CacheData, Threads

LEMMA DropType ==
  ASSUME TypeOK, NEW c \in Conn, Drop(c)
  PROVE  TypeOK'
<1>1. Minted' = Minted
  BY DEF Drop, Minted
<1>2. view' \in [Conn -> [Kind -> Slot]]
  BY DEF TypeOK, Drop, Slot, Empty
<1> QED
  BY <1>1, <1>2 DEF TypeOK, Drop

(* Every step.                                                              *)
LEMMA NextType ==
  ASSUME TypeOK, [Next]_vars
  PROVE  TypeOK'
<1>1. CASE UNCHANGED vars
  BY <1>1 DEF vars, TypeOK, Minted
<1>2. ASSUME NEW c \in Conn, Request(c) PROVE TypeOK'
  BY <1>2, CreateType, JoinType, LeaveType, SetPartyDataType, KickType, LateKickType,
     PromoteType DEF Request
<1>3. ASSUME NEW c \in Conn, Continue(c) PROVE TypeOK'
  BY <1>3, CreateSendType, CreateRegisterType, JoinGateType, JoinSnapshotType,
     JoinSendType, JoinRegisterType, KickSendType, PromoteCheckType, PromoteSetType,
     PromoteSendType, CacheDataType, CloseRoomType, DepartType, TellDepartureType, SeedSendType,
     SeedRegisterType DEF Continue
<1>4. ASSUME NEW c \in Conn, Finally(c) PROVE TypeOK'
  BY <1>4, FinallyType
<1>5. ASSUME NEW c \in Conn, Drop(c) PROVE TypeOK'
  BY <1>5, DropType
<1>6. ASSUME NEW c \in Conn, Raise(c) PROVE TypeOK'
  BY <1>6, CloseRaisesType DEF Raise
<1> QED
  BY <1>1, <1>2, <1>3, <1>4, <1>5, <1>6 DEF Next

(* Every variable of the registry holds what the handlers store in it: no   *)
(* handler is ever left with a room that was not minted or with the id of   *)
(* no member, whatever the others do.                                       *)
THEOREM TypeCorrect == Spec => []TypeOK
<1>1. Init => TypeOK
  BY InitType
<1>2. TypeOK /\ [Next]_vars => TypeOK'
  BY NextType
<1> QED
  BY <1>1, <1>2, PTL DEF Spec

-----------------------------------------------------------------------------
(***************************************************************************)
(* Member ids are unique                                                   *)
(***************************************************************************)

(* The id on its way to a member: only for a room that was minted.          *)
LEMMA ComingType ==
  ASSUME TypeOK, NEW c \in Conn, NEW r
  PROVE  Coming(c, r) \in Nat /\ (r \notin Minted => Coming(c, r) = 0)
<1>1. job[c].mid \in Nat
  BY JobFacts DEF Job
<1>2. pc[c] \in JoiningPCs => job[c].room \in Minted
  BY JobRoom, JobFacts DEF JoiningPCs, RoomPCs, PCs
<1> QED
  BY <1>1, <1>2 DEF Coming

(* A step of a handler that is not given a new id.                          *)
LEMMA ComingStep ==
  ASSUME TypeOK, NEW c \in Conn, NEW l, NEW j, Goto(c, l, j),
         l \in JoiningPCs => /\ pc[c] \in JoiningPCs
                             /\ j.room = job[c].room /\ j.mid = job[c].mid
  PROVE  \A k \in Conn : \A r : Coming(k, r)' \in {0, Coming(k, r)}
<1> SUFFICES ASSUME NEW k \in Conn, NEW r PROVE Coming(k, r)' \in {0, Coming(k, r)}
  OBVIOUS
<1>1. pc' = [pc EXCEPT ![c] = l] /\ job' = [job EXCEPT ![c] = j]
  BY DEF Goto
<1>2. pc \in [Conn -> PCs] /\ job \in [Conn -> Job]
  BY DEF TypeOK
<1>3. CASE k = c
  BY <1>1, <1>2, <1>3 DEF Coming
<1>4. CASE k # c
  <2>1. pc'[k] = pc[k] /\ job'[k] = job[k]
    BY <1>1, <1>2, <1>4
  <2> QED
    BY <2>1 DEF Coming
<1> QED
  BY <1>3, <1>4

(* What such a step does to the rooms: it hands out no id, and a room it    *)
(* mints has its creator in it.                                             *)
NoNewIds ==
  /\ Minted \subseteq Minted'
  /\ \A r \in Minted :
       /\ rooms'[r].next = rooms[r].next
       /\ \A k \in Conn : rooms'[r].conns[k] \in {0, rooms[r].conns[k]}
  /\ \A r \in Minted' \ Minted :
       /\ rooms'[r].next = JOINER_MEMBER_ID
       /\ \E c \in Conn : \A k \in Conn : rooms'[r].conns[k] = IF k = c THEN MEMBER_ID ELSE 0
  /\ \A k \in Conn : \A r : Coming(k, r)' \in {0, Coming(k, r)}

LEMMA UniqueFrame ==
  ASSUME TypeOK, UniqueMemberIds, NoNewIds
  PROVE  UniqueMemberIds'
<1> SUFFICES ASSUME NEW r \in Minted', NEW c \in Conn, NEW d \in Conn
             PROVE  /\ rooms'[r].conns[c] < rooms'[r].next /\ Coming(c, r)' < rooms'[r].next
                    /\ c # d /\ rooms'[r].conns[c] # 0 => rooms'[r].conns[c] # rooms'[r].conns[d]
                    /\ c # d /\ Coming(c, r)' # 0 => Coming(c, r)' # Coming(d, r)'
                    /\ Coming(c, r)' # 0 => Coming(c, r)' # rooms'[r].conns[d]
  BY DEF UniqueMemberIds
<1>1. Coming(c, r)' \in {0, Coming(c, r)} /\ Coming(d, r)' \in {0, Coming(d, r)}
  BY DEF NoNewIds
<1>2. CASE r \in Minted
  <2>1. /\ rooms'[r].next = rooms[r].next
        /\ rooms'[r].conns[c] \in {0, rooms[r].conns[c]}
        /\ rooms'[r].conns[d] \in {0, rooms[r].conns[d]}
    BY <1>2 DEF NoNewIds
  <2>2. rooms[r].next > 0
    BY <1>2, RoomFacts DEF Id
  <2> QED
    BY <1>1, <1>2, <2>1, <2>2 DEF UniqueMemberIds
<1>3. CASE r \notin Minted
  <2>1. Coming(c, r)' = 0 /\ Coming(d, r)' = 0
    BY <1>1, <1>3, ComingType
  <2>2. rooms'[r].next = 2
    BY <1>3 DEF NoNewIds, JOINER_MEMBER_ID
  <2>3. PICK e \in Conn : \A k \in Conn : rooms'[r].conns[k] = IF k = e THEN 1 ELSE 0
    BY <1>3 DEF NoNewIds, MEMBER_ID
  <2> QED
    BY <2>1, <2>2, <2>3
<1> QED
  BY <1>2, <1>3

(* A step that leaves the rooms alone.                                      *)
LEMMA RoomsFrame ==
  ASSUME TypeOK, NEW c \in Conn, NEW l, NEW j, Goto(c, l, j), UNCHANGED <<seq, rooms>>,
         l \in JoiningPCs => /\ pc[c] \in JoiningPCs
                             /\ j.room = job[c].room /\ j.mid = job[c].mid
  PROVE  NoNewIds
<1>1. \A k \in Conn : \A r : Coming(k, r)' \in {0, Coming(k, r)}
  BY ComingStep
<1>2. Minted' = Minted
  BY DEF Minted
<1> QED
  BY <1>1, <1>2 DEF NoNewIds

(* The mints.                                                               *)
LEMMA MintFrame ==
  ASSUME TypeOK, NEW c \in Conn, NEW l, NEW j, Goto(c, l, j), l \notin JoiningPCs,
         seq' = seq + 1,
         NEW k \in Conn, NEW kind, NEW public, NEW cap,
         rooms' = [r \in 1 .. seq + 1 |->
                     IF r \in Minted THEN rooms[r] ELSE SoloRoom(k, kind, public, cap)]
  PROVE  NoNewIds
<1>1. Minted' = 1 .. seq + 1 /\ Minted \subseteq Minted'
  BY DEF TypeOK, Minted
<1>2. \A i \in Conn : \A r : Coming(i, r)' \in {0, Coming(i, r)}
  BY ComingStep
<1>3. ASSUME NEW r \in Minted
      PROVE  /\ rooms'[r].next = rooms[r].next
             /\ \A i \in Conn : rooms'[r].conns[i] \in {0, rooms[r].conns[i]}
  BY <1>1
<1>4. ASSUME NEW r \in Minted' \ Minted
      PROVE  /\ rooms'[r].next = JOINER_MEMBER_ID
             /\ \A i \in Conn : rooms'[r].conns[i] = IF i = k THEN MEMBER_ID ELSE 0
  <2>1. rooms'[r] = SoloRoom(k, kind, public, cap)
    BY <1>1
  <2>2. /\ SoloRoom(k, kind, public, cap).next = JOINER_MEMBER_ID
        /\ SoloRoom(k, kind, public, cap).conns = [i \in Conn |-> IF i = k THEN MEMBER_ID ELSE 0]
    BY DEF SoloRoom
  <2> HIDE DEF SoloRoom
  <2> QED
    BY <2>1, <2>2
<1> QED
  BY <1>1, <1>2, <1>3, <1>4 DEF NoNewIds

LEMMA CreateIds ==
  ASSUME TypeOK, NEW c \in Conn, NEW op \in Creates, NEW cap \in CapInputs, Create(c, op, cap)
  PROVE  NoNewIds
<1> DEFINE kind == IF op = "party" THEN "party" ELSE "game"
           j == [job[c] EXCEPT !.room = seq + 1]
<1>1. /\ Goto(c, "create_send", j) /\ seq' = seq + 1
      /\ rooms' = [r \in 1 .. seq + 1 |->
                     IF r \in Minted THEN rooms[r] ELSE SoloRoom(c, kind, op = "public", Clamp(cap))]
  BY DEF Create
<1>2. "create_send" \notin JoiningPCs
  BY DEF JoiningPCs
<1> HIDE DEF j, kind
<1> QED
  BY <1>1, <1>2, MintFrame

LEMMA SeedSendIds ==
  ASSUME TypeOK, NEW c \in Conn, SeedSend(c)
  PROVE  NoNewIds
<1> DEFINE cap == rooms[job[c].room].cap
<1>0. PICK l \in {"seed_reg", "recv"} : \E j : Goto(c, l, j)
  BY DEF SeedSend, Return
<1>1. PICK j : Goto(c, l, j)
  BY <1>0
<1>2. /\ seq' = seq + 1
      /\ rooms' = [r \in 1 .. seq + 1 |->
                     IF r \in Minted THEN rooms[r] ELSE SoloRoom(job[c].who, "party", FALSE, cap)]
  BY DEF SeedSend
<1>3. l \notin JoiningPCs /\ job[c].who \in Conn
  BY JobFacts DEF JoiningPCs, Job
<1> HIDE DEF cap
<1> QED
  BY <1>1, <1>2, <1>3, MintFrame

LEMMA DepartIds ==
  ASSUME TypeOK, NEW c \in Conn, Depart(c)
  PROVE  NoNewIds
<1>0. PICK l \in {"tell", "done", "seed_send", "recv"} : \E j : Goto(c, l, j)
  BY DEF Depart, GoOn, Finish, Return
<1>1. PICK j : Goto(c, l, j)
  BY <1>0
<1>2. \A k \in Conn : \A r : Coming(k, r)' \in {0, Coming(k, r)}
  BY <1>1, ComingStep DEF JoiningPCs
<1>3. Minted' = Minted
  BY DEF Depart, Minted
<1>4. ASSUME NEW r \in Minted
      PROVE  /\ rooms'[r].next = rooms[r].next
             /\ \A k \in Conn : rooms'[r].conns[k] \in {0, rooms[r].conns[k]}
  <2>1. rooms'[r] \in {rooms[r], Without(rooms[r], job[c].who)}
    BY DEF Depart
  <2>2. rooms[r] \in Room
    BY RoomFacts
  <2>3. /\ Without(rooms[r], job[c].who).next = rooms[r].next
        /\ Without(rooms[r], job[c].who).conns = [rooms[r].conns EXCEPT ![job[c].who] = 0]
    BY <2>2 DEF Without, Room
  <2> QED
    BY <2>1, <2>3, RoomFacts
<1> QED
  BY <1>2, <1>3, <1>4 DEF NoNewIds

LEMMA PromoteSetIds ==
  ASSUME TypeOK, NEW c \in Conn, PromoteSet(c)
  PROVE  NoNewIds
<1> DEFINE r == job[c].room
<1>1. PICK j : Goto(c, "promote_send", j)
  BY DEF PromoteSet
<1>2. \A k \in Conn : \A q : Coming(k, q)' \in {0, Coming(k, q)}
  BY <1>1, ComingStep DEF JoiningPCs
<1>3. Minted' = Minted
  BY DEF PromoteSet, Minted
<1>4. rooms' = [rooms EXCEPT ![r].owner = job[c].mid]
  BY DEF PromoteSet
<1>5. ASSUME NEW q \in Minted
      PROVE  rooms'[q].next = rooms[q].next /\ rooms'[q].conns = rooms[q].conns
  <2>1. rooms'[q] \in {rooms[q], [rooms[q] EXCEPT !.owner = job[c].mid]}
    BY <1>4 DEF TypeOK
  <2>2. rooms[q] \in Room
    BY RoomFacts
  <2> QED
    BY <2>1, <2>2 DEF Room
<1> QED
  BY <1>2, <1>3, <1>5 DEF NoNewIds

(* The handlers that leave the rooms alone.                                 *)
LEMMA OtherIds ==
  ASSUME TypeOK, NEW c \in Conn,
         \/ CreateSend(c) \/ CreateRegister(c) \/ JoinSnapshot(c) \/ JoinSend(c)
         \/ KickSend(c) \/ PromoteCheck(c) \/ PromoteSend(c) \/ CacheData(c) \/ SeedRegister(c)
         \/ Finally(c)
         \/ \E r \in Minted : \/ Join(c, r) \/ Leave(c, r) \/ CloseRoom(c, r)
                              \/ CloseRaises(c, r) \/ SetPartyData(c, r)
                              \/ \E m \in Mid : Kick(c, r, m) \/ LateKick(c, r, m) \/ Promote(c, r, m)
         \/ \E d \in job[c].left : TellDeparture(c, d[1], d[2])
  PROVE  NoNewIds
<1> DEFINE Calm == {"create_reg", "fin", "recv", "join_gate", "depart", "close", "tell", "done",
                    "seed_send", "kick_send", "promote_check", "promote_set", "data_cache"}
<1>1. UNCHANGED <<seq, rooms>>
  BY DEF CreateSend, CreateRegister, JoinSnapshot, JoinSend, KickSend, PromoteCheck, PromoteSend,
         CacheData, SeedRegister, Finally, Join, Leave, CloseRoom, CloseRaises, SetPartyData, Kick,
         LateKick, Promote, TellDeparture
<1>2. CASE \E l \in Calm : \E j : Goto(c, l, j)
  BY <1>1, <1>2, RoomsFrame DEF JoiningPCs
<1>3. CASE JoinSnapshot(c)
  <2> DEFINE j == [job[c] EXCEPT !.roster = rooms[job[c].room].members \cup {job[c].mid},
                                 !.peers = PeersOf(job[c].room)]
  <2>1. Goto(c, "join_send", j) /\ pc[c] \in JoiningPCs
    BY <1>3 DEF JoinSnapshot, JoiningPCs
  <2>2. j.room = job[c].room /\ j.mid = job[c].mid
    BY JobFacts DEF Job
  <2> HIDE DEF j
  <2> QED
    BY <1>1, <2>1, <2>2, RoomsFrame
<1>4. CASE JoinSend(c)
  <2>1. pc[c] \in JoiningPCs
    BY <1>4 DEF JoinSend, JoiningPCs
  <2>2. (\E l \in Calm : \E j : Goto(c, l, j)) \/ Goto(c, "join_reg", job[c])
    BY <1>4 DEF JoinSend, Return
  <2> QED
    BY <1>1, <1>2, <2>1, <2>2, RoomsFrame
<1>5. CASE CreateSend(c)
  BY <1>2, <1>5 DEF CreateSend
<1>6. CASE CreateRegister(c)
  BY <1>2, <1>6 DEF CreateRegister, Return
<1>7. CASE KickSend(c) \/ PromoteCheck(c)
  BY <1>2, <1>7 DEF KickSend, PromoteCheck, Reject, Return
<1>8. CASE PromoteSend(c) \/ CacheData(c) \/ SeedRegister(c)
  BY <1>2, <1>8 DEF PromoteSend, CacheData, SeedRegister, Return
<1>9. CASE Finally(c)
  BY <1>2, <1>9, AfterRetireType DEF Finally
<1>10. CASE \E r \in Minted : Join(c, r) \/ SetPartyData(c, r)
  BY <1>2, <1>10 DEF Join, SetPartyData
<1>11. CASE \E r \in Minted : Leave(c, r)
  <2>1. \E j : Goto(c, AfterRetire(j), j)
    BY <1>11 DEF Leave
  <2> QED
    BY <1>2, <2>1, AfterRetireType
<1>12. CASE \E r \in Minted : CloseRoom(c, r) \/ CloseRaises(c, r)
  BY <1>2, <1>12, AfterRetireType DEF CloseRoom, CloseRaises
<1>13. CASE \E r \in Minted : \E m \in Mid : Kick(c, r, m) \/ LateKick(c, r, m) \/ Promote(c, r, m)
  BY <1>2, <1>13 DEF Kick, LateKick, Promote
<1>14. CASE \E d \in job[c].left : TellDeparture(c, d[1], d[2])
  BY <1>2, <1>14 DEF TellDeparture, GoOn, Finish, Return
<1> QED
  BY <1>3, <1>4, <1>5, <1>6, <1>7, <1>8, <1>9, <1>10, <1>11, <1>12, <1>13, <1>14

LEMMA UniqueJoinGate ==
  ASSUME TypeOK, UniqueMemberIds, NEW c \in Conn, JoinGate(c)
  PROVE  UniqueMemberIds'
<1> DEFINE r == job[c].room
           m == rooms[r].next
           j == [job[c] EXCEPT !.mid = m]
<1>1. Minted' = Minted
  BY DEF JoinGate, Minted
<1>2. CASE Return(c) /\ UNCHANGED rooms
  BY <1>2, RoomsFrame, UniqueFrame DEF JoinGate, Return, JoiningPCs
<1>3. CASE rooms' = [rooms EXCEPT ![r].next = @ + 1] /\ Goto(c, "join_snap", j)
  <2>1. r \in Minted /\ pc[c] = "join_gate" /\ job[c] \in Job
    BY JobRoom, JobFacts DEF JoinGate, RoomPCs, PCs
  <2>2. m \in Nat /\ m > 0
    BY <2>1, RoomFacts DEF Id
  <2>3. pc' = [pc EXCEPT ![c] = "join_snap"] /\ job' = [job EXCEPT ![c] = j]
        /\ pc \in [Conn -> PCs] /\ job \in [Conn -> Job]
    BY <1>3 DEF Goto, TypeOK
  <2>4. j.room = r /\ j.mid = m
    BY <2>1 DEF Job
  <2>5. \A k \in Conn : \A q : Coming(k, q)' = IF k = c /\ q = r THEN m ELSE Coming(k, q)
    <3> SUFFICES ASSUME NEW k \in Conn, NEW q
                 PROVE  Coming(k, q)' = IF k = c /\ q = r THEN m ELSE Coming(k, q)
      OBVIOUS
    <3>1. CASE k = c
      <4>1. pc'[k] = "join_snap" /\ job'[k].room = r /\ job'[k].mid = m
        BY <2>3, <2>4, <3>1
      <4>2. Coming(k, q) = 0
        BY <2>1, <3>1 DEF Coming, JoiningPCs
      <4> QED
        BY <3>1, <4>1, <4>2 DEF Coming, JoiningPCs
    <3>2. CASE k # c
      <4>1. pc'[k] = pc[k] /\ job'[k] = job[k]
        BY <2>3, <3>2
      <4> QED
        BY <3>2, <4>1 DEF Coming
    <3> QED
      BY <3>1, <3>2
  <2>6. ASSUME NEW q \in Minted
        PROVE  rooms'[q].conns = rooms[q].conns
               /\ rooms'[q].next = IF q = r THEN m + 1 ELSE rooms[q].next
    <3>1. rooms'[q] = IF q = r THEN [rooms[q] EXCEPT !.next = @ + 1] ELSE rooms[q]
      BY <1>3 DEF TypeOK
    <3>2. rooms[q] \in Room
      BY RoomFacts
    <3> QED
      BY <3>1, <3>2 DEF Room
  <2>7. SUFFICES ASSUME NEW q \in Minted, NEW e \in Conn, NEW d \in Conn
             PROVE  /\ rooms'[q].conns[e] < rooms'[q].next /\ Coming(e, q)' < rooms'[q].next
                    /\ e # d /\ rooms'[q].conns[e] # 0 => rooms'[q].conns[e] # rooms'[q].conns[d]
                    /\ e # d /\ Coming(e, q)' # 0 => Coming(e, q)' # Coming(d, q)'
                    /\ Coming(e, q)' # 0 => Coming(e, q)' # rooms'[q].conns[d]
    BY <1>1 DEF UniqueMemberIds
  <2>8. \A x \in Conn : rooms[q].conns[x] < rooms[q].next /\ Coming(x, q) < rooms[q].next
                        /\ rooms[q].conns[x] \in Nat /\ Coming(x, q) \in Nat
    BY RoomFacts, ComingType DEF UniqueMemberIds
  <2>9. /\ e # d /\ rooms[q].conns[e] # 0 => rooms[q].conns[e] # rooms[q].conns[d]
        /\ e # d /\ Coming(e, q) # 0 => Coming(e, q) # Coming(d, q)
        /\ Coming(e, q) # 0 => Coming(e, q) # rooms[q].conns[d]
    BY DEF UniqueMemberIds
  <2> HIDE DEF r, m, j
  <2>10. CASE q = r
    <3>1. \A x \in Conn : rooms'[q].conns[x] = rooms[q].conns[x]
                          /\ rooms'[q].next = m + 1 /\ rooms[q].next = m
                          /\ Coming(x, q)' = IF x = c THEN m ELSE Coming(x, q)
      BY <2>5, <2>6, <2>10 DEF m
    <3> QED
      BY <2>2, <2>8, <2>9, <3>1
  <2>11. CASE q # r
    <3>1. \A x \in Conn : rooms'[q].conns[x] = rooms[q].conns[x]
                          /\ rooms'[q].next = rooms[q].next /\ Coming(x, q)' = Coming(x, q)
      BY <2>5, <2>6, <2>11
    <3> QED
      BY <2>8, <2>9, <3>1
  <2> QED
    BY <2>10, <2>11
<1> QED
  BY <1>2, <1>3 DEF JoinGate

LEMMA UniqueJoinRegister ==
  ASSUME TypeOK, UniqueMemberIds, NEW c \in Conn, JoinRegister(c)
  PROVE  UniqueMemberIds'
<1> DEFINE r == job[c].room
           m == job[c].mid
<1>1. Minted' = Minted
  BY DEF JoinRegister, Minted
<1>2. r \in Minted /\ pc[c] = "join_reg" /\ job[c] \in Job
  BY JobRoom, JobFacts DEF JoinRegister, RoomPCs, PCs
<1>3. Coming(c, r) = m
  BY <1>2 DEF Coming, JoiningPCs
<1>4. \A q : Coming(c, q)' = 0
  <2>1. pc'[c] = "recv"
    BY DEF JoinRegister, Return, Goto, TypeOK
  <2> QED
    BY <2>1 DEF Coming, JoiningPCs
<1>5. \A k \in Conn : \A q : k # c => Coming(k, q)' = Coming(k, q)
  <2>1. \A k \in Conn : k # c => pc'[k] = pc[k] /\ job'[k] = job[k]
    BY DEF JoinRegister, Return, Goto, TypeOK
  <2> QED
    BY <2>1 DEF Coming
<1>6. ASSUME NEW q \in Minted, NEW k \in Conn
      PROVE  rooms'[q].conns[k] = (IF q = r /\ k = c THEN m ELSE rooms[q].conns[k])
             /\ rooms'[q].next = rooms[q].next
  <2>1. rooms'[q] = IF q = r THEN With(rooms[q], c, m, job[c].roster) ELSE rooms[q]
    BY DEF JoinRegister, TypeOK
  <2>2. rooms[q] \in Room
    BY RoomFacts
  <2>3. /\ With(rooms[q], c, m, job[c].roster).conns = [rooms[q].conns EXCEPT ![c] = m]
        /\ With(rooms[q], c, m, job[c].roster).next = rooms[q].next
    BY <2>2 DEF With, Room
  <2> QED
    BY <2>1, <2>3, RoomFacts
<1>7. SUFFICES ASSUME NEW q \in Minted, NEW e \in Conn, NEW d \in Conn
             PROVE  /\ rooms'[q].conns[e] < rooms'[q].next /\ Coming(e, q)' < rooms'[q].next
                    /\ e # d /\ rooms'[q].conns[e] # 0 => rooms'[q].conns[e] # rooms'[q].conns[d]
                    /\ e # d /\ Coming(e, q)' # 0 => Coming(e, q)' # Coming(d, q)'
                    /\ Coming(e, q)' # 0 => Coming(e, q)' # rooms'[q].conns[d]
  BY <1>1 DEF UniqueMemberIds
<1>8. \A x \in Conn : rooms[q].conns[x] < rooms[q].next /\ Coming(x, q) < rooms[q].next
                      /\ rooms[q].conns[x] \in Nat /\ Coming(x, q) \in Nat /\ rooms[q].next > 0
  BY RoomFacts, ComingType DEF UniqueMemberIds, Id
<1>9. \A x, y \in Conn :
        /\ x # y /\ rooms[q].conns[x] # 0 => rooms[q].conns[x] # rooms[q].conns[y]
        /\ x # y /\ Coming(x, q) # 0 => Coming(x, q) # Coming(y, q)
        /\ Coming(x, q) # 0 => Coming(x, q) # rooms[q].conns[y]
  BY DEF UniqueMemberIds
<1> HIDE DEF r, m
<1> QED
  BY <1>3, <1>4, <1>5, <1>6, <1>8, <1>9

LEMMA UniqueNext ==
  ASSUME TypeOK, UniqueMemberIds, [Next]_vars
  PROVE  UniqueMemberIds'
<1>1. CASE UNCHANGED vars
  BY <1>1 DEF vars, UniqueMemberIds, Minted, Coming
<1>2. ASSUME NEW c \in Conn, Request(c) PROVE UniqueMemberIds'
  BY <1>2, CreateIds, OtherIds, UniqueFrame DEF Request
<1>3. ASSUME NEW c \in Conn, Continue(c) PROVE UniqueMemberIds'
  <2>1. CASE JoinGate(c)
    BY <2>1, UniqueJoinGate
  <2>2. CASE JoinRegister(c)
    BY <2>2, UniqueJoinRegister
  <2>3. CASE Depart(c) \/ PromoteSet(c) \/ SeedSend(c)
    BY <2>3, DepartIds, PromoteSetIds, SeedSendIds, UniqueFrame
  <2> QED
    BY <1>3, <2>1, <2>2, <2>3, OtherIds, UniqueFrame DEF Continue
<1>4. ASSUME NEW c \in Conn, Finally(c) PROVE UniqueMemberIds'
  BY <1>4, OtherIds, UniqueFrame
<1>5. ASSUME NEW c \in Conn, Drop(c) PROVE UniqueMemberIds'
  BY <1>5 DEF Drop, UniqueMemberIds, Minted, Coming
<1>6. ASSUME NEW c \in Conn, Raise(c) PROVE UniqueMemberIds'
  BY <1>6, OtherIds, UniqueFrame DEF Raise
<1> QED
  BY <1>1, <1>2, <1>3, <1>4, <1>5, <1>6 DEF Next

(* A member id names one member for the life of the room, however the       *)
(* handlers that allocate, announce and register joiners interleave with    *)
(* each other and with departures (session_manager.py:2211-2361).           *)
THEOREM MemberIdsUnique == Spec => []UniqueMemberIds
<1>1. Init => UniqueMemberIds
  BY DEF Init, UniqueMemberIds, Minted
<1>2. TypeOK /\ UniqueMemberIds /\ [Next]_vars => UniqueMemberIds'
  BY UniqueNext
<1> QED
  BY <1>1, <1>2, TypeCorrect, PTL DEF Spec

-----------------------------------------------------------------------------
(***************************************************************************)
(* A kick in progress is the owner's                                       *)
(***************************************************************************)

(* KickAuthority is not inductive: another thread might promote somebody or *)
(* remove the owner.  It cannot: a promotion takes a check that its sender  *)
(* has the owner's id and a removal takes a kick by the owner or a silent   *)
(* peer, and while thread c is between its own check and what the check is  *)
(* for, it rules the room: nobody else holds the owner's id, is about to,   *)
(* or is past such a check of the same room.                                *)
Ruling(c) == Kicking(c) \/ pc[c] = "promote_set"
RuleAlone == \A c, e \in Conn : c # e /\ Ruling(c) /\ Ruling(e) => job[c].room # job[e].room

KickSafe(c) ==
  LET r == job[c].room IN
  /\ rooms[r].owner < rooms[r].next
  /\ \A e \in Conn : /\ e # c => rooms[r].conns[e] # rooms[r].owner
                     /\ Coming(e, r) # rooms[r].owner
  /\ sock[c] = "up" => rooms[r].conns[c] = rooms[r].owner

KickPart(c) ==
  /\ Ruling(c) => KickSafe(c)
  /\ Kicking(c) => ~ job[c].all
  /\ pc[c] = "recv" => job[c] = NoJob(c)
  /\ pc[c] = "close" => job[c].who = c
  /\ pc[c] = "kick_send" => job[c].seed /\ ~ job[c].all
  /\ pc[c] = "depart" /\ ~ job[c].seed /\ job[c].who # c => sock[job[c].who] # "up"
KickInv == RuleAlone /\ \A c \in Conn : KickPart(c)

SocksStay == \A c \in Conn : sock'[c] = "up" => sock[c] = "up"

(* What a step may do to a room another thread rules: it does not change    *)
(* the owner, and nobody comes by a member id but a joiner by a new one.    *)
RoomSafe(r) ==
  /\ rooms'[r].owner = rooms[r].owner /\ rooms'[r].next \in {rooms[r].next, rooms[r].next + 1}
  /\ \A e \in Conn : /\ rooms'[r].conns[e] \in {0, rooms[r].conns[e], Coming(e, r)}
                     /\ Coming(e, r)' \in {0, Coming(e, r), rooms[r].next}

LEMMA KickFrame ==
  ASSUME TypeOK, NEW c \in Conn, NEW r \in Minted, KickSafe(c), SocksStay,
         job[c].room = r, job'[c].room = r, RoomSafe(r),
         sock[c] = "up" => rooms'[r].conns[c] = rooms[r].conns[c]
  PROVE  KickSafe(c)'
<1> DEFINE o == rooms[r].owner
<1>1. o \in Nat /\ o # 0 /\ rooms[r].next \in Nat
  BY RoomFacts DEF Id
<1>2. rooms'[r].owner = o /\ rooms'[r].next \in {rooms[r].next, rooms[r].next + 1} /\ o < rooms[r].next
  BY DEF RoomSafe, KickSafe
<1>3. o < rooms'[r].next
  BY <1>1, <1>2
<1>4. ASSUME NEW e \in Conn
      PROVE  (e # c => rooms'[r].conns[e] # o) /\ Coming(e, r)' # o
  <2>1. (e # c => rooms[r].conns[e] # o) /\ Coming(e, r) # o
    BY DEF KickSafe
  <2>2. /\ rooms'[r].conns[e] \in {0, rooms[r].conns[e], Coming(e, r)}
        /\ Coming(e, r)' \in {0, Coming(e, r), rooms[r].next}
    BY DEF RoomSafe
  <2> QED
    BY <1>1, <1>2, <2>1, <2>2
<1>5. sock'[c] = "up" => rooms'[r].conns[c] = o
  BY DEF SocksStay, KickSafe
<1> QED
  BY <1>2, <1>3, <1>4, <1>5 DEF KickSafe

(* The other threads' parts, after a step of thread d.                      *)
KeepsKicks(d) ==
  \A c \in Conn \ {d} : \A r \in Minted : Ruling(c) /\ job[c].room = r =>
    /\ RoomSafe(r)
    /\ sock[c] = "up" => rooms'[r].conns[c] = rooms[r].conns[c]

(* A thread that rules does so over a room that was minted.                 *)
LEMMA RulingRoom ==
  ASSUME TypeOK, NEW c \in Conn, Ruling(c)
  PROVE  job[c].room \in Minted
  BY JobRoom DEF Ruling, Kicking, RoomPCs, PCs

LEMMA KickOthers ==
  ASSUME TypeOK, KickInv, SocksStay, NEW d \in Conn, NEW l, NEW j, Goto(d, l, j),
         KeepsKicks(d), NEW c \in Conn, c # d
  PROVE  KickPart(c)' /\ (Ruling(c)' => Ruling(c) /\ job'[c].room = job[c].room)
<1>1. pc'[c] = pc[c] /\ job'[c] = job[c] /\ job[c].who \in Conn
  BY JobFacts DEF Goto, TypeOK, Job
<1>2. KickPart(c)
  BY DEF KickInv
<1>3. ASSUME Ruling(c)' PROVE KickSafe(c)' /\ Ruling(c)
  <2>1. Ruling(c) /\ job[c].room \in Minted
    BY <1>1, <1>3, RulingRoom DEF Ruling, Kicking
  <2>2. PICK r \in Minted : job[c].room = r /\ job'[c].room = r
    BY <1>1, <2>1
  <2> QED
    BY <1>1, <1>2, <2>1, <2>2, KickFrame DEF KickPart, KeepsKicks
<1>4. /\ Kicking(c)' => ~ job'[c].all
      /\ pc'[c] = "recv" => job'[c] = NoJob(c)
      /\ pc'[c] = "close" => job'[c].who = c
  BY <1>1, <1>2 DEF KickPart, Kicking
<1>6. pc'[c] = "depart" /\ ~ job'[c].seed /\ job'[c].who # c => sock'[job'[c].who] # "up"
  BY <1>1, <1>2 DEF KickPart, SocksStay
<1>7. pc'[c] = "kick_send" => job'[c].seed /\ ~ job'[c].all
  BY <1>1, <1>2 DEF KickPart
<1> QED
  BY <1>1, <1>3, <1>4, <1>6, <1>7 DEF KickPart, NoJob

(* The thread itself rules no room after the step, or its part holds and no *)
(* other thread rules the same one.                                         *)
LEMMA KickOwn ==
  ASSUME TypeOK, KickInv, SocksStay, NEW d \in Conn, NEW l, NEW j, Goto(d, l, j),
         KeepsKicks(d), KickPart(d)',
         Ruling(d)' => \A c \in Conn \ {d} : Ruling(c) => job[c].room # job'[d].room
  PROVE  KickInv'
<1>1. \A c \in Conn : KickPart(c)'
  BY KickOthers
<1>2. ASSUME NEW c \in Conn, NEW e \in Conn, c # e, Ruling(c)', Ruling(e)'
      PROVE  job'[c].room # job'[e].room
  <2>1. CASE c # d /\ e # d
    BY <1>2, <2>1, KickOthers DEF KickInv, RuleAlone
  <2>2. CASE c = d
    BY <1>2, <2>2, KickOthers
  <2>3. CASE e = d
    BY <1>2, <2>3, KickOthers
  <2> QED
    BY <2>1, <2>2, <2>3
<1> QED
  BY <1>1, <1>2 DEF KickInv, RuleAlone

(* A step that does not begin to rule.                                      *)
LEMMA KickStep ==
  ASSUME TypeOK, KickInv, SocksStay, NEW d \in Conn, NEW l, NEW j, Goto(d, l, j),
         KeepsKicks(d),
         l = "recv" => j = NoJob(d),
         l \in {"close", "depart"} => j.who = d,
         l = "kick_send" => j.seed /\ ~ j.all,
         l # "promote_set"
  PROVE  KickInv'
<1>1. pc'[d] = l /\ job'[d] = j
  BY DEF Goto, TypeOK
<1>2. KickPart(d)' /\ ~ Ruling(d)'
  BY <1>1 DEF KickPart, Ruling, Kicking, NoJob
<1> QED
  BY <1>2, KickOwn

(* Most steps leave the rooms there are as they are.                        *)
LEMMA SameRooms ==
  ASSUME TypeOK, NoNewIds, NEW d \in Conn, \A r \in Minted : rooms'[r] = rooms[r]
  PROVE  KeepsKicks(d)
<1> SUFFICES ASSUME NEW r \in Minted
             PROVE  RoomSafe(r) /\ rooms'[r] = rooms[r]
  BY DEF KeepsKicks
<1> QED
  BY DEF RoomSafe, NoNewIds

(* The steps of OtherIds, which leave the rooms alone, but the two that     *)
(* begin a removal.                                                         *)
LEMMA KickOther ==
  ASSUME TypeOK, KickInv, NEW d \in Conn, NoNewIds,
         \/ CreateSend(d) \/ CreateRegister(d) \/ JoinSnapshot(d) \/ JoinSend(d)
         \/ PromoteSend(d) \/ CacheData(d) \/ SeedRegister(d) \/ Finally(d)
         \/ \E r \in Minted : \/ Join(d, r) \/ Leave(d, r) \/ CloseRoom(d, r)
                              \/ CloseRaises(d, r) \/ SetPartyData(d, r)
                              \/ \E m \in Mid : Kick(d, r, m) \/ Promote(d, r, m)
         \/ \E e \in job[d].left : TellDeparture(d, e[1], e[2])
  PROVE  KickInv'
<1> DEFINE Other == PCs \ {"recv", "close", "depart", "kick_send", "promote_set"}
<1>1. /\ UNCHANGED rooms
      /\ sock' = sock \/ sock' = [sock EXCEPT ![d] = "closed"]
  BY DEF CreateSend, CreateRegister, JoinSnapshot, JoinSend, PromoteSend, CacheData,
         SeedRegister, Finally, Join, Leave, CloseRoom, CloseRaises, SetPartyData, Kick, Promote,
         TellDeparture, GoOn, Finish
<1>2. KeepsKicks(d) /\ SocksStay
  BY <1>1, SameRooms DEF SocksStay, TypeOK
<1>3. CASE \E l \in Other : \E j : Goto(d, l, j)
  BY <1>2, <1>3, KickStep
<1>4. CASE Return(d)
  BY <1>2, <1>4, KickStep DEF Return
<1>5. ASSUME NEW j, Goto(d, AfterRetire(j), j), j.who = d PROVE KickInv'
  BY <1>2, <1>5, AfterRetireType, KickStep
<1>6. KickPart(d) /\ job[d] \in Job
  BY JobFacts DEF KickInv
<1>7. CASE Finally(d)
  <2> DEFINE j == [NoJob(d) EXCEPT !.all = TRUE, !.fin = TRUE, !.closing = OwnedBy(d)]
  <2>1. Goto(d, AfterRetire(j), j) /\ j.who = d
    BY <1>7 DEF Finally, NoJob
  <2> HIDE DEF j
  <2> QED
    BY <1>5, <2>1
<1>8. ASSUME NEW r \in Minted, Leave(d, r) PROVE KickInv'
  <2>1. job[d].who = d
    <3>1. job[d] = NoJob(d)
      BY <1>6, <1>8 DEF KickPart, Leave, Receive
    <3> QED
      BY <3>1 DEF NoJob
  <2>2. PICK gone : Goto(d, AfterRetire([job[d] EXCEPT !.room = r, !.seed = TRUE, !.closing = gone]),
                         [job[d] EXCEPT !.room = r, !.seed = TRUE, !.closing = gone])
    BY <1>8 DEF Leave
  <2> DEFINE j == [job[d] EXCEPT !.room = r, !.seed = TRUE, !.closing = gone]
  <2>3. j.who = d
    BY <1>6, <2>1 DEF Job
  <2>4. Goto(d, AfterRetire(j), j)
    BY <2>2
  <2> HIDE DEF j
  <2> QED
    BY <1>5, <2>3, <2>4
<1>9. ASSUME NEW r \in Minted, CloseRoom(d, r) PROVE KickInv'
  <2> DEFINE j == [job[d] EXCEPT !.closing = @ \ {r}]
  <2>1. job[d].who = d
    BY <1>6, <1>9 DEF KickPart, CloseRoom
  <2>2. j.who = d
    BY <1>6, <2>1 DEF Job
  <2>3. Goto(d, AfterRetire(j), j)
    BY <1>9 DEF CloseRoom
  <2> HIDE DEF j
  <2> QED
    BY <1>5, <2>2, <2>3
<1>10. CASE CreateSend(d) \/ \E r \in Minted : CloseRaises(d, r)
  BY <1>3, <1>10 DEF CreateSend, CloseRaises, PCs
<1>11. CASE CreateRegister(d) \/ PromoteSend(d) \/ CacheData(d) \/ SeedRegister(d)
  BY <1>4, <1>11 DEF CreateRegister, PromoteSend, CacheData, SeedRegister
<1>12. CASE JoinSnapshot(d)
  BY <1>3, <1>12 DEF JoinSnapshot, PCs
<1>13. CASE JoinSend(d)
  BY <1>3, <1>4, <1>13 DEF JoinSend, PCs
<1>14. CASE \E r \in Minted : Join(d, r) \/ SetPartyData(d, r)
  BY <1>3, <1>14 DEF Join, SetPartyData, PCs
<1>15. CASE \E r \in Minted : \E m \in Mid : Promote(d, r, m)
  BY <1>3, <1>15 DEF Promote, PCs
<1>16. CASE \E e \in job[d].left : TellDeparture(d, e[1], e[2])
  <2>1. \/ \E l \in Other : \E j : Goto(d, l, j)
        \/ Return(d)
    BY <1>16 DEF TellDeparture, GoOn, Finish, PCs
  <2> QED
    BY <1>3, <1>4, <2>1
<1>17. ASSUME NEW r \in Minted, NEW m \in Mid, Kick(d, r, m) PROVE KickInv'
  <2>1. PICK k : Goto(d, "kick_send", [job[d] EXCEPT !.room = r, !.who = k, !.seed = TRUE])
    BY <1>17 DEF Kick
  <2> DEFINE j == [job[d] EXCEPT !.room = r, !.who = k, !.seed = TRUE]
  <2>2. j.seed /\ ~ j.all
    <3>1. job[d] = NoJob(d)
      BY <1>6, <1>17 DEF KickPart, Kick, Receive
    <3>2. ~ job[d].all
      BY <3>1 DEF NoJob
    <3> QED
      BY <1>6, <3>2 DEF Job
  <2>3. Goto(d, "kick_send", j)
    BY <2>1
  <2> HIDE DEF j
  <2> QED
    BY <1>2, <2>2, <2>3, KickStep
<1> QED
  BY <1>7, <1>8, <1>9, <1>10, <1>11, <1>12, <1>13, <1>14, <1>15, <1>16, <1>17

LEMMA KickLateKick ==
  ASSUME TypeOK, KickInv, NEW d \in Conn, NEW r \in Minted, NEW m \in Mid, NoNewIds,
         LateKick(d, r, m)
  PROVE  KickInv'
<1>1. PICK k \in Conn : sock[k] = "lost" /\ Goto(d, "depart", [job[d] EXCEPT !.room = r, !.who = k])
  BY DEF LateKick, PeersOf
<1> DEFINE j == [job[d] EXCEPT !.room = r, !.who = k]
<1>2. KeepsKicks(d) /\ SocksStay /\ sock' = sock
  BY SameRooms DEF LateKick, SocksStay
<1>3. ~ j.seed /\ j.who = k
  <2>1. job[d] = NoJob(d) /\ job[d] \in Job
    BY JobFacts DEF KickInv, KickPart, LateKick, Receive
  <2> QED
    BY <2>1 DEF Job, NoJob
<1>4. KickPart(d)'
  <2>1. pc'[d] = "depart" /\ job'[d] = j
    BY <1>1 DEF Goto, TypeOK
  <2> HIDE DEF j
  <2> QED
    BY <1>1, <1>2, <1>3, <2>1 DEF KickPart, Ruling, Kicking
<1>5. ~ Ruling(d)'
  <2>1. pc'[d] = "depart" /\ job'[d] = j
    BY <1>1 DEF Goto, TypeOK
  <2> HIDE DEF j
  <2> QED
    BY <1>3, <2>1 DEF Ruling, Kicking
<1>6. Goto(d, "depart", j)
  BY <1>1
<1> HIDE DEF j
<1> QED
  BY <1>2, <1>4, <1>5, <1>6, KickOwn

(* The check of a Kickout and of a Promote: whoever passes it rules then.   *)
LEMMA KickCheck ==
  ASSUME TypeOK, UniqueMemberIds, KickInv, NEW d \in Conn, NoNewIds, UNCHANGED <<sock, rooms>>,
         NEW l \in {"depart", "promote_set"}, Goto(d, l, job[d]), IsOwner(d, job[d].room),
         job[d].room \in Minted, l = "depart" => job[d].seed /\ ~ job[d].all
  PROVE  KickInv'
<1> DEFINE r == job[d].room
<1>1. KeepsKicks(d) /\ SocksStay
  BY SameRooms DEF SocksStay
<1>2. pc'[d] = l /\ job'[d] = job[d]
  BY DEF Goto, TypeOK
<1>3. rooms[r].conns[d] # 0 /\ rooms[r].conns[d] = rooms[r].owner
  BY DEF IsOwner
<1>4. /\ rooms[r].owner < rooms[r].next
      /\ \A e \in Conn : /\ e # d => rooms[r].conns[e] # rooms[r].owner
                         /\ Coming(e, r) # rooms[r].owner
  BY <1>3 DEF UniqueMemberIds
<1>5. PICK q \in Minted : q = r /\ job'[d].room = q
  BY <1>2
<1>6. \A e \in Conn : Coming(e, q)' \in {0, Coming(e, q)}
  BY DEF NoNewIds
<1>7. KickSafe(d)'
  BY <1>3, <1>4, <1>5, <1>6 DEF KickSafe
<1>8. KickPart(d)'
  BY <1>2, <1>7 DEF KickPart, Ruling, Kicking
<1>9. \A c \in Conn \ {d} : Ruling(c) => job[c].room # job'[d].room
  BY <1>2, <1>3 DEF KickInv, KickPart, KickSafe
<1> QED
  BY <1>1, <1>8, <1>9, KickOwn

LEMMA KickChecks ==
  ASSUME TypeOK, UniqueMemberIds, KickInv, NEW d \in Conn, NoNewIds,
         KickSend(d) \/ PromoteCheck(d)
  PROVE  KickInv'
<1> DEFINE r == job[d].room
<1>1. KeepsKicks(d) /\ SocksStay /\ UNCHANGED <<sock, rooms>>
  BY SameRooms DEF KickSend, PromoteCheck, SocksStay
<1>2. CASE Reject(d, r)
  BY <1>1, <1>2, KickStep DEF Reject, Return
<1>3. r \in Minted
  BY JobRoom DEF KickSend, PromoteCheck, RoomPCs, PCs
<1>4. CASE IsOwner(d, r) /\ KickSend(d) /\ Goto(d, "depart", job[d])
  <2>1. job[d].seed /\ ~ job[d].all
    BY <1>4 DEF KickSend, KickInv, KickPart
  <2> QED
    BY <1>1, <1>3, <1>4, <2>1, KickCheck
<1>5. CASE IsOwner(d, r) /\ Goto(d, "promote_set", job[d])
  BY <1>1, <1>3, <1>5, KickCheck
<1> QED
  BY <1>2, <1>4, <1>5 DEF KickSend, PromoteCheck

(* A promotion changes the owner of the room its thread rules, and of no    *)
(* other.                                                                   *)
LEMMA KickPromoteSet ==
  ASSUME TypeOK, KickInv, NEW d \in Conn, NoNewIds, PromoteSet(d)
  PROVE  KickInv'
<1> DEFINE r == job[d].room
<1>1. SocksStay /\ Goto(d, "promote_send", job[d]) /\ Ruling(d)
      /\ rooms' = [rooms EXCEPT ![r].owner = job[d].mid]
  BY DEF PromoteSet, SocksStay, Ruling
<1>2. ASSUME NEW c \in Conn \ {d}, NEW q \in Minted, Ruling(c), job[c].room = q
      PROVE  RoomSafe(q) /\ rooms'[q].conns[c] = rooms[q].conns[c]
  <2>1. q # r
    BY <1>1, <1>2 DEF KickInv, RuleAlone
  <2>2. rooms'[q] = rooms[q]
    BY <1>1, <2>1 DEF TypeOK
  <2> QED
    BY <1>2, <2>2 DEF RoomSafe, NoNewIds
<1>3. KeepsKicks(d)
  BY <1>2 DEF KeepsKicks
<1> QED
  BY <1>1, <1>3, KickStep

(* A new id is above the owner's.                                           *)
LEMMA KickJoinGate ==
  ASSUME TypeOK, KickInv, NEW d \in Conn, JoinGate(d)
  PROVE  KickInv'
<1> DEFINE r == job[d].room
           m == rooms[r].next
           j == [job[d] EXCEPT !.mid = m]
<1>1. SocksStay
  BY DEF JoinGate, SocksStay
<1>2. CASE Return(d) /\ UNCHANGED rooms
  <2>1. KeepsKicks(d)
    BY <1>2, RoomsFrame, SameRooms DEF JoinGate, Return, JoiningPCs
  <2> QED
    BY <1>1, <1>2, <2>1, KickStep DEF Return
<1>3. CASE rooms' = [rooms EXCEPT ![r].next = @ + 1] /\ Goto(d, "join_snap", j)
  <2>1. r \in Minted /\ job[d] \in Job
    BY JobRoom, JobFacts DEF JoinGate, RoomPCs, PCs
  <2>2. j.room = r /\ j.mid = m
    BY <2>1 DEF Job
  <2>3. \A k \in Conn : k # d => pc'[k] = pc[k] /\ job'[k] = job[k]
    BY <1>3 DEF Goto, TypeOK
  <2>4. pc'[d] = "join_snap" /\ job'[d] = j
    BY <1>3 DEF Goto, TypeOK
  <2>5. ASSUME NEW k \in Conn, NEW q \in Minted
        PROVE  Coming(k, q)' \in {0, Coming(k, q), rooms[q].next}
    <3>1. CASE k = d
      BY <2>2, <2>4, <3>1 DEF Coming
    <3>2. CASE k # d
      BY <2>3, <3>2 DEF Coming
    <3> QED
      BY <3>1, <3>2
  <2>6. ASSUME NEW q \in Minted
        PROVE  /\ rooms'[q].conns = rooms[q].conns /\ rooms'[q].owner = rooms[q].owner
               /\ rooms'[q].next \in {rooms[q].next, rooms[q].next + 1}
    <3>1. rooms'[q] \in {rooms[q], [rooms[q] EXCEPT !.next = @ + 1]}
      BY <1>3 DEF TypeOK
    <3>2. rooms[q] \in Room
      BY RoomFacts
    <3> QED
      BY <3>1, <3>2 DEF Room
  <2>7. KeepsKicks(d)
    BY <2>5, <2>6 DEF KeepsKicks, RoomSafe
  <2> HIDE DEF j
  <2> QED
    BY <1>1, <1>3, <2>7, KickStep
<1> QED
  BY <1>2, <1>3 DEF JoinGate

LEMMA KickJoinRegister ==
  ASSUME TypeOK, KickInv, NEW d \in Conn, JoinRegister(d)
  PROVE  KickInv'
<1> DEFINE r == job[d].room
           m == job[d].mid
<1>1. SocksStay /\ Return(d)
  BY DEF JoinRegister, SocksStay
<1>2. r \in Minted /\ pc[d] = "join_reg"
  BY JobRoom DEF JoinRegister, RoomPCs, PCs
<1>3. \A q : Coming(d, q) = IF q = r THEN m ELSE 0
  BY <1>2 DEF Coming, JoiningPCs
<1>4. \A k \in Conn : \A q : Coming(k, q)' \in {0, Coming(k, q)}
  BY <1>1, ComingStep DEF Return, JoiningPCs
<1>5. ASSUME NEW q \in Minted
      PROVE  /\ rooms'[q].owner = rooms[q].owner /\ rooms'[q].next = rooms[q].next
             /\ \A k \in Conn : rooms'[q].conns[k] =
                                  IF q = r /\ k = d THEN Coming(d, q) ELSE rooms[q].conns[k]
  <2>1. rooms'[q] = IF q = r THEN With(rooms[q], d, m, job[d].roster) ELSE rooms[q]
    BY DEF JoinRegister, TypeOK
  <2>2. rooms[q] \in Room
    BY RoomFacts
  <2>3. /\ With(rooms[q], d, m, job[d].roster).conns = [rooms[q].conns EXCEPT ![d] = m]
        /\ With(rooms[q], d, m, job[d].roster).next = rooms[q].next
        /\ With(rooms[q], d, m, job[d].roster).owner = rooms[q].owner
    BY <2>2 DEF With, Room
  <2> QED
    BY <1>3, <2>1, <2>3, RoomFacts
<1>6. KeepsKicks(d)
  BY <1>4, <1>5 DEF KeepsKicks, RoomSafe
<1> QED
  BY <1>1, <1>6, KickStep DEF Return

LEMMA KickMint ==
  ASSUME TypeOK, KickInv, NEW d \in Conn, NoNewIds,
         \/ SeedSend(d)
         \/ \E op \in Creates, cap \in CapInputs : Create(d, op, cap)
  PROVE  KickInv'
<1>1. SocksStay /\ \A r \in Minted : rooms'[r] = rooms[r]
  <2>1. \A r \in Minted : r \in 1 .. seq + 1
    BY DEF TypeOK, Minted
  <2> QED
    BY <2>1 DEF SeedSend, Create, SocksStay
<1>2. KeepsKicks(d)
  BY <1>1, SameRooms
<1>3. (\E l \in {"create_send", "seed_reg"} : \E j : Goto(d, l, j)) \/ Return(d)
  BY DEF SeedSend, Create
<1> QED
  BY <1>1, <1>2, <1>3, KickStep DEF Return

(* A removal: of the thread's own connection, of a peer that is gone, or,   *)
(* by a kick, of one that does not have the owner's id.                     *)
LEMMA KickDepart ==
  ASSUME TypeOK, KickInv, NEW d \in Conn, NoNewIds, Depart(d)
  PROVE  KickInv'
<1> DEFINE k == job[d].who
<1>1. /\ \E l \in {"tell", "done", "seed_send"} : \E j : Goto(d, l, j)
         \/ Return(d)
      /\ sock' = sock \/ sock' = [sock EXCEPT ![d] = "closed"]
  BY DEF Depart, GoOn, Finish
<1>2. SocksStay
  BY <1>1 DEF SocksStay, TypeOK
<1>3. ASSUME NEW c \in Conn \ {d}, NEW q \in Minted, Ruling(c), job[c].room = q
      PROVE  RoomSafe(q) /\ (sock[c] = "up" => rooms'[q].conns[c] = rooms[q].conns[c])
  <2>1. /\ rooms'[q] \in {rooms[q], Without(rooms[q], k)}
        /\ rooms'[q] = rooms[q] \/ job[d].all \/ q = job[d].room
    BY DEF Depart
  <2>2. rooms[q] \in Room
    BY RoomFacts
  <2>3. /\ Without(rooms[q], k).owner = rooms[q].owner
        /\ Without(rooms[q], k).next = rooms[q].next
        /\ Without(rooms[q], k).conns = [rooms[q].conns EXCEPT ![k] = 0]
    BY <2>2 DEF Without, Room
  <2>4. RoomSafe(q)
    BY <2>1, <2>3 DEF RoomSafe, NoNewIds
  <2>5. CASE k # c
    BY <2>1, <2>3, <2>4, <2>5, RoomFacts
  <2>6. CASE k = c /\ sock[c] = "up"
    <3>1. KickSafe(c) /\ KickPart(d) /\ pc[d] = "depart"
      BY <1>3 DEF KickInv, KickPart, Depart
    <3>2. Kicking(d) /\ KickSafe(d)
      BY <2>6, <3>1 DEF KickPart, Ruling, Kicking
    <3>3. q # job[d].room
      BY <1>3, <2>6, <3>1, <3>2 DEF KickSafe
    <3>4. ~ job[d].all
      BY <3>1, <3>2 DEF KickPart
    <3> QED
      BY <2>1, <2>4, <3>3, <3>4
  <2> QED
    BY <2>4, <2>5, <2>6
<1>4. KeepsKicks(d)
  BY <1>3 DEF KeepsKicks
<1> QED
  BY <1>1, <1>2, <1>4, KickStep DEF Return

LEMMA KickNext ==
  ASSUME TypeOK, UniqueMemberIds, KickInv, [Next]_vars
  PROVE  KickInv'
<1>2. ASSUME NEW c \in Conn, Request(c) PROVE KickInv'
  <2>1. CASE \E op \in Creates, cap \in CapInputs : Create(c, op, cap)
    BY <2>1, CreateIds, KickMint
  <2>2. CASE \E r \in Minted, m \in Mid : LateKick(c, r, m)
    BY <2>2, OtherIds, KickLateKick
  <2>3. CASE \E r \in Minted : \/ Join(c, r) \/ Leave(c, r) \/ SetPartyData(c, r)
                               \/ \E m \in Mid : Kick(c, r, m) \/ Promote(c, r, m)
    BY <2>3, OtherIds, KickOther
  <2> QED
    BY <1>2, <2>1, <2>2, <2>3 DEF Request
<1>3. ASSUME NEW c \in Conn, Continue(c) PROVE KickInv'
  <2>1. CASE JoinGate(c) \/ JoinRegister(c)
    BY <2>1, KickJoinGate, KickJoinRegister
  <2>2. CASE Depart(c) \/ PromoteSet(c) \/ SeedSend(c)
    BY <2>2, DepartIds, PromoteSetIds, SeedSendIds, KickDepart, KickPromoteSet, KickMint
  <2>3. CASE KickSend(c) \/ PromoteCheck(c)
    BY <2>3, OtherIds, KickChecks
  <2>4. CASE \/ CreateSend(c) \/ CreateRegister(c) \/ JoinSnapshot(c) \/ JoinSend(c)
             \/ PromoteSend(c) \/ CacheData(c) \/ SeedRegister(c)
             \/ \E r \in Minted : CloseRoom(c, r)
             \/ \E d \in job[c].left : TellDeparture(c, d[1], d[2])
    BY <2>4, OtherIds, KickOther
  <2> QED
    BY <1>3, <2>1, <2>2, <2>3, <2>4 DEF Continue
<1>4. ASSUME NEW c \in Conn, Finally(c) PROVE KickInv'
  BY <1>4, OtherIds, KickOther
<1>5. ASSUME SocksStay, UNCHANGED <<pc, job, rooms, seq>> PROVE KickInv'
  <2>1. \A k \in Conn : \A r : Coming(k, r)' = Coming(k, r)
    BY <1>5 DEF Coming
  <2>2. ASSUME NEW k \in Conn PROVE KickPart(k)'
    <3>1. KickPart(k) /\ job[k].who \in Conn
      BY JobFacts DEF KickInv, Job
    <3>2. ASSUME Ruling(k) PROVE KickSafe(k)'
      <4>1. PICK r \in Minted : job[k].room = r /\ job'[k].room = r
        BY <1>5, <3>2, RulingRoom
      <4>2. RoomSafe(r) /\ KickSafe(k)
        BY <1>5, <2>1, <3>1, <3>2 DEF RoomSafe, KickPart
      <4> QED
        BY <1>5, <4>1, <4>2, KickFrame
    <3> QED
      BY <1>5, <3>1, <3>2 DEF KickPart, Ruling, Kicking, SocksStay, NoJob
  <2>3. RuleAlone'
    BY <1>5 DEF KickInv, RuleAlone, Ruling, Kicking
  <2> QED
    BY <2>2, <2>3 DEF KickInv
<1>6. CASE UNCHANGED vars
  BY <1>5, <1>6 DEF vars, SocksStay
<1>7. ASSUME NEW c \in Conn, Drop(c) PROVE KickInv'
  BY <1>5, <1>7 DEF Drop, SocksStay, TypeOK
<1>8. ASSUME NEW c \in Conn, Raise(c) PROVE KickInv'
  BY <1>8, OtherIds, KickOther DEF Raise
<1> QED
  BY <1>2, <1>3, <1>4, <1>6, <1>7, <1>8 DEF Next

(* Between the check of a Kickout and its removal, the sender stays the     *)
(* owner for as long as it is there (session_manager.py:2731-2773): the     *)
(* check, made outside the lock, is not made stale by any other handler.    *)
THEOREM KicksAreTheOwners == Spec => []KickAuthority
<1>1. Init => KickInv
  BY DEF Init, KickInv, KickPart, RuleAlone, Ruling, Kicking
<1>2. TypeOK /\ UniqueMemberIds /\ KickInv /\ [Next]_vars => KickInv'
  BY KickNext
<1>3. KickInv => KickAuthority
  BY DEF KickInv, KickPart, KickSafe, KickAuthority, Ruling
<1> QED
  BY <1>1, <1>2, <1>3, TypeCorrect, MemberIdsUnique, PTL DEF Spec
=============================================================================
