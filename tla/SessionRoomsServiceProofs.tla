---------------------- MODULE SessionRoomsServiceProofs ----------------------
(***************************************************************************)
(* Every step of SessionRooms is a step of RoomService, or none of it.     *)
(***************************************************************************)
EXTENDS SessionRoomsService, SessionRoomsProofs, FiniteSetTheorems

-----------------------------------------------------------------------------
(***************************************************************************)
(* Rooms on their way to the registry                                      *)
(***************************************************************************)

(* A handler about to register a room has it for itself: the room is as it *)
(* was made, and nobody else works on it.                                  *)
PendingPCs == {"create_send", "create_reg", "seed_reg"}
UserPCs == PendingPCs \cup {"join_gate", "join_snap", "join_send", "join_reg", "kick_send",
                            "promote_check", "promote_set", "promote_send", "data_cache"}
For(l, c, j) == IF l = "seed_reg" THEN j.who ELSE c
Fresh(r, k) ==
  /\ rooms[r].anchor = k /\ rooms[r].owner = MEMBER_ID
  /\ \A e \in Conn : rooms[r].conns[e] = IF e = k THEN MEMBER_ID ELSE 0
PendingOK(c) ==
  pc[c] \in PendingPCs =>
    /\ job[c].room \notin active
    /\ Fresh(job[c].room, For(pc[c], c, job[c]))
    /\ \A d \in Conn \ {c} : pc[d] \in UserPCs => job[d].room # job[c].room
FreshInv == \A c \in Conn : PendingOK(c)

(* What a thread may do to the rooms: to one that is neither registered    *)
(* nor its own, nothing, and if it goes on with one, it is one of these or *)
(* a new one.                                                              *)
Own(d, r) == pc[d] \in UserPCs /\ job[d].room = r
Tidy(d, l, j) ==
  /\ \A r \in Minted : r \notin active /\ ~ Own(d, r)
                         => rooms'[r] = rooms[r] /\ r \notin active'
  /\ l \in UserPCs => j.room \in active \/ Own(d, j.room) \/ j.room \notin Minted

LEMMA UserRoom ==
  ASSUME TypeOK, NEW c \in Conn, pc[c] \in UserPCs
  PROVE  job[c].room \in Minted
  BY JobFacts DEF JobOK, UserPCs, PendingPCs

LEMMA FreshOthers ==
  ASSUME TypeOK, FreshInv, NEW d \in Conn, NEW l, NEW j, Goto(d, l, j), Tidy(d, l, j),
         NEW c \in Conn, c # d
  PROVE  PendingOK(c)'
<1>1. pc'[c] = pc[c] /\ job'[c] = job[c] /\ pc'[d] = l /\ job'[d] = j
  BY DEF Goto, TypeOK
<1>2. SUFFICES ASSUME pc[c] \in PendingPCs PROVE PendingOK(c)'
  BY <1>1 DEF PendingOK
<1>3. PICK r \in Minted : r = job[c].room /\ r = job'[c].room
  BY <1>1, <1>2, UserRoom DEF UserPCs
<1>4. /\ r \notin active /\ Fresh(r, For(pc[c], c, job[c]))
      /\ \A e \in Conn \ {c} : pc[e] \in UserPCs => job[e].room # r
  BY <1>2, <1>3 DEF FreshInv, PendingOK
<1>5. ~ Own(d, r)
  BY <1>4 DEF Own
<1>6. rooms'[r] = rooms[r] /\ r \notin active'
  BY <1>4, <1>5 DEF Tidy
<1>7. l \in UserPCs => j.room # r
  BY <1>4, <1>5 DEF Tidy
<1>8. ASSUME NEW e \in Conn \ {c}, pc'[e] \in UserPCs PROVE job'[e].room # r
  <2>1. CASE e = d
    BY <1>1, <1>7, <1>8, <2>1
  <2>2. CASE e # d
    <3>1. pc'[e] = pc[e] /\ job'[e] = job[e]
      BY <2>2 DEF Goto, TypeOK
    <3> QED
      BY <1>4, <1>8, <3>1
  <2> QED
    BY <2>1, <2>2
<1>9. Fresh(r, For(pc[c], c, job[c]))'
  BY <1>1, <1>4, <1>6 DEF Fresh, For
<1> QED
  BY <1>1, <1>3, <1>6, <1>8, <1>9 DEF PendingOK

(* A step to a point where no room is pending.                             *)
LEMMA FreshStep ==
  ASSUME TypeOK, FreshInv, NEW d \in Conn, NEW l, NEW j, Goto(d, l, j), Tidy(d, l, j),
         l \notin PendingPCs
  PROVE  FreshInv'
<1>1. pc'[d] = l
  BY DEF Goto, TypeOK
<1>2. PendingOK(d)'
  BY <1>1 DEF PendingOK
<1> QED
  BY <1>2, FreshOthers DEF FreshInv

(* The mints.                                                              *)
LEMMA FreshMint ==
  ASSUME TypeOK, FreshInv, NEW d \in Conn, NEW l \in {"create_send", "seed_reg"}, NEW j \in Job,
         Goto(d, l, j), j.room = seq + 1, UNCHANGED active,
         NEW k \in Conn, k = For(l, d, j), NEW kind, NEW public, NEW cap,
         rooms' = [r \in 1 .. seq + 1 |-> IF r \in Minted THEN rooms[r]
                                          ELSE SoloRoom(k, kind, public, cap)]
  PROVE  FreshInv'
<1> DEFINE new == SoloRoom(k, kind, public, cap)
<1>1. /\ seq \in Nat /\ seq + 1 \notin Minted /\ active \subseteq Minted
      /\ \A r \in Minted : r \in 1 .. seq + 1
  BY DEF TypeOK, Minted
<1>2. Tidy(d, l, j)
  BY <1>1 DEF Tidy
<1>3. pc'[d] = l /\ job'[d] = j
  BY DEF Goto, TypeOK
<1>4. rooms'[seq + 1] = new
  BY <1>1
<1>5. /\ new.anchor = k /\ new.owner = MEMBER_ID
      /\ \A e \in Conn : new.conns[e] = IF e = k THEN MEMBER_ID ELSE 0
  BY DEF SoloRoom
<1>6. /\ rooms'[seq + 1].anchor = k /\ rooms'[seq + 1].owner = MEMBER_ID
      /\ \A e \in Conn : rooms'[seq + 1].conns[e] = IF e = k THEN MEMBER_ID ELSE 0
  BY <1>4, <1>5
<1>7. ASSUME NEW e \in Conn \ {d}, pc'[e] \in UserPCs PROVE job'[e].room # seq + 1
  <2>1. pc'[e] = pc[e] /\ job'[e] = job[e]
    BY DEF Goto, TypeOK
  <2> QED
    BY <1>1, <1>7, <2>1, UserRoom
<1>8. PendingOK(d)'
  <2>1. For(pc[d], d, job[d])' = k /\ job'[d].room = seq + 1
    BY <1>3 DEF For
  <2>2. Fresh(job[d].room, For(pc[d], d, job[d]))'
    BY <1>6, <2>1 DEF Fresh
  <2>3. job'[d].room \notin active'
    BY <1>1, <2>1
  <2> QED
    BY <1>7, <2>1, <2>2, <2>3 DEF PendingOK
<1> QED
  BY <1>2, <1>8, FreshOthers DEF FreshInv

(* The requests that work on a registered room.                            *)
LEMMA FreshRequest ==
  ASSUME TypeOK, FreshInv, NEW d \in Conn, NEW r \in Minted,
         \/ Join(d, r) \/ SetPartyData(d, r)
         \/ \E m \in Mid : Kick(d, r, m) \/ Promote(d, r, m) \/ LateKick(d, r, m)
  PROVE  FreshInv'
<1>1. UNCHANGED <<rooms, active>> /\ r \in active
  BY DEF Join, SetPartyData, Kick, Promote, LateKick, InRoom
<1>2. PICK l, j : Goto(d, l, j) /\ j.room = r
                  /\ l \in {"join_gate", "data_cache", "kick_send", "promote_check", "depart"}
  <2>1. job[d] \in Job
    BY JobFacts
  <2>2. \A k, m, S : /\ [job[d] EXCEPT !.room = r].room = r
                     /\ [job[d] EXCEPT !.room = r, !.mid = m].room = r
                     /\ [job[d] EXCEPT !.room = r, !.who = k].room = r
                     /\ [job[d] EXCEPT !.room = r, !.who = k, !.seed = TRUE].room = r
                     /\ [job[d] EXCEPT !.room = r, !.mid = m, !.peers = S].room = r
    BY <2>1 DEF Job
  <2>3. CASE Join(d, r) \/ SetPartyData(d, r)
    BY <2>2, <2>3 DEF Join, SetPartyData
  <2>4. CASE \E m \in Mid : Kick(d, r, m)
    BY <2>2, <2>4 DEF Kick
  <2>5. CASE \E m \in Mid : Promote(d, r, m)
    BY <2>2, <2>5 DEF Promote
  <2>6. CASE \E m \in Mid : LateKick(d, r, m)
    BY <2>2, <2>6 DEF LateKick
  <2> QED
    BY <2>3, <2>4, <2>5, <2>6
<1>3. Tidy(d, l, j) /\ l \notin PendingPCs
  BY <1>1, <1>2 DEF Tidy, PendingPCs
<1> QED
  BY <1>2, <1>3, FreshStep

(* Steps that end a handler's work on a room, or never had any.            *)
LEMMA FreshAway ==
  ASSUME TypeOK, FreshInv, NEW d \in Conn, NEW l, l \notin UserPCs, NEW j, Goto(d, l, j),
         \A r \in Minted : r \notin active /\ ~ Own(d, r) => rooms'[r] = rooms[r] /\ r \notin active'
  PROVE  FreshInv'
<1>1. Tidy(d, l, j) /\ l \notin PendingPCs
  BY DEF Tidy, UserPCs
<1> QED
  BY <1>1, FreshStep

LEMMA FreshAwaySteps ==
  ASSUME TypeOK, FreshInv, NEW d \in Conn,
         \/ CreateRegister(d) \/ SeedRegister(d) \/ JoinRegister(d) \/ KickSend(d)
         \/ PromoteSend(d) \/ CacheData(d) \/ Finally(d) \/ Depart(d)
         \/ \E r \in Minted : Leave(d, r) \/ CloseRoom(d, r) \/ CloseRaises(d, r)
         \/ \E e \in job[d].left : TellDeparture(d, e[1], e[2])
  PROVE  FreshInv'
<1>1. PICK l \in {"recv", "depart", "fin", "close", "tell", "done", "seed_send"} : \E j : Goto(d, l, j)
  <2>1. CASE CreateRegister(d) \/ SeedRegister(d) \/ JoinRegister(d) \/ PromoteSend(d) \/ CacheData(d)
    BY <2>1 DEF CreateRegister, SeedRegister, JoinRegister, PromoteSend, CacheData, Return
  <2>2. CASE KickSend(d) \/ \E r \in Minted : CloseRaises(d, r)
    BY <2>2 DEF KickSend, CloseRaises, Reject, Return
  <2>3. CASE Finally(d) \/ \E r \in Minted : Leave(d, r) \/ CloseRoom(d, r)
    <3>1. \E j : Goto(d, AfterRetire(j), j)
      BY <2>3 DEF Finally, Leave, CloseRoom
    <3> QED
      BY <3>1, AfterRetireType
  <2>4. CASE Depart(d) \/ \E e \in job[d].left : TellDeparture(d, e[1], e[2])
    BY <2>4 DEF Depart, TellDeparture, GoOn, Finish, Return
  <2> QED
    BY <2>1, <2>2, <2>3, <2>4
<1>2. l \notin UserPCs
  BY <1>1 DEF UserPCs, PendingPCs
<1>3. ASSUME NEW r \in Minted, r \notin active, ~ Own(d, r)
      PROVE  rooms'[r] = rooms[r] /\ r \notin active'
  <2>1. CASE CreateRegister(d) \/ SeedRegister(d)
    <3>1. UNCHANGED rooms /\ Own(d, job[d].room) /\ active' \subseteq active \cup {job[d].room}
      BY <2>1 DEF CreateRegister, SeedRegister, Own, UserPCs, PendingPCs
    <3> QED
      BY <1>3, <3>1
  <2>2. CASE JoinRegister(d)
    <3>1. Own(d, job[d].room) /\ active' = active
          /\ \A q \in Minted : q # job[d].room => rooms'[q] = rooms[q]
      BY <2>2 DEF JoinRegister, Own, UserPCs, TypeOK
    <3> QED
      BY <1>3, <3>1
  <2>3. CASE Depart(d)
    BY <1>3, <2>3 DEF Depart
  <2>4. CASE \/ KickSend(d) \/ PromoteSend(d) \/ CacheData(d) \/ Finally(d)
             \/ \E q \in Minted : Leave(d, q) \/ CloseRoom(d, q) \/ CloseRaises(d, q)
             \/ \E e \in job[d].left : TellDeparture(d, e[1], e[2])
    <3>1. UNCHANGED rooms /\ active' \subseteq active
      BY <2>4 DEF KickSend, PromoteSend, CacheData, Finally, Leave, CloseRoom, CloseRaises,
                  TellDeparture
    <3> QED
      BY <1>3, <3>1
  <2> QED
    BY <2>1, <2>2, <2>3, <2>4
<1> QED
  BY <1>1, <1>2, <1>3, FreshAway

(* Steps that go on with the handler's own room.                           *)
LEMMA FreshOwnSteps ==
  ASSUME TypeOK, FreshInv, NEW d \in Conn,
         JoinGate(d) \/ JoinSnapshot(d) \/ JoinSend(d) \/ PromoteCheck(d) \/ PromoteSet(d)
  PROVE  FreshInv'
<1> DEFINE r == job[d].room
<1>1. Own(d, r) /\ job[d] \in Job
  BY JobFacts DEF JoinGate, JoinSnapshot, JoinSend, PromoteCheck, PromoteSet, Own, UserPCs
<1>2. PICK l \in {"join_snap", "join_send", "join_reg", "recv", "fin", "promote_set", "promote_send"} :
        \E j : Goto(d, l, j) /\ (l \notin {"recv", "fin"} => j.room = r)
  <2>1. \A m, R, P : /\ [job[d] EXCEPT !.mid = m].room = r
                     /\ [job[d] EXCEPT !.roster = R, !.peers = P].room = r
    BY <1>1 DEF Job
  <2>2. CASE JoinGate(d)
    <3>1. Return(d) \/ Goto(d, "join_snap", [job[d] EXCEPT !.mid = rooms[r].next])
      BY <2>2 DEF JoinGate
    <3>2. CASE Return(d)
      BY <3>2 DEF Return
    <3>3. CASE Goto(d, "join_snap", [job[d] EXCEPT !.mid = rooms[r].next])
      <4> DEFINE j == [job[d] EXCEPT !.mid = rooms[r].next]
      <4>1. Goto(d, "join_snap", j) /\ j.room = r
        BY <2>1, <3>3
      <4> HIDE DEF j
      <4> QED
        BY <4>1
    <3> QED
      BY <3>1, <3>2, <3>3
  <2>3. CASE JoinSnapshot(d)
    <3> DEFINE R == rooms[r].members \cup {job[d].mid}
               j == [job[d] EXCEPT !.roster = R, !.peers = PeersOf(r)]
    <3>1. Goto(d, "join_send", j) /\ j.room = r
      BY <2>1, <2>3 DEF JoinSnapshot
    <3> HIDE DEF j
    <3> QED
      BY <3>1
  <2>4. CASE JoinSend(d) \/ PromoteCheck(d) \/ PromoteSet(d)
    BY <2>4 DEF JoinSend, PromoteCheck, PromoteSet, Reject, Return
  <2> QED
    BY <2>2, <2>3, <2>4
<1>3. PICK j : Goto(d, l, j) /\ (l \notin {"recv", "fin"} => j.room = r)
  BY <1>2
<1>4. active' \subseteq active /\ \A q \in Minted : q # r => rooms'[q] = rooms[q]
  BY DEF JoinGate, JoinSnapshot, JoinSend, PromoteCheck, PromoteSet, TypeOK
<1>5. \A q \in Minted : ~ Own(d, q) => q # r
  BY <1>1
<1>6. l \in UserPCs => j.room = r
  BY <1>3 DEF UserPCs, PendingPCs
<1>7. Tidy(d, l, j) /\ l \notin PendingPCs
  BY <1>1, <1>4, <1>5, <1>6 DEF Tidy, PendingPCs
<1> QED
  BY <1>3, <1>7, FreshStep

(* Steps that have or get a pending room.                                  *)
LEMMA FreshCreateSend ==
  ASSUME TypeOK, FreshInv, NEW d \in Conn, CreateSend(d)
  PROVE  FreshInv'
<1>1. CASE Goto(d, "fin", job[d])
  <2>1. "fin" \notin UserPCs /\ UNCHANGED <<rooms, active>>
    BY DEF CreateSend, UserPCs, PendingPCs
  <2> QED
    BY <1>1, <2>1, FreshAway
<1>2. CASE Goto(d, "create_reg", job[d])
  <2>1. pc[d] = "create_send" /\ UNCHANGED <<rooms, active>>
    BY DEF CreateSend
  <2>2. Own(d, job[d].room)
    BY <2>1 DEF Own, UserPCs, PendingPCs
  <2>3. Tidy(d, "create_reg", job[d])
    BY <2>1, <2>2 DEF Tidy
  <2>4. pc'[d] = "create_reg" /\ job'[d] = job[d]
    BY <1>2 DEF Goto, TypeOK
  <2>5. \A e \in Conn \ {d} : pc'[e] = pc[e] /\ job'[e] = job[e]
    BY <1>2 DEF Goto, TypeOK
  <2>6. PendingOK(d)
    BY DEF FreshInv
  <2>7. PendingOK(d)'
    BY <2>1, <2>4, <2>5, <2>6 DEF PendingOK, PendingPCs, Fresh, For
  <2> QED
    BY <1>2, <2>3, <2>7, FreshOthers DEF FreshInv
<1> QED
  BY <1>1, <1>2 DEF CreateSend

LEMMA FreshCreate ==
  ASSUME TypeOK, FreshInv, NEW d \in Conn, NEW op \in Creates, NEW cap \in CapInputs,
         Create(d, op, cap)
  PROVE  FreshInv'
<1> DEFINE kind == IF op = "party" THEN "party" ELSE "game"
           j == [job[d] EXCEPT !.room = seq + 1]
<1>1. j \in Job /\ j.room = seq + 1
  <2>1. job[d] \in Job /\ seq + 1 \in Nat
    BY JobFacts DEF TypeOK
  <2>2. j \in Job
    BY <2>1, FieldUpdate
  <2> QED
    BY <2>1, <2>2 DEF Job
<1>2. /\ Goto(d, "create_send", j) /\ UNCHANGED active
      /\ rooms' = [r \in 1 .. seq + 1 |->
                     IF r \in Minted THEN rooms[r] ELSE SoloRoom(d, kind, op = "public", Clamp(cap))]
  BY DEF Create
<1>3. d = For("create_send", d, j)
  BY DEF For
<1> HIDE DEF j, kind
<1> QED
  BY <1>1, <1>2, <1>3, FreshMint

LEMMA FreshSeedSend ==
  ASSUME TypeOK, FreshInv, NEW d \in Conn, SeedSend(d)
  PROVE  FreshInv'
<1> DEFINE k == job[d].who
           j == [job[d] EXCEPT !.room = seq + 1]
           cap == rooms[job[d].room].cap
<1>1. /\ UNCHANGED active
      /\ rooms' = [r \in 1 .. seq + 1 |->
                     IF r \in Minted THEN rooms[r] ELSE SoloRoom(k, "party", FALSE, cap)]
  BY DEF SeedSend
<1>2. j \in Job /\ j.room = seq + 1 /\ k \in Conn /\ k = For("seed_reg", d, j)
  <2>1. job[d] \in Job /\ seq + 1 \in Nat
    BY JobFacts DEF TypeOK
  <2>2. j \in Job
    BY <2>1, FieldUpdate
  <2>3. j.room = seq + 1 /\ j.who = k /\ k \in Conn
    BY <2>1 DEF Job
  <2> QED
    BY <2>2, <2>3 DEF For
<1>3. CASE Goto(d, "seed_reg", j)
  <2> HIDE DEF k, j, cap
  <2> QED
    BY <1>1, <1>2, <1>3, FreshMint
<1>4. CASE Return(d)
  <2>1. \A r \in Minted : r \in 1 .. seq + 1
    BY DEF TypeOK, Minted
  <2>2. \A r \in Minted : rooms'[r] = rooms[r]
    BY <1>1, <2>1
  <2>3. "recv" \notin UserPCs
    BY DEF UserPCs, PendingPCs
  <2> QED
    BY <1>1, <1>4, <2>2, <2>3, FreshAway DEF Return
<1> QED
  BY <1>3, <1>4 DEF SeedSend

LEMMA FreshNext ==
  ASSUME TypeOK, FreshInv, [Next]_vars
  PROVE  FreshInv'
<1>1. ASSUME NEW c \in Conn, Request(c) PROVE FreshInv'
  BY <1>1, FreshCreate, FreshRequest, FreshAwaySteps DEF Request
<1>2. ASSUME NEW c \in Conn, Continue(c) PROVE FreshInv'
  BY <1>2, FreshAwaySteps, FreshOwnSteps, FreshCreateSend, FreshSeedSend DEF Continue
<1>3. ASSUME NEW c \in Conn, Finally(c) PROVE FreshInv'
  BY <1>3, FreshAwaySteps
<1>4. ASSUME NEW c \in Conn, Raise(c) PROVE FreshInv'
  BY <1>4, FreshAwaySteps DEF Raise
<1>5. CASE UNCHANGED <<pc, job, rooms, active>>
  BY <1>5 DEF FreshInv, PendingOK, Fresh, For
<1> QED
  BY <1>1, <1>2, <1>3, <1>4, <1>5 DEF Next, Drop, vars

-----------------------------------------------------------------------------
(***************************************************************************)
(* Whom a thread removes                                                   *)
(***************************************************************************)

(* Itself, from a room it left or from all; another one, from one room and *)
(* not in a finally block.                                                 *)
WhoPart(c) ==
  /\ pc[c] \in {"close", "depart"} /\ job[c].who = c => job[c].all \/ job[c].seed
  /\ pc[c] = "depart" /\ job[c].who # c => ~ job[c].all /\ ~ job[c].fin
  /\ pc[c] = "kick_send" => ~ job[c].fin
WhoInv == \A c \in Conn : WhoPart(c)

LEMMA WhoStep ==
  ASSUME TypeOK, WhoInv, NEW d \in Conn, NEW l, NEW j, Goto(d, l, j),
         /\ l \in {"close", "depart"} /\ j.who = d => j.all \/ j.seed
         /\ l = "depart" /\ j.who # d => ~ j.all /\ ~ j.fin
         /\ l = "kick_send" => ~ j.fin
  PROVE  WhoInv'
<1>1. pc'[d] = l /\ job'[d] = j /\ \A e \in Conn : e # d => pc'[e] = pc[e] /\ job'[e] = job[e]
  BY DEF Goto, TypeOK
<1>2. WhoPart(d)'
  BY <1>1 DEF WhoPart
<1>3. ASSUME NEW e \in Conn, e # d PROVE WhoPart(e)'
  <2>1. WhoPart(e)
    BY DEF WhoInv
  <2> QED
    BY <1>1, <1>3, <2>1 DEF WhoPart
<1> QED
  BY <1>2, <1>3 DEF WhoInv

LEMMA WhoNext ==
  ASSUME TypeOK, KickInv, WhoInv, [Next]_vars
  PROVE  WhoInv'
<1> DEFINE Other == PCs \ {"close", "depart", "kick_send"}
<1>1. ASSUME NEW d \in Conn, NEW l \in Other, NEW j, Goto(d, l, j) PROVE WhoInv'
  BY <1>1, WhoStep
<1>2. ASSUME NEW d \in Conn, Return(d) PROVE WhoInv'
  BY <1>1, <1>2 DEF Return, PCs
<1>3. ASSUME NEW d \in Conn, NEW j, Goto(d, AfterRetire(j), j), j.who = d, j.all \/ j.seed
      PROVE  WhoInv'
  BY <1>3, AfterRetireType, WhoStep
<1>4. \A d \in Conn : job[d] \in Job /\ KickPart(d) /\ WhoPart(d)
                      /\ (pc[d] = "recv" => ~ job[d].all /\ ~ job[d].fin /\ job[d].who = d /\ ~ job[d].seed)
  <2>1. \A d \in Conn : job[d] \in Job /\ KickPart(d) /\ WhoPart(d)
    BY JobFacts DEF KickInv, WhoInv
  <2>2. \A d \in Conn : pc[d] = "recv" => job[d] = NoJob(d)
    BY <2>1 DEF KickPart
  <2>3. \A d \in Conn : /\ ~ NoJob(d).all /\ ~ NoJob(d).fin /\ ~ NoJob(d).seed
                         /\ NoJob(d).who = d
    BY DEF NoJob
  <2> QED
    BY <2>1, <2>2, <2>3
<1>5. ASSUME NEW d \in Conn, Finally(d) PROVE WhoInv'
  <2> DEFINE j == [NoJob(d) EXCEPT !.all = TRUE, !.fin = TRUE, !.closing = OwnedBy(d)]
  <2>1. Goto(d, AfterRetire(j), j) /\ j.who = d /\ j.all
    BY <1>5 DEF Finally, NoJob
  <2> HIDE DEF j
  <2> QED
    BY <1>3, <2>1
<1>6. ASSUME NEW d \in Conn, NEW r \in Minted, Leave(d, r) PROVE WhoInv'
  <2>1. PICK gone : Goto(d, AfterRetire([job[d] EXCEPT !.room = r, !.seed = TRUE, !.closing = gone]),
                         [job[d] EXCEPT !.room = r, !.seed = TRUE, !.closing = gone])
    BY <1>6 DEF Leave
  <2> DEFINE j == [job[d] EXCEPT !.room = r, !.seed = TRUE, !.closing = gone]
  <2>2. pc[d] = "recv"
    BY <1>6 DEF Leave, Receive
  <2>3. j.who = d /\ j.seed
    BY <1>4, <2>2 DEF Job
  <2>4. Goto(d, AfterRetire(j), j)
    BY <2>1
  <2> HIDE DEF j
  <2> QED
    BY <1>3, <2>3, <2>4
<1>7. ASSUME NEW d \in Conn, NEW r \in Minted, CloseRoom(d, r) PROVE WhoInv'
  <2> DEFINE j == [job[d] EXCEPT !.closing = @ \ {r}]
  <2>1. Goto(d, AfterRetire(j), j) /\ pc[d] = "close"
    BY <1>7 DEF CloseRoom
  <2>2. j.who = d /\ (j.all \/ j.seed)
    BY <1>4, <2>1 DEF Job, KickPart, WhoPart
  <2> HIDE DEF j
  <2> QED
    BY <1>3, <2>1, <2>2
<1>8. ASSUME NEW d \in Conn, NEW r \in Minted, NEW m \in Mid, Kick(d, r, m) PROVE WhoInv'
  <2>1. PICK k : Goto(d, "kick_send", [job[d] EXCEPT !.room = r, !.who = k, !.seed = TRUE])
    BY <1>8 DEF Kick
  <2> DEFINE j == [job[d] EXCEPT !.room = r, !.who = k, !.seed = TRUE]
  <2>2. pc[d] = "recv"
    BY <1>8 DEF Kick, Receive
  <2>3. ~ j.fin
    BY <1>4, <2>2 DEF Job
  <2>4. Goto(d, "kick_send", j)
    BY <2>1
  <2> HIDE DEF j
  <2> QED
    BY <2>3, <2>4, WhoStep
<1>9. ASSUME NEW d \in Conn, NEW r \in Minted, NEW m \in Mid, LateKick(d, r, m) PROVE WhoInv'
  <2>1. PICK k \in PeersOf(r) \ {d} : Goto(d, "depart", [job[d] EXCEPT !.room = r, !.who = k])
    BY <1>9 DEF LateKick
  <2> DEFINE j == [job[d] EXCEPT !.room = r, !.who = k]
  <2>2. pc[d] = "recv"
    BY <1>9 DEF LateKick, Receive
  <2>3. j.who # d /\ ~ j.fin /\ ~ j.all
    BY <1>4, <2>2 DEF Job
  <2>4. Goto(d, "depart", j)
    BY <2>1
  <2> HIDE DEF j
  <2> QED
    BY <2>3, <2>4, WhoStep
<1>10. ASSUME NEW d \in Conn, KickSend(d) PROVE WhoInv'
  <2>1. CASE Goto(d, "depart", job[d])
    <3>1. job[d].seed /\ ~ job[d].all /\ ~ job[d].fin
      BY <1>4, <1>10 DEF KickSend, KickPart, WhoPart
    <3> QED
      BY <2>1, <3>1, WhoStep
  <2>2. CASE Return(d) \/ Goto(d, "fin", job[d])
    BY <1>1, <1>2, <2>2 DEF PCs
  <2> QED
    BY <1>10, <2>1, <2>2 DEF KickSend, Reject
<1>11. ASSUME NEW d \in Conn,
              \/ CreateSend(d) \/ CreateRegister(d) \/ JoinGate(d) \/ JoinSnapshot(d)
              \/ JoinSend(d) \/ JoinRegister(d) \/ PromoteCheck(d) \/ PromoteSet(d) \/ PromoteSend(d)
              \/ CacheData(d) \/ SeedSend(d) \/ SeedRegister(d)
              \/ (\E op \in Creates, cap \in CapInputs : Create(d, op, cap))
              \/ \E r \in Minted : \/ Join(d, r) \/ SetPartyData(d, r) \/ CloseRaises(d, r)
                                   \/ \E m \in Mid : Promote(d, r, m)
       PROVE  WhoInv'
  <2>1. Return(d) \/ \E l \in Other : \E j : Goto(d, l, j)
    BY <1>11 DEF CreateSend, CreateRegister, JoinGate, JoinSnapshot, JoinSend, JoinRegister,
         PromoteCheck, PromoteSet, PromoteSend, CacheData, SeedSend, SeedRegister, Create, Join,
         SetPartyData, Promote, CloseRaises, Reject, PCs
  <2> QED
    BY <1>1, <1>2, <2>1
<1>12. ASSUME NEW d \in Conn, Depart(d) \/ \E e \in job[d].left : TellDeparture(d, e[1], e[2])
       PROVE  WhoInv'
  <2>1. Return(d) \/ \E l \in Other : \E j : Goto(d, l, j)
    BY <1>12 DEF Depart, TellDeparture, GoOn, Finish, PCs
  <2> QED
    BY <1>1, <1>2, <2>1
<1>13. CASE UNCHANGED <<pc, job>>
  BY <1>13 DEF WhoInv, WhoPart
<1> QED
  BY <1>5, <1>6, <1>7, <1>8, <1>9, <1>10, <1>11, <1>12, <1>13
  DEF Next, Request, Continue, Raise, Drop, vars

-----------------------------------------------------------------------------
(***************************************************************************)
(* Steps of SessionRooms as steps of RoomService                           *)
(***************************************************************************)
AskPCs == {"create_reg", "seed_reg", "join_reg", "close", "depart", "promote_set"}

LEMMA NoRequest == \A c, l, j : l \notin AskPCs => Doing(c, l, j) = Nothing
  BY DEF Doing, AskPCs

LEMMA DoingType ==
  ASSUME NEW c \in Conn, NEW l, NEW j \in Job
  PROVE  /\ l \in AskPCs => Doing(c, l, j) \in Service!Request /\ Doing(c, l, j) # Nothing
         /\ Doing(c, l, j) \in Service!Request \cup {Nothing}
<1>1. j.who \in Conn /\ j.room \in Nat
  BY DEF Job
<1>2. \A k \in Conn : \A r \in Nat : \A w \in {"open", "enter", "part", "expel", "remove", "pass"} :
        Asked(w, k, r) \in Service!Request /\ Asked(w, k, r) # Nothing
  BY DEF Asked, Nothing, Service!Request
<1>3. Removal(c, j) \in Service!Request /\ Removal(c, j) # Nothing
  BY <1>1, <1>2 DEF Removal
<1>4. CASE l \in {"create_reg", "seed_reg", "join_reg", "promote_set"}
  <2>1. \/ Doing(c, l, j) = Asked("open", c, j.room)
        \/ Doing(c, l, j) = Asked("open", j.who, j.room)
        \/ Doing(c, l, j) = Asked("enter", c, j.room)
        \/ Doing(c, l, j) = Asked("pass", c, j.room)
    BY <1>4 DEF Doing
  <2> QED
    BY <1>1, <1>2, <1>4, <2>1 DEF AskPCs
<1>5. CASE l \in {"close", "depart"}
  <2>1. Doing(c, l, j) = Removal(c, j)
    BY <1>5 DEF Doing
  <2> QED
    BY <1>3, <1>5, <2>1 DEF AskPCs
<1>6. CASE l \notin AskPCs
  BY <1>6, NoRequest
<1> QED
  BY <1>4, <1>5, <1>6 DEF AskPCs

LEMMA DoingStep ==
  ASSUME TypeOK, NEW d \in Conn, NEW l, NEW j, Goto(d, l, j)
  PROVE  /\ Requests[d] = Doing(d, pc[d], job[d])
         /\ Requests' = [Requests EXCEPT ![d] = Doing(d, l, j)]
<1>1. pc' = [pc EXCEPT ![d] = l] /\ job' = [job EXCEPT ![d] = j]
      /\ pc \in [Conn -> PCs] /\ job \in [Conn -> Job]
  BY DEF Goto, TypeOK
<1>2. ASSUME NEW c \in Conn
      PROVE  Doing(c, pc'[c], job'[c]) = IF c = d THEN Doing(d, l, j) ELSE Doing(c, pc[c], job[c])
  <2>1. CASE c = d
    BY <1>1, <2>1
  <2>2. CASE c # d
    <3>1. pc'[c] = pc[c] /\ job'[c] = job[c]
      BY <1>1, <2>2
    <3> QED
      BY <2>2, <3>1
  <2> QED
    BY <2>1, <2>2
<1>3. Requests' = [c \in Conn |-> Doing(c, pc'[c], job'[c])]
  BY DEF Requests, Doing, Removal
<1>4. Requests' = [c \in Conn |-> IF c = d THEN Doing(d, l, j) ELSE Doing(c, pc[c], job[c])]
  BY <1>2, <1>3
<1> QED
  BY <1>4 DEF Requests

LEMMA SameOpen ==
  ASSUME TypeOK, active' = active,
         \A r \in active : /\ rooms'[r].anchor = rooms[r].anchor
                           /\ rooms'[r].conns = rooms[r].conns
                           /\ rooms'[r].owner = rooms[r].owner
  PROVE  OpenRooms' = OpenRooms
<1>1. \A r \in active : OpenRoom(r)' = OpenRoom(r)
  BY DEF OpenRoom, PeersOf
<1> QED
  BY <1>1 DEF OpenRooms

(* A step in which the registry does not change and nobody asks for         *)
(* anything, and one in which somebody does.                               *)
LEMMA StutterStep ==
  ASSUME TypeOK, NEW d \in Conn, NEW l, l \notin AskPCs, pc[d] \notin AskPCs, NEW j,
         Goto(d, l, j), OpenRooms' = OpenRooms, Gone' = Gone
  PROVE  UNCHANGED Service!vars
<1>1. Doing(d, l, j) = Nothing /\ Doing(d, pc[d], job[d]) = Nothing
  BY NoRequest
<1>2. Requests' = Requests
  <2>1. Requests' = [Requests EXCEPT ![d] = Nothing] /\ Requests[d] = Nothing
    BY <1>1, DoingStep
  <2>2. Requests = [c \in Conn |-> Requests[c]]
    BY DEF Requests
  <2> HIDE DEF Requests
  <2> QED
    BY <2>1, <2>2
<1> QED
  BY <1>2 DEF Service!vars

LEMMA Asking ==
  ASSUME TypeOK, NEW d \in Conn, NEW l \in AskPCs, pc[d] \notin AskPCs, NEW j \in Job,
         Goto(d, l, j)
  PROVE  Service!Asks(d) /\ Requests'[d] = Doing(d, l, j)
<1>1. /\ Doing(d, l, j) \in Service!Request /\ Doing(d, l, j) # Nothing
      /\ Requests[d] = Nothing
  BY DoingType, NoRequest, DoingStep
<1>2. Requests \in [Conn -> Service!Request \cup {Nothing}]
  <2>1. \A c \in Conn : Doing(c, pc[c], job[c]) \in Service!Request \cup {Nothing}
    BY DoingType, JobFacts
  <2> QED
    BY <2>1 DEF Requests
<1>3. Requests' = [Requests EXCEPT ![d] = Doing(d, l, j)]
  BY DoingStep
<1>4. Nothing = Service!Idle
  BY DEF Nothing, Service!Idle
<1> QED
  BY <1>1, <1>2, <1>3, <1>4 DEF Service!Asks

(* Whoever begins to remove another one or to promote leads the room.      *)
Begun(d, q) == q.what \in {"expel", "pass"} => Service!Leads(d, q.room)

LEMMA BeginStep ==
  ASSUME TypeOK, NEW d \in Conn, NEW l \in AskPCs, pc[d] \notin AskPCs, NEW j \in Job,
         Goto(d, l, j), Begun(d, Doing(d, l, j)), OpenRooms' = OpenRooms, Gone' = Gone
  PROVE  Service!Next
  BY Asking DEF Begun, Service!Begin, Service!Next

(* Most requests need no lead.                                             *)
LEMMA NeedsNoLead ==
  ASSUME NEW d, NEW l, NEW j,
         l \notin {"close", "depart", "promote_set"} \/ (l # "promote_set" /\ ~ j.seed)
  PROVE  Begun(d, Doing(d, l, j))
<1>1. CASE l \notin {"close", "depart", "promote_set"}
  <2>1. \A k : Asked("open", k, j.room).what = "open" /\ Asked("enter", k, j.room).what = "enter"
    BY DEF Asked
  <2>2. Nothing.what = "nothing"
    BY DEF Nothing
  <2> QED
    BY <1>1, <2>1, <2>2 DEF Begun, Doing
<1>2. CASE l \in {"close", "depart"} /\ ~ j.seed
  <2>1. Doing(d, l, j) = Removal(d, j)
    BY <1>2 DEF Doing
  <2>2. Removal(d, j).what \in {"part", "remove"}
    BY <1>2 DEF Removal, Asked
  <2> QED
    BY <2>1, <2>2 DEF Begun
<1> QED
  BY <1>1, <1>2

(* A step in which a request takes effect.                                 *)
LEMMA Answering ==
  ASSUME TypeOK, NEW d \in Conn, NEW l, l \notin AskPCs, NEW j, Goto(d, l, j)
  PROVE  /\ Service!Answered(d)
         /\ Requests[d] = Doing(d, pc[d], job[d])
<1>1. Doing(d, l, j) = Nothing /\ Nothing = Service!Idle
  BY NoRequest DEF Nothing, Service!Idle
<1> QED
  BY <1>1, DoingStep DEF Service!Answered

LEMMA KeepsRegistry ==
  ASSUME TypeOK, TypeOK', NEW d \in Conn, pc[d] \notin AskPCs, NEW l, NEW j, Goto(d, l, j),
         Begun(d, Doing(d, l, j)), sock' = sock, OpenRooms' = OpenRooms
  PROVE  [Service!Next]_(Service!vars)
<1>1. Gone' = Gone
  BY DEF Gone
<1>2. CASE l \notin AskPCs
  BY <1>1, <1>2, StutterStep
<1>3. CASE l \in AskPCs
  <2>1. job'[d] = j
    BY DEF Goto, TypeOK
  <2>2. j \in Job
    BY <2>1 DEF TypeOK
  <2> QED
    BY <1>1, <1>3, <2>2, BeginStep
<1> QED
  BY <1>2, <1>3

LEMMA KeepingSteps ==
  ASSUME TypeOK, TypeOK', NEW d \in Conn,
         \/ \E op \in Creates, cap \in CapInputs : Create(d, op, cap)
         \/ \E r \in Minted : Join(d, r) \/ SetPartyData(d, r)
         \/ \E r \in Minted, m \in Mid : Kick(d, r, m) \/ Promote(d, r, m)
         \/ CreateSend(d) \/ JoinGate(d) \/ JoinSnapshot(d) \/ PromoteSend(d)
         \/ CacheData(d) \/ SeedSend(d)
  PROVE  [Service!Next]_(Service!vars)
<1>1. active' = active /\ sock' = sock
  BY DEF Create, Join, SetPartyData, Kick, Promote, CreateSend, JoinGate, JoinSnapshot,
         PromoteSend, CacheData, SeedSend
<1>2. pc[d] \notin AskPCs
  BY DEF Create, Join, SetPartyData, Kick, Promote, CreateSend, JoinGate, JoinSnapshot,
         PromoteSend, CacheData, SeedSend, Receive, AskPCs
<1>3. PICK l, j : Goto(d, l, j) /\ l \notin {"close", "depart", "promote_set"}
  <2>1. CASE \/ \E op \in Creates, cap \in CapInputs : Create(d, op, cap)
             \/ \E r \in Minted : Join(d, r) \/ SetPartyData(d, r)
    <3>1. \E l \in {"create_send", "join_gate", "data_cache"} : \E j : Goto(d, l, j)
      BY <2>1 DEF Create, Join, SetPartyData
    <3> QED
      BY <3>1
  <2>2. CASE \E r \in Minted, m \in Mid : Kick(d, r, m) \/ Promote(d, r, m)
    <3>1. \E l \in {"kick_send", "promote_check"} : \E j : Goto(d, l, j)
      BY <2>2 DEF Kick, Promote
    <3> QED
      BY <3>1
  <2>3. CASE \/ CreateSend(d) \/ JoinGate(d) \/ JoinSnapshot(d) \/ PromoteSend(d) \/ CacheData(d)
             \/ SeedSend(d)
    <3>1. \E l \in {"create_reg", "fin", "recv", "join_snap", "join_send", "seed_reg"} :
            \E j : Goto(d, l, j)
      BY <2>3 DEF CreateSend, JoinGate, JoinSnapshot, PromoteSend, CacheData, SeedSend, Return
    <3> QED
      BY <3>1
  <2> QED
    BY <2>1, <2>2, <2>3
<1>4. \A q \in Minted : /\ rooms'[q].anchor = rooms[q].anchor
                        /\ rooms'[q].conns = rooms[q].conns
                        /\ rooms'[q].owner = rooms[q].owner
  <2>1. CASE JoinGate(d)
    <3>1. ASSUME NEW q \in Minted
          PROVE  rooms'[q] = rooms[q] \/ rooms'[q] = [rooms[q] EXCEPT !.next = @ + 1]
      BY <2>1 DEF JoinGate, TypeOK
    <3> QED
      BY <3>1, RoomFacts DEF Room
  <2>2. CASE (\E op \in Creates, cap \in CapInputs : Create(d, op, cap)) \/ SeedSend(d)
    <3>1. \A q \in Minted : q \in 1 .. seq + 1
      BY DEF TypeOK, Minted
    <3> QED
      BY <2>2, <3>1 DEF Create, SeedSend
  <2>3. CASE UNCHANGED rooms
    BY <2>3
  <2> QED
    BY <2>1, <2>2, <2>3
    DEF Join, SetPartyData, Kick, Promote, CreateSend, JoinSnapshot, PromoteSend, CacheData
<1>5. OpenRooms' = OpenRooms
  <2>1. active \subseteq Minted
    BY DEF TypeOK
  <2> QED
    BY <1>1, <1>4, <2>1, SameOpen
<1> QED
  BY <1>1, <1>2, <1>3, <1>5, NeedsNoLead, KeepsRegistry

(* The removal of a silent member needs no lead, and the sender of a       *)
(* Kickout or a Promote that passes the check has it.                      *)
LEMMA LateKickStep ==
  ASSUME TypeOK, TypeOK', KickInv, NEW d \in Conn, NEW r \in Minted, NEW m \in Mid,
         LateKick(d, r, m)
  PROVE  [Service!Next]_(Service!vars)
<1>1. PICK k : Goto(d, "depart", [job[d] EXCEPT !.room = r, !.who = k])
  BY DEF LateKick
<1> DEFINE j == [job[d] EXCEPT !.room = r, !.who = k]
<1>2. ~ j.seed
  <2>1. job[d] = NoJob(d) /\ job[d] \in Job
    BY JobFacts DEF KickInv, KickPart, LateKick, Receive
  <2> QED
    BY <2>1 DEF Job, NoJob
<1>3. Goto(d, "depart", j)
  BY <1>1
<1> HIDE DEF j
<1>4. /\ UNCHANGED <<sock, active, rooms>> /\ pc[d] \notin AskPCs
      /\ Begun(d, Doing(d, "depart", j))
  BY <1>2, NeedsNoLead DEF LateKick, Receive, AskPCs
<1> QED
  BY <1>3, <1>4, SameOpen, KeepsRegistry

LEMMA CheckSteps ==
  ASSUME TypeOK, TypeOK', NEW d \in Conn, KickSend(d) \/ PromoteCheck(d)
  PROVE  [Service!Next]_(Service!vars)
<1> DEFINE r == job[d].room
<1>1. UNCHANGED <<sock, active, rooms>> /\ pc[d] \notin AskPCs /\ OpenRooms' = OpenRooms
  BY SameOpen DEF KickSend, PromoteCheck, AskPCs
<1>2. CASE Reject(d, r)
  <2>1. PICK l, j : Goto(d, l, j) /\ l \in {"recv", "fin"}
    BY <1>2 DEF Reject, Return
  <2> QED
    BY <1>1, <2>1, NeedsNoLead, KeepsRegistry
<1>3. ASSUME NEW l \in {"depart", "promote_set"}, Goto(d, l, job[d]), IsOwner(d, r)
      PROVE  [Service!Next]_(Service!vars)
  <2>1. Service!Leads(d, r)
    BY <1>3 DEF IsOwner, Service!Leads, OpenRooms, OpenRoom, PeersOf
  <2>2. Doing(d, l, job[d]) = Asked("pass", d, r) \/ Doing(d, l, job[d]) = Removal(d, job[d])
    BY <1>3 DEF Doing
  <2>3. Doing(d, l, job[d]).what \in {"expel", "pass"} => Doing(d, l, job[d]).room = r
    BY <2>2 DEF Removal, Asked
  <2>4. Begun(d, Doing(d, l, job[d]))
    BY <2>1, <2>3 DEF Begun
  <2> QED
    BY <1>1, <1>3, <2>4, KeepsRegistry
<1> QED
  BY <1>2, <1>3 DEF KickSend, PromoteCheck

(* JoinSend keeps the registry, or purges a room whose host is gone.       *)
LEMMA JoinSendStep ==
  ASSUME TypeOK, TypeOK', NEW d \in Conn, JoinSend(d)
  PROVE  [Service!Next]_(Service!vars)
<1> DEFINE r == job[d].room
<1>1. pc[d] = "join_send" /\ UNCHANGED <<sock, rooms>> /\ pc[d] \notin AskPCs
  BY DEF JoinSend, AskPCs
<1>2. CASE active' = active
  <2>1. PICK l, j : Goto(d, l, j) /\ l \in {"recv", "fin", "join_reg"}
    BY DEF JoinSend, Return
  <2>2. OpenRooms' = OpenRooms
    BY <1>1, <1>2, SameOpen
  <2> QED
    BY <1>1, <2>1, <2>2, NeedsNoLead, KeepsRegistry
<1>3. CASE active' # active
  <2>1. /\ r \in active /\ active' = active \ {r} /\ Return(d)
        /\ FALSE \in Sends(rooms[r].anchor)
    BY <1>3 DEF JoinSend
  <2>2. r \in Minted /\ rooms[r].anchor \in Conn
    BY <2>1, RoomFacts DEF TypeOK
  <2>3. rooms[r].anchor \in Gone
    BY <2>1, <2>2 DEF Gone, Sends
  <2>4. OpenRooms' = Service!Closed({r})
    BY <1>1, <2>1 DEF OpenRooms, OpenRoom, PeersOf, Service!Closed
  <2>5. r \in DOMAIN OpenRooms /\ OpenRooms[r].by = rooms[r].anchor
    BY <2>1 DEF OpenRooms, OpenRoom
  <2>6. Gone' = Gone
    BY <1>1 DEF Gone
  <2>7. Requests' = Requests
    <3>1. "recv" \notin AskPCs
      BY DEF AskPCs
    <3>2. Requests' = [Requests EXCEPT ![d] = Nothing] /\ Requests[d] = Nothing
      BY <1>1, <2>1, <3>1, DoingStep, NoRequest DEF Return
    <3>3. Requests = [c \in Conn |-> Requests[c]]
      BY DEF Requests
    <3> HIDE DEF Requests
    <3> QED
      BY <3>2, <3>3
  <2> QED
    BY <2>3, <2>4, <2>5, <2>6, <2>7 DEF Service!Abandon, Service!Next
<1> QED
  BY <1>2, <1>3

(* The change of the owner, by a thread that has been the leader since its *)
(* check, or is gone by now.                                               *)
LEMMA PromoteSetStep ==
  ASSUME TypeOK, UniqueMemberIds, KickInv, NEW d \in Conn, PromoteSet(d)
  PROVE  Service!Next
<1> DEFINE m == job[d].mid
<1>0. PICK r \in Minted : r = job[d].room
  BY JobRoom DEF PromoteSet, RoomPCs, PCs
<1>1. /\ pc[d] = "promote_set" /\ UNCHANGED <<sock, active>> /\ active \subseteq Minted
      /\ Goto(d, "promote_send", job[d])
      /\ rooms' = [rooms EXCEPT ![r].owner = m]
  BY <1>0 DEF PromoteSet, TypeOK
<1>2. Service!Does(d, "pass") /\ Requests[d].room = r
  <2>1. "promote_send" \notin AskPCs /\ Doing(d, pc[d], job[d]) = Asked("pass", d, r)
    BY <1>0, <1>1 DEF AskPCs, Doing
  <2>2. Service!Answered(d) /\ Requests[d] = Asked("pass", d, r)
    BY <1>1, <2>1, Answering
  <2> QED
    BY <2>2 DEF Service!Does, Asked
<1>3. d \in Gone \/ Service!Leads(d, r)
  <2>1. KickSafe(d)
    BY <1>1 DEF KickInv, KickPart, Ruling
  <2>2. sock[d] = "up" => rooms[r].conns[d] = rooms[r].owner
    BY <1>0, <2>1 DEF KickSafe
  <2>3. rooms[r].owner # 0
    BY RoomFacts DEF Id
  <2> QED
    BY <2>2, <2>3 DEF Gone, Service!Leads, OpenRooms, OpenRoom, PeersOf
<1>4. Gone' = Gone
  BY <1>1 DEF Gone
<1>5. /\ rooms'[r].owner = m /\ rooms'[r].anchor = rooms[r].anchor
      /\ rooms'[r].conns = rooms[r].conns
      /\ \A q \in Minted : q # r => rooms'[q] = rooms[q]
  <2>1. rooms[r] \in Room /\ rooms'[r] = [rooms[r] EXCEPT !.owner = m]
    BY <1>1, RoomFacts DEF TypeOK
  <2> QED
    BY <1>1, <2>1 DEF TypeOK, Room
<1>6. \A q \in active : q # r => OpenRoom(q)' = OpenRoom(q)
  BY <1>1, <1>5 DEF OpenRoom, PeersOf
<1>7. CASE r \notin active
  <2>1. OpenRooms' = OpenRooms
    BY <1>1, <1>6, <1>7 DEF OpenRooms
  <2>2. r \notin DOMAIN OpenRooms
    BY <1>7 DEF OpenRooms
  <2>3. Service!Pass(d)
    BY <1>2, <1>3, <1>4, <2>1, <2>2 DEF Service!Pass
  <2> QED
    BY <2>3 DEF Service!Next
<1>8. CASE r \in active
  <2> DEFINE lead == {c \in PeersOf(r) : rooms[r].conns[c] = m}
  <2>1. OpenRoom(r)' = [by |-> rooms[r].anchor, in |-> PeersOf(r), lead |-> lead]
    <3>1. PeersOf(r)' = PeersOf(r)
      BY <1>5 DEF PeersOf
    <3>2. {c \in PeersOf(r) : rooms'[r].conns[c] = rooms'[r].owner} = lead
      BY <1>5
    <3> QED
      BY <1>5, <3>1, <3>2 DEF OpenRoom
  <2>2. OpenRoom(r)' = [OpenRooms[r] EXCEPT !.lead = lead]
    <3>1. OpenRooms[r] = OpenRoom(r)
      BY <1>8 DEF OpenRooms
    <3> HIDE DEF lead
    <3> QED
      BY <2>1, <3>1 DEF OpenRoom
  <2>3. OpenRooms' = [OpenRooms EXCEPT ![r].lead = lead]
    <3>1. OpenRooms' = [q \in active |-> IF q = r THEN [OpenRooms[r] EXCEPT !.lead = lead]
                                         ELSE OpenRooms[q]]
      BY <1>1, <1>6, <2>2 DEF OpenRooms
    <3>2. OpenRooms = [q \in active |-> OpenRooms[q]]
      BY DEF OpenRooms
    <3> HIDE DEF OpenRooms, lead
    <3> QED
      BY <1>8, <3>1, <3>2
  <2>4. r \in DOMAIN OpenRooms /\ OpenRooms[r].in = PeersOf(r)
    BY <1>8 DEF OpenRooms, OpenRoom
  <2>5. lead \in {{}} \cup {{c} : c \in PeersOf(r)}
    <3>1. \A c, e \in lead : c = e
      BY DEF UniqueMemberIds, PeersOf
    <3>2. CASE lead = {}
      BY <3>2
    <3>3. CASE lead # {}
      <4>1. PICK c : c \in lead
        BY <3>3
      <4>2. lead = {c} /\ c \in PeersOf(r)
        BY <3>1, <4>1
      <4> QED
        BY <4>2
    <3> QED
      BY <3>2, <3>3
  <2> HIDE DEF lead
  <2>6. Service!Pass(d)
    BY <1>2, <1>3, <1>4, <2>3, <2>4, <2>5 DEF Service!Pass
  <2> QED
    BY <2>6 DEF Service!Next
<1> QED
  BY <1>7, <1>8

LEMMA OwnedIsBy == \A c : OwnedBy(c) = Service!By(c)
  BY DEF OwnedBy, Service!By, OpenRooms, OpenRoom

(* A registration opens the room.                                          *)
LEMMA OpenStep ==
  ASSUME TypeOK, NEW d \in Conn, NEW k \in Conn, NEW r \in Minted, NEW S \in SUBSET OwnedBy(k),
         Doing(d, pc[d], job[d]) = Asked("open", k, r), Return(d), UNCHANGED <<sock, rooms>>,
         r \notin active, Fresh(r, k), active' = (active \ S) \cup {r}
  PROVE  Service!Next
<1>1. Service!Answered(d) /\ Requests[d] = Asked("open", k, r)
  <2>1. "recv" \notin AskPCs
    BY DEF AskPCs
  <2> QED
    BY <2>1, Answering DEF Return
<1>2. OpenRoom(r) = Service!Alone(k)
  <2>1. PeersOf(r) = {k}
    BY DEF Fresh, PeersOf, MEMBER_ID
  <2>2. {c \in PeersOf(r) : rooms[r].conns[c] = rooms[r].owner} = {k}
    BY <2>1 DEF Fresh
  <2> QED
    BY <2>1, <2>2 DEF Fresh, OpenRoom, Service!Alone
<1>3. OpenRooms' = [q \in (DOMAIN OpenRooms \ S) \cup {r} |->
                      IF q = r THEN Service!Alone(k) ELSE OpenRooms[q]]
  <2>1. \A q : OpenRoom(q)' = OpenRoom(q)
    BY DEF OpenRoom, PeersOf
  <2> QED
    BY <1>2, <2>1 DEF OpenRooms
<1>4. S \in SUBSET Service!By(k)
  BY OwnedIsBy
<1>5. Gone' = Gone
  BY DEF Gone
<1>6. /\ Requests[d].what = "open" /\ Requests[d].whom = k /\ Requests[d].room = r
      /\ r \notin DOMAIN OpenRooms
  BY <1>1 DEF Asked, OpenRooms
<1>7. Service!Open(d)
  BY <1>1, <1>3, <1>4, <1>5, <1>6 DEF Service!Open, Service!Does
<1> QED
  BY <1>7 DEF Service!Next

LEMMA RegisterSteps ==
  ASSUME TypeOK, FreshInv, NEW d \in Conn, CreateRegister(d) \/ SeedRegister(d)
  PROVE  Service!Next
<1>1. PendingOK(d) /\ job[d] \in Job
  BY JobFacts DEF FreshInv
<1>2. PICK r \in Minted : r = job[d].room
  BY JobRoom DEF CreateRegister, SeedRegister, RoomPCs, PCs
<1>3. CASE CreateRegister(d)
  <2>1. /\ Return(d) /\ UNCHANGED <<sock, rooms>> /\ active' = (active \ {}) \cup {r}
        /\ pc[d] = "create_reg" /\ {} \in SUBSET OwnedBy(d)
    BY <1>2, <1>3 DEF CreateRegister
  <2>2. r \notin active /\ Fresh(r, d)
    BY <1>1, <1>2, <2>1 DEF PendingOK, PendingPCs, For
  <2>3. Doing(d, pc[d], job[d]) = Asked("open", d, r)
    BY <1>2, <2>1 DEF Doing
  <2> QED
    BY <2>1, <2>2, <2>3, OpenStep
<1>4. CASE SeedRegister(d)
  <2>1. PICK k \in Conn : k = job[d].who
    BY <1>1 DEF Job
  <2> DEFINE stale == {q \in OwnedBy(k) : rooms[q].kind = "party"}
  <2>2. /\ Return(d) /\ UNCHANGED <<sock, rooms>> /\ active' = (active \ stale) \cup {r}
        /\ pc[d] = "seed_reg" /\ stale \in SUBSET OwnedBy(k)
    BY <1>2, <1>4, <2>1 DEF SeedRegister
  <2>3. r \notin active /\ Fresh(r, k)
    BY <1>1, <1>2, <2>1, <2>2 DEF PendingOK, PendingPCs, For
  <2>4. Doing(d, pc[d], job[d]) = Asked("open", k, r)
    BY <1>2, <2>1, <2>2 DEF Doing
  <2> HIDE DEF stale
  <2> QED
    BY <2>2, <2>3, <2>4, OpenStep
<1> QED
  BY <1>3, <1>4

LEMMA JoinRegisterStep ==
  ASSUME TypeOK, UniqueMemberIds, NEW d \in Conn, JoinRegister(d)
  PROVE  Service!Next
<1> DEFINE m == job[d].mid
<1>1. PICK r \in Minted : r = job[d].room
  BY JobRoom DEF JoinRegister, RoomPCs, PCs
<1>2. /\ pc[d] = "join_reg" /\ Return(d) /\ UNCHANGED <<sock, active>> /\ m # 0
      /\ rooms' = [rooms EXCEPT ![r] = With(@, d, m, job[d].roster)]
  BY <1>1, JobFacts DEF JoinRegister, JobOK, MidPCs
<1>3. Service!Answered(d) /\ Requests[d] = Asked("enter", d, r)
  <2>1. "recv" \notin AskPCs /\ Doing(d, pc[d], job[d]) = Asked("enter", d, r)
    BY <1>1, <1>2 DEF AskPCs, Doing
  <2> QED
    BY <1>2, <2>1, Answering DEF Return
<1>4. Gone' = Gone
  BY <1>2 DEF Gone
<1>5. Service!Does(d, "enter") /\ Requests[d].room = r
  BY <1>3 DEF Service!Does, Asked
<1>6. /\ rooms'[r].anchor = rooms[r].anchor /\ rooms'[r].owner = rooms[r].owner
      /\ rooms'[r].conns = [rooms[r].conns EXCEPT ![d] = m]
      /\ rooms[r].conns \in [Conn -> Nat]
      /\ \A q \in Minted : q # r => rooms'[q] = rooms[q]
  <2>1. rooms[r] \in Room /\ rooms'[r] = With(rooms[r], d, m, job[d].roster)
    BY <1>2, RoomFacts DEF TypeOK
  <2> QED
    BY <1>2, <2>1 DEF TypeOK, With, Room
<1>7. active \subseteq Minted
  BY DEF TypeOK
<1>8. \A q \in active : q # r => OpenRoom(q)' = OpenRoom(q)
  BY <1>6, <1>7 DEF OpenRoom, PeersOf
<1>9. CASE r \notin active
  <2>1. OpenRooms' = OpenRooms
    BY <1>2, <1>8, <1>9 DEF OpenRooms
  <2>2. r \notin DOMAIN OpenRooms
    BY <1>9 DEF OpenRooms
  <2>3. Service!Enter(d)
    BY <1>4, <1>5, <2>1, <2>2 DEF Service!Enter
  <2> QED
    BY <2>3 DEF Service!Next
<1>10. CASE r \in active
  <2> DEFINE old == {c \in PeersOf(r) : rooms[r].conns[c] = rooms[r].owner}
             lead == IF m = rooms[r].owner THEN {d} ELSE {}
  <2>1. OpenRooms[r] = [by |-> rooms[r].anchor, in |-> PeersOf(r), lead |-> old]
        /\ DOMAIN OpenRooms = active
    BY <1>10 DEF OpenRooms, OpenRoom
  <2>2. PeersOf(r)' = PeersOf(r) \cup {d}
    BY <1>2, <1>6 DEF PeersOf
  <2>3. {c \in PeersOf(r)' : rooms'[r].conns[c] = rooms'[r].owner} = (old \ {d}) \cup lead
    BY <1>6, <2>2
  <2>4. lead \in SUBSET {d} /\ (lead = {} \/ old \subseteq {d})
    <3>1. ASSUME m = rooms[r].owner PROVE old \subseteq {d}
      <4>1. Coming(d, r) = m
        BY <1>1, <1>2 DEF Coming, JoiningPCs
      <4> QED
        BY <1>2, <3>1, <4>1 DEF UniqueMemberIds, PeersOf
    <3> QED
      BY <3>1
  <2> HIDE DEF old, lead
  <2>5. OpenRoom(r)' = [by |-> rooms[r].anchor, in |-> PeersOf(r) \cup {d},
                        lead |-> (old \ {d}) \cup lead]
    BY <1>6, <2>2, <2>3 DEF OpenRoom
  <2>6. OpenRooms' = [OpenRooms EXCEPT ![r] = Service!Entered(@, d, lead)]
    <3>1. OpenRooms' = [q \in active |-> IF q = r THEN OpenRoom(r)' ELSE OpenRooms[q]]
      BY <1>2, <1>8 DEF OpenRooms
    <3>2. OpenRoom(r)' = Service!Entered(OpenRooms[r], d, lead)
      BY <2>1, <2>5 DEF Service!Entered
    <3>3. OpenRooms = [q \in active |-> OpenRooms[q]]
      BY DEF OpenRooms
    <3> QED
      BY <1>10, <3>1, <3>2, <3>3
  <2>7. /\ lead \in SUBSET {d}
        /\ lead = {} \/ OpenRooms[r].lead \subseteq {d}
        /\ r \in DOMAIN OpenRooms
    BY <1>10, <2>1, <2>4
  <2>8. Service!Enter(d)
    <3>1. \E e \in SUBSET {d} : /\ e = {} \/ OpenRooms[r].lead \subseteq {d}
                                /\ OpenRooms' = [OpenRooms EXCEPT ![r] = Service!Entered(@, d, e)]
      BY <2>6, <2>7
    <3> QED
      BY <1>4, <1>5, <2>7, <3>1 DEF Service!Enter
  <2> QED
    BY <2>8 DEF Service!Next
<1> QED
  BY <1>9, <1>10

(* Who leaves closes rooms it has created.                                 *)
LEMMA RetireSteps ==
  ASSUME TypeOK, TypeOK', KickInv, NEW d \in Conn, Finally(d) \/ \E r \in Minted : Leave(d, r)
  PROVE  Service!Next
<1>1. PICK S, l, j :
        /\ S \in SUBSET OwnedBy(d) /\ l \in {"close", "depart"}
        /\ Goto(d, l, j) /\ j.who = d /\ active' = active \ S
        /\ UNCHANGED <<sock, rooms>> /\ pc[d] \in {"recv", "fin"}
  <2>1. CASE Finally(d)
    <3> DEFINE j == [NoJob(d) EXCEPT !.all = TRUE, !.fin = TRUE, !.closing = OwnedBy(d)]
    <3>1. Goto(d, AfterRetire(j), j) /\ active' = active \ OwnedBy(d)
      BY <2>1 DEF Finally
    <3>2. UNCHANGED <<sock, rooms>> /\ pc[d] \in {"recv", "fin"}
      BY <2>1 DEF Finally
    <3>3. j.who = d
      BY DEF NoJob
    <3> HIDE DEF j
    <3> QED
      BY <3>1, <3>2, <3>3, AfterRetireType
  <2>2. CASE \E r \in Minted : Leave(d, r)
    <3>1. PICK r \in Minted, S \in SUBSET OwnedBy(d) :
            LET j == [job[d] EXCEPT !.room = r, !.seed = TRUE, !.closing = S]
            IN  Goto(d, AfterRetire(j), j) /\ active' = active \ S
      BY <2>2 DEF Leave
    <3> DEFINE j == [job[d] EXCEPT !.room = r, !.seed = TRUE, !.closing = S]
    <3>2. Goto(d, AfterRetire(j), j) /\ active' = active \ S
      BY <3>1
    <3>3. UNCHANGED <<sock, rooms>> /\ pc[d] = "recv"
      BY <2>2 DEF Leave, Receive
    <3>4. job[d] = NoJob(d)
      BY <3>3 DEF KickInv, KickPart
    <3>5. j.who = d
      BY <3>4 DEF NoJob
    <3> HIDE DEF j
    <3> QED
      BY <3>2, <3>3, <3>5, AfterRetireType
  <2> QED
    BY <2>1, <2>2
<1>2. j \in Job
  <2>1. job'[d] = j
    BY <1>1 DEF Goto, TypeOK
  <2> QED
    BY <2>1 DEF TypeOK
<1>3. l \in AskPCs /\ pc[d] \notin AskPCs
  BY <1>1 DEF AskPCs
<1>4. Service!Asks(d) /\ Requests'[d] = Doing(d, l, j)
  BY <1>1, <1>2, <1>3, Asking
<1>5. Requests'[d].what = "part" /\ Requests'[d].whom = d
  <2>1. Doing(d, l, j) = Removal(d, j)
    BY <1>1 DEF Doing
  <2> QED
    BY <1>1, <1>4, <2>1 DEF Removal, Asked
<1>6. OpenRooms' = Service!Closed(S)
  <2>1. \A q : OpenRoom(q)' = OpenRoom(q)
    BY <1>1 DEF OpenRoom, PeersOf
  <2> QED
    BY <1>1, <2>1 DEF OpenRooms, Service!Closed
<1>7. Gone' = Gone /\ S \in SUBSET Service!By(d)
  BY <1>1, OwnedIsBy DEF Gone
<1>8. Service!Retire(d)
  BY <1>4, <1>5, <1>6, <1>7 DEF Service!Retire
<1> QED
  BY <1>8 DEF Service!Next

(* The notices that rooms are closed leave the request as it is.           *)
LEMMA CloseRoomStep ==
  ASSUME TypeOK, NEW d \in Conn, NEW r \in Minted, CloseRoom(d, r)
  PROVE  UNCHANGED Service!vars
<1> DEFINE j == [job[d] EXCEPT !.closing = @ \ {r}]
<1>1. /\ Goto(d, AfterRetire(j), j) /\ UNCHANGED <<sock, active, rooms>>
      /\ pc[d] = "close" /\ job[d] \in Job
  BY JobFacts DEF CloseRoom
<1>2. j.who = job[d].who /\ j.room = job[d].room /\ j.all = job[d].all /\ j.seed = job[d].seed
  BY <1>1 DEF Job
<1> HIDE DEF j
<1>3. Removal(d, j) = Removal(d, job[d])
  BY <1>2 DEF Removal
<1>4. Doing(d, AfterRetire(j), j) = Doing(d, pc[d], job[d])
  <2>1. \A l \in {"close", "depart"} : \A k : Doing(d, l, k) = Removal(d, k)
    BY DEF Doing
  <2> QED
    BY <1>1, <1>3, <2>1, AfterRetireType
<1>5. Requests' = Requests
  <2>1. Requests' = [Requests EXCEPT ![d] = Requests[d]]
    BY <1>1, <1>4, DoingStep
  <2>2. Requests = [c \in Conn |-> Requests[c]]
    BY DEF Requests
  <2> QED
    BY <2>1, <2>2
<1>6. OpenRooms' = OpenRooms /\ Gone' = Gone
  BY <1>1, SameOpen DEF Gone
<1> QED
  BY <1>5, <1>6 DEF Service!vars

(* A log write of theirs that raises ends it with nothing done.            *)
LEMMA CloseRaisesStep ==
  ASSUME TypeOK, KickInv, NEW d \in Conn, NEW r \in Minted, CloseRaises(d, r)
  PROVE  Service!Next
<1>1. /\ pc[d] = "close" /\ UNCHANGED <<sock, active, rooms>> /\ job[d].who = d
      /\ \E l \in {"done", "fin"} : \E j : Goto(d, l, j)
  BY DEF CloseRaises, KickInv, KickPart
<1>2. PICK l, j : l \notin AskPCs /\ Goto(d, l, j)
  BY <1>1 DEF AskPCs
<1>3. OpenRooms' = OpenRooms /\ Gone' = Gone
  BY <1>1, SameOpen DEF Gone
<1>4. Service!Does(d, "part")
  <2>1. Doing(d, pc[d], job[d]) = Asked("part", d, IF job[d].all THEN 0 ELSE job[d].room)
    BY <1>1 DEF Doing, Removal
  <2>2. Service!Answered(d) /\ Requests[d].what = "part"
    BY <1>2, <2>1, Answering DEF Asked
  <2> QED
    BY <2>2 DEF Service!Does
<1>5. Service!Lapse(d)
  BY <1>3, <1>4 DEF Service!Lapse
<1> QED
  BY <1>5 DEF Service!Next

(* A thread that has taken a member out tells the others, and the end of    *)
(* the finally block closes its socket.                                    *)
LEMMA GoOnStep ==
  ASSUME TypeOK, NEW d \in Conn, NEW j, GoOn(d, j)
  PROVE  /\ \E l \in {"recv", "tell", "done", "seed_send"} : \E k : Goto(d, l, k)
         /\ Gone' = Gone \/ (j.fin /\ Gone' = Gone \cup {d})
<1>1. CASE Finish(d) /\ j.fin
  <2>1. Goto(d, "done", NoJob(d)) /\ sock' = [sock EXCEPT ![d] = "closed"]
    BY <1>1 DEF Finish
  <2>2. Gone' = Gone \cup {d}
    BY <2>1 DEF Gone, TypeOK
  <2> QED
    BY <1>1, <2>1, <2>2
<1>2. CASE sock' = sock /\ (Return(d) \/ Goto(d, "tell", j) \/ Goto(d, "seed_send", j))
  BY <1>2 DEF Gone, Return
<1> QED
  BY <1>1, <1>2 DEF GoOn

LEMMA TellDepartureStep ==
  ASSUME TypeOK, NEW d \in Conn, NEW r, NEW m, TellDeparture(d, r, m)
  PROVE  [Service!Next]_(Service!vars)
<1> DEFINE j == [job[d] EXCEPT !.left = @ \ {<<r, m>>}]
<1>1. GoOn(d, j) /\ UNCHANGED <<active, rooms>> /\ pc[d] = "tell"
  BY DEF TellDeparture
<1> HIDE DEF j
<1>2. PICK l, k : l \in {"recv", "tell", "done", "seed_send"} /\ Goto(d, l, k)
  BY <1>1, GoOnStep
<1>3. OpenRooms' = OpenRooms
  BY <1>1, SameOpen
<1>4. l \notin AskPCs /\ pc[d] \notin AskPCs
  BY <1>1, <1>2 DEF AskPCs
<1>5. Requests' = Requests
  <2>1. Requests' = [Requests EXCEPT ![d] = Nothing] /\ Requests[d] = Nothing
    BY <1>2, <1>4, DoingStep, NoRequest
  <2>2. Requests = [c \in Conn |-> Requests[c]]
    BY DEF Requests
  <2> QED
    BY <2>1, <2>2
<1>6. Gone' = Gone \/ Gone' = Gone \cup {d}
  BY <1>1, GoOnStep
<1> QED
  BY <1>3, <1>5, <1>6 DEF Service!Vanish, Service!Next, Service!vars

LEMMA DropStep ==
  ASSUME TypeOK, NEW d \in Conn, Drop(d)
  PROVE  Service!Next
<1>1. sock' = [sock EXCEPT ![d] = "lost"] /\ UNCHANGED <<pc, job, active, rooms>>
  BY DEF Drop
<1>2. Gone' = Gone \cup {d}
  BY <1>1 DEF Gone, TypeOK
<1>3. OpenRooms' = OpenRooms
  BY <1>1, SameOpen
<1>4. Requests' = Requests
  BY <1>1 DEF Requests, Doing, Removal
<1> QED
  BY <1>2, <1>3, <1>4 DEF Service!Vanish, Service!Next

(* The removal of a member.                                                *)
LEMMA DepartRooms ==
  ASSUME TypeOK, NEW d \in Conn, Depart(d), NEW k \in Conn, k = job[d].who, NEW S,
         \A r \in active : r \in S <=> (job[d].all \/ r = job[d].room)
  PROVE  OpenRooms' = Service!Left(k, S)
<1>1. /\ active' = active /\ active \subseteq Minted
      /\ \A r \in active : rooms'[r] = IF rooms[r].conns[k] # 0 /\ r \in S
                                       THEN Without(rooms[r], k) ELSE rooms[r]
  BY DEF Depart, TypeOK
<1>2. ASSUME NEW r \in active
      PROVE  OpenRoom(r)' = IF r \in S THEN Service!Rid(OpenRoom(r), k) ELSE OpenRoom(r)
  <2>1. rooms[r] \in Room /\ rooms[r].conns \in [Conn -> Nat]
    BY <1>1, RoomFacts
  <2>2. CASE rooms[r].conns[k] # 0 /\ r \in S
    <3>1. /\ rooms'[r].anchor = rooms[r].anchor /\ rooms'[r].owner = rooms[r].owner
          /\ rooms'[r].conns = [rooms[r].conns EXCEPT ![k] = 0]
      <4>1. rooms'[r] = Without(rooms[r], k)
        BY <1>1, <2>2
      <4>2. /\ Without(rooms[r], k).anchor = rooms[r].anchor
            /\ Without(rooms[r], k).owner = rooms[r].owner
            /\ Without(rooms[r], k).conns = [rooms[r].conns EXCEPT ![k] = 0]
        BY <2>1 DEF Without, Room
      <4> QED
        BY <4>1, <4>2
    <3>2. PeersOf(r)' = PeersOf(r) \ {k}
      BY <2>1, <3>1 DEF PeersOf
    <3>3. {c \in PeersOf(r)' : rooms'[r].conns[c] = rooms'[r].owner}
            = {c \in PeersOf(r) : rooms[r].conns[c] = rooms[r].owner} \ {k}
      BY <2>1, <3>1, <3>2
    <3> QED
      BY <2>2, <3>1, <3>2, <3>3 DEF OpenRoom, Service!Rid
  <2>3. CASE ~ (rooms[r].conns[k] # 0 /\ r \in S)
    <3>1. rooms'[r] = rooms[r]
      BY <1>1, <2>3
    <3>2. OpenRoom(r)' = OpenRoom(r)
      BY <3>1 DEF OpenRoom, PeersOf
    <3>3. ASSUME r \in S PROVE Service!Rid(OpenRoom(r), k) = OpenRoom(r)
      <4>1. k \notin PeersOf(r)
        BY <2>3, <3>3 DEF PeersOf
      <4>2. PeersOf(r) \ {k} = PeersOf(r)
        BY <4>1
      <4>3. {c \in PeersOf(r) : rooms[r].conns[c] = rooms[r].owner} \ {k}
              = {c \in PeersOf(r) : rooms[r].conns[c] = rooms[r].owner}
        BY <4>1
      <4> QED
        BY <4>2, <4>3 DEF OpenRoom, Service!Rid
    <3> QED
      BY <3>2, <3>3
  <2> QED
    BY <2>2, <2>3
<1> QED
  BY <1>1, <1>2 DEF OpenRooms, Service!Left

LEMMA DepartStep ==
  ASSUME TypeOK, KickInv, WhoInv, NEW d \in Conn, Depart(d)
  PROVE  Service!Next
<1>1. /\ pc[d] = "depart" /\ job[d] \in Job /\ JobOK(pc[d], job[d], Minted)
      /\ KickPart(d) /\ WhoPart(d) /\ Minted \subseteq Id
  BY JobFacts DEF Depart, KickInv, WhoInv
<1>2. PICK k \in Conn : k = job[d].who
  BY <1>1 DEF Job
<1>3. PICK r \in Nat : r = job[d].room
  BY <1>1 DEF Job
<1>4. PICK j : GoOn(d, j) /\ j.fin = job[d].fin
  <2> DEFINE hit == {q \in active : /\ rooms[q].conns[job[d].who] # 0
                                    /\ job[d].all \/ q = job[d].room}
             gone == {<<q, rooms[q].conns[job[d].who]>> : q \in hit}
             seed == job[d].seed /\ \E q \in hit : rooms[q].kind = "party"
             j == [job[d] EXCEPT !.left = gone, !.seed = seed]
  <2>1. GoOn(d, j)
    BY DEF Depart
  <2> HIDE DEF gone, seed
  <2>2. j.fin = job[d].fin
    BY <1>1 DEF Job
  <2> HIDE DEF j
  <2> QED
    BY <2>1, <2>2
<1>5. /\ \E l \in {"recv", "tell", "done", "seed_send"} : \E i : Goto(d, l, i)
      /\ Gone' = Gone \/ (job[d].fin /\ Gone' = Gone \cup {d})
  BY <1>4, GoOnStep
<1>6. Service!Answered(d) /\ Requests[d] = Removal(d, job[d])
  <2>1. \A l \in {"recv", "tell", "done", "seed_send"} : l \notin AskPCs
    BY DEF AskPCs
  <2>2. Doing(d, pc[d], job[d]) = Removal(d, job[d])
    BY <1>1 DEF Doing
  <2> QED
    BY <1>5, <2>1, <2>2, Answering
<1>7. CASE k = d
  <2> DEFINE room == IF job[d].all THEN 0 ELSE r
             S == IF room = 0 THEN DOMAIN OpenRooms ELSE {room}
  <2>1. Requests[d] = Asked("part", d, room)
    BY <1>2, <1>3, <1>6, <1>7 DEF Removal
  <2>2. ~ job[d].all => r # 0
    BY <1>1, <1>2, <1>3, <1>7 DEF WhoPart, JobOK, Id
  <2>3. \A q \in active : q \in S <=> (job[d].all \/ q = job[d].room)
    BY <1>3, <2>2 DEF OpenRooms
  <2> HIDE DEF S
  <2>4. OpenRooms' = Service!Left(d, S)
    BY <1>2, <1>7, <2>3, DepartRooms
  <2> HIDE DEF room
  <2>5. Service!Does(d, "part") /\ Requests[d].room = room
    BY <1>6, <2>1 DEF Service!Does, Asked
  <2>6. Service!Part(d)
    BY <1>5, <2>4, <2>5 DEF S, Service!Part
  <2> QED
    BY <2>6 DEF Service!Next
<1>8. CASE k # d
  <2>1. ~ job[d].all /\ ~ job[d].fin
    BY <1>1, <1>2, <1>8 DEF WhoPart
  <2>2. Gone' = Gone
    BY <1>5, <2>1
  <2>3. OpenRooms' = Service!Left(k, {r})
    BY <1>2, <1>3, <2>1, DepartRooms
  <2>4. CASE job[d].seed
    <3>1. Requests[d] = Asked("expel", k, r)
      BY <1>2, <1>3, <1>6, <1>8, <2>4 DEF Removal
    <3>2. Service!Does(d, "expel") /\ Requests[d].room = r /\ Requests[d].whom = k
      BY <1>6, <3>1 DEF Service!Does, Asked
    <3>3. d \in Gone \/ Service!Leads(d, r)
      <4>1. sock[d] = "up" => rooms[r].conns[d] = rooms[r].owner
        BY <1>1, <1>2, <1>3, <1>8, <2>4 DEF KickPart, Ruling, Kicking, KickSafe
      <4>2. r \in Minted /\ rooms[r].owner # 0
        BY <1>3, <2>4, JobRoom, RoomFacts DEF Id
      <4>3. sock[d] # "up" => d \in Gone
        BY DEF Gone
      <4> QED
        BY <4>1, <4>2, <4>3 DEF Service!Leads, OpenRooms, OpenRoom, PeersOf
    <3>4. Service!Expel(d)
      BY <2>2, <2>3, <3>2, <3>3 DEF Service!Expel
    <3> QED
      BY <3>4 DEF Service!Next
  <2>5. CASE ~ job[d].seed
    <3>1. Requests[d] = Asked("remove", k, r)
      BY <1>2, <1>3, <1>6, <1>8, <2>5 DEF Removal
    <3>2. Service!Does(d, "remove") /\ Requests[d].room = r /\ Requests[d].whom = k
      BY <1>6, <3>1 DEF Service!Does, Asked
    <3>3. k \in Gone
      BY <1>1, <1>2, <1>8, <2>5 DEF KickPart, Gone
    <3>4. Service!Remove(d)
      BY <2>2, <2>3, <3>2, <3>3 DEF Service!Remove
    <3> QED
      BY <3>4 DEF Service!Next
  <2> QED
    BY <2>4, <2>5
<1> QED
  BY <1>7, <1>8

-----------------------------------------------------------------------------
LEMMA ServiceInit ==
  ASSUME Init
  PROVE  Service!Init
<1>1. active = {} /\ sock = [c \in Conn |-> "up"] /\ pc = [c \in Conn |-> "recv"]
  BY DEF Init
<1>2. OpenRooms = [r \in {} |-> Service!Idle]
  BY <1>1 DEF OpenRooms
<1>3. Gone = {}
  BY <1>1 DEF Gone
<1>4. Requests = [c \in Conn |-> Service!Idle]
  <2>1. \A c \in Conn : Doing(c, pc[c], job[c]) = Service!Idle
    BY <1>1, NoRequest DEF AskPCs, Nothing, Service!Idle
  <2> QED
    BY <2>1 DEF Requests
<1> QED
  BY <1>2, <1>3, <1>4 DEF Service!Init

LEMMA ServiceStep ==
  ASSUME TypeOK, TypeOK', UniqueMemberIds, KickInv, FreshInv, WhoInv, [Next]_vars
  PROVE  [Service!Next]_(Service!vars)
<1>1. ASSUME NEW c \in Conn, Request(c) PROVE [Service!Next]_(Service!vars)
  BY <1>1, KeepingSteps, LateKickStep, RetireSteps DEF Request
<1>2. ASSUME NEW c \in Conn, Continue(c) PROVE [Service!Next]_(Service!vars)
  <2>1. CASE \/ CreateSend(c) \/ JoinGate(c) \/ JoinSnapshot(c) \/ KickSend(c) \/ PromoteCheck(c)
             \/ PromoteSend(c) \/ CacheData(c) \/ SeedSend(c)
    BY <2>1, KeepingSteps, CheckSteps
  <2>2. CASE CreateRegister(c) \/ SeedRegister(c) \/ JoinRegister(c) \/ Depart(c)
    BY <2>2, RegisterSteps, JoinRegisterStep, DepartStep
  <2>3. CASE JoinSend(c) \/ PromoteSet(c)
    BY <2>3, JoinSendStep, PromoteSetStep
  <2>4. CASE \/ \E r \in Minted : CloseRoom(c, r)
             \/ \E d \in job[c].left : TellDeparture(c, d[1], d[2])
    BY <2>4, CloseRoomStep, TellDepartureStep
  <2> QED
    BY <1>2, <2>1, <2>2, <2>3, <2>4 DEF Continue
<1>3. ASSUME NEW c \in Conn, Finally(c) \/ Drop(c) PROVE [Service!Next]_(Service!vars)
  BY <1>3, RetireSteps, DropStep
<1>5. ASSUME NEW c \in Conn, Raise(c) PROVE [Service!Next]_(Service!vars)
  BY <1>5, CloseRaisesStep DEF Raise
<1>4. CASE UNCHANGED vars
  <2>1. OpenRooms' = OpenRooms
    BY <1>4, SameOpen DEF vars
  <2>2. Gone' = Gone /\ Requests' = Requests
    BY <1>4 DEF vars, Gone, Requests, Doing, Removal
  <2> QED
    BY <2>1, <2>2 DEF Service!vars
<1> QED
  BY <1>1, <1>2, <1>3, <1>4, <1>5 DEF Next

(* The handlers of the session manager, in whatever order their critical    *)
(* sections come, implement the room service                               *)
(* (session_manager.py:2158-2841): for any connections, capacities and     *)
(* bounds.                                                                 *)
THEOREM RegistryImplementsService == Spec => ImplementsRoomService
<1>1. Init => FreshInv /\ WhoInv /\ KickInv /\ Service!Init
  <2>1. Init => KickInv
    BY DEF Init, KickInv, KickPart, RuleAlone, Ruling, Kicking
  <2>2. Init => FreshInv /\ WhoInv
    BY DEF Init, FreshInv, PendingOK, PendingPCs, WhoInv, WhoPart
  <2> QED
    BY <2>1, <2>2, ServiceInit
<1>2. TypeOK /\ UniqueMemberIds /\ KickInv /\ [Next]_vars => KickInv'
  BY KickNext
<1>3. TypeOK /\ FreshInv /\ [Next]_vars => FreshInv'
  BY FreshNext
<1>4. TypeOK /\ KickInv /\ WhoInv /\ [Next]_vars => WhoInv'
  BY WhoNext
<1>5. TypeOK /\ TypeOK' /\ UniqueMemberIds /\ KickInv /\ FreshInv /\ WhoInv /\ [Next]_vars
        => [Service!Next]_(Service!vars)
  BY ServiceStep
<1> QED
  BY <1>1, <1>2, <1>3, <1>4, <1>5, TypeCorrect, MemberIdsUnique, PTL
  DEF Spec, ImplementsRoomService, Service!Spec

-----------------------------------------------------------------------------
(***************************************************************************)
(* What follows from RoomService alone                                     *)
(***************************************************************************)

(* The rooms are records, their leaders members, and one at most.          *)
RoomOK(room) == /\ room = [by |-> room.by, in |-> room.in, lead |-> room.lead]
                /\ room.lead \subseteq room.in
                /\ \A c, d \in room.lead : c = d
RoomsOK(open) == \A r \in DOMAIN open : RoomOK(open[r])

LEMMA AloneOK == \A c : RoomOK(Service!Alone(c))
  BY DEF RoomOK, Service!Alone

(* Somebody leaving keeps it so.                                           *)
LEMMA RidOK ==
  ASSUME NEW room, RoomOK(room), NEW c
  PROVE  RoomOK(Service!Rid(room, c))
<1>1. Service!Rid(room, c) = [by |-> room.by, in |-> room.in \ {c}, lead |-> room.lead \ {c}]
  BY DEF Service!Rid
<1> QED
  BY <1>1 DEF RoomOK

LEMMA LeftOK ==
  ASSUME RoomsOK(OpenRooms), NEW c, NEW S, OpenRooms' = Service!Left(c, S)
  PROVE  RoomsOK(OpenRooms')
<1>1. /\ DOMAIN OpenRooms' = DOMAIN OpenRooms
      /\ \A r \in DOMAIN OpenRooms : OpenRooms'[r] \in {OpenRooms[r], Service!Rid(OpenRooms[r], c)}
  BY DEF Service!Left
<1> QED
  BY <1>1, RidOK DEF RoomsOK

(* And a change of one room, from a room to a room.                        *)
LEMMA OneRoomOK ==
  ASSUME NEW open, RoomsOK(open), NEW r, NEW room, RoomOK(room)
  PROVE  RoomsOK([open EXCEPT ![r] = room])
  BY DEF RoomsOK

LEMMA EnterOK ==
  ASSUME RoomsOK(OpenRooms), NEW c \in Conn, Service!Enter(c)
  PROVE  RoomsOK(OpenRooms')
<1> DEFINE r == Requests[c].room
<1>1. CASE r \notin DOMAIN OpenRooms /\ OpenRooms' = OpenRooms
  BY <1>1
<1>2. ASSUME r \in DOMAIN OpenRooms, NEW lead \in SUBSET {c},
             lead = {} \/ OpenRooms[r].lead \subseteq {c},
             OpenRooms' = [OpenRooms EXCEPT ![r] = Service!Entered(@, c, lead)]
      PROVE  RoomsOK(OpenRooms')
  <2> HIDE DEF r
  <2>1. RoomOK(OpenRooms[r])
    BY <1>2 DEF RoomsOK
  <2>2. Service!Entered(OpenRooms[r], c, lead)
          = [by |-> OpenRooms[r].by, in |-> OpenRooms[r].in \cup {c},
             lead |-> (OpenRooms[r].lead \ {c}) \cup lead]
    BY DEF Service!Entered
  <2>3. RoomOK(Service!Entered(OpenRooms[r], c, lead))
    BY <1>2, <2>1, <2>2 DEF RoomOK
  <2> QED
    BY <1>2, <2>3, OneRoomOK
<1> QED
  BY <1>1, <1>2 DEF Service!Enter

LEMMA PassOK ==
  ASSUME RoomsOK(OpenRooms), NEW c \in Conn, Service!Pass(c)
  PROVE  RoomsOK(OpenRooms')
<1>1. PICK r : r = Requests[c].room
  OBVIOUS
<1>2. CASE OpenRooms' = OpenRooms
  BY <1>2
<1>3. ASSUME r \in DOMAIN OpenRooms,
             NEW lead \in {{}} \cup {{d} : d \in OpenRooms[r].in},
             OpenRooms' = [OpenRooms EXCEPT ![r].lead = lead]
      PROVE  RoomsOK(OpenRooms')
  <2>1. RoomOK(OpenRooms[r])
    BY <1>3 DEF RoomsOK
  <2>2. [OpenRooms[r] EXCEPT !.lead = lead]
          = [by |-> OpenRooms[r].by, in |-> OpenRooms[r].in, lead |-> lead]
    BY <2>1 DEF RoomOK
  <2>3. RoomOK([OpenRooms[r] EXCEPT !.lead = lead])
    BY <1>3, <2>2 DEF RoomOK
  <2> QED
    BY <1>3, <2>3, OneRoomOK
<1> QED
  BY <1>1, <1>2, <1>3 DEF Service!Pass

(* No step of the room service leaves a room with two leaders, or with one *)
(* that is not a member.                                                   *)
LEMMA RoomsStayOK ==
  ASSUME RoomsOK(OpenRooms), [Service!Next]_(Service!vars)
  PROVE  RoomsOK(OpenRooms')
<1>1. CASE OpenRooms' = OpenRooms
  BY <1>1
<1>2. ASSUME NEW S, OpenRooms' = Service!Closed(S) PROVE RoomsOK(OpenRooms')
  BY <1>2 DEF RoomsOK, Service!Closed
<1>3. ASSUME NEW c \in Conn, Service!Open(c) PROVE RoomsOK(OpenRooms')
  <2>1. PICK S : OpenRooms' = [r \in (DOMAIN OpenRooms \ S) \cup {Requests[c].room} |->
                   IF r = Requests[c].room THEN Service!Alone(Requests[c].whom) ELSE OpenRooms[r]]
    BY <1>3 DEF Service!Open
  <2> QED
    BY <2>1, AloneOK DEF RoomsOK
<1>4. ASSUME NEW c \in Conn, Service!Part(c) \/ Service!Expel(c) \/ Service!Remove(c)
      PROVE  RoomsOK(OpenRooms')
  BY <1>4, LeftOK DEF Service!Part, Service!Expel, Service!Remove
<1>5. CASE \E c \in Conn : \/ Service!Begin(c) \/ Service!Retire(c) \/ Service!Lapse(c)
                            \/ Service!Vanish(c)
  BY <1>1, <1>2, <1>5 DEF Service!Begin, Service!Retire, Service!Lapse, Service!Vanish
<1>6. CASE \E r \in DOMAIN OpenRooms : Service!Abandon(r)
  BY <1>2, <1>6 DEF Service!Abandon
<1> QED
  BY <1>1, <1>3, <1>4, <1>5, <1>6, EnterOK, PassOK DEF Service!Next, Service!vars

(* The room service has one leader to a room at most.                       *)
LEMMA OneLeaderPromised == ImplementsRoomService => []Service!OneLeader
<1> DEFINE Inv == RoomsOK(OpenRooms)
<1>1. Service!Init => Inv
  BY DEF Service!Init, RoomsOK
<1>2. Inv /\ [Service!Next]_(Service!vars) => Inv'
  BY RoomsStayOK
<1>3. Inv => Service!OneLeader
  BY DEF RoomsOK, RoomOK, Service!OneLeader
<1> HIDE DEF Inv
<1> QED
  BY <1>1, <1>2, <1>3, PTL DEF ImplementsRoomService, Service!Spec

(* So have the handlers, whatever they interleave: no registered room has   *)
(* two members that pass the check of a Kickout or a Promote                *)
(* (session_manager.py:2731, 2798).                                         *)
THEOREM OneLeaderAlways == Spec => []Service!OneLeader
  BY RegistryImplementsService, OneLeaderPromised, PTL

-----------------------------------------------------------------------------
(***************************************************************************)
(* Connections that are over                                               *)
(***************************************************************************)

(* From the retiring of its rooms on, a connection that ends has only      *)
(* parties registered, put there by threads that removed it; and from the  *)
(* moment it was taken out of all rooms, unless a log write raised before, *)
(* it is in none of somebody else's.  Only a thread that has ended has     *)
(* closed its socket.  A reseeded room is a party.                         *)
Ending(c) == pc[c] = "done" \/ job[c].fin
Removed(c) == sock[c] = "closed" \/ (pc[c] = "tell" /\ job[c].fin)
GonePart(c) ==
  /\ sock[c] = "closed" => pc[c] = "done"
  /\ job[c].fin => /\ pc[c] \in {"close", "depart", "tell"}
                   /\ job[c].all /\ job[c].who = c
  /\ pc[c] = "seed_reg" => rooms[job[c].room].kind = "party"
  /\ Ending(c) => \A r \in active : rooms[r].anchor = c => rooms[r].kind = "party"
  /\ Removed(c) => \A r \in active : rooms[r].anchor # c => rooms[r].conns[c] = 0
GoneInv == \A c \in Conn : GonePart(c)

(* A room keeps its creator and its kind, and a thread puts nobody but     *)
(* itself into one.                                                        *)
StaysAs(r, d) ==
  /\ rooms'[r].anchor = rooms[r].anchor /\ rooms'[r].kind = rooms[r].kind
  /\ \A c \in Conn \ {d} : rooms'[r].conns[c] \in {0, rooms[r].conns[c]}

LEMMA RoomStays ==
  ASSUME TypeOK, NEW d \in Conn, Request(d) \/ Continue(d) \/ Finally(d) \/ Raise(d),
         NEW r \in Minted
  PROVE  StaysAs(r, d)
<1>0. rooms[r] \in Room /\ r \in 1 .. seq + 1
  BY DEF TypeOK, Minted
<1>1. CASE rooms'[r] = rooms[r]
  BY <1>1 DEF StaysAs
<1>2. CASE JoinGate(d) \/ PromoteSet(d)
  <2>1. \A n : LET s == [rooms[r] EXCEPT !.next = n]
                   t == [rooms[r] EXCEPT !.owner = n]
               IN /\ s.anchor = rooms[r].anchor /\ s.kind = rooms[r].kind /\ s.conns = rooms[r].conns
                  /\ t.anchor = rooms[r].anchor /\ t.kind = rooms[r].kind /\ t.conns = rooms[r].conns
    BY <1>0 DEF Room
  <2>2. \/ rooms'[r] = rooms[r]
        \/ \E n : rooms'[r] = [rooms[r] EXCEPT !.next = n] \/ rooms'[r] = [rooms[r] EXCEPT !.owner = n]
    <3> DEFINE q == job[d].room
    <3>1. \/ rooms' = rooms
          \/ \E n : \/ rooms' = [rooms EXCEPT ![q] = [rooms[q] EXCEPT !.next = n]]
                   \/ rooms' = [rooms EXCEPT ![q] = [rooms[q] EXCEPT !.owner = n]]
      BY <1>2 DEF JoinGate, PromoteSet
    <3>2. rooms \in [Minted -> Room]
      BY DEF TypeOK
    <3> HIDE DEF q
    <3> QED
      BY <3>1, <3>2
  <2> QED
    BY <2>1, <2>2 DEF StaysAs
<1>3. CASE JoinRegister(d)
  <2>1. rooms' = [rooms EXCEPT ![job[d].room] = With(@, d, job[d].mid, job[d].roster)]
    BY <1>3 DEF JoinRegister
  <2>2. CASE r # job[d].room
    BY <1>1, <2>1, <2>2 DEF TypeOK
  <2>3. CASE r = job[d].room
    <3>1. rooms'[r] = With(rooms[r], d, job[d].mid, job[d].roster)
      BY <2>1, <2>3 DEF TypeOK
    <3>2. /\ rooms'[r].anchor = rooms[r].anchor /\ rooms'[r].kind = rooms[r].kind
          /\ rooms'[r].conns = [rooms[r].conns EXCEPT ![d] = job[d].mid]
      BY <1>0, <3>1 DEF With, Room
    <3> QED
      BY <1>0, <3>2 DEF StaysAs, Room
  <2> QED
    BY <2>2, <2>3
<1>4. CASE Depart(d)
  <2>1. rooms'[r] = rooms[r] \/ rooms'[r] = Without(rooms[r], job[d].who)
    BY <1>4 DEF Depart
  <2>2. CASE rooms'[r] = Without(rooms[r], job[d].who)
    <3>1. /\ rooms'[r].anchor = rooms[r].anchor /\ rooms'[r].kind = rooms[r].kind
          /\ rooms'[r].conns = [rooms[r].conns EXCEPT ![job[d].who] = 0]
      BY <1>0, <2>2 DEF Without, Room
    <3> QED
      BY <1>0, <3>1 DEF StaysAs, Room
  <2> QED
    BY <1>1, <2>1, <2>2
<1>5. CASE SeedSend(d) \/ \E op \in Creates, cap \in CapInputs : Create(d, op, cap)
  <2>1. rooms'[r] = rooms[r]
    BY <1>0, <1>5 DEF SeedSend, Create
  <2> QED
    BY <1>1, <2>1
<1>6. CASE rooms' = rooms
  BY <1>1, <1>6
<1> QED
  BY <1>2, <1>3, <1>4, <1>5, <1>6
  DEF Request, Continue, Finally, Raise, Join, Leave, SetPartyData, Kick, LateKick, Promote,
      CreateSend, CreateRegister, JoinSnapshot, JoinSend, KickSend, PromoteCheck, PromoteSend,
      CacheData, CloseRoom, CloseRaises, TellDeparture, SeedRegister

(* What is registered afterwards was before, or is a new room for one      *)
(* alone: the thread's own, or a party for the one it removed.             *)
NewFor(r, k) == rooms'[r].anchor = k /\ \A c \in Conn \ {k} : rooms'[r].conns[c] = 0
Enters(r, d) == NewFor(r, d) \/ (rooms'[r].kind = "party" /\ \E k \in Conn : NewFor(r, k))

LEMMA Registered ==
  ASSUME TypeOK, FreshInv, GoneInv, NEW d \in Conn,
         Request(d) \/ Continue(d) \/ Finally(d) \/ Raise(d), NEW r \in active'
  PROVE  r \in active \/ (r \in Minted /\ Enters(r, d))
<1>1. CASE CreateRegister(d) \/ SeedRegister(d)
  <2>1. r \in active \/ r = job[d].room
    BY <1>1 DEF CreateRegister, SeedRegister
  <2>2. job[d].room \in Minted /\ rooms' = rooms /\ job[d] \in Job
    BY <1>1, JobRoom, JobFacts DEF CreateRegister, SeedRegister, RoomPCs, PCs
  <2>3. Fresh(job[d].room, For(pc[d], d, job[d]))
    BY <1>1 DEF FreshInv, PendingOK, PendingPCs, CreateRegister, SeedRegister
  <2>4. CASE CreateRegister(d)
    <3>1. For(pc[d], d, job[d]) = d
      BY <2>4 DEF CreateRegister, For
    <3> QED
      BY <2>1, <2>2, <2>3, <3>1 DEF Fresh, Enters, NewFor
  <2>5. CASE SeedRegister(d)
    <3>1. For(pc[d], d, job[d]) = job[d].who /\ job[d].who \in Conn
      BY <2>2, <2>5 DEF SeedRegister, For, Job
    <3>2. rooms[job[d].room].kind = "party"
      BY <2>5 DEF SeedRegister, GoneInv, GonePart
    <3>3. NewFor(job[d].room, job[d].who)
      BY <2>2, <2>3, <3>1 DEF Fresh, NewFor
    <3> QED
      BY <2>1, <2>2, <3>1, <3>2, <3>3 DEF Enters
  <2> QED
    BY <1>1, <2>4, <2>5
<1>2. CASE active' \subseteq active
  BY <1>2
<1> QED
  BY <1>1, <1>2
  DEF Request, Continue, Finally, Raise, Create, Join, Leave, SetPartyData, Kick, LateKick,
      Promote, CreateSend, JoinGate, JoinSnapshot, JoinSend, JoinRegister, KickSend,
      PromoteCheck, PromoteSet, PromoteSend, CacheData, CloseRoom, CloseRaises, Depart,
      TellDeparture, SeedSend

(* The socket a step of a thread closes is its own, and its last.          *)
LEMMA SockSteps ==
  ASSUME TypeOK, NEW d \in Conn, Request(d) \/ Continue(d) \/ Finally(d) \/ Raise(d)
  PROVE  /\ pc[d] # "done"
         /\ \A c \in Conn : c # d => sock'[c] = sock[c]
         /\ sock'[d] = sock[d] \/ pc'[d] = "done"
<1>1. CASE Depart(d) \/ \E e \in job[d].left : TellDeparture(d, e[1], e[2])
  <2>1. PICK j : GoOn(d, j)
    BY <1>1 DEF Depart, TellDeparture
  <2>2. \/ sock' = sock
        \/ pc' = [pc EXCEPT ![d] = "done"] /\ sock' = [sock EXCEPT ![d] = "closed"]
    BY <2>1 DEF GoOn, Finish, Goto
  <2>3. pc[d] \in {"depart", "tell"}
    BY <1>1 DEF Depart, TellDeparture
  <2> QED
    BY <2>2, <2>3 DEF TypeOK
<1>2. CASE Request(d) \/ Finally(d) \/ Raise(d)
  BY <1>2 DEF Request, Finally, Raise, Create, Join, Leave, SetPartyData, Kick, LateKick, Promote,
     Receive, CloseRaises
<1>3. CASE CreateSend(d) \/ CreateRegister(d) \/ JoinGate(d) \/ JoinSnapshot(d) \/ JoinSend(d)
           \/ JoinRegister(d) \/ KickSend(d) \/ PromoteCheck(d) \/ PromoteSet(d) \/ PromoteSend(d)
           \/ CacheData(d) \/ SeedSend(d) \/ SeedRegister(d) \/ \E r \in Minted : CloseRoom(d, r)
  BY <1>3 DEF CreateSend, CreateRegister, JoinGate, JoinSnapshot, JoinSend, JoinRegister,
     KickSend, PromoteCheck, PromoteSet, PromoteSend, CacheData, SeedSend, SeedRegister, CloseRoom
<1> QED
  BY <1>1, <1>2, <1>3 DEF Continue

(* So a step of one thread keeps what holds for the others.                *)
LEMMA GoneOthers ==
  ASSUME TypeOK, FreshInv, GoneInv, NEW d \in Conn,
         Request(d) \/ Continue(d) \/ Finally(d) \/ Raise(d),
         NEW c \in Conn, c # d, pc'[c] = pc[c], job'[c] = job[c]
  PROVE  GonePart(c)'
<1>1. GonePart(c)
  BY DEF GoneInv
<1>2. \A r \in Minted : StaysAs(r, d)
  BY RoomStays
<1>3. \A r \in active' : r \in active \/ (r \in Minted /\ Enters(r, d))
  BY Registered
<1>4. active \subseteq Minted /\ \A r \in Minted : rooms[r].conns[c] \in Nat
  BY RoomFacts DEF TypeOK
<1>0. sock'[c] = sock[c]
  BY SockSteps
<1>9. sock'[c] = "closed" => pc'[c] = "done"
  BY <1>0, <1>1 DEF GonePart
<1>5. job'[c].fin => /\ pc'[c] \in {"close", "depart", "tell"}
                     /\ job'[c].all /\ job'[c].who = c
  BY <1>1 DEF GonePart
<1>6. pc'[c] = "seed_reg" => rooms'[job'[c].room].kind = "party"
  <2>1. pc[c] = "seed_reg" => job[c].room \in Minted
    BY JobRoom DEF RoomPCs, PCs
  <2> QED
    BY <1>1, <1>2, <2>1 DEF GonePart, StaysAs
<1>7. ASSUME Ending(c), NEW r \in active', rooms'[r].anchor = c
      PROVE  rooms'[r].kind = "party"
  <2>1. CASE r \in active
    BY <1>1, <1>2, <1>4, <1>7, <2>1 DEF GonePart, StaysAs
  <2>2. CASE Enters(r, d)
    BY <1>7, <2>2 DEF Enters, NewFor
  <2> QED
    BY <1>3, <2>1, <2>2
<1>8. ASSUME Removed(c), NEW r \in active', rooms'[r].anchor # c
      PROVE  rooms'[r].conns[c] = 0
  <2>1. CASE r \in active
    <3>1. rooms[r].conns[c] = 0
      BY <1>1, <1>2, <1>4, <1>8, <2>1 DEF GonePart, StaysAs
    <3> QED
      BY <1>2, <1>4, <2>1, <3>1 DEF StaysAs
  <2>2. CASE Enters(r, d)
    BY <1>8, <2>2 DEF Enters, NewFor
  <2> QED
    BY <1>3, <2>1, <2>2
<1> QED
  BY <1>0, <1>5, <1>6, <1>7, <1>8, <1>9 DEF GonePart, Ending, Removed

LEMMA GoneStep ==
  ASSUME TypeOK, FreshInv, GoneInv, NEW d \in Conn,
         Request(d) \/ Continue(d) \/ Finally(d) \/ Raise(d),
         NEW l, NEW j, Goto(d, l, j), GonePart(d)'
  PROVE  GoneInv'
<1>1. \A c \in Conn : c # d => pc'[c] = pc[c] /\ job'[c] = job[c]
  BY DEF Goto, TypeOK
<1> QED
  BY <1>1, GoneOthers DEF GoneInv

(* Its own socket, it has not closed.                                      *)
LEMMA SockOpen ==
  ASSUME TypeOK, GoneInv, NEW d \in Conn, Request(d) \/ Continue(d) \/ Finally(d) \/ Raise(d)
  PROVE  sock[d] # "closed" /\ (sock'[d] = "closed" => pc'[d] = "done")
  BY SockSteps DEF GoneInv, GonePart

(* A step that neither ends the connection nor reseeds.                    *)
LEMMA GonePlain ==
  ASSUME TypeOK, FreshInv, GoneInv, NEW d \in Conn,
         Request(d) \/ Continue(d) \/ Finally(d) \/ Raise(d),
         NEW l, NEW j, Goto(d, l, j), ~ j.fin, l \notin {"seed_reg", "done"}
  PROVE  GoneInv'
<1>1. pc'[d] = l /\ job'[d] = j
  BY DEF Goto, TypeOK
<1>2. GonePart(d)'
  BY <1>1, SockOpen DEF GonePart, Ending, Removed
<1> QED
  BY <1>2, GoneStep

LEMMA GoneAway ==
  ASSUME TypeOK, FreshInv, GoneInv, NEW d \in Conn, Finally(d)
  PROVE  GoneInv'
<1> DEFINE j == [NoJob(d) EXCEPT !.all = TRUE, !.fin = TRUE, !.closing = OwnedBy(d)]
           l == AfterRetire(j)
<1>1. Goto(d, l, j) /\ active' = active \ OwnedBy(d) /\ rooms' = rooms
  BY DEF Finally
<1>2. j.all /\ j.fin /\ j.who = d /\ l \in {"close", "depart"}
  BY AfterRetireType DEF NoJob
<1> HIDE DEF j, l
<1>3. pc'[d] = l /\ job'[d] = j
  BY <1>1 DEF Goto, TypeOK
<1>4. \A r \in active' : rooms'[r].anchor # d
  BY <1>1 DEF OwnedBy
<1>5. GonePart(d)'
  BY <1>2, <1>3, <1>4, SockOpen DEF GonePart, Ending, Removed
<1> QED
  BY <1>1, <1>5, GoneStep

(* Closing its rooms one by one changes nothing of this.                   *)
LEMMA GoneClose ==
  ASSUME TypeOK, FreshInv, GoneInv, NEW d \in Conn, NEW r \in Minted, CloseRoom(d, r)
  PROVE  GoneInv'
<1> DEFINE j == [job[d] EXCEPT !.closing = @ \ {r}]
           l == AfterRetire(j)
<1>1. Goto(d, l, j) /\ active' = active /\ rooms' = rooms /\ Continue(d)
  BY DEF CloseRoom, Continue
<1>2. j.all = job[d].all /\ j.fin = job[d].fin /\ j.who = job[d].who /\ l \in {"close", "depart"}
  BY AfterRetireType, JobFacts DEF Job
<1>3. pc[d] = "close" /\ GonePart(d)
  BY DEF CloseRoom, GoneInv
<1> HIDE DEF j, l
<1>4. pc'[d] = l /\ job'[d] = j
  BY <1>1 DEF Goto, TypeOK
<1>5. GonePart(d)'
  BY <1>1, <1>2, <1>3, <1>4, SockOpen DEF GonePart, Ending, Removed
<1> QED
  BY <1>1, <1>5, GoneStep

(* A log write that raises there leaves the connection where it was, with  *)
(* its socket open; its rooms are retired already.                         *)
LEMMA GoneRaise ==
  ASSUME TypeOK, FreshInv, GoneInv, NEW d \in Conn, Raise(d)
  PROVE  GoneInv'
<1>1. PICK r \in Minted : CloseRaises(d, r)
  BY DEF Raise
<1>2. /\ pc[d] = "close" /\ active' = active /\ rooms' = rooms /\ sock' = sock
      /\ \/ job[d].fin /\ Goto(d, "done", NoJob(d))
         \/ ~ job[d].fin /\ Goto(d, "fin", job[d])
  BY <1>1 DEF CloseRaises
<1>3. CASE ~ job[d].fin
  BY <1>2, <1>3, GonePlain
<1>4. CASE job[d].fin
  <2>1. Goto(d, "done", NoJob(d)) /\ pc'[d] = "done" /\ job'[d] = NoJob(d) /\ ~ NoJob(d).fin
    BY <1>2, <1>4 DEF Goto, TypeOK, NoJob
  <2>2. GonePart(d) /\ Ending(d)
    BY <1>4 DEF GoneInv, Ending
  <2>3. GonePart(d)'
    BY <1>2, <2>1, <2>2, SockOpen DEF GonePart, Ending, Removed
  <2> QED
    BY <2>1, <2>3, GoneStep
<1> QED
  BY <1>3, <1>4

(* The departure takes the connection out of every registered room.        *)
LEMMA GoneDepart ==
  ASSUME TypeOK, FreshInv, GoneInv, NEW d \in Conn, Depart(d)
  PROVE  GoneInv'
<1> DEFINE k == job[d].who
           hit == {r \in active : rooms[r].conns[k] # 0 /\ (job[d].all \/ r = job[d].room)}
           gone == {<<r, rooms[r].conns[k]>> : r \in hit}
           j == [job[d] EXCEPT !.left = gone,
                               !.seed = @ /\ \E r \in hit : rooms[r].kind = "party"]
<1>1. /\ GoOn(d, j) /\ active' = active /\ Continue(d) /\ pc[d] = "depart"
      /\ rooms' = [r \in Minted |-> IF r \in hit THEN Without(rooms[r], k) ELSE rooms[r]]
  BY DEF Depart, Continue
<1>2. job[d] \in Job /\ GonePart(d) /\ k \in Conn
  BY JobFacts DEF GoneInv, Job
<1>3. j.all = job[d].all /\ j.fin = job[d].fin /\ j.who = k
  BY <1>2 DEF Job
<1>4. CASE job[d].fin
  <2>1. k = d /\ job[d].all
    BY <1>2, <1>4 DEF GonePart
  <2>2. ASSUME NEW r \in active
        PROVE  /\ rooms'[r].conns[d] = 0 /\ rooms'[r].anchor = rooms[r].anchor
               /\ rooms'[r].kind = rooms[r].kind
    <3>1. r \in Minted /\ rooms[r] \in Room
      BY DEF TypeOK
    <3>2. CASE r \in hit
      BY <1>1, <2>1, <3>1, <3>2 DEF Without, Room
    <3>3. CASE r \notin hit
      BY <1>1, <2>1, <3>1, <3>3
    <3> QED
      BY <3>2, <3>3
  <2>3. \A r \in active : rooms[r].anchor = d => rooms[r].kind = "party"
    BY <1>2, <1>4 DEF GonePart, Ending
  <2>4. Goto(d, "tell", j) \/ Goto(d, "done", NoJob(d))
    BY <1>3, <1>4, <1>1 DEF GoOn, Finish
  <2> HIDE DEF j, k, hit
  <2>5. \/ pc'[d] = "tell" /\ job'[d] = j
        \/ pc'[d] = "done" /\ job'[d] = NoJob(d)
    BY <2>4 DEF Goto, TypeOK
  <2>6. ~ NoJob(d).fin
    BY DEF NoJob
  <2>7. GonePart(d)'
    BY <1>1, <1>3, <2>1, <2>2, <2>3, <2>5, <2>6, SockOpen DEF GonePart, Ending, Removed
  <2> QED
    BY <1>1, <2>4, <2>7, GoneStep
<1>5. CASE ~ job[d].fin
  <2>1. ~ j.fin /\ ~ NoJob(d).fin
    BY <1>3, <1>5 DEF NoJob
  <2> HIDE DEF j
  <2>2. Goto(d, "tell", j) \/ Goto(d, "seed_send", j) \/ Goto(d, "recv", NoJob(d))
    BY <1>1, <2>1 DEF GoOn, Return
  <2> QED
    BY <1>1, <2>1, <2>2, GonePlain
<1> QED
  BY <1>4, <1>5

LEMMA GoneTell ==
  ASSUME TypeOK, FreshInv, GoneInv, NEW d \in Conn, NEW e \in job[d].left,
         TellDeparture(d, e[1], e[2])
  PROVE  GoneInv'
<1> DEFINE j == [job[d] EXCEPT !.left = @ \ {<<e[1], e[2]>>}]
<1>1. GoOn(d, j) /\ active' = active /\ rooms' = rooms /\ Continue(d) /\ pc[d] = "tell"
  BY DEF TellDeparture, Continue
<1>2. job[d] \in Job /\ GonePart(d)
  BY JobFacts DEF GoneInv
<1>3. j.all = job[d].all /\ j.fin = job[d].fin /\ j.who = job[d].who /\ ~ NoJob(d).fin
  BY <1>2 DEF Job, NoJob
<1> HIDE DEF j
<1>4. CASE job[d].fin
  <2>1. Goto(d, "tell", j) \/ Goto(d, "done", NoJob(d))
    BY <1>1, <1>3, <1>4 DEF GoOn, Finish
  <2>2. \/ pc'[d] = "tell" /\ job'[d] = j
        \/ pc'[d] = "done" /\ job'[d] = NoJob(d)
    BY <2>1 DEF Goto, TypeOK
  <2>3. GonePart(d)'
    BY <1>1, <1>2, <1>3, <1>4, <2>2, SockOpen DEF GonePart, Ending, Removed
  <2> QED
    BY <1>1, <2>1, <2>3, GoneStep
<1>5. CASE ~ job[d].fin
  <2>1. Goto(d, "tell", j) \/ Goto(d, "seed_send", j) \/ Goto(d, "recv", NoJob(d))
    BY <1>1, <1>3, <1>5 DEF GoOn, Return
  <2> QED
    BY <1>1, <1>3, <1>5, <2>1, GonePlain
<1> QED
  BY <1>4, <1>5

(* The mint of a reseed is a party.                                        *)
LEMMA GoneSeedSend ==
  ASSUME TypeOK, FreshInv, GoneInv, NEW d \in Conn, SeedSend(d)
  PROVE  GoneInv'
<1> DEFINE j == [job[d] EXCEPT !.room = seq + 1]
<1>1. pc[d] = "seed_send" /\ Continue(d) /\ (Goto(d, "seed_reg", j) \/ Goto(d, "recv", NoJob(d)))
  BY DEF SeedSend, Continue, Return
<1>2. job[d] \in Job /\ GonePart(d) /\ seq \in Nat
  BY JobFacts DEF GoneInv, TypeOK
<1>3. ~ job[d].fin /\ ~ NoJob(d).fin
  BY <1>1, <1>2 DEF GonePart, NoJob
<1>4. j.room = seq + 1 /\ ~ j.fin
  BY <1>2, <1>3 DEF Job
<1> HIDE DEF j
<1>5. CASE Goto(d, "recv", NoJob(d))
  BY <1>1, <1>3, <1>5, GonePlain
<1>6. CASE Goto(d, "seed_reg", j)
  <2>1. pc'[d] = "seed_reg" /\ job'[d] = j
    BY <1>6 DEF Goto, TypeOK
  <2>2. rooms'[seq + 1] = SoloRoom(job[d].who, "party", FALSE, rooms[job[d].room].cap)
    <3>1. seq + 1 \in 1 .. seq + 1 /\ seq + 1 \notin Minted
      BY <1>2 DEF Minted
    <3> QED
      BY <3>1 DEF SeedSend
  <2>3. rooms'[seq + 1].kind = "party"
    BY <2>2 DEF SoloRoom
  <2>4. GonePart(d)'
    BY <1>1, <1>4, <2>1, <2>3, SockOpen DEF GonePart, Ending, Removed
  <2> QED
    BY <1>1, <1>6, <2>4, GoneStep
<1> QED
  BY <1>1, <1>5, <1>6

(* All other steps are of connections that are not over.                   *)
LEMMA GoneOther ==
  ASSUME TypeOK, FreshInv, GoneInv, NEW d \in Conn,
         \/ Request(d)
         \/ CreateSend(d) \/ CreateRegister(d) \/ JoinGate(d) \/ JoinSnapshot(d) \/ JoinSend(d)
         \/ JoinRegister(d) \/ KickSend(d) \/ PromoteCheck(d) \/ PromoteSet(d)
         \/ PromoteSend(d) \/ CacheData(d) \/ SeedRegister(d)
  PROVE  GoneInv'
<1> DEFINE Others == PCs \ {"seed_reg", "done"}
<1>1. /\ job[d] \in Job
      /\ Request(d) \/ Continue(d)
      /\ pc[d] \notin {"close", "depart", "tell"}
  <2>1. Request(d) => pc[d] = "recv"
    BY DEF Request, Create, Join, Leave, SetPartyData, Kick, LateKick, Promote, Receive
  <2>2. pc[d] \notin {"close", "depart", "tell"}
    BY <2>1 DEF CreateSend, CreateRegister, JoinGate, JoinSnapshot, JoinSend, JoinRegister,
       KickSend, PromoteCheck, PromoteSet, PromoteSend, CacheData, SeedRegister
  <2>3. job[d] \in Job
    BY JobFacts
  <2>4. Request(d) \/ Continue(d)
    BY DEF Continue
  <2> QED
    BY <2>2, <2>3, <2>4
<1>2. ~ job[d].fin /\ ~ NoJob(d).fin
  BY <1>1 DEF GoneInv, GonePart, NoJob
<1>3. \A n, m, S, P, k : /\ ~ [job[d] EXCEPT !.room = n].fin
                         /\ ~ [job[d] EXCEPT !.mid = m].fin
                         /\ ~ [job[d] EXCEPT !.roster = S, !.peers = P].fin
                         /\ ~ [job[d] EXCEPT !.room = n, !.who = k].fin
                         /\ ~ [job[d] EXCEPT !.room = n, !.who = k, !.seed = TRUE].fin
                         /\ ~ [job[d] EXCEPT !.room = n, !.mid = m].fin
                         /\ ~ [job[d] EXCEPT !.room = n, !.mid = m, !.peers = P].fin
                         /\ ~ [job[d] EXCEPT !.room = n, !.seed = TRUE, !.closing = S].fin
  BY <1>1, <1>2 DEF Job
<1>4. ASSUME NEW l \in Others, NEW j, Goto(d, l, j), ~ j.fin PROVE GoneInv'
  BY <1>1, <1>4, GonePlain
<1> HIDE DEF Others
<1>5. \A l \in PCs : l # "seed_reg" /\ l # "done" => l \in Others
  BY DEF Others
<1>6. CASE \/ CreateRegister(d) \/ JoinRegister(d) \/ PromoteSend(d) \/ CacheData(d)
           \/ SeedRegister(d)
  <2>1. Goto(d, "recv", NoJob(d))
    BY <1>6 DEF CreateRegister, JoinRegister, PromoteSend, CacheData, SeedRegister, Return
  <2> QED
    BY <1>2, <1>4, <1>5, <2>1 DEF PCs
<1>7. CASE CreateSend(d) \/ JoinSend(d) \/ KickSend(d) \/ PromoteCheck(d) \/ PromoteSet(d)
  <2>1. \/ Goto(d, "recv", NoJob(d)) \/ Goto(d, "create_reg", job[d]) \/ Goto(d, "join_reg", job[d])
        \/ Goto(d, "fin", job[d]) \/ Goto(d, "depart", job[d])
        \/ Goto(d, "promote_set", job[d]) \/ Goto(d, "promote_send", job[d])
    BY <1>7 DEF CreateSend, JoinSend, KickSend, PromoteCheck, PromoteSet, Reject, Return
  <2> QED
    BY <1>2, <1>4, <1>5, <2>1 DEF PCs
<1>8. CASE JoinGate(d)
  <2>1. \/ Goto(d, "recv", NoJob(d))
        \/ Goto(d, "join_snap", [job[d] EXCEPT !.mid = rooms[job[d].room].next])
    BY <1>8 DEF JoinGate, Return
  <2> QED
    BY <1>2, <1>3, <1>4, <1>5, <2>1 DEF PCs
<1>9. CASE JoinSnapshot(d)
  <2>1. PICK S, P : Goto(d, "join_send", [job[d] EXCEPT !.roster = S, !.peers = P])
    BY <1>9 DEF JoinSnapshot
  <2> QED
    BY <1>3, <1>4, <1>5, <2>1 DEF PCs
<1>10. CASE \E op \in Creates, cap \in CapInputs : Create(d, op, cap)
  <2>1. Goto(d, "create_send", [job[d] EXCEPT !.room = seq + 1])
    BY <1>10 DEF Create
  <2> QED
    BY <1>3, <1>4, <1>5, <2>1 DEF PCs
<1>11. ASSUME NEW r \in Minted, Join(d, r) \/ SetPartyData(d, r) PROVE GoneInv'
  <2>1. \/ Goto(d, "join_gate", [job[d] EXCEPT !.room = r])
        \/ Goto(d, "data_cache", [job[d] EXCEPT !.room = r, !.mid = rooms[r].conns[d]])
    BY <1>11 DEF Join, SetPartyData
  <2> QED
    BY <1>3, <1>4, <1>5, <2>1 DEF PCs
<1>12. ASSUME NEW r \in Minted, NEW m \in Mid, Kick(d, r, m) PROVE GoneInv'
  <2>1. PICK k : Goto(d, "kick_send", [job[d] EXCEPT !.room = r, !.who = k, !.seed = TRUE])
    BY <1>12 DEF Kick
  <2> QED
    BY <1>3, <1>4, <1>5, <2>1 DEF PCs
<1>13. ASSUME NEW r \in Minted, NEW m \in Mid, LateKick(d, r, m) PROVE GoneInv'
  <2>1. PICK k : Goto(d, "depart", [job[d] EXCEPT !.room = r, !.who = k])
    BY <1>13 DEF LateKick
  <2> QED
    BY <1>3, <1>4, <1>5, <2>1 DEF PCs
<1>14. ASSUME NEW r \in Minted, NEW m \in Mid, Promote(d, r, m) PROVE GoneInv'
  <2>1. Goto(d, "promote_check", [job[d] EXCEPT !.room = r, !.mid = m, !.peers = PeersOf(r)])
    BY <1>14 DEF Promote
  <2> DEFINE j == [job[d] EXCEPT !.room = r, !.mid = m, !.peers = PeersOf(r)]
  <2>2. Goto(d, "promote_check", j) /\ ~ j.fin
    BY <1>3, <2>1
  <2> HIDE DEF j
  <2> QED
    BY <1>4, <1>5, <2>2 DEF PCs
<1>15. ASSUME NEW r \in Minted, Leave(d, r) PROVE GoneInv'
  <2>1. PICK S : Goto(d, AfterRetire([job[d] EXCEPT !.room = r, !.seed = TRUE, !.closing = S]),
                      [job[d] EXCEPT !.room = r, !.seed = TRUE, !.closing = S])
    BY <1>15 DEF Leave
  <2> DEFINE j == [job[d] EXCEPT !.room = r, !.seed = TRUE, !.closing = S]
  <2>2. Goto(d, AfterRetire(j), j) /\ ~ j.fin
    BY <1>3, <2>1
  <2> HIDE DEF j
  <2>3. AfterRetire(j) \in {"close", "depart"}
    BY DEF AfterRetire
  <2> QED
    BY <1>4, <1>5, <2>2, <2>3 DEF PCs
<1>16. CASE Request(d)
  BY <1>10, <1>11, <1>12, <1>13, <1>14, <1>15, <1>16 DEF Request
<1> QED
  BY <1>6, <1>7, <1>8, <1>9, <1>16

LEMMA GoneNext ==
  ASSUME TypeOK, FreshInv, GoneInv, [Next]_vars
  PROVE  GoneInv'
<1>1. ASSUME NEW c \in Conn, Continue(c) PROVE GoneInv'
  BY <1>1, GoneClose, GoneDepart, GoneTell, GoneSeedSend, GoneOther DEF Continue
<1>2. ASSUME NEW c \in Conn, Request(c) \/ Finally(c) PROVE GoneInv'
  BY <1>2, GoneOther, GoneAway
<1>3. CASE /\ UNCHANGED <<pc, job, rooms, active>>
           /\ \A c \in Conn : sock'[c] = "closed" => sock[c] = "closed"
  BY <1>3 DEF GoneInv, GonePart, Ending, Removed
<1>4. ASSUME NEW c \in Conn, Drop(c) PROVE GoneInv'
  BY <1>3, <1>4 DEF Drop, TypeOK
<1>5. CASE UNCHANGED vars
  BY <1>3, <1>5 DEF vars
<1> QED
  BY <1>1, <1>2, <1>4, <1>5, GoneRaise DEF Next

(* When the finally block of a connection is over, whatever the other       *)
(* threads do meanwhile and afterwards, no registered room has the          *)
(* connection in it and none of its own is left but a party that a thread   *)
(* which had removed it registered late (session_manager.py:2867-2892).     *)
THEOREM EndedAreGone == Spec => []GoneMeansGone
<1>1. Init => FreshInv /\ GoneInv
  <2>1. Init => FreshInv
    BY DEF Init, FreshInv, PendingOK, PendingPCs
  <2>2. Init => GoneInv
    BY DEF Init, GoneInv, GonePart, Ending, Removed, NoJob
  <2> QED
    BY <2>1, <2>2
<1>2. TypeOK /\ FreshInv /\ [Next]_vars => FreshInv'
  BY FreshNext
<1>3. TypeOK /\ FreshInv /\ GoneInv /\ [Next]_vars => GoneInv'
  BY GoneNext
<1>4. GoneInv => GoneMeansGone
  BY DEF GoneInv, GonePart, Ending, Removed, GoneMeansGone
<1> QED
  BY <1>1, <1>2, <1>3, <1>4, TypeCorrect, PTL DEF Spec


-----------------------------------------------------------------------------
(***************************************************************************)
(* One message at a time                                                   *)
(*                                                                         *)
(* With MaxBusy = 1 a handler that has begun finds the registry as it left *)
(* it at its last step: the others wait for a message.                     *)
(***************************************************************************)
Resting(c) == pc[c] \in {"recv", "done"}
OneBusy == \A c, d \in Conn : Resting(c) \/ Resting(d) \/ c = d

(* What every step of a thread does to the threads.                        *)
LEMMA StepGoes ==
  ASSUME TypeOK, NEW d \in Conn, Request(d) \/ Continue(d) \/ Finally(d)
  PROVE  \E l, j : Goto(d, l, j)
<1>1. CASE Request(d)
  BY <1>1 DEF Request, Create, Join, Leave, SetPartyData, Kick, LateKick, Promote
<1>2. CASE Finally(d)
  BY <1>2 DEF Finally
<1>3. CASE CreateSend(d) \/ CreateRegister(d) \/ JoinGate(d) \/ JoinSnapshot(d) \/ JoinSend(d)
           \/ JoinRegister(d) \/ SeedSend(d) \/ SeedRegister(d)
  BY <1>3 DEF CreateSend, CreateRegister, JoinGate, JoinSnapshot, JoinSend, JoinRegister,
     SeedSend, SeedRegister, Return
<1>4. CASE KickSend(d) \/ PromoteCheck(d) \/ PromoteSet(d) \/ PromoteSend(d) \/ CacheData(d)
           \/ \E r \in Minted : CloseRoom(d, r)
  BY <1>4 DEF KickSend, PromoteCheck, PromoteSet, PromoteSend, CacheData, Reject, CloseRoom, Return
<1>5. CASE Depart(d) \/ \E e \in job[d].left : TellDeparture(d, e[1], e[2])
  BY <1>5 DEF Depart, TellDeparture, GoOn, Finish, Return
<1> QED
  BY <1>1, <1>2, <1>3, <1>4, <1>5 DEF Continue

(* A thread that goes on was busy; one that begins finds no other busy.    *)
LEMMA StepBegins ==
  ASSUME TypeOK, MaxBusy = 1, NEW d \in Conn, Request(d) \/ Continue(d) \/ Finally(d)
  PROVE  ~ Resting(d) \/ Busy = {}
<1>1. CASE Cardinality(Busy) < MaxBusy
  <2>1. Busy \subseteq Conn /\ IsFiniteSet(Conn)
    BY BoundsAssumption DEF Busy
  <2>2. IsFiniteSet(Busy) /\ Cardinality(Busy) \in Nat
    BY <2>1, FS_Subset, FS_CardinalityType
  <2>3. Cardinality(Busy) = 0
    BY <1>1, <2>2
  <2> QED
    BY <2>2, <2>3, FS_EmptySet
<1>2. CASE Request(d)
  BY <1>1, <1>2 DEF Request, Create, Join, Leave, SetPartyData, Kick, LateKick, Promote, Receive
<1>3. CASE Continue(d)
  BY <1>3 DEF Continue, CreateSend, CreateRegister, JoinGate, JoinSnapshot, JoinSend, JoinRegister,
     SeedSend, SeedRegister, KickSend, PromoteCheck, PromoteSet, PromoteSend, CacheData,
     CloseRoom, Depart,
     TellDeparture, Resting
<1>4. CASE Finally(d)
  BY <1>1, <1>4 DEF Finally, Resting
<1> QED
  BY <1>2, <1>3, <1>4

LEMMA OnlyOne ==
  ASSUME TypeOK, OneBusy, MaxBusy = 1, NEW d \in Conn, Request(d) \/ Continue(d) \/ Finally(d)
  PROVE  \A c \in Conn : c # d => Resting(c) /\ pc'[c] = pc[c] /\ job'[c] = job[c]
<1>1. \A c \in Conn : c # d => pc'[c] = pc[c] /\ job'[c] = job[c]
  BY StepGoes DEF Goto, TypeOK
<1>2. \A c \in Conn : c # d => Resting(c)
  <2>1. CASE ~ Resting(d)
    BY <2>1 DEF OneBusy
  <2>2. CASE Busy = {}
    BY <2>2 DEF Busy, Resting
  <2> QED
    BY <2>1, <2>2, StepBegins
<1> QED
  BY <1>1, <1>2

(* Where a log write that raises leaves the threads.                       *)
LEMMA RaiseGoes ==
  ASSUME TypeOK, NEW d \in Conn, Raise(d)
  PROVE  /\ ~ Resting(d) /\ pc'[d] \in {"done", "fin"}
         /\ \A c \in Conn : c # d => pc'[c] = pc[c] /\ job'[c] = job[c]
  BY DEF Raise, CloseRaises, Goto, Resting, TypeOK

LEMMA OneBusyNext ==
  ASSUME TypeOK, OneBusy, MaxBusy = 1, [Next]_vars
  PROVE  OneBusy'
<1>1. CASE UNCHANGED pc
  BY <1>1 DEF OneBusy, Resting
<1>2. ASSUME NEW d \in Conn, Request(d) \/ Continue(d) \/ Finally(d) PROVE OneBusy'
  BY <1>2, OnlyOne DEF OneBusy, Resting
<1>3. ASSUME NEW d \in Conn, Raise(d) PROVE OneBusy'
  BY <1>3, RaiseGoes DEF OneBusy, Resting
<1> QED
  BY <1>1, <1>2, <1>3 DEF Next, Drop, vars

(* No log write raises.                                                    *)
LEMMA NoRaise ==
  ASSUME "raise" \notin Ops, Next
  PROVE  \E d \in Conn : Request(d) \/ Continue(d) \/ Finally(d) \/ Drop(d)
  BY DEF Next, Raise, CloseRaises

-----------------------------------------------------------------------------
(***************************************************************************)
(* Capacity                                                                *)
(***************************************************************************)

(* A handler between the gate and the registration of a joiner: the joiner *)
(* is not in the roster yet, and there is room for it.                     *)
PlaceKept(c) ==
  LET r == job[c].room IN
  /\ pc[c] \in JoiningPCs => /\ job[c].mid \notin rooms[r].members
                             /\ Cardinality(rooms[r].members) < rooms[r].cap
  /\ pc[c] \in {"join_send", "join_reg"} => job[c].roster = rooms[r].members \cup {job[c].mid}
Roster(room) ==
  /\ IsFiniteSet(room.members) /\ Cardinality(room.members) <= room.cap
  /\ \A m \in room.members : m < room.next
RosterInv == /\ OneBusy
             /\ \A r \in Minted : Roster(rooms[r])
             /\ \A c \in Conn : PlaceKept(c)

(* Only a registration makes a roster larger.                              *)
Shrinks(r) ==
  \/ r \in Minted /\ /\ rooms'[r].members \subseteq rooms[r].members
                     /\ rooms'[r].cap = rooms[r].cap /\ rooms'[r].next >= rooms[r].next
  \/ rooms'[r].members = {MEMBER_ID} /\ rooms'[r].next = JOINER_MEMBER_ID /\ rooms'[r].cap >= 1

LEMMA RosterShrinks ==
  ASSUME TypeOK, TypeOK', RosterInv, NEW r \in Minted', Shrinks(r)
  PROVE  Roster(rooms[r])'
<1>1. rooms'[r] \in Room
  BY DEF TypeOK
<1>2. CASE r \in Minted /\ /\ rooms'[r].members \subseteq rooms[r].members
                           /\ rooms'[r].cap = rooms[r].cap /\ rooms'[r].next >= rooms[r].next
  <2>1. Roster(rooms[r]) /\ rooms[r] \in Room
    BY <1>2, RoomFacts DEF RosterInv
  <2>2. IsFiniteSet(rooms'[r].members) /\ Cardinality(rooms'[r].members) <= Cardinality(rooms[r].members)
    BY <1>2, <2>1, FS_Subset DEF Roster
  <2>3. Cardinality(rooms'[r].members) \in Nat /\ Cardinality(rooms[r].members) \in Nat
    BY <2>1, <2>2, FS_CardinalityType DEF Roster
  <2>4. Cardinality(rooms'[r].members) <= rooms'[r].cap
    BY <1>1, <1>2, <2>1, <2>2, <2>3 DEF Roster, Room
  <2>5. \A m \in rooms'[r].members : m < rooms'[r].next
    BY <1>1, <1>2, <2>1 DEF Roster, Room, Id
  <2> QED
    BY <2>2, <2>4, <2>5 DEF Roster
<1>3. CASE rooms'[r].members = {MEMBER_ID} /\ rooms'[r].next = JOINER_MEMBER_ID /\ rooms'[r].cap >= 1
  <2>1. IsFiniteSet({MEMBER_ID}) /\ Cardinality({MEMBER_ID}) = 1
    BY FS_Singleton
  <2> QED
    BY <1>3, <2>1 DEF Roster, MEMBER_ID, JOINER_MEMBER_ID
<1> QED
  BY <1>2, <1>3 DEF Shrinks

LEMMA RosterFrame ==
  ASSUME TypeOK, TypeOK', MaxBusy = 1, RosterInv, NEW d \in Conn,
         Request(d) \/ Continue(d) \/ Finally(d),
         \A r \in Minted' : Shrinks(r), PlaceKept(d)'
  PROVE  RosterInv'
<1>1. \A r \in Minted' : Roster(rooms[r])'
  BY RosterShrinks
<1>2. \A c \in Conn : c # d => Resting(c) /\ pc'[c] = pc[c]
  BY OnlyOne DEF RosterInv
<1>3. \A c \in Conn : PlaceKept(c)'
  BY <1>2 DEF PlaceKept, Resting, JoiningPCs
<1>4. OneBusy'
  BY <1>2 DEF OneBusy, Resting
<1> QED
  BY <1>1, <1>3, <1>4 DEF RosterInv

(* Only the three steps of a join lead to one of its later points.          *)
LEMMA JoiningSteps ==
  ASSUME TypeOK, NEW d \in Conn, Request(d) \/ Continue(d) \/ Finally(d), pc'[d] \in JoiningPCs
  PROVE  JoinGate(d) \/ JoinSnapshot(d) \/ JoinSend(d)
<1>0. pc \in [Conn -> PCs]
  BY DEF TypeOK
<1>1. ASSUME NEW l, l \notin JoiningPCs, NEW j, Goto(d, l, j) PROVE FALSE
  BY <1>0, <1>1 DEF Goto
<1>2. CASE Request(d) \/ Finally(d)
  <2>1. \E l \in {"create_send", "join_gate", "close", "depart", "data_cache", "kick_send",
                  "promote_check"} : \E j : Goto(d, l, j)
    <3>1. CASE Finally(d)
      BY <3>1, AfterRetireType DEF Finally
    <3>2. CASE \E r \in Minted : Leave(d, r)
      BY <3>2, AfterRetireType DEF Leave
    <3> QED
      BY <1>2, <3>1, <3>2
      DEF Request, Create, Join, SetPartyData, Kick, LateKick, Promote
  <2> QED
    BY <1>1, <2>1 DEF JoiningPCs
<1>3. CASE CreateSend(d) \/ CreateRegister(d) \/ JoinRegister(d) \/ SeedSend(d) \/ SeedRegister(d)
           \/ KickSend(d) \/ PromoteCheck(d) \/ PromoteSet(d) \/ PromoteSend(d) \/ CacheData(d)
  <2>1. \E l \in {"create_reg", "recv", "fin", "seed_reg", "depart", "promote_set",
                  "promote_send"} : \E j : Goto(d, l, j)
    BY <1>3 DEF CreateSend, CreateRegister, JoinRegister, SeedSend, SeedRegister, KickSend,
       PromoteCheck, PromoteSet, PromoteSend, CacheData, Reject, Return
  <2> QED
    BY <1>1, <2>1 DEF JoiningPCs
<1>4. CASE \E r \in Minted : CloseRoom(d, r)
  <2>1. \E l \in {"close", "depart"} : \E j : Goto(d, l, j)
    BY <1>4, AfterRetireType DEF CloseRoom
  <2> QED
    BY <1>1, <2>1 DEF JoiningPCs
<1>5. CASE Depart(d) \/ \E e \in job[d].left : TellDeparture(d, e[1], e[2])
  <2>1. PICK j : GoOn(d, j)
    BY <1>5 DEF Depart, TellDeparture
  <2>2. \E l \in {"recv", "tell", "done", "seed_send"} : \E k : Goto(d, l, k)
    BY <2>1, GoOnStep
  <2> QED
    BY <1>1, <2>2 DEF JoiningPCs
<1> QED
  BY <1>2, <1>3, <1>4, <1>5 DEF Continue

(* What a step may do to a room.                                            *)
Keeps(r) == /\ rooms'[r].anchor = rooms[r].anchor /\ rooms'[r].kind = rooms[r].kind
            /\ rooms'[r].cap = rooms[r].cap
Admits(r, d) == /\ r = job[d].room /\ rooms'[r].next = rooms[r].next + 1
                /\ rooms'[r].owner = rooms[r].owner /\ rooms'[r].members = rooms[r].members
                /\ rooms'[r].conns = rooms[r].conns
Hands(r, d) == /\ r = job[d].room /\ rooms'[r].next = rooms[r].next
               /\ rooms'[r].owner = job[d].mid /\ rooms'[r].members = rooms[r].members
               /\ rooms'[r].conns = rooms[r].conns
Enrols(r, d) == /\ r = job[d].room /\ rooms'[r].next = rooms[r].next
                /\ rooms'[r].owner = rooms[r].owner /\ rooms'[r].members = job[d].roster
                /\ rooms'[r].conns = [rooms[r].conns EXCEPT ![d] = job[d].mid]
Removes(r, d) == /\ r \in active /\ rooms[r].conns[job[d].who] # 0
                 /\ job[d].all \/ r = job[d].room
                 /\ rooms'[r].next = rooms[r].next /\ rooms'[r].owner = rooms[r].owner
                 /\ rooms'[r].members = rooms[r].members \ {rooms[r].conns[job[d].who]}
                 /\ rooms'[r].conns = [rooms[r].conns EXCEPT ![job[d].who] = 0]

LEMMA RoomChanges ==
  ASSUME TypeOK, NEW d \in Conn, Request(d) \/ Continue(d) \/ Finally(d), NEW r \in Minted
  PROVE  \/ rooms'[r] = rooms[r]
         \/ Keeps(r) /\ JoinGate(d) /\ Admits(r, d)
         \/ Keeps(r) /\ PromoteSet(d) /\ Hands(r, d)
         \/ Keeps(r) /\ JoinRegister(d) /\ Enrols(r, d)
         \/ Keeps(r) /\ Depart(d) /\ Removes(r, d)
<1>0. rooms \in [Minted -> Room] /\ r \in 1 .. seq + 1 /\ rooms[r] \in Room
  BY DEF TypeOK, Minted
<1> DEFINE q == job[d].room
           old == rooms[r]
           new == rooms'[r]
<1>1. CASE JoinGate(d)
  <2>1. rooms' = rooms \/ rooms' = [rooms EXCEPT ![q] = [rooms[q] EXCEPT !.next = @ + 1]]
    BY <1>1 DEF JoinGate
  <2>2. new = old \/ (r = q /\ new = [old EXCEPT !.next = @ + 1])
    <3> HIDE DEF q
    <3> QED
      BY <1>0, <2>1
  <2>3. old \in Room
    BY <1>0
  <2> HIDE DEF old, new
  <2>4. new = old \/ /\ r = q
                     /\ new.anchor = old.anchor /\ new.kind = old.kind /\ new.cap = old.cap
                     /\ new.owner = old.owner /\ new.next = old.next + 1
                     /\ new.members = old.members /\ new.conns = old.conns
    BY <2>2, <2>3 DEF Room
  <2> QED
    BY <1>1, <2>4 DEF Admits, Keeps, new, old
<1>2. CASE PromoteSet(d)
  <2>1. rooms' = rooms \/ rooms' = [rooms EXCEPT ![q] = [rooms[q] EXCEPT !.owner = job[d].mid]]
    BY <1>2 DEF PromoteSet
  <2>2. new = old \/ (r = q /\ new = [old EXCEPT !.owner = job[d].mid])
    <3> HIDE DEF q
    <3> QED
      BY <1>0, <2>1
  <2>3. old \in Room
    BY <1>0
  <2> HIDE DEF old, new
  <2>4. new = old \/ /\ r = q
                     /\ new.anchor = old.anchor /\ new.kind = old.kind /\ new.cap = old.cap
                     /\ new.owner = job[d].mid /\ new.next = old.next
                     /\ new.members = old.members /\ new.conns = old.conns
    BY <2>2, <2>3 DEF Room
  <2> QED
    BY <1>2, <2>4 DEF Hands, Keeps, new, old
<1>3. CASE JoinRegister(d)
  <2>1. rooms' = [rooms EXCEPT ![q] = With(@, d, job[d].mid, job[d].roster)]
    BY <1>3 DEF JoinRegister
  <2>2. new = old \/ (r = q /\ new = With(old, d, job[d].mid, job[d].roster))
    <3> HIDE DEF q
    <3> QED
      BY <1>0, <2>1
  <2>3. old \in Room
    BY <1>0
  <2> HIDE DEF old, new
  <2>4. new = old \/ /\ r = q
                     /\ new.anchor = old.anchor /\ new.kind = old.kind /\ new.cap = old.cap
                     /\ new.owner = old.owner /\ new.next = old.next
                     /\ new.members = job[d].roster
                     /\ new.conns = [old.conns EXCEPT ![d] = job[d].mid]
    BY <2>2, <2>3 DEF With, Room
  <2> QED
    BY <1>3, <2>4 DEF Enrols, Keeps, new, old
<1>4. CASE Depart(d)
  <2>1. \/ new = old
        \/ /\ r \in active /\ old.conns[job[d].who] # 0
           /\ job[d].all \/ r = q
           /\ new = Without(old, job[d].who)
    BY <1>4 DEF Depart
  <2>3. old \in Room
    BY <1>0
  <2> HIDE DEF old, new
  <2>4. \/ new = old
        \/ /\ r \in active /\ old.conns[job[d].who] # 0
           /\ job[d].all \/ r = q
           /\ new.anchor = old.anchor /\ new.kind = old.kind /\ new.cap = old.cap
           /\ new.owner = old.owner /\ new.next = old.next
           /\ new.members = old.members \ {old.conns[job[d].who]}
           /\ new.conns = [old.conns EXCEPT ![job[d].who] = 0]
    BY <2>1, <2>3 DEF Without, Room
  <2> QED
    BY <1>4, <2>4 DEF Removes, Keeps, new, old
<1>5. CASE SeedSend(d) \/ \E op \in Creates, cap \in CapInputs : Create(d, op, cap)
  BY <1>0, <1>5 DEF SeedSend, Create
<1>6. CASE rooms' = rooms
  BY <1>6
<1> QED
  BY <1>1, <1>2, <1>3, <1>4, <1>5, <1>6
  DEF Request, Continue, Finally, Join, Leave, SetPartyData, Kick, LateKick, Promote,
      CreateSend, CreateRegister, JoinSnapshot, JoinSend, KickSend, PromoteCheck, PromoteSend,
      CacheData, CloseRoom, TellDeparture, SeedRegister

(* What is minted is a room for one.                                        *)
LEMMA RoomsMade ==
  ASSUME TypeOK, NEW d \in Conn, Request(d) \/ Continue(d) \/ Finally(d),
         NEW r \in Minted', r \notin Minted
  PROVE  \/ \E op \in Creates, cap \in CapInputs :
              /\ Create(d, op, cap)
              /\ rooms'[r] = SoloRoom(d, IF op = "party" THEN "party" ELSE "game",
                                      op = "public", Clamp(cap))
         \/ /\ SeedSend(d)
            /\ rooms'[r] = SoloRoom(job[d].who, "party", FALSE, rooms[job[d].room].cap)
<1>1. CASE seq' = seq
  BY <1>1 DEF Minted
<1>2. ASSUME NEW op \in Creates, NEW cap \in CapInputs, Create(d, op, cap)
      PROVE  /\ Create(d, op, cap)
             /\ rooms'[r] = SoloRoom(d, IF op = "party" THEN "party" ELSE "game",
                                     op = "public", Clamp(cap))
  BY <1>2 DEF Create, Minted
<1>3. CASE SeedSend(d)
  BY <1>3 DEF SeedSend, Minted
<1> QED
  BY <1>1, <1>2, <1>3
  DEF Request, Continue, Finally, Join, Leave, SetPartyData, Kick, LateKick, Promote,
      CreateSend, CreateRegister, JoinGate, JoinSnapshot, JoinSend, JoinRegister, KickSend,
      PromoteCheck, PromoteSet, PromoteSend, CacheData, CloseRoom, Depart, TellDeparture,
      SeedRegister

LEMMA MadeForOne ==
  ASSUME TypeOK, NEW d \in Conn, Request(d) \/ Continue(d) \/ Finally(d),
         NEW r \in Minted', r \notin Minted
  PROVE  \E k \in Conn : \E kind, public, cap :
           rooms'[r] = SoloRoom(k, kind, public, cap) /\ cap >= 1
<1>1. \A cap \in CapInputs : Clamp(cap) >= 1
  BY BoundsAssumption, ClampType
<1>2. CASE SeedSend(d)
  <2>1. job[d].room \in Minted /\ job[d].who \in Conn
    BY <1>2, JobRoom, JobFacts DEF SeedSend, RoomPCs, PCs, Job
  <2>2. rooms[job[d].room].cap >= 1
    BY <2>1, RoomFacts
  <2>3. PICK cap : /\ rooms'[r] = SoloRoom(job[d].who, "party", FALSE, cap)
                   /\ cap = rooms[job[d].room].cap
    <3>1. ~ \E op \in Creates, cap \in CapInputs : Create(d, op, cap)
      BY <1>2 DEF SeedSend, Create, Receive
    <3> QED
      BY <3>1, RoomsMade
  <2> QED
    BY <2>1, <2>2, <2>3
<1>3. ASSUME NEW op \in Creates, NEW cap \in CapInputs,
             rooms'[r] = SoloRoom(d, IF op = "party" THEN "party" ELSE "game",
                                  op = "public", Clamp(cap))
      PROVE  \E kind, public, c : rooms'[r] = SoloRoom(d, kind, public, c) /\ c >= 1
  BY <1>1, <1>3
<1> QED
  BY <1>2, <1>3, RoomsMade

LEMMA AllShrink ==
  ASSUME TypeOK, NEW d \in Conn, Request(d) \/ Continue(d) \/ Finally(d),
         ~ JoinRegister(d), NEW r \in Minted'
  PROVE  Shrinks(r)
<1>1. CASE r \in Minted
  <2>1. rooms[r] \in Room /\ rooms[r].next \in Nat /\ job[d].who \in Conn
    BY <1>1, RoomFacts, JobFacts DEF Id, Job
  <2>2. CASE rooms'[r] = rooms[r]
    BY <1>1, <2>1, <2>2 DEF Shrinks
  <2> QED
    <3>1. CASE Keeps(r) /\ Admits(r, d)
      BY <1>1, <2>1, <3>1 DEF Shrinks, Admits, Keeps
    <3>2. CASE Keeps(r) /\ (Hands(r, d) \/ Removes(r, d))
      <4>1. rooms'[r].members \subseteq rooms[r].members /\ rooms'[r].next = rooms[r].next
        BY <3>2 DEF Hands, Removes
      <4> QED
        BY <1>1, <2>1, <3>2, <4>1 DEF Shrinks, Keeps
    <3> QED
      BY <1>1, <2>2, <3>1, <3>2, RoomChanges
<1>2. CASE r \notin Minted
  <2>1. PICK k \in Conn : \E kind, public, cap : /\ rooms'[r] = SoloRoom(k, kind, public, cap)
                                                /\ cap >= 1
    BY <1>2, MadeForOne
  <2> QED
    BY <2>1 DEF SoloRoom, Shrinks
<1> QED
  BY <1>1, <1>2

(* The steps of a join.                                                     *)
LEMMA RosterJoins ==
  ASSUME TypeOK, TypeOK', MaxBusy = 1, RosterInv, NEW d \in Conn, Continue(d),
         JoinGate(d) \/ JoinSnapshot(d) \/ JoinSend(d)
  PROVE  PlaceKept(d)'
<1> DEFINE r == job[d].room
<1>0. /\ r \in Minted /\ rooms[r] \in Room /\ job[d] \in Job /\ rooms \in [Minted -> Room]
      /\ pc \in [Conn -> PCs] /\ job \in [Conn -> Job] /\ Minted' = Minted
      /\ Roster(rooms[r]) /\ PlaceKept(d)
  <2>1. r \in Minted
    BY JobRoom DEF JoinGate, JoinSnapshot, JoinSend, RoomPCs, PCs
  <2>2. Minted' = Minted
    BY DEF JoinGate, JoinSnapshot, JoinSend, Minted
  <2> QED
    BY <2>1, <2>2, JobFacts DEF TypeOK, RosterInv
<1>1. CASE JoinGate(d) /\ pc'[d] \in JoiningPCs
  <2>1. /\ ~ Full(r) /\ rooms' = [rooms EXCEPT ![r].next = @ + 1]
        /\ Goto(d, "join_snap", [job[d] EXCEPT !.mid = rooms[r].next])
    BY <1>0, <1>1 DEF JoinGate, Return, Goto, JoiningPCs
  <2>2. pc'[d] = "join_snap" /\ job'[d].room = r /\ job'[d].mid = rooms[r].next
    BY <1>0, <2>1 DEF Goto, Job
  <2>3. rooms'[r].members = rooms[r].members /\ rooms'[r].cap = rooms[r].cap
    BY <1>0, <1>1, RoomChanges DEF Admits, Keeps, JoinGate, PromoteCheck, PromoteSet,
       JoinRegister, Depart
  <2>4. rooms[r].next \notin rooms[r].members
    BY <1>0, RoomFacts DEF Roster, Id
  <2>5. Cardinality(rooms[r].members) < rooms[r].cap
    <3>1. Cardinality(rooms[r].members) \in Nat /\ rooms[r].cap \in Nat
      BY <1>0, FS_CardinalityType, RoomFacts DEF Roster
    <3> QED
      BY <2>1, <3>1 DEF Full
  <2> QED
    BY <2>2, <2>3, <2>4, <2>5 DEF PlaceKept
<1>2. CASE JoinSnapshot(d)
  <2>1. /\ pc[d] = "join_snap" /\ rooms' = rooms
        /\ \E P : Goto(d, "join_send", [job[d] EXCEPT !.roster = rooms[r].members \cup {job[d].mid},
                                                      !.peers = P])
    BY <1>2 DEF JoinSnapshot
  <2>2. pc'[d] = "join_send" /\ job'[d].room = r /\ job'[d].mid = job[d].mid
        /\ job'[d].roster = rooms[r].members \cup {job[d].mid}
    BY <1>0, <2>1 DEF Goto, Job
  <2> QED
    BY <1>0, <2>1, <2>2 DEF PlaceKept, JoiningPCs
<1>3. CASE JoinSend(d) /\ pc'[d] \in JoiningPCs
  <2>1. pc[d] = "join_send" /\ rooms' = rooms /\ Goto(d, "join_reg", job[d])
    BY <1>0, <1>3 DEF JoinSend, Return, Goto, JoiningPCs
  <2>2. pc'[d] = "join_reg" /\ job'[d] = job[d]
    BY <1>0, <2>1 DEF Goto
  <2> QED
    BY <1>0, <2>1, <2>2 DEF PlaceKept, JoiningPCs
<1>4. CASE pc'[d] \notin JoiningPCs
  BY <1>4 DEF PlaceKept, JoiningPCs
<1> QED
  BY <1>1, <1>2, <1>3, <1>4

LEMMA RosterRegister ==
  ASSUME TypeOK, TypeOK', MaxBusy = 1, UniqueMemberIds, RosterInv, NEW d \in Conn, JoinRegister(d)
  PROVE  RosterInv'
<1> DEFINE q == job[d].room
           m == job[d].mid
<1>0. /\ q \in Minted /\ rooms[q] \in Room /\ job[d] \in Job /\ rooms \in [Minted -> Room]
      /\ Minted' = Minted /\ Roster(rooms[q]) /\ PlaceKept(d) /\ pc[d] = "join_reg"
  BY JobRoom, JobFacts DEF JoinRegister, RoomPCs, PCs, TypeOK, RosterInv, Minted
<1>1. m < rooms[q].next /\ m \notin rooms[q].members
      /\ Cardinality(rooms[q].members) < rooms[q].cap /\ job[d].roster = rooms[q].members \cup {m}
  BY <1>0 DEF UniqueMemberIds, Coming, JoiningPCs, PlaceKept
<1>2. \A r \in Minted' : r # q => rooms'[r] = rooms[r]
  BY <1>0, RoomChanges DEF Enrols, Continue, JoinRegister, JoinGate, PromoteCheck, PromoteSet,
     Depart
<1>4. /\ rooms'[q].members = rooms[q].members \cup {m} /\ rooms'[q].cap = rooms[q].cap
      /\ rooms'[q].next = rooms[q].next
  <2>1. rooms' = [rooms EXCEPT ![q] = With(@, d, m, job[d].roster)]
    BY DEF JoinRegister
  <2> DEFINE new == rooms'[q]
             old == rooms[q]
  <2>2. new = With(old, d, m, rooms[q].members \cup {m}) /\ old \in Room
    <3>1. job[d].roster = rooms[q].members \cup {m}
      BY <1>1
    <3> HIDE DEF q, m
    <3> QED
      BY <1>0, <2>1, <3>1
  <2> HIDE DEF new, old
  <2>3. new.members = rooms[q].members \cup {m} /\ new.cap = old.cap /\ new.next = old.next
    BY <2>2 DEF With, Room
  <2> QED
    BY <2>3 DEF new, old
<1>5. Roster(rooms'[q])
  <2>1. IsFiniteSet(rooms'[q].members) /\ Cardinality(rooms'[q].members) = Cardinality(rooms[q].members) + 1
    <3> HIDE DEF m
    <3> QED
      BY <1>0, <1>1, <1>4, FS_AddElement DEF Roster
  <2>2. Cardinality(rooms'[q].members) <= rooms'[q].cap
    <3>1. Cardinality(rooms[q].members) \in Nat /\ rooms[q].cap \in Nat
      BY <1>0, FS_CardinalityType, RoomFacts DEF Roster
    <3> QED
      BY <1>1, <1>4, <2>1, <3>1
  <2>3. \A n \in rooms'[q].members : n < rooms'[q].next
    BY <1>0, <1>1, <1>4 DEF Roster
  <2> QED
    BY <2>1, <2>2, <2>3 DEF Roster
<1>6. \A r \in Minted' : Roster(rooms[r])'
  BY <1>0, <1>2, <1>5 DEF RosterInv, Roster
<1>7. \A c \in Conn : pc'[c] \notin JoiningPCs
  <2>1. \A c \in Conn : c # d => Resting(c) /\ pc'[c] = pc[c]
    BY OnlyOne DEF RosterInv, Continue
  <2>2. pc'[d] = "recv"
    BY DEF JoinRegister, Return, Goto, TypeOK
  <2> QED
    BY <2>1, <2>2 DEF Resting, JoiningPCs
<1>8. OneBusy'
  BY OneBusyNext DEF RosterInv, Next, Continue
<1> QED
  BY <1>6, <1>7, <1>8 DEF RosterInv, PlaceKept, JoiningPCs

LEMMA RosterNext ==
  ASSUME TypeOK, TypeOK', MaxBusy = 1, UniqueMemberIds, RosterInv, [Next]_vars
  PROVE  RosterInv'
<1>1. CASE UNCHANGED <<pc, job, seq, rooms>>
  BY <1>1 DEF RosterInv, OneBusy, Resting, Roster, PlaceKept, Minted
<1>2. ASSUME NEW d \in Conn, Request(d) \/ Continue(d) \/ Finally(d), ~ JoinRegister(d)
      PROVE  RosterInv'
  <2>1. \A r \in Minted' : Shrinks(r)
    BY <1>2, AllShrink
  <2>2. PlaceKept(d)'
    <3>1. CASE pc'[d] \in JoiningPCs
      <4>1. JoinGate(d) \/ JoinSnapshot(d) \/ JoinSend(d)
        BY <1>2, <3>1, JoiningSteps
      <4> QED
        BY <4>1, RosterJoins DEF Continue
    <3>2. CASE pc'[d] \notin JoiningPCs
      BY <3>2 DEF PlaceKept, JoiningPCs
    <3> QED
      BY <3>1, <3>2
  <2> QED
    BY <1>2, <2>1, <2>2, RosterFrame
<1>3. ASSUME NEW d \in Conn, Raise(d) PROVE RosterInv'
  <2>1. UNCHANGED <<seq, rooms>> /\ Minted' = Minted
    BY <1>3 DEF Raise, CloseRaises, Minted
  <2>2. \A c \in Conn : PlaceKept(c)'
    BY <1>3, <2>1, RaiseGoes DEF RosterInv, PlaceKept, JoiningPCs
  <2>3. OneBusy'
    BY <1>3, OneBusyNext DEF RosterInv, Next
  <2> QED
    BY <2>1, <2>2, <2>3 DEF RosterInv, Roster
<1> QED
  BY <1>1, <1>2, <1>3, RosterRegister DEF Next, Drop, vars

LEMMA RosterInit ==
  ASSUME Init
  PROVE  RosterInv
  BY DEF Init, RosterInv, OneBusy, Resting, PlaceKept, JoiningPCs, Minted

(* One message at a time, the capacity gate keeps what its comment says: the *)
(* place it found for a joiner is still there when the joiner is registered, *)
(* three critical sections later (session_manager.py:2218, 2382).            *)
THEOREM RosterIsBounded ==
  ASSUME MaxBusy = 1
  PROVE  Spec => []CapacityGate
<1>1. Init => RosterInv
  BY RosterInit
<1>2. TypeOK /\ TypeOK' /\ UniqueMemberIds /\ RosterInv /\ [Next]_vars => RosterInv'
  BY RosterNext
<1>3. TypeOK /\ RosterInv => CapacityGate
  BY DEF RosterInv, Roster, CapacityGate
<1> QED
  BY <1>1, <1>2, <1>3, TypeCorrect, MemberIdsUnique, PTL DEF Spec


-----------------------------------------------------------------------------
(***************************************************************************)
(* Rooms and keepalives                                                    *)
(***************************************************************************)

(* What a handler at l with local variables j knows of its room, when it   *)
(* has the registry for itself.                                            *)
JoinPCs == {"join_gate"} \cup JoiningPCs
Fits(c, l, j) ==
  /\ l \in PendingPCs => rooms[j.room].members = {MEMBER_ID}
  /\ l \in JoinPCs => j.room \in active /\ rooms[j.room].anchor # c
  /\ l \in {"kick_send", "promote_check", "promote_set"} => rooms[j.room].kind = "party"
  /\ l \in {"close", "depart"} =>
       \A r \in active : rooms[r].kind = "game" /\ (j.all \/ r = j.room) => rooms[r].anchor # j.who
  /\ l = "tell" => \A e \in j.left : e[1] \in active

(* Nobody is in a room without being in its roster, and the creator of a   *)
(* match stays in it, its owner, as long as it is registered.              *)
Hosted(r) ==
  /\ \A k \in Conn : rooms[r].conns[k] # 0 => rooms[r].conns[k] \in rooms[r].members
  /\ rooms[r].kind = "game" =>
       /\ rooms[r].owner = MEMBER_ID
       /\ r \in active => rooms[r].conns[rooms[r].anchor] = MEMBER_ID

(* The refresher of a connection is for the match it created, registered   *)
(* or about to be, and nobody else in it.                                  *)
KeepaliveFits(c) ==
  LET r == refresh[c] IN
  r # 0 => /\ rooms[r].kind = "game" /\ rooms[r].anchor = c /\ rooms[r].members = {MEMBER_ID}
           /\ r \in active \/ (pc[c] = "create_reg" /\ job[c].room = r)

HostInv == /\ \A c \in Conn : Fits(c, pc[c], job[c])
           /\ \A r \in Minted : Hosted(r)
KeepInv == \A c \in Conn : KeepaliveFits(c)

(* What a step registers is the room of its handler, as it was made.       *)
LEMMA NewlyActive ==
  ASSUME TypeOK, FreshInv, NEW d \in Conn, Request(d) \/ Continue(d) \/ Finally(d),
         NEW r \in active', r \notin active
  PROVE  /\ CreateRegister(d) \/ SeedRegister(d)
         /\ r = job[d].room /\ r \in Minted /\ rooms' = rooms
         /\ Fresh(r, rooms[r].anchor) /\ rooms[r].anchor \in Conn
<1>1. CASE CreateRegister(d) \/ SeedRegister(d)
  <2>1. r = job[d].room /\ rooms' = rooms /\ pc[d] \in PendingPCs
    BY <1>1 DEF CreateRegister, SeedRegister, PendingPCs
  <2>2. r \in Minted
    BY <1>1, <2>1, JobRoom DEF CreateRegister, SeedRegister, RoomPCs, PCs
  <2>3. Fresh(r, rooms[r].anchor)
    BY <2>1 DEF FreshInv, PendingOK, Fresh
  <2> QED
    BY <1>1, <2>1, <2>2, <2>3, RoomFacts
<1>2. CASE active' \subseteq active
  BY <1>2
<1> QED
  BY <1>1, <1>2
  DEF Request, Continue, Finally, Create, Join, Leave, SetPartyData, Kick, LateKick, Promote,
      CreateSend, JoinGate, JoinSnapshot, JoinSend, JoinRegister, KickSend, PromoteCheck,
      PromoteSet,
      PromoteSend, CacheData, CloseRoom, Depart, TellDeparture, SeedSend

(* The room of a handler that joins, or removes itself or another.         *)
LEMMA HostedNext ==
  ASSUME TypeOK, UniqueMemberIds, FreshInv, RosterInv, HostInv, NEW d \in Conn,
         Request(d) \/ Continue(d) \/ Finally(d), NEW r \in Minted'
  PROVE  Hosted(r)'
<1>1. CASE r \notin Minted
  <2>1. r \notin active'
    BY <1>1, NewlyActive DEF TypeOK
  <2>2. PICK k \in Conn : \E kind, public, cap : rooms'[r] = SoloRoom(k, kind, public, cap)
    BY <1>1, MadeForOne
  <2> QED
    BY <2>1, <2>2 DEF Hosted, SoloRoom
<1>2. ASSUME r \in Minted, rooms'[r] = rooms[r] PROVE Hosted(r)'
  <2>1. Hosted(r)
    BY <1>2 DEF HostInv
  <2>2. CASE r \in active \/ r \notin active'
    BY <1>2, <2>1, <2>2 DEF Hosted
  <2>3. CASE r \in active' /\ r \notin active
    <3>1. Fresh(r, rooms[r].anchor) /\ rooms[r].anchor \in Conn
      BY <2>3, NewlyActive
    <3> QED
      BY <1>2, <2>1, <3>1 DEF Hosted, Fresh
  <2> QED
    BY <2>2, <2>3
<1>3. ASSUME r \in Minted, Keeps(r),
             (JoinGate(d) /\ Admits(r, d)) \/ (PromoteSet(d) /\ Hands(r, d))
      PROVE  Hosted(r)'
  <2>1. active' = active /\ rooms'[r].conns = rooms[r].conns /\ rooms'[r].members = rooms[r].members
    BY <1>3 DEF JoinGate, PromoteSet, Admits, Hands
  <2>2. rooms[r].kind = "game" => rooms'[r].owner = rooms[r].owner
    BY <1>3 DEF Admits, Hands, PromoteSet, HostInv, Fits
  <2>3. Hosted(r)
    BY <1>3 DEF HostInv
  <2> QED
    BY <1>3, <2>1, <2>2, <2>3 DEF Hosted, Keeps
<1>4. ASSUME r \in Minted, Keeps(r), JoinRegister(d), Enrols(r, d) PROVE Hosted(r)'
  <2>1. /\ active' = active /\ pc[d] = "join_reg" /\ Hosted(r) /\ rooms[r].anchor # d
        /\ rooms'[r].members = rooms[r].members \cup {job[d].mid}
    BY <1>4 DEF JoinRegister, HostInv, Fits, JoinPCs, JoiningPCs, Enrols, RosterInv, PlaceKept
  <2>2. rooms[r].conns \in [Conn -> Nat] /\ rooms[r].anchor \in Conn
    BY <1>4, RoomFacts
  <2>3. \A k \in Conn : rooms'[r].conns[k] = IF k = d THEN job[d].mid ELSE rooms[r].conns[k]
    BY <1>4, <2>2 DEF Enrols
  <2> QED
    BY <1>4, <2>1, <2>2, <2>3 DEF Hosted, Keeps, Enrols
<1>5. ASSUME r \in Minted, Keeps(r), Depart(d), Removes(r, d) PROVE Hosted(r)'
  <2> DEFINE w == job[d].who
  <2>1. /\ active' = active /\ pc[d] = "depart" /\ Hosted(r) /\ w \in Conn
        /\ rooms[r].kind = "game" => rooms[r].anchor # w
    BY <1>5, JobFacts DEF Depart, HostInv, Fits, Removes, Job
  <2>2. rooms[r].conns \in [Conn -> Nat] /\ rooms[r].anchor \in Conn
    BY <1>5, RoomFacts
  <2>3. \A k \in Conn : rooms'[r].conns[k] = IF k = w THEN 0 ELSE rooms[r].conns[k]
    BY <1>5, <2>2 DEF Removes
  <2>4. \A k \in Conn : rooms'[r].conns[k] # 0 => rooms'[r].conns[k] \in rooms'[r].members
    <3>1. \A k \in Conn : k # w /\ rooms[r].conns[k] # 0 => rooms[r].conns[k] # rooms[r].conns[w]
      BY <1>5, <2>1 DEF UniqueMemberIds
    <3> QED
      BY <1>5, <2>1, <2>3, <3>1 DEF Removes, Hosted
  <2> QED
    BY <1>5, <2>1, <2>2, <2>3, <2>4 DEF Hosted, Keeps, Removes
<1> QED
  BY <1>1, <1>2, <1>3, <1>4, <1>5, RoomChanges

(* The rooms a handler works on stay the same for it.                      *)
LEMMA FitsOther ==
  ASSUME NEW d, NEW l, NEW j,
         l \notin PendingPCs \cup JoinPCs \cup {"kick_send", "promote_check", "promote_set", "close", "depart", "tell"}
  PROVE  Fits(d, l, j)'
  BY DEF Fits

LEMMA FitsJoins ==
  ASSUME TypeOK, HostInv, NEW d \in Conn, NEW l, NEW j, Goto(d, l, j),
         \/ \E r \in Minted : Join(d, r)
         \/ JoinGate(d) \/ JoinSnapshot(d) \/ JoinSend(d)
  PROVE  Fits(d, l, j)'
<1>0. Fits(d, pc[d], job[d]) /\ job[d] \in Job /\ pc'[d] = l /\ job'[d] = j
  BY JobFacts DEF HostInv, Goto, TypeOK
<1>1. CASE l \in {"recv", "fin"}
  BY <1>1, FitsOther DEF PendingPCs, JoinPCs, JoiningPCs
<1>2. CASE l \notin {"recv", "fin"}
  <2>1. l \in JoinPCs /\ active' = active
    BY <1>0, <1>2 DEF Join, JoinGate, JoinSnapshot, JoinSend, Return, Goto, TypeOK, JoinPCs, JoiningPCs
  <2>2. j.room \in active /\ rooms[j.room].anchor # d
    <3>1. ASSUME NEW r \in Minted, Join(d, r) PROVE j.room \in active /\ rooms[j.room].anchor # d
      <4>1. j = [job[d] EXCEPT !.room = r] /\ r \in active /\ rooms[r].anchor # d
        BY <1>0, <3>1 DEF Join, Goto, TypeOK
      <4> QED
        BY <1>0, <4>1 DEF Job
    <3>2. ASSUME JoinGate(d) \/ JoinSnapshot(d) \/ JoinSend(d)
          PROVE  j.room \in active /\ rooms[j.room].anchor # d
      <4>1. j.room = job[d].room
        <5>1. \/ j = job[d]
              \/ \E m : j = [job[d] EXCEPT !.mid = m]
              \/ \E S, P : j = [job[d] EXCEPT !.roster = S, !.peers = P]
          <6>1. CASE JoinGate(d)
            <7>1. \E m : Goto(d, "join_snap", [job[d] EXCEPT !.mid = m])
              BY <1>0, <1>2, <6>1 DEF JoinGate, Return, Goto, TypeOK
            <7> QED
              BY <1>0, <7>1 DEF Goto, TypeOK
          <6>2. CASE JoinSnapshot(d)
            <7>1. PICK k : /\ Goto(d, "join_send", k)
                           /\ \E S, P : k = [job[d] EXCEPT !.roster = S, !.peers = P]
              BY <6>2 DEF JoinSnapshot
            <7>2. j = k
              BY <1>0, <7>1 DEF Goto, TypeOK
            <7> QED
              BY <7>1, <7>2
          <6>3. CASE JoinSend(d)
            BY <1>0, <1>2, <6>3 DEF JoinSend, Return, Goto, TypeOK
          <6> QED
            BY <3>2, <6>1, <6>2, <6>3
        <5> QED
          BY <1>0, <5>1 DEF Job
      <4> QED
        BY <1>0, <3>2, <4>1 DEF Fits, JoinPCs, JoiningPCs, JoinGate, JoinSnapshot, JoinSend
    <3> QED
      BY <3>1, <3>2
  <2>3. rooms'[j.room].anchor = rooms[j.room].anchor
    <3>1. j.room \in Minted
      BY <2>2 DEF TypeOK
    <3>2. Request(d) \/ Continue(d)
      BY DEF Request, Continue
    <3> QED
      BY <3>1, <3>2, RoomStays DEF StaysAs
  <2> QED
    BY <2>1, <2>2, <2>3 DEF Fits, JoinPCs, JoiningPCs, PendingPCs
<1> QED
  BY <1>1, <1>2

LEMMA FitsMints ==
  ASSUME TypeOK, HostInv, NEW d \in Conn, NEW l, NEW j, Goto(d, l, j),
         \/ \E op \in Creates, cap \in CapInputs : Create(d, op, cap)
         \/ CreateSend(d) \/ SeedSend(d)
  PROVE  Fits(d, l, j)'
<1>0. Fits(d, pc[d], job[d]) /\ job[d] \in Job /\ pc'[d] = l /\ job'[d] = j
  BY JobFacts DEF HostInv, Goto, TypeOK
<1>1. CASE l \in {"recv", "fin"}
  BY <1>1, FitsOther DEF PendingPCs, JoinPCs, JoiningPCs
<1>2. CASE l \notin {"recv", "fin"}
  <2>1. l \in PendingPCs
    BY <1>0, <1>2 DEF Create, CreateSend, SeedSend, Return, Goto, TypeOK, PendingPCs
  <2>2. rooms'[j.room].members = {MEMBER_ID}
    <3>1. CASE CreateSend(d)
      <4>1. j = job[d] /\ rooms' = rooms /\ pc[d] = "create_send"
        BY <1>0, <1>2, <3>1 DEF CreateSend, Goto, TypeOK
      <4> QED
        BY <1>0, <4>1 DEF Fits, PendingPCs
    <3>2. CASE SeedSend(d) \/ \E op \in Creates, cap \in CapInputs : Create(d, op, cap)
      <4>1. j = [job[d] EXCEPT !.room = seq + 1] /\ seq \in Nat
        BY <1>0, <1>2, <3>2 DEF SeedSend, Create, Return, Goto, TypeOK
      <4>2. j.room = seq + 1 /\ seq + 1 \notin Minted /\ seq + 1 \in 1 .. seq + 1
        BY <1>0, <4>1 DEF Job, Minted
      <4>3. seq + 1 \in Minted'
        BY <3>2, <4>2 DEF SeedSend, Create, Minted
      <4>4. Request(d) \/ Continue(d)
        BY <3>2 DEF Request, Continue
      <4>5. PICK k \in Conn : \E kind, public, cap : rooms'[seq + 1] = SoloRoom(k, kind, public, cap)
        BY <4>2, <4>3, <4>4, MadeForOne
      <4> QED
        BY <4>2, <4>5 DEF SoloRoom
    <3> QED
      BY <3>1, <3>2
  <2> QED
    BY <2>1, <2>2 DEF Fits, JoinPCs, JoiningPCs, PendingPCs
<1> QED
  BY <1>1, <1>2

(* The removal of a client that leaves never takes the host of a match.    *)
LEMMA FitsRetire ==
  ASSUME TypeOK, KickInv, NEW d \in Conn, NEW l, NEW j, Goto(d, l, j),
         Finally(d) \/ \E r \in Minted : Leave(d, r)
  PROVE  Fits(d, l, j)'
<1>0. job[d] \in Job /\ pc'[d] = l /\ job'[d] = j
  BY JobFacts DEF Goto, TypeOK
<1>1. CASE Finally(d)
  <2> DEFINE k == [NoJob(d) EXCEPT !.all = TRUE, !.fin = TRUE, !.closing = OwnedBy(d)]
  <2>1. active' = active \ OwnedBy(d) /\ rooms' = rooms /\ j = k /\ l = AfterRetire(k)
    <3>1. Goto(d, AfterRetire(k), k)
      BY <1>1 DEF Finally
    <3> HIDE DEF k
    <3>2. j = k /\ l = AfterRetire(k)
      BY <1>0, <3>1 DEF Goto, TypeOK
    <3> QED
      BY <1>1, <3>2 DEF Finally
  <2>2. k.who = d
    BY DEF NoJob
  <2> HIDE DEF k
  <2>3. l \in {"close", "depart"} /\ j.who = d
    BY <2>1, <2>2, AfterRetireType
  <2> QED
    BY <2>1, <2>3 DEF Fits, JoinPCs, JoiningPCs, PendingPCs, OwnedBy
<1>2. ASSUME NEW r \in Minted, Leave(d, r) PROVE Fits(d, l, j)'
  <2>1. PICK retired : /\ Goto(d, AfterRetire([job[d] EXCEPT !.room = r, !.seed = TRUE, !.closing = retired]),
                                  [job[d] EXCEPT !.room = r, !.seed = TRUE, !.closing = retired])
                       /\ active' = active \ retired /\ rooms' = rooms
                       /\ r \in OwnedBy(d) => r \in retired
    <3> DEFINE public == {p \in OwnedBy(d) : rooms[p].public}
               retired == IF r \in OwnedBy(d) THEN {r} ELSE {p \in public : \A q \in public : p <= q}
    <3>1. /\ Goto(d, AfterRetire([job[d] EXCEPT !.room = r, !.seed = TRUE, !.closing = retired]),
                     [job[d] EXCEPT !.room = r, !.seed = TRUE, !.closing = retired])
          /\ active' = active \ retired /\ rooms' = rooms
      BY <1>2 DEF Leave
    <3>2. r \in OwnedBy(d) => r \in retired
      OBVIOUS
    <3> HIDE DEF retired
    <3> QED
      BY <3>1, <3>2
  <2> DEFINE k == [job[d] EXCEPT !.room = r, !.seed = TRUE, !.closing = retired]
  <2>2. k.who = d /\ ~ k.all /\ k.room = r
    <3>1. job[d] = NoJob(d)
      BY <1>2 DEF Leave, Receive, KickInv, KickPart
    <3> QED
      BY <3>1 DEF NoJob
  <2>3. j = k /\ l \in {"close", "depart"}
    <3> HIDE DEF k
    <3>1. Goto(d, AfterRetire(k), k)
      BY <2>1 DEF k
    <3> QED
      BY <1>0, <3>1, AfterRetireType DEF Goto, TypeOK
  <2> HIDE DEF k
  <2> QED
    BY <2>1, <2>2, <2>3 DEF Fits, JoinPCs, JoiningPCs, PendingPCs, OwnedBy
<1> QED
  BY <1>1, <1>2

LEMMA FitsClose ==
  ASSUME TypeOK, HostInv, NEW d \in Conn, NEW l, NEW j, Goto(d, l, j),
         NEW r \in Minted, CloseRoom(d, r)
  PROVE  Fits(d, l, j)'
<1>0. Fits(d, pc[d], job[d]) /\ job[d] \in Job
  BY JobFacts DEF HostInv
<1> DEFINE k == [job[d] EXCEPT !.closing = @ \ {r}]
<1>1. k.room = job[d].room /\ k.all = job[d].all /\ k.who = job[d].who
  BY <1>0 DEF Job
<1>2. Goto(d, AfterRetire(k), k) /\ pc[d] = "close" /\ UNCHANGED <<active, rooms>>
  BY DEF CloseRoom
<1> HIDE DEF k
<1>3. j = k /\ l \in {"close", "depart"}
  BY <1>2, AfterRetireType DEF Goto, TypeOK
<1> QED
  BY <1>0, <1>1, <1>2, <1>3 DEF Fits, JoinPCs, JoiningPCs, PendingPCs

LEMMA FitsRemove ==
  ASSUME TypeOK, HostInv, NEW d \in Conn, NEW l, NEW j, Goto(d, l, j),
         Depart(d) \/ \E e \in job[d].left : TellDeparture(d, e[1], e[2])
  PROVE  Fits(d, l, j)'
<1>0. Fits(d, pc[d], job[d]) /\ job[d] \in Job /\ pc'[d] = l /\ job'[d] = j
  BY JobFacts DEF HostInv, Goto, TypeOK
<1>1. CASE l = "tell"
  <2>1. ASSUME Depart(d) PROVE j.left \subseteq active \X Id /\ active' = active
    <3> DEFINE w == job[d].who
               hit == {r \in active : rooms[r].conns[w] # 0 /\ (job[d].all \/ r = job[d].room)}
               gone == {<<r, rooms[r].conns[w]>> : r \in hit}
               k == [job[d] EXCEPT !.left = gone,
                                   !.seed = @ /\ \E r \in hit : rooms[r].kind = "party"]
    <3>1. GoOn(d, k) /\ active' = active
      BY <2>1 DEF Depart
    <3>2. k.left = gone
      BY <1>0 DEF Job
    <3>3. gone \subseteq active \X Id
      <4>1. \A r \in hit : r \in active /\ rooms[r].conns[w] \in Id
        <5>1. w \in Conn
          BY <1>0 DEF Job
        <5>2. \A r \in active : rooms[r].conns \in [Conn -> Nat]
          BY RoomFacts DEF TypeOK
        <5> QED
          BY <5>1, <5>2 DEF Id
      <4> HIDE DEF hit
      <4> QED
        BY <4>1
    <3> HIDE DEF k, gone
    <3>4. j = k
      BY <1>0, <1>1, <3>1 DEF GoOn, Goto, Finish, Return, TypeOK
    <3> QED
      BY <3>1, <3>2, <3>3, <3>4
  <2>2. ASSUME NEW e \in job[d].left, TellDeparture(d, e[1], e[2])
        PROVE  j.left \subseteq job[d].left /\ pc[d] = "tell" /\ active' = active
    <3> DEFINE k == [job[d] EXCEPT !.left = @ \ {<<e[1], e[2]>>}]
    <3>1. GoOn(d, k) /\ pc[d] = "tell" /\ active' = active
      BY <2>2 DEF TellDeparture
    <3>2. k.left \subseteq job[d].left
      BY <1>0 DEF Job
    <3> HIDE DEF k
    <3>3. j = k
      BY <1>0, <1>1, <3>1 DEF GoOn, Goto, Finish, Return, TypeOK
    <3> QED
      BY <3>1, <3>2, <3>3
  <2>3. \A e \in j.left : e[1] \in active /\ active' = active
    <3>1. CASE Depart(d)
      BY <2>1, <3>1
    <3>2. CASE \E e \in job[d].left : TellDeparture(d, e[1], e[2])
      BY <1>0, <2>2, <3>2 DEF Fits
    <3> QED
      BY <3>1, <3>2
  <2>4. \A e \in j.left : e[1] \in active'
    BY <2>3
  <2> QED
    BY <1>1, <2>4 DEF Fits, JoinPCs, JoiningPCs, PendingPCs
<1>2. CASE l # "tell"
  <2>1. PICK k : GoOn(d, k)
    BY DEF Depart, TellDeparture
  <2>3. PICK i \in {"recv", "tell", "done", "seed_send"} : \E q : Goto(d, i, q)
    BY <2>1, GoOnStep
  <2>2. l \in {"recv", "done", "seed_send"}
    BY <1>0, <1>2, <2>3 DEF Goto, TypeOK
  <2> QED
    BY <2>2, FitsOther DEF PendingPCs, JoinPCs, JoiningPCs
<1> QED
  BY <1>1, <1>2

(* Nor does a kick, which happens in a party, or the removal of a silent   *)
(* member, who is not the owner.                                           *)
LEMMA FitsKick ==
  ASSUME TypeOK, KickInv, HostInv, NEW d \in Conn, NEW l, NEW j, Goto(d, l, j),
         \/ KickSend(d) \/ PromoteCheck(d)
         \/ \E r \in Minted, m \in Mid : Kick(d, r, m) \/ LateKick(d, r, m) \/ Promote(d, r, m)
  PROVE  Fits(d, l, j)'
<1>0. /\ Fits(d, pc[d], job[d]) /\ job[d] \in Job /\ pc'[d] = l /\ job'[d] = j
      /\ UNCHANGED <<active, rooms>>
  BY JobFacts DEF HostInv, Goto, TypeOK, KickSend, PromoteCheck, Kick, LateKick, Promote
<1>1. CASE KickSend(d)
  <2>1. CASE l = "depart"
    <3>1. j = job[d] /\ rooms[j.room].kind = "party" /\ ~ j.all
      BY <1>0, <1>1, <2>1 DEF KickSend, Reject, Return, Goto, TypeOK, Fits, KickInv, KickPart
    <3> QED
      BY <1>0, <2>1, <3>1 DEF Fits, PendingPCs, JoinPCs, JoiningPCs
  <2>2. CASE l # "depart"
    <3>1. l \in {"recv", "fin"}
      BY <1>0, <1>1, <2>2 DEF KickSend, Reject, Return, Goto, TypeOK
    <3> QED
      BY <3>1, FitsOther DEF PendingPCs, JoinPCs, JoiningPCs
  <2> QED
    BY <2>1, <2>2
<1>2. ASSUME NEW r \in Minted, NEW m \in Mid, Kick(d, r, m) \/ Promote(d, r, m)
      PROVE  Fits(d, l, j)'
  <2>1. l \in {"kick_send", "promote_check"} /\ rooms[r].kind = "party"
    BY <1>0, <1>2 DEF Kick, Promote, Goto, TypeOK
  <2>2. j.room = r
    <3>1. \/ \E k : j = [job[d] EXCEPT !.room = r, !.who = k, !.seed = TRUE]
          \/ \E P : j = [job[d] EXCEPT !.room = r, !.mid = m, !.peers = P]
      BY <1>0, <1>2 DEF Kick, Promote, Goto, TypeOK
    <3> QED
      BY <1>0, <3>1 DEF Job
  <2> QED
    BY <1>0, <2>1, <2>2 DEF Fits, PendingPCs, JoinPCs, JoiningPCs
<1>3. ASSUME NEW r \in Minted, NEW m \in Mid, LateKick(d, r, m) PROVE Fits(d, l, j)'
  <2>1. PICK k \in Conn : /\ rooms[r].conns[k] # rooms[r].owner
                          /\ Goto(d, "depart", [job[d] EXCEPT !.room = r, !.who = k])
    BY <1>3 DEF LateKick, PeersOf
  <2>2. l = "depart" /\ j.room = r /\ j.who = k /\ ~ j.all
    <3>1. job[d] = NoJob(d)
      BY <1>3 DEF LateKick, Receive, KickInv, KickPart
    <3>2. l = "depart" /\ j = [job[d] EXCEPT !.room = r, !.who = k]
      BY <1>0, <2>1 DEF Goto, TypeOK
    <3> QED
      BY <3>1, <3>2 DEF NoJob
  <2>3. rooms[r].kind = "game" /\ r \in active => rooms[r].anchor # k
    BY <2>1 DEF HostInv, Hosted
  <2> QED
    BY <1>0, <2>2, <2>3 DEF Fits, PendingPCs, JoinPCs, JoiningPCs
<1>4. CASE PromoteCheck(d)
  <2>1. CASE l = "promote_set"
    <3>1. j = job[d] /\ rooms[j.room].kind = "party"
      BY <1>0, <1>4, <2>1 DEF PromoteCheck, Reject, Return, Goto, TypeOK, Fits
    <3> QED
      BY <1>0, <2>1, <3>1 DEF Fits, PendingPCs, JoinPCs, JoiningPCs
  <2>2. CASE l # "promote_set"
    <3>1. l \in {"recv", "fin"}
      BY <1>0, <1>4, <2>2 DEF PromoteCheck, Reject, Return, Goto, TypeOK
    <3> QED
      BY <3>1, FitsOther DEF PendingPCs, JoinPCs, JoiningPCs
  <2> QED
    BY <2>1, <2>2
<1> QED
  BY <1>1, <1>2, <1>3, <1>4

LEMMA HostStep ==
  ASSUME TypeOK, MaxBusy = 1, UniqueMemberIds, KickInv, FreshInv, RosterInv, HostInv,
         NEW d \in Conn, Request(d) \/ Continue(d) \/ Finally(d)
  PROVE  HostInv'
<1>1. PICK l, j : Goto(d, l, j)
  BY StepGoes
<1>2. pc'[d] = l /\ job'[d] = j
  BY <1>1 DEF Goto, TypeOK
<1>3. Fits(d, l, j)'
  <2>1. CASE CreateRegister(d) \/ JoinRegister(d) \/ PromoteSet(d) \/ PromoteSend(d) \/ CacheData(d)
             \/ SeedRegister(d) \/ \E r \in Minted : SetPartyData(d, r)
    <3>1. l \in {"recv", "promote_send", "data_cache"}
      BY <1>2, <2>1 DEF CreateRegister, JoinRegister, PromoteSet, PromoteSend, CacheData,
         SeedRegister, SetPartyData, Return, Goto, TypeOK
    <3> QED
      BY <3>1, FitsOther DEF PendingPCs, JoinPCs, JoiningPCs
  <2>2. CASE Request(d)
    BY <1>1, <2>1, <2>2, FitsJoins, FitsMints, FitsRetire, FitsKick DEF Request
  <2>3. CASE Continue(d)
    BY <1>1, <2>1, <2>3, FitsJoins, FitsMints, FitsClose, FitsRemove, FitsKick DEF Continue
  <2>4. CASE Finally(d)
    BY <1>1, <2>4, FitsRetire
  <2> QED
    BY <2>2, <2>3, <2>4
<1>4. \A c \in Conn : Fits(c, pc[c], job[c])'
  <2>1. \A c \in Conn : c # d => pc'[c] \in {"recv", "done"}
    BY OnlyOne DEF RosterInv, Resting
  <2> QED
    BY <1>2, <1>3, <2>1 DEF Fits, PendingPCs, JoinPCs, JoiningPCs
<1>5. \A r \in Minted' : Hosted(r)'
  BY HostedNext
<1> QED
  BY <1>4, <1>5 DEF HostInv

(* A refresher the step leaves alone is for a match that is still there.   *)
LEMMA KeptSame ==
  ASSUME TypeOK, MaxBusy = 1, UniqueMemberIds, FreshInv, RosterInv, HostInv, KeepInv,
         NEW d \in Conn, Request(d) \/ Continue(d) \/ Finally(d),
         NEW c \in Conn, refresh'[c] = refresh[c],
         refresh[c] # 0 => refresh[c] \in active' \/ refresh[c] \notin active,
         ~ JoinRegister(d)
  PROVE  KeepaliveFits(c)'
<1> DEFINE r == refresh[c]
<1>1. CASE r = 0
  BY <1>1 DEF KeepaliveFits
<1>2. CASE r # 0
  <2>1. /\ rooms[r].kind = "game" /\ rooms[r].anchor = c /\ rooms[r].members = {MEMBER_ID}
        /\ r \in active \/ (pc[c] = "create_reg" /\ job[c].room = r)
        /\ r \in Minted
    BY <1>2 DEF KeepInv, KeepaliveFits, TypeOK, Minted
  <2>2. rooms'[r].kind = "game" /\ rooms'[r].anchor = c /\ rooms'[r].members = {MEMBER_ID}
    <3>1. CASE rooms'[r] = rooms[r]
      BY <2>1, <3>1
    <3>2. CASE Keeps(r) /\ (Admits(r, d) \/ Hands(r, d))
      BY <2>1, <3>2 DEF Keeps, Admits, Hands
    <3>3. CASE Depart(d) /\ Removes(r, d)
      <4> DEFINE w == job[d].who
      <4>1. w \in Conn /\ rooms[r].conns[w] # 0 /\ rooms[r].conns[w] = MEMBER_ID
        BY <2>1, <3>3, JobFacts DEF Removes, HostInv, Hosted, Job
      <4>2. rooms[r].anchor # w
        BY <2>1, <3>3 DEF HostInv, Fits, Removes, Depart
      <4>3. rooms[r].conns[c] = MEMBER_ID
        BY <2>1, <3>3 DEF HostInv, Hosted, Removes
      <4> QED
        BY <2>1, <4>1, <4>2, <4>3 DEF UniqueMemberIds
    <3> QED
      BY <2>1, <3>1, <3>2, <3>3, RoomChanges
  <2>3. r \in active' \/ (pc'[c] = "create_reg" /\ job'[c].room = r)
    <3>1. CASE r \in active
      BY <1>2, <3>1
    <3>2. CASE r \notin active /\ c # d
      <4>1. pc'[c] = pc[c] /\ job'[c] = job[c]
        BY <3>2, OnlyOne DEF RosterInv
      <4> QED
        BY <2>1, <3>2, <4>1
    <3>3. CASE r \notin active /\ c = d
      <4>1. CreateRegister(d)
        <5>1. pc[d] = "create_reg"
          BY <2>1, <3>3
        <5> QED
          BY <5>1 DEF Request, Create, Join, Leave, SetPartyData, Kick, LateKick, Promote, Receive,
             Finally, Continue, CreateSend, JoinGate, JoinSnapshot, JoinSend, JoinRegister, KickSend,
             PromoteCheck, PromoteSet, PromoteSend, CacheData, CloseRoom, Depart, TellDeparture,
             SeedSend, SeedRegister
      <4> QED
        BY <2>1, <3>3, <4>1 DEF CreateRegister
    <3> QED
      BY <3>1, <3>2, <3>3
  <2> QED
    BY <2>2, <2>3 DEF KeepaliveFits
<1> QED
  BY <1>1, <1>2

(* A match a client owns or has purged is the only one to lose a refresher.*)
LEMMA KeepRetired ==
  ASSUME TypeOK, MaxBusy = 1, UniqueMemberIds, FreshInv, RosterInv, HostInv, KeepInv,
         NEW d \in Conn, Request(d) \/ Continue(d) \/ Finally(d), ~ JoinRegister(d),
         \A c \in Conn : \/ refresh'[c] = 0
                         \/ /\ refresh'[c] = refresh[c]
                            /\ refresh[c] \in active => refresh[c] \in active'
  PROVE  KeepInv'
<1>1. ASSUME NEW c \in Conn PROVE KeepaliveFits(c)'
  <2>1. CASE refresh'[c] = 0
    BY <2>1 DEF KeepaliveFits
  <2>2. CASE refresh'[c] = refresh[c] /\ (refresh[c] \in active => refresh[c] \in active')
    BY <2>2, KeptSame
  <2> QED
    BY <2>1, <2>2
<1> QED
  BY <1>1 DEF KeepInv

LEMMA KeepRetires ==
  ASSUME TypeOK, MaxBusy = 1, UniqueMemberIds, FreshInv, RosterInv, HostInv, KeepInv,
         NEW d \in Conn, Finally(d) \/ \E r \in Minted : Leave(d, r)
  PROVE  KeepInv'
<1>1. PICK S : S \subseteq OwnedBy(d) /\ active' = active \ S
  <2>1. CASE Finally(d)
    BY <2>1 DEF Finally
  <2>2. ASSUME NEW r \in Minted, Leave(d, r) PROVE \E S : S \subseteq OwnedBy(d) /\ active' = active \ S
    <3> DEFINE public == {p \in OwnedBy(d) : rooms[p].public}
               retired == IF r \in OwnedBy(d) THEN {r} ELSE {p \in public : \A q \in public : p <= q}
    <3>1. active' = active \ retired
      BY <2>2 DEF Leave
    <3>2. retired \subseteq OwnedBy(d)
      OBVIOUS
    <3> HIDE DEF retired
    <3> QED
      BY <3>1, <3>2
  <2> QED
    BY <2>1, <2>2
<1>2. refresh' = [refresh EXCEPT ![d] = 0] /\ (Request(d) \/ Finally(d)) /\ ~ JoinRegister(d)
  BY DEF Finally, Leave, Request, JoinRegister, Receive
<1>3. \A c \in Conn : \/ refresh'[c] = 0
                      \/ /\ refresh'[c] = refresh[c]
                         /\ refresh[c] \in active => refresh[c] \in active'
  <2>1. ASSUME NEW c \in Conn, c # d, refresh[c] \in active PROVE refresh[c] \in active'
    <3>1. refresh[c] # 0 /\ rooms[refresh[c]].anchor = c
      BY <2>1 DEF KeepInv, KeepaliveFits, TypeOK, Minted
    <3> QED
      BY <1>1, <2>1, <3>1 DEF OwnedBy
  <2> QED
    BY <1>2, <2>1 DEF TypeOK
<1> QED
  BY <1>2, <1>3, KeepRetired

LEMMA KeepPurges ==
  ASSUME TypeOK, MaxBusy = 1, UniqueMemberIds, FreshInv, RosterInv, HostInv, KeepInv,
         NEW d \in Conn, JoinSend(d) \/ \E r \in Minted : CloseRoom(d, r)
  PROVE  KeepInv'
<1>1. ~ JoinRegister(d) /\ Continue(d)
  BY DEF JoinSend, CloseRoom, JoinRegister, Continue
<1>2. ASSUME NEW c \in Conn
      PROVE  \/ refresh'[c] = 0
             \/ /\ refresh'[c] = refresh[c]
                /\ refresh[c] \in active => refresh[c] \in active'
  <2>1. ASSUME NEW r \in Minted, CloseRoom(d, r) PROVE refresh'[c] \in {0, refresh[c]} /\ active' = active
    BY <2>1 DEF CloseRoom, Stopped, TypeOK
  <2>2. CASE JoinSend(d)
    <3>1. CASE active' = active /\ refresh' = refresh
      BY <3>1
    <3>2. CASE active' = active \ {job[d].room} /\ refresh' = Stopped(job[d].room)
      <4>1. refresh[c] \in active => refresh[c] # 0 /\ rooms[refresh[c]].anchor = c
        BY DEF KeepInv, KeepaliveFits, TypeOK, Minted
      <4> QED
        BY <3>2, <4>1 DEF Stopped
    <3>3. CASE active' = active \ {job[d].room} /\ refresh' = refresh /\ job[d].room \notin active
      BY <3>3
    <3> QED
      BY <2>2, <3>1, <3>2, <3>3 DEF JoinSend
  <2> QED
    BY <2>1, <2>2
<1> QED
  BY <1>1, <1>2, KeepRetired

(* One that is restarted is for a match with its creator alone in it.      *)
LEMMA KeepStarts ==
  ASSUME TypeOK, MaxBusy = 1, UniqueMemberIds, FreshInv, RosterInv, HostInv, KeepInv,
         NEW d \in Conn, CreateSend(d) \/ \E e \in job[d].left : TellDeparture(d, e[1], e[2])
  PROVE  KeepInv'
<1>1. ~ JoinRegister(d) /\ Continue(d) /\ active' = active /\ rooms' = rooms
  BY DEF CreateSend, TellDeparture, JoinRegister, Continue
<1>2. ASSUME NEW c \in Conn, refresh'[c] = refresh[c] PROVE KeepaliveFits(c)'
  BY <1>1, <1>2, KeptSame
<1>3. CASE CreateSend(d)
  <2> DEFINE r == job[d].room
  <2>1. pc[d] = "create_send" /\ r \in Minted
    BY <1>3, JobRoom DEF CreateSend, RoomPCs, PCs
  <2>2. rooms[r].members = {MEMBER_ID} /\ rooms[r].anchor = d
    BY <2>1 DEF HostInv, Fits, FreshInv, PendingOK, PendingPCs, Fresh, For
  <2>3. CASE refresh' = refresh
    BY <1>2, <2>3 DEF KeepInv
  <2>4. CASE /\ refresh' = [refresh EXCEPT ![d] = Refresher(r, rooms[r].kind, {MEMBER_ID})]
             /\ Goto(d, "create_reg", job[d])
    <3>1. Refresher(r, rooms[r].kind, {MEMBER_ID}) # 0 => rooms[r].kind = "game"
      BY DEF Refresher
    <3>2. Refresher(r, rooms[r].kind, {MEMBER_ID}) \in {0, r}
      BY DEF Refresher
    <3>3. pc'[d] = "create_reg" /\ job'[d] = job[d]
      BY <2>4 DEF Goto, TypeOK
    <3>4. refresh'[d] \in {0, r} /\ (refresh'[d] # 0 => rooms[r].kind = "game")
          /\ \A c \in Conn : c # d => refresh'[c] = refresh[c]
      BY <2>4, <3>1, <3>2 DEF TypeOK
    <3>5. KeepaliveFits(d)'
      BY <1>1, <2>2, <3>3, <3>4 DEF KeepaliveFits
    <3> QED
      BY <1>2, <3>4, <3>5 DEF KeepInv
  <2> QED
    BY <1>3, <2>3, <2>4 DEF CreateSend
<1>4. ASSUME NEW e \in job[d].left, TellDeparture(d, e[1], e[2]) PROVE KeepInv'
  <2> DEFINE r == e[1]
             keepalive == Refresher(r, rooms[r].kind, rooms[r].members)
  <2>1. r \in active /\ r \in Minted /\ rooms[r].anchor \in Conn /\ rooms[r] \in Room
    <3>1. r \in active
      BY <1>4 DEF TellDeparture, HostInv, Fits
    <3> QED
      BY <3>1, RoomFacts DEF TypeOK
  <2>2. keepalive \in {0, r}
    BY DEF Refresher
  <2>3. keepalive # 0 => rooms[r].kind = "game" /\ Cardinality(rooms[r].members) <= 1
    BY DEF Refresher
  <2>4. keepalive # 0 => rooms[r].members = {MEMBER_ID}
    <3>1. SUFFICES ASSUME keepalive # 0 PROVE rooms[r].members = {MEMBER_ID}
      OBVIOUS
    <3>2. MEMBER_ID \in rooms[r].members
      BY <2>1, <2>3, <3>1 DEF HostInv, Hosted, MEMBER_ID
    <3>3. IsFiniteSet(rooms[r].members) /\ Cardinality(rooms[r].members) \in Nat
      BY <2>1, FS_CardinalityType DEF RosterInv, Roster
    <3>4. Cardinality(rooms[r].members) = 1
      BY <2>3, <3>1, <3>2, <3>3, FS_EmptySet
    <3>5. \E m : rooms[r].members = {m}
      BY <3>3, <3>4, FS_Singleton
    <3> QED
      BY <3>2, <3>5
  <2> HIDE DEF keepalive
  <2>5. PICK h \in Conn : h = rooms[r].anchor
    BY <2>1
  <2>6. refresh' = [refresh EXCEPT ![h] = keepalive]
    BY <1>4, <2>5 DEF TellDeparture, keepalive
  <2>7. refresh'[h] = keepalive /\ \A c \in Conn : c # h => refresh'[c] = refresh[c]
    BY <2>6 DEF TypeOK
  <2>8. KeepaliveFits(h)'
    <3>1. CASE keepalive = 0
      BY <2>7, <3>1 DEF KeepaliveFits
    <3>2. CASE keepalive # 0
      <4>1. refresh'[h] = r /\ rooms'[r].kind = "game" /\ rooms'[r].anchor = h
            /\ rooms'[r].members = {MEMBER_ID} /\ r \in active'
        BY <1>1, <2>1, <2>2, <2>3, <2>4, <2>7, <2>5, <3>2
      <4> QED
        BY <4>1 DEF KeepaliveFits
    <3> QED
      BY <3>1, <3>2
  <2> QED
    BY <1>2, <2>7, <2>8 DEF KeepInv
<1> QED
  BY <1>3, <1>4

(* A joiner is never alone in a match.                                     *)
LEMMA KeepRegister ==
  ASSUME TypeOK, MaxBusy = 1, UniqueMemberIds, FreshInv, RosterInv, HostInv, KeepInv,
         NEW d \in Conn, JoinRegister(d)
  PROVE  KeepInv'
<1> DEFINE r == job[d].room
           h == rooms[r].anchor
           keepalive == Refresher(r, rooms[r].kind, job[d].roster)
<1>1. /\ pc[d] = "join_reg" /\ r \in active /\ r \in Minted /\ h \in Conn /\ active' = active
      /\ job[d].mid \notin rooms[r].members /\ job[d].roster = rooms[r].members \cup {job[d].mid}
      /\ Request(d) \/ Continue(d) \/ Finally(d)
  <2>1. pc[d] = "join_reg" /\ active' = active
    BY DEF JoinRegister
  <2>2. r \in active /\ r \in Minted
    BY <2>1 DEF HostInv, Fits, JoinPCs, JoiningPCs, TypeOK
  <2> QED
    BY <2>1, <2>2, RoomFacts DEF RosterInv, PlaceKept, JoiningPCs, Continue
<1>2. keepalive = 0
  <2>1. SUFFICES ASSUME rooms[r].kind = "game", Cardinality(job[d].roster) <= 1 PROVE FALSE
    BY DEF Refresher
  <2>2. MEMBER_ID \in rooms[r].members
    BY <1>1, <2>1 DEF HostInv, Hosted, MEMBER_ID
  <2>3. IsFiniteSet(rooms[r].members) /\ Cardinality(rooms[r].members) \in Nat
    BY <1>1, FS_CardinalityType DEF RosterInv, Roster
  <2>4. Cardinality(rooms[r].members) # 0
    BY <2>2, <2>3, FS_EmptySet
  <2>5. Cardinality(job[d].roster) = Cardinality(rooms[r].members) + 1
    <3> DEFINE m == job[d].mid
               S == rooms[r].members
    <3>1. IsFiniteSet(S) /\ m \notin S /\ job[d].roster = S \cup {m}
      BY <1>1, <2>3
    <3> HIDE DEF m, S
    <3>2. Cardinality(S \cup {m}) = Cardinality(S) + 1
      BY <3>1, FS_AddElement
    <3> QED
      BY <3>1, <3>2 DEF S
  <2> QED
    BY <2>1, <2>3, <2>4, <2>5
<1>3. refresh' = [refresh EXCEPT ![h] = 0, ![d] = 0]
  BY <1>2 DEF JoinRegister
<1>4. ASSUME NEW c \in Conn PROVE KeepaliveFits(c)'
  <2> DEFINE q == refresh[c]
  <2>1. CASE refresh'[c] = 0
    BY <2>1 DEF KeepaliveFits
  <2>2. CASE refresh'[c] # 0
    <3>1. refresh'[c] = q /\ c # h /\ c # d /\ q # 0
      <4> HIDE DEF h
      <4> QED
        BY <1>1, <1>3, <2>2 DEF TypeOK
    <3>2. /\ rooms[q].kind = "game" /\ rooms[q].anchor = c /\ rooms[q].members = {MEMBER_ID}
          /\ q \in active \/ (pc[c] = "create_reg" /\ job[c].room = q)
          /\ q \in Minted
      BY <3>1 DEF KeepInv, KeepaliveFits, TypeOK, Minted
    <3>3. q # r
      BY <3>1, <3>2
    <3>4. rooms'[q] = rooms[q]
      BY <1>1, <3>2, <3>3, RoomChanges DEF Enrols, JoinGate, PromoteCheck, PromoteSet, Depart
    <3>5. pc'[c] = pc[c] /\ job'[c] = job[c]
      BY <1>1, <3>1, OnlyOne DEF RosterInv
    <3> QED
      BY <1>1, <3>1, <3>2, <3>4, <3>5 DEF KeepaliveFits
  <2> QED
    BY <2>1, <2>2
<1> QED
  BY <1>4 DEF KeepInv

LEMMA KeepStep ==
  ASSUME TypeOK, MaxBusy = 1, UniqueMemberIds, FreshInv, RosterInv, HostInv, KeepInv,
         NEW d \in Conn, Request(d) \/ Continue(d) \/ Finally(d)
  PROVE  KeepInv'
<1>1. CASE UNCHANGED refresh /\ active \subseteq active' /\ ~ JoinRegister(d)
  BY <1>1, KeepRetired
<1>2. CASE SeedRegister(d)
  <2>1. ASSUME NEW c \in Conn, refresh[c] \in active PROVE refresh[c] \in active'
    <3>1. rooms[refresh[c]].kind = "game"
      BY <2>1 DEF KeepInv, KeepaliveFits, TypeOK, Minted
    <3> QED
      BY <1>2, <2>1, <3>1 DEF SeedRegister
  <2>2. refresh' = refresh /\ ~ JoinRegister(d)
    BY <1>2 DEF SeedRegister, JoinRegister
  <2> QED
    BY <2>1, <2>2, KeepRetired
<1>3. CASE \E op \in Creates, cap \in CapInputs : Create(d, op, cap)
  BY <1>1, <1>3 DEF Create, JoinRegister, Receive
<1>4. CASE \/ CreateRegister(d) \/ JoinGate(d) \/ JoinSnapshot(d) \/ KickSend(d) \/ PromoteCheck(d) \/ PromoteSet(d)
           \/ PromoteSend(d) \/ CacheData(d) \/ Depart(d) \/ SeedSend(d)
           \/ \E r \in Minted : \/ Join(d, r) \/ SetPartyData(d, r)
                                \/ \E m \in Mid : Kick(d, r, m) \/ LateKick(d, r, m) \/ Promote(d, r, m)
  BY <1>1, <1>4 DEF CreateRegister, JoinGate, JoinSnapshot, KickSend, PromoteCheck, PromoteSet,
     PromoteSend,
     CacheData, Depart, SeedSend, Join, SetPartyData, Kick, LateKick, Promote, JoinRegister, Receive
<1> QED
  BY <1>2, <1>3, <1>4, KeepRetires, KeepPurges, KeepStarts, KeepRegister DEF Request, Continue

LEMMA HostAndKeepNext ==
  ASSUME TypeOK, MaxBusy = 1, "raise" \notin Ops,
         UniqueMemberIds, KickInv, FreshInv, RosterInv, HostInv, KeepInv, [Next]_vars
  PROVE  HostInv' /\ KeepInv'
<1>1. CASE UNCHANGED <<pc, job, seq, active, rooms, refresh>>
  BY <1>1 DEF HostInv, Fits, Hosted, KeepInv, KeepaliveFits, Minted
<1>2. ASSUME NEW d \in Conn, Request(d) \/ Continue(d) \/ Finally(d) PROVE HostInv' /\ KeepInv'
  BY <1>2, HostStep, KeepStep
<1> QED
  BY <1>1, <1>2, NoRaise DEF Drop, vars

LEMMA HostAndKeepInit ==
  ASSUME Init
  PROVE  HostInv /\ KeepInv
  BY DEF Init, HostInv, Fits, KeepInv, KeepaliveFits, Minted, PendingPCs, JoinPCs, JoiningPCs

(* The other invariants of the registry, as they are needed here.          *)
LEMMA Background == Spec => [](TypeOK /\ UniqueMemberIds /\ KickInv /\ FreshInv /\ GoneInv)
<1>1. Init => FreshInv /\ KickInv
  BY DEF Init, FreshInv, PendingOK, PendingPCs, KickInv, KickPart, Kicking, RuleAlone, Ruling
<1>2. Init => GoneInv
  BY DEF Init, GoneInv, GonePart, Ending, Removed, NoJob
<1>3. TypeOK /\ UniqueMemberIds /\ KickInv /\ [Next]_vars => KickInv'
  BY KickNext
<1>4. TypeOK /\ FreshInv /\ [Next]_vars => FreshInv'
  BY FreshNext
<1>5. TypeOK /\ FreshInv /\ GoneInv /\ [Next]_vars => GoneInv'
  BY GoneNext
<1> QED
  BY <1>1, <1>2, <1>3, <1>4, <1>5, TypeCorrect, MemberIdsUnique, PTL DEF Spec

LEMMA SerialInvariants ==
  ASSUME MaxBusy = 1, "raise" \notin Ops
  PROVE  Spec => [](RosterInv /\ HostInv /\ KeepInv)
<1>1. Init => RosterInv /\ HostInv /\ KeepInv
  BY RosterInit, HostAndKeepInit
<1>2. TypeOK /\ TypeOK' /\ UniqueMemberIds /\ RosterInv /\ [Next]_vars => RosterInv'
  BY RosterNext
<1>3. TypeOK /\ UniqueMemberIds /\ KickInv /\ FreshInv /\ RosterInv /\ HostInv /\ KeepInv /\ [Next]_vars
        => HostInv' /\ KeepInv'
  BY HostAndKeepNext
<1> QED
  BY <1>1, <1>2, <1>3, Background, PTL DEF Spec

(* One message at a time and with a log that can be written, no refresher    *)
(* outlives its match or goes on once somebody has joined it: whichever of   *)
(* its rooms a connection's refresher is for, that match is registered, is   *)
(* its own and has nobody else in it (session_manager.py:1524, 1252, 2388).  *)
THEOREM KeepalivesAreForLoneHosts ==
  ASSUME MaxBusy = 1, "raise" \notin Ops
  PROVE  Spec => []KeepaliveTarget
<1>1. TypeOK /\ KeepInv => KeepaliveTarget
  <2>1. ASSUME KeepInv, Quiet, NEW c \in Conn, refresh[c] # 0
        PROVE  /\ refresh[c] \in OwnedBy(c) /\ rooms[refresh[c]].kind = "game"
               /\ rooms[refresh[c]].members = {MEMBER_ID}
    <3>1. pc[c] # "create_reg"
      BY <2>1 DEF Quiet, Busy
    <3> QED
      BY <2>1, <3>1 DEF KeepInv, KeepaliveFits, OwnedBy
  <2> QED
    BY <2>1 DEF KeepaliveTarget
<1> QED
  BY <1>1, Background, SerialInvariants, PTL


-----------------------------------------------------------------------------
(***************************************************************************)
(* Who is in a match                                                       *)
(***************************************************************************)

(* The match a client believes it is in.                                   *)
Match(k) == view[k]["game"].room

(* A handler that creates a match or joins one works for a client that is  *)
(* in none, until it has told it.                                          *)
Told(c, l, j) ==
  LET r == j.room
      playing == rooms[r].kind = "game" /\ sock[c] = "up"
  IN
  /\ l \in JoinPCs /\ rooms[r].kind = "game" => rooms[r].conns[c] = 0
  /\ l \in {"create_send", "join_gate", "join_snap", "join_send"} /\ playing => Match(c) = 0
  /\ l \in {"create_reg", "join_reg"} /\ playing => Match(c) = r
  /\ l = "join_send" => j.peers = PeersOf(r)
  /\ l = "close" => j.closing \cap active = {}

(* Whoever is in a registered match believes so, or is leaving it; and     *)
(* everybody in its roster is in it.                                       *)
Seated(k, r) ==
  rooms[r].kind = "game" /\ rooms[r].conns[k] # 0 /\ sock[k] = "up" =>
    \/ Match(k) = r
    \/ pc[k] \in {"close", "depart"} /\ job[k].room = r /\ job[k].who = k
Known(r) ==
  rooms[r].kind = "game" => \A m \in rooms[r].members : \E k \in Conn : rooms[r].conns[k] = m

SeatInv == /\ \A c \in Conn : Told(c, pc[c], job[c])
           /\ \A r \in active : Known(r) /\ \A k \in Conn : Seated(k, r)

LEMMA KnownNext ==
  ASSUME TypeOK, MaxBusy = 1, UniqueMemberIds, FreshInv, RosterInv, HostInv, SeatInv,
         NEW d \in Conn, Request(d) \/ Continue(d) \/ Finally(d), NEW r \in active'
  PROVE  Known(r)'
<1>1. CASE r \notin active
  <2>1. /\ r = job[d].room /\ rooms' = rooms /\ Fresh(r, rooms[r].anchor)
        /\ rooms[r].anchor \in Conn /\ pc[d] \in PendingPCs
    BY <1>1, NewlyActive DEF CreateRegister, SeedRegister, PendingPCs
  <2>2. rooms[r].members = {MEMBER_ID}
    BY <2>1 DEF HostInv, Fits
  <2> QED
    BY <2>1, <2>2 DEF Known, Fresh
<1>2. ASSUME r \in active, rooms'[r] = rooms[r] PROVE Known(r)'
  BY <1>2 DEF SeatInv, Known
<1>3. ASSUME r \in active, Keeps(r), Admits(r, d) \/ Hands(r, d) PROVE Known(r)'
  <2>1. rooms'[r].conns = rooms[r].conns /\ rooms'[r].members = rooms[r].members
    BY <1>3 DEF Admits, Hands
  <2> QED
    BY <1>3, <2>1 DEF SeatInv, Known, Keeps
<1>4. ASSUME r \in active, Keeps(r), JoinRegister(d), Enrols(r, d), rooms[r].kind = "game"
      PROVE  Known(r)'
  <2>1. /\ pc[d] = "join_reg" /\ rooms[r].conns[d] = 0
        /\ rooms'[r].members = rooms[r].members \cup {job[d].mid}
    BY <1>4 DEF JoinRegister, SeatInv, Told, JoinPCs, JoiningPCs, Enrols, RosterInv, PlaceKept
  <2>2. rooms[r].conns \in [Conn -> Nat] /\ rooms[r].members \subseteq Id
    BY <1>4, RoomFacts DEF TypeOK
  <2>3. \A k \in Conn : rooms'[r].conns[k] = IF k = d THEN job[d].mid ELSE rooms[r].conns[k]
    BY <1>4, <2>2 DEF Enrols
  <2>4. ASSUME NEW m \in rooms[r].members PROVE \E k \in Conn : rooms'[r].conns[k] = m
    <3>1. PICK k \in Conn : rooms[r].conns[k] = m
      BY <1>4 DEF SeatInv, Known
    <3>2. m # 0
      BY <2>2 DEF Id
    <3> QED
      BY <2>1, <2>3, <3>1, <3>2
  <2> QED
    BY <2>1, <2>3, <2>4 DEF Known
<1>5. ASSUME r \in active, Keeps(r), Removes(r, d), rooms[r].kind = "game" PROVE Known(r)'
  <2> DEFINE w == job[d].who
  <2>1. w \in Conn /\ rooms[r].conns \in [Conn -> Nat]
    BY <1>5, JobFacts, RoomFacts DEF TypeOK, Job
  <2>2. \A k \in Conn : rooms'[r].conns[k] = IF k = w THEN 0 ELSE rooms[r].conns[k]
    BY <1>5, <2>1 DEF Removes
  <2>3. ASSUME NEW m \in rooms'[r].members PROVE \E k \in Conn : rooms'[r].conns[k] = m
    <3>1. m \in rooms[r].members /\ m # rooms[r].conns[w]
      BY <1>5, <2>3 DEF Removes
    <3>2. PICK k \in Conn : rooms[r].conns[k] = m
      BY <1>5, <3>1 DEF SeatInv, Known
    <3> QED
      BY <2>2, <3>1, <3>2
  <2> QED
    BY <2>3 DEF Known
<1>6. r \in active => r \in Minted
  BY DEF TypeOK
<1>7. rooms[r].kind # "game" /\ Keeps(r) => Known(r)'
  BY DEF Keeps, Known
<1> QED
  BY <1>1, <1>2, <1>3, <1>4, <1>5, <1>6, <1>7, RoomChanges

(* What a message does to the match a client believes it is in.            *)
LEMMA HandledRoom ==
  ASSUME NEW slot \in Slot, NEW r \in Id, NEW m \in Nat, NEW S
  PROVE  /\ Handled(slot, Member(r, S)).room = r
         /\ Handled(slot, RoomLeave(r, m)).room = slot.room
         /\ Handled(slot, OwnerMember(r, m)).room = slot.room
         /\ Handled(slot, RoomGone(r)).room = IF slot.room = r THEN 0 ELSE slot.room
<1>1. Handled(slot, Member(r, S)).room = r
  BY DEF Handled, Member
<1>2. Handled(slot, RoomLeave(r, m)).room = slot.room
  BY DEF Handled, RoomLeave, Slot
<1>3. Handled(slot, OwnerMember(r, m)).room = slot.room
  BY DEF Handled, OwnerMember, Slot
<1>4. Handled(slot, RoomGone(r)).room = IF slot.room = r THEN 0 ELSE slot.room
  BY DEF Handled, RoomGone, Slot, Empty
<1> QED
  BY <1>1, <1>2, <1>3, <1>4

LEMMA DeliverMatch ==
  ASSUME TypeOK, NEW S, NEW kind, NEW m, view' = Deliver(S, kind, m), NEW k \in Conn
  PROVE  Match(k)' = IF k \in S /\ sock[k] = "up" /\ kind = "game"
                     THEN Handled(view[k]["game"], m).room ELSE Match(k)
<1>1. view[k] \in [Kind -> Slot] /\ "game" \in Kind
  BY DEF TypeOK, Kind
<1>2. view'[k] = IF k \in S /\ sock[k] = "up"
                 THEN [view[k] EXCEPT ![kind] = Handled(view[k][kind], m)] ELSE view[k]
  BY DEF Deliver
<1> QED
  BY <1>1, <1>2 DEF Match

LEMMA Views ==
  ASSUME TypeOK, NEW k \in Conn
  PROVE  view[k]["game"] \in Slot /\ Match(k) \in Nat
  BY DEF TypeOK, Kind, Match, Slot

(* Between a request and its answer nobody's match changes, but that of a  *)
(* client in none.                                                         *)
News(d) == \A k \in Conn : sock'[k] = "up" =>
             /\ sock[k] = "up"
             /\ Match(k)' = Match(k) \/ (k = d /\ Match(d) = 0)

LEMMA NewsOfTalk ==
  ASSUME TypeOK, HostInv, NEW d \in Conn,
         \/ KickSend(d) \/ PromoteSend(d) \/ SeedSend(d)
         \/ \E e \in job[d].left : TellDeparture(d, e[1], e[2])
  PROVE  News(d)
<1>1. \A k \in Conn : sock'[k] = "up" => sock[k] = "up"
  BY DEF KickSend, PromoteSend, SeedSend, TellDeparture, GoOn, Finish, TypeOK
<1>2. ASSUME NEW k \in Conn PROVE Match(k)' = Match(k)
  <2>1. view[k]["game"] \in Slot
    BY Views
  <2>2. CASE view' = view
    BY <2>2 DEF Match
  <2>3. CASE KickSend(d) /\ view' # view
    <3>1. job[d].room \in Minted /\ rooms[job[d].room].kind = "party" /\ job[d].room \in Id
      BY <2>3, JobRoom, RoomFacts DEF KickSend, RoomPCs, PCs, HostInv, Fits
    <3>2. view' = Deliver({job[d].who}, "party", RoomGone(job[d].room))
      BY <2>3, <3>1 DEF KickSend
    <3> QED
      BY <3>2, DeliverMatch DEF Kind
  <2>4. CASE PromoteSend(d)
    <3> DEFINE r == job[d].room
               m == job[d].mid
    <3>1. r \in Minted /\ rooms[r].kind \in Kind /\ r \in Id /\ m \in Nat
      BY <2>4, JobRoom, RoomFacts, JobFacts DEF PromoteSend, RoomPCs, PCs, Job
    <3>2. PICK S, kind, msg : view' = Deliver(S, kind, msg) /\ msg = OwnerMember(r, m)
      BY <2>4 DEF PromoteSend
    <3>3. Handled(view[k]["game"], msg).room = Match(k)
      BY <2>1, <3>2 DEF Handled, OwnerMember, Slot, Match
    <3> QED
      BY <3>2, <3>3, DeliverMatch
  <2>5. CASE SeedSend(d) /\ view' # view
    <3>1. PICK S, m : view' = Deliver(S, "party", m)
      BY <2>5 DEF SeedSend
    <3> QED
      BY <3>1, DeliverMatch DEF Kind
  <2>6. ASSUME NEW e \in job[d].left, TellDeparture(d, e[1], e[2]) PROVE Match(k)' = Match(k)
    <3>1. e[1] \in Minted /\ e[2] \in Nat
      BY JobFacts DEF JobOK, Job, Id
    <3>2. rooms[e[1]].kind \in Kind /\ e[1] \in Id
      BY <3>1, RoomFacts
    <3>3. PICK S, kind, msg : view' = Deliver(S, kind, msg) /\ msg = RoomLeave(e[1], e[2])
      BY <2>6 DEF TellDeparture
    <3>4. Handled(view[k]["game"], msg).room = Match(k)
      <4>1. Handled(view[k]["game"], RoomLeave(e[1], e[2])).room = view[k]["game"].room
        BY <2>1, <3>1, <3>2, HandledRoom
      <4> QED
        BY <3>3, <4>1 DEF Match
    <3> QED
      BY <3>2, <3>3, <3>4, DeliverMatch
  <2> QED
    BY <2>2, <2>3, <2>4, <2>5, <2>6
<1> QED
  BY <1>1, <1>2 DEF News

LEMMA NewsOfRosters ==
  ASSUME TypeOK, MaxBusy = 1, RosterInv, HostInv, SeatInv, NEW d \in Conn,
         CreateSend(d) \/ JoinSend(d)
  PROVE  News(d)
<1> DEFINE r == job[d].room
<1>1. /\ r \in Minted /\ rooms[r].kind \in Kind /\ r \in Id /\ sock' = sock
      /\ pc[d] \in {"create_send", "join_send"} /\ Told(d, pc[d], job[d])
  BY JobRoom, RoomFacts DEF CreateSend, JoinSend, RoomPCs, PCs, SeatInv
<1>2. PICK S, T : \/ view' = Deliver(S, rooms[r].kind, Member(r, T))
                  \/ view' = view
  BY DEF CreateSend, JoinSend
<1>3. ASSUME NEW k \in Conn, sock[k] = "up" PROVE Match(k)' = Match(k) \/ (k = d /\ Match(d) = 0)
  <2>1. CASE view' = view
    BY <2>1 DEF Match
  <2>2. CASE rooms[r].kind = "game" /\ k = d
    BY <1>1, <1>3, <2>2 DEF Told
  <2>3. CASE CreateSend(d) /\ view' # view /\ k # d
    <3>1. view' = Deliver({d}, rooms[r].kind, Member(r, {MEMBER_ID}))
      BY <2>3 DEF CreateSend
    <3> QED
      BY <1>1, <2>3, <3>1, DeliverMatch
  <2>4. CASE JoinSend(d) /\ rooms[r].kind = "game" /\ k # d
    <3>1. pc[d] = "join_send"
      BY <2>4 DEF JoinSend
    <3>2. job[d].peers = PeersOf(r) /\ r \in active
      BY <1>1, <3>1 DEF Told, HostInv, Fits, JoinPCs, JoiningPCs
    <3>3. PICK P, kind, msg : /\ view' = Deliver(P, kind, msg) /\ msg = Member(r, job[d].roster)
                              /\ P \subseteq PeersOf(r) \cup {d}
      BY <2>4, <3>2 DEF JoinSend
    <3>4. CASE k \in P
      <4>1. rooms[r].conns[k] # 0
        BY <2>4, <3>3, <3>4 DEF PeersOf
      <4>2. pc[k] \notin {"close", "depart"}
        BY <1>1, <2>4 DEF RosterInv, OneBusy, Resting
      <4>3. Match(k) = r
        BY <1>3, <2>4, <3>2, <4>1, <4>2 DEF SeatInv, Seated
      <4>4. Handled(view[k]["game"], msg).room = r
        BY <1>1, <3>3, Views, HandledRoom
      <4> QED
        BY <1>1, <3>3, <4>3, <4>4, DeliverMatch
    <3>5. CASE k \notin P
      BY <1>1, <3>3, <3>5, DeliverMatch
    <3> QED
      BY <3>4, <3>5
  <2>5. CASE rooms[r].kind # "game" /\ view' # view
    <3>1. PICK kind, msg : view' = Deliver(S, kind, msg) /\ kind # "game"
      BY <1>2, <2>5
    <3> QED
      BY <3>1, DeliverMatch
  <2> QED
    BY <2>1, <2>2, <2>3, <2>4, <2>5
<1> QED
  BY <1>1, <1>3 DEF News

LEMMA NewsOfAll ==
  ASSUME TypeOK, MaxBusy = 1, RosterInv, HostInv, SeatInv, NEW d \in Conn,
         Request(d) \/ Continue(d) \/ Finally(d),
         ~ \E r \in Minted : Leave(d, r) \/ CloseRoom(d, r)
  PROVE  News(d)
<1>1. CASE view' = view /\ \A k \in Conn : sock'[k] = "up" => sock[k] = "up"
  BY <1>1 DEF News, Match
<1>2. CASE Depart(d)
  <2>1. view' = view /\ \A k \in Conn : sock'[k] = "up" => sock[k] = "up"
    BY <1>2 DEF Depart, GoOn, Finish, TypeOK
  <2> QED
    BY <1>1, <2>1
<1>3. CASE UNCHANGED <<view, sock>>
  BY <1>1, <1>3
<1> QED
  BY <1>2, <1>3, NewsOfTalk, NewsOfRosters
  DEF Request, Continue, Finally, Create, Join, SetPartyData, Kick, LateKick, Promote,
      CreateRegister, JoinGate, JoinSnapshot, JoinRegister, PromoteCheck, PromoteSet, CacheData,
      SeedRegister

LEMMA SeatedQuietly ==
  ASSUME TypeOK, MaxBusy = 1, RosterInv, HostInv, SeatInv, NEW d \in Conn,
         Request(d) \/ Continue(d) \/ Finally(d), News(d), pc[d] # "close",
         NEW r \in active \cap active', NEW k \in Conn, ~ (JoinRegister(d) /\ k = d)
  PROVE  Seated(k, r)'
<1> SUFFICES ASSUME rooms'[r].kind = "game", rooms'[r].conns[k] # 0, sock'[k] = "up"
    PROVE  \/ Match(k)' = r
           \/ pc'[k] \in {"close", "depart"} /\ job'[k].room = r /\ job'[k].who = k
  BY DEF Seated
<1>1. r \in Minted /\ r # 0 /\ rooms[r].conns \in [Conn -> Nat]
  BY RoomFacts DEF TypeOK, Id
<1>2. rooms[r].kind = "game" /\ rooms[r].conns[k] # 0
      /\ ~ (Depart(d) /\ (job[d].all \/ r = job[d].room) /\ k = job[d].who)
  <2>1. CASE rooms'[r] = rooms[r] /\ ~ Depart(d)
    BY <2>1
  <2>2. CASE Keeps(r) /\ (Admits(r, d) \/ Hands(r, d)) /\ ~ Depart(d)
    BY <2>2 DEF Keeps, Admits, Hands
  <2>3. CASE Keeps(r) /\ JoinRegister(d) /\ Enrols(r, d)
    BY <1>1, <2>3 DEF Keeps, Enrols, JoinRegister, Depart
  <2>4. CASE Keeps(r) /\ Removes(r, d)
    BY <1>1, <2>4 DEF Keeps, Removes
  <2>5. CASE Depart(d) /\ rooms'[r] = rooms[r]
    <3>1. ASSUME k = job[d].who, job[d].all \/ r = job[d].room PROVE FALSE
      <4>1. rooms'[r] = Without(rooms[r], k)
        BY <1>1, <2>5, <3>1 DEF Depart
      <4>2. rooms'[r].conns[k] = 0
        <5> DEFINE old == rooms[r]
                   new == rooms'[r]
        <5>1. new = Without(old, k) /\ old \in Room
          BY <1>1, <4>1, RoomFacts
        <5> HIDE DEF old, new
        <5>2. new.conns[k] = 0
          BY <5>1 DEF Without, Room
        <5> QED
          BY <5>2 DEF new
      <4> QED
        BY <4>2
    <3> QED
      BY <2>5, <3>1
  <2>6. \/ rooms'[r] = rooms[r] \/ ~ Depart(d) \/ Removes(r, d)
    BY <1>1, RoomChanges DEF JoinGate, PromoteCheck, PromoteSet, JoinRegister, Depart
  <2> QED
    BY <1>1, <2>1, <2>2, <2>3, <2>4, <2>5, <2>6, RoomChanges DEF JoinGate, PromoteCheck,
       PromoteSet, JoinRegister, Depart
<1>3. sock[k] = "up" /\ (Match(k)' = Match(k) \/ (k = d /\ Match(d) = 0))
  BY DEF News
<1>4. Match(k) = r \/ (pc[k] \in {"close", "depart"} /\ job[k].room = r /\ job[k].who = k)
  BY <1>2, <1>3 DEF SeatInv, Seated
<1>5. CASE k # d
  <2>1. pc'[k] = pc[k] /\ job'[k] = job[k]
    BY <1>5, OnlyOne DEF RosterInv
  <2> QED
    BY <1>3, <1>4, <1>5, <2>1
<1>6. CASE k = d
  <2>1. pc[d] # "depart" \/ Depart(d)
    BY DEF Request, Create, Join, Leave, SetPartyData, Kick, LateKick, Promote, Receive,
       Finally, Continue, CreateSend, CreateRegister, JoinGate, JoinSnapshot, JoinSend, JoinRegister,
       KickSend, PromoteCheck, PromoteSet, PromoteSend, CacheData, CloseRoom, TellDeparture,
       SeedSend, SeedRegister
  <2>2. Match(d) = r
    BY <1>2, <1>4, <1>6, <2>1
  <2> QED
    BY <1>1, <1>3, <1>6, <2>2
<1> QED
  BY <1>5, <1>6

LEMMA SeatedRegister ==
  ASSUME TypeOK, MaxBusy = 1, RosterInv, HostInv, SeatInv, NEW d \in Conn, JoinRegister(d),
         NEW r \in active \cap active'
  PROVE  Seated(d, r)'
<1> SUFFICES ASSUME rooms'[r].kind = "game", rooms'[r].conns[d] # 0, sock'[d] = "up"
    PROVE  Match(d)' = r
  BY DEF Seated
<1>1. /\ view' = view /\ sock' = sock /\ pc[d] = "join_reg" /\ r \in Minted
      /\ Continue(d) /\ Told(d, pc[d], job[d])
  BY DEF JoinRegister, TypeOK, Continue, SeatInv
<1>2. CASE rooms'[r] = rooms[r]
  BY <1>1, <1>2 DEF SeatInv, Seated, Match
<1>3. CASE Keeps(r) /\ r = job[d].room
  BY <1>1, <1>3 DEF Keeps, Told, Match
<1> QED
  BY <1>1, <1>2, <1>3, RoomChanges DEF Enrols, JoinGate, PromoteCheck, PromoteSet, Depart

LEMMA SeatedLeave ==
  ASSUME TypeOK, MaxBusy = 1, RosterInv, HostInv, SeatInv, KickInv, NEW d \in Conn,
         NEW q \in Minted, Leave(d, q), NEW r \in active \cap active', NEW k \in Conn
  PROVE  Seated(k, r)'
<1>1. /\ view' = Deliver({d}, rooms[q].kind, RoomGone(q)) /\ sock' = sock /\ rooms' = rooms
      /\ pc[d] = "recv" /\ r \in active /\ Request(d) /\ job[d] = NoJob(d) /\ q \in Id
  BY RoomFacts DEF Leave, Receive, Request, KickInv, KickPart
<1>2. pc'[d] \in {"close", "depart"} /\ job'[d].room = q /\ job'[d].who = d
  <2>1. PICK l, j : /\ Goto(d, l, j) /\ l = AfterRetire(j)
                    /\ \E S : j = [job[d] EXCEPT !.room = q, !.seed = TRUE, !.closing = S]
    BY DEF Leave
  <2>2. j.room = q /\ j.who = d
    BY <1>1, <2>1 DEF NoJob
  <2> QED
    BY <2>1, <2>2, AfterRetireType DEF Goto, TypeOK
<1> SUFFICES ASSUME rooms[r].kind = "game", rooms[r].conns[k] # 0, sock[k] = "up"
    PROVE  \/ Match(k)' = r
           \/ pc'[k] \in {"close", "depart"} /\ job'[k].room = r /\ job'[k].who = k
  BY <1>1 DEF Seated
<1>3. Match(k) = r \/ (pc[k] \in {"close", "depart"} /\ job[k].room = r /\ job[k].who = k)
  BY <1>1 DEF SeatInv, Seated
<1>4. PICK kind, msg : view' = Deliver({d}, kind, msg) /\ msg = RoomGone(q)
  BY <1>1
<1>5. CASE k # d
  <2>1. pc'[k] = pc[k] /\ job'[k] = job[k]
    BY <1>1, <1>5, OnlyOne DEF RosterInv
  <2>2. Match(k)' = Match(k)
    BY <1>4, <1>5, DeliverMatch
  <2> QED
    BY <1>3, <2>1, <2>2
<1>6. CASE k = d
  <2>1. Match(d) = r
    BY <1>1, <1>3, <1>6
  <2>2. CASE q = r
    BY <1>2, <1>6, <2>2
  <2>3. CASE q # r
    <3>1. Handled(view[d]["game"], msg).room = Match(d)
      BY <1>1, <1>4, <2>1, <2>3, Views, HandledRoom DEF Match
    <3> QED
      BY <1>4, <1>6, <2>1, <3>1, DeliverMatch
  <2> QED
    BY <2>2, <2>3
<1> QED
  BY <1>5, <1>6

(* A room being closed is not registered any more.                         *)
LEMMA SeatedClose ==
  ASSUME TypeOK, MaxBusy = 1, RosterInv, HostInv, SeatInv, NEW d \in Conn,
         NEW q \in Minted, CloseRoom(d, q), NEW r \in active \cap active', NEW k \in Conn
  PROVE  Seated(k, r)'
<1>1. /\ view' = Deliver(PeersOf(q) \ {d}, rooms[q].kind, RoomGone(q)) /\ sock' = sock
      /\ rooms' = rooms /\ pc[d] = "close" /\ Continue(d) /\ q \in Id /\ q \in job[d].closing
  BY RoomFacts DEF CloseRoom, Continue
<1>2. q # r
  BY <1>1 DEF SeatInv, Told
<1>3. pc'[d] \in {"close", "depart"} /\ job'[d].room = job[d].room /\ job'[d].who = job[d].who
  <2>1. PICK l, j : /\ Goto(d, l, j) /\ l = AfterRetire(j)
                    /\ j = [job[d] EXCEPT !.closing = @ \ {q}]
    BY DEF CloseRoom
  <2>2. j.room = job[d].room /\ j.who = job[d].who
    BY <2>1, JobFacts DEF Job
  <2> QED
    BY <2>1, <2>2, AfterRetireType DEF Goto, TypeOK
<1> SUFFICES ASSUME rooms[r].kind = "game", rooms[r].conns[k] # 0, sock[k] = "up"
    PROVE  \/ Match(k)' = r
           \/ pc'[k] \in {"close", "depart"} /\ job'[k].room = r /\ job'[k].who = k
  BY <1>1 DEF Seated
<1>4. Match(k) = r \/ (pc[k] \in {"close", "depart"} /\ job[k].room = r /\ job[k].who = k)
  BY <1>1 DEF SeatInv, Seated
<1>5. pc[k] \in {"close", "depart"} =>
        pc'[k] \in {"close", "depart"} /\ job'[k].room = job[k].room /\ job'[k].who = job[k].who
  <2>1. k # d => pc'[k] = pc[k] /\ job'[k] = job[k]
    BY <1>1, OnlyOne DEF RosterInv
  <2> QED
    BY <1>3, <2>1
<1>6. Match(k) = r => Match(k)' = r
  <2>1. PICK S, kind, msg : view' = Deliver(S, kind, msg) /\ msg = RoomGone(q)
    BY <1>1
  <2>2. Match(k) = r => Handled(view[k]["game"], msg).room = Match(k)
    BY <1>1, <1>2, <2>1, Views, HandledRoom DEF Match
  <2> QED
    BY <2>1, <2>2, DeliverMatch
<1> QED
  BY <1>4, <1>5, <1>6

(* The creator of a match is told of it before it is registered.           *)
LEMMA SeatedNew ==
  ASSUME TypeOK, FreshInv, GoneInv, SeatInv, NEW d \in Conn,
         Request(d) \/ Continue(d) \/ Finally(d), NEW r \in active', r \notin active, NEW k \in Conn
  PROVE  Seated(k, r)'
<1>1. /\ CreateRegister(d) \/ SeedRegister(d)
      /\ r = job[d].room /\ r \in Minted /\ rooms' = rooms
  BY NewlyActive
<1>2. CASE SeedRegister(d)
  <2>1. rooms[r].kind = "party"
    BY <1>1, <1>2 DEF GoneInv, GonePart, SeedRegister
  <2> QED
    BY <1>1, <2>1 DEF Seated
<1>3. CASE CreateRegister(d)
  <2>1. /\ pc[d] = "create_reg" /\ sock' = sock /\ view' = view
        /\ Told(d, pc[d], job[d]) /\ Fresh(r, d)
    BY <1>1, <1>3 DEF CreateRegister, SeatInv, FreshInv, PendingOK, PendingPCs, For
  <2> QED
    BY <1>1, <2>1 DEF Seated, Fresh, Told, Match
<1> QED
  BY <1>1, <1>2, <1>3

LEMMA SeatedNext ==
  ASSUME TypeOK, MaxBusy = 1, KickInv, FreshInv, GoneInv, RosterInv, HostInv, SeatInv,
         NEW d \in Conn, Request(d) \/ Continue(d) \/ Finally(d), NEW r \in active', NEW k \in Conn
  PROVE  Seated(k, r)'
<1>1. CASE r \notin active
  BY <1>1, SeatedNew
<1>2. CASE r \in active /\ \E q \in Minted : Leave(d, q)
  BY <1>2, SeatedLeave
<1>3. CASE r \in active /\ \E q \in Minted : CloseRoom(d, q)
  BY <1>3, SeatedClose
<1>4. CASE r \in active /\ ~ \E q \in Minted : Leave(d, q) \/ CloseRoom(d, q)
  <2>1. News(d)
    BY <1>4, NewsOfAll
  <2>2. pc[d] # "close"
    BY <1>4 DEF Request, Create, Join, SetPartyData, Kick, LateKick, Promote, Receive,
       Finally, Continue, CreateSend, CreateRegister, JoinGate, JoinSnapshot, JoinSend, JoinRegister,
       KickSend, PromoteCheck, PromoteSet, PromoteSend, CacheData, Depart, TellDeparture,
       SeedSend, SeedRegister
  <2>3. CASE JoinRegister(d) /\ k = d
    BY <1>4, <2>3, SeatedRegister
  <2>4. CASE ~ (JoinRegister(d) /\ k = d)
    BY <1>4, <2>1, <2>2, <2>4, SeatedQuietly
  <2> QED
    BY <2>3, <2>4
<1> QED
  BY <1>1, <1>2, <1>3, <1>4

LEMMA ToldOther ==
  ASSUME NEW d, NEW l, NEW j,
         l \notin JoinPCs \cup {"create_send", "create_reg", "close"}
  PROVE  Told(d, l, j)'
  BY DEF Told, JoinPCs, JoiningPCs

(* A client that plays is in no other match: it creates one or joins one   *)
(* from its menu.                                                          *)
LEMMA ToldBegins ==
  ASSUME TypeOK, SeatInv, NEW d \in Conn, NEW l, NEW j, Goto(d, l, j),
         \/ \E op \in Creates, cap \in CapInputs : Create(d, op, cap)
         \/ \E r \in Minted : Join(d, r)
  PROVE  Told(d, l, j)'
<1>0. pc'[d] = l /\ job'[d] = j /\ job[d] \in Job /\ view' = view /\ sock' = sock
  BY JobFacts DEF Goto, TypeOK, Create, Join
<1>1. ASSUME NEW op \in Creates, NEW cap \in CapInputs, Create(d, op, cap) PROVE Told(d, l, j)'
  <2> DEFINE kind == IF op = "party" THEN "party" ELSE "game"
  <2>1. /\ l = "create_send" /\ j = [job[d] EXCEPT !.room = seq + 1] /\ view[d][kind].room = 0
        /\ rooms'[seq + 1] = SoloRoom(d, kind, op = "public", Clamp(cap))
    <3>1. Goto(d, "create_send", [job[d] EXCEPT !.room = seq + 1])
      BY <1>1 DEF Create
    <3>2. seq \in Nat /\ seq + 1 \in 1 .. seq + 1 /\ seq + 1 \notin Minted
      BY DEF TypeOK, Minted
    <3> QED
      BY <1>0, <1>1, <3>1, <3>2 DEF Goto, TypeOK, Create
  <2>2. j.room = seq + 1 /\ rooms'[seq + 1].kind = kind
    BY <1>0, <2>1 DEF Job, SoloRoom
  <2>3. kind = "game" => Match(d)' = 0
    BY <1>0, <2>1 DEF Match
  <2> QED
    BY <2>1, <2>2, <2>3 DEF Told, JoinPCs, JoiningPCs
<1>2. ASSUME NEW r \in Minted, Join(d, r) PROVE Told(d, l, j)'
  <2>1. /\ l = "join_gate" /\ j = [job[d] EXCEPT !.room = r] /\ r \in active /\ rooms' = rooms
        /\ rooms[r].kind = "game" => Match(d) = 0
        /\ sock[d] = "up" /\ pc[d] = "recv"
    BY <1>0, <1>2 DEF Join, Goto, TypeOK, MayJoin, Match, Receive
  <2>2. j.room = r
    BY <1>0, <2>1 DEF Job
  <2>3. rooms[r].kind = "game" => rooms[r].conns[d] = 0
    <3>1. r # 0 /\ Seated(d, r)
      BY <2>1 DEF SeatInv, Minted
    <3> QED
      BY <2>1, <3>1 DEF Seated
  <2> QED
    BY <1>0, <2>1, <2>2, <2>3 DEF Told, JoinPCs, JoiningPCs, Match
<1> QED
  BY <1>1, <1>2

LEMMA ToldJoins ==
  ASSUME TypeOK, SeatInv, NEW d \in Conn, NEW l, NEW j, Goto(d, l, j), JoinGate(d) \/ JoinSnapshot(d)
  PROVE  Told(d, l, j)'
<1>0. /\ pc'[d] = l /\ job'[d] = j /\ job[d] \in Job /\ view' = view /\ sock' = sock
      /\ Told(d, pc[d], job[d]) /\ job[d].room \in Minted
  BY JobFacts, JobRoom DEF Goto, TypeOK, JoinGate, JoinSnapshot, SeatInv, RoomPCs, PCs
<1>1. CASE l = "recv"
  BY <1>1, ToldOther DEF JoinPCs, JoiningPCs
<1>2. CASE JoinGate(d) /\ l # "recv"
  <2>1. PICK m : Goto(d, "join_snap", [job[d] EXCEPT !.mid = m])
    BY <1>0, <1>2 DEF JoinGate, Return, Goto, TypeOK
  <2>2. l = "join_snap" /\ j.room = job[d].room /\ pc[d] = "join_gate"
    BY <1>0, <1>2, <2>1 DEF Goto, TypeOK, Job, JoinGate
  <2>3. rooms'[job[d].room].kind = rooms[job[d].room].kind
        /\ rooms'[job[d].room].conns = rooms[job[d].room].conns
    BY <1>0, <1>2, RoomChanges DEF Continue, Keeps, Admits, JoinGate, PromoteCheck, PromoteSet,
       JoinRegister, Depart
  <2> QED
    BY <1>0, <2>2, <2>3 DEF Told, JoinPCs, JoiningPCs, Match
<1>3. CASE JoinSnapshot(d)
  <2>1. PICK k : /\ Goto(d, "join_send", k)
                 /\ \E S : k = [job[d] EXCEPT !.roster = S, !.peers = PeersOf(job[d].room)]
    BY <1>3 DEF JoinSnapshot
  <2>2. l = "join_send" /\ j = k
    BY <1>0, <2>1 DEF Goto, TypeOK
  <2>3. j.room = job[d].room /\ j.peers = PeersOf(job[d].room)
    BY <1>0, <2>1, <2>2 DEF Job
  <2>4. pc[d] = "join_snap" /\ rooms' = rooms
    BY <1>3 DEF JoinSnapshot
  <2> QED
    BY <1>0, <2>2, <2>3, <2>4 DEF Told, JoinPCs, JoiningPCs, Match, PeersOf
<1> QED
  BY <1>1, <1>2, <1>3

LEMMA ToldSends ==
  ASSUME TypeOK, SeatInv, NEW d \in Conn, NEW l, NEW j, Goto(d, l, j), CreateSend(d) \/ JoinSend(d)
  PROVE  Told(d, l, j)'
<1> DEFINE r == job[d].room
<1>0. /\ pc'[d] = l /\ job'[d] = j /\ rooms' = rooms /\ sock' = sock
      /\ Told(d, pc[d], job[d]) /\ r \in Minted /\ r \in Id
  BY JobFacts, JobRoom, RoomFacts DEF Goto, TypeOK, CreateSend, JoinSend, SeatInv, RoomPCs, PCs
<1>1. CASE l \in {"recv", "fin"}
  BY <1>1, ToldOther DEF JoinPCs, JoiningPCs
<1>2. CASE l \notin {"recv", "fin"}
  <2>1. /\ j = job[d] /\ l \in {"create_reg", "join_reg"}
        /\ l = "join_reg" => pc[d] = "join_send"
    BY <1>0, <1>2 DEF CreateSend, JoinSend, Return, Goto, TypeOK
  <2>2. PICK S, kind, msg : /\ view' = Deliver(S, kind, msg) /\ kind = rooms[r].kind /\ d \in S
                            /\ \E T : msg = Member(r, T)
    <3>1. CASE CreateSend(d)
      <4>1. view' = Deliver({d}, rooms[r].kind, Member(r, {MEMBER_ID}))
        BY <1>0, <1>2, <3>1 DEF CreateSend, Goto, TypeOK
      <4> QED
        BY <4>1
    <3>2. CASE JoinSend(d)
      <4>1. view' = Deliver(job[d].peers \cup {d}, rooms[r].kind, Member(r, job[d].roster))
        BY <1>0, <1>2, <3>2 DEF JoinSend, Return, Goto, TypeOK
      <4> QED
        BY <4>1
    <3> QED
      BY <3>1, <3>2
  <2>3. Handled(view[d]["game"], msg).room = r
    BY <1>0, <2>2, Views, HandledRoom
  <2>4. kind = "game" /\ sock[d] = "up" => Match(d)' = r
    BY <2>2, <2>3, DeliverMatch
  <2> QED
    BY <1>0, <2>1, <2>2, <2>4 DEF Told, JoinPCs, JoiningPCs
<1> QED
  BY <1>1, <1>2

LEMMA ToldRetires ==
  ASSUME TypeOK, SeatInv, NEW d \in Conn, NEW l, NEW j, Goto(d, l, j),
         Finally(d) \/ \E r \in Minted : Leave(d, r) \/ CloseRoom(d, r)
  PROVE  Told(d, l, j)'
<1>0. pc'[d] = l /\ job'[d] = j /\ job[d] \in Job /\ Told(d, pc[d], job[d])
  BY JobFacts DEF Goto, TypeOK, SeatInv
<1>1. j.closing \cap active' = {} /\ l \in {"close", "depart"}
  <2>1. CASE Finally(d)
    <3> DEFINE k == [NoJob(d) EXCEPT !.all = TRUE, !.fin = TRUE, !.closing = OwnedBy(d)]
    <3>1. Goto(d, AfterRetire(k), k) /\ active' = active \ OwnedBy(d)
      BY <2>1 DEF Finally
    <3>2. k.closing = OwnedBy(d)
      BY DEF NoJob
    <3> HIDE DEF k
    <3>3. j = k /\ l = AfterRetire(k)
      BY <1>0, <3>1 DEF Goto, TypeOK
    <3> QED
      BY <3>1, <3>2, <3>3, AfterRetireType
  <2>2. ASSUME NEW r \in Minted, Leave(d, r)
        PROVE  j.closing \cap active' = {} /\ l \in {"close", "depart"}
    <3>1. PICK k, S : /\ Goto(d, AfterRetire(k), k) /\ active' = active \ S
                      /\ k = [job[d] EXCEPT !.room = r, !.seed = TRUE, !.closing = S]
      BY <2>2 DEF Leave
    <3>2. k.closing = S
      BY <1>0, <3>1 DEF Job
    <3>3. j = k /\ l = AfterRetire(k)
      BY <1>0, <3>1 DEF Goto, TypeOK
    <3> QED
      BY <3>1, <3>2, <3>3, AfterRetireType
  <2>3. ASSUME NEW r \in Minted, CloseRoom(d, r)
        PROVE  j.closing \cap active' = {} /\ l \in {"close", "depart"}
    <3>1. PICK k : /\ Goto(d, AfterRetire(k), k) /\ active' = active /\ pc[d] = "close"
                   /\ k = [job[d] EXCEPT !.closing = @ \ {r}]
      BY <2>3 DEF CloseRoom
    <3>2. k.closing \subseteq job[d].closing
      BY <1>0, <3>1 DEF Job
    <3>3. j = k /\ l = AfterRetire(k)
      BY <1>0, <3>1 DEF Goto, TypeOK
    <3> QED
      BY <1>0, <3>1, <3>2, <3>3, AfterRetireType DEF Told
  <2> QED
    BY <2>1, <2>2, <2>3
<1> QED
  BY <1>1 DEF Told, JoinPCs, JoiningPCs

LEMMA ToldNext ==
  ASSUME TypeOK, SeatInv, NEW d \in Conn, NEW l, NEW j, Goto(d, l, j),
         Request(d) \/ Continue(d) \/ Finally(d)
  PROVE  Told(d, l, j)'
<1>0. pc'[d] = l
  BY DEF Goto, TypeOK
<1>1. CASE Depart(d) \/ \E e \in job[d].left : TellDeparture(d, e[1], e[2])
  <2>1. PICK k : GoOn(d, k)
    BY <1>1 DEF Depart, TellDeparture
  <2>2. l \in {"recv", "tell", "done", "seed_send"}
    BY <1>0, <2>1, GoOnStep DEF Goto, TypeOK
  <2> QED
    BY <2>2, ToldOther DEF JoinPCs, JoiningPCs
<1>2. CASE \/ CreateRegister(d) \/ JoinRegister(d) \/ KickSend(d) \/ PromoteCheck(d) \/ PromoteSet(d) \/ PromoteSend(d)
           \/ CacheData(d) \/ SeedSend(d) \/ SeedRegister(d)
           \/ \E r \in Minted : \/ SetPartyData(d, r)
                                \/ \E m \in Mid : Kick(d, r, m) \/ LateKick(d, r, m) \/ Promote(d, r, m)
  <2>1. l \in {"recv", "fin", "depart", "promote_send", "seed_reg", "data_cache", "kick_send", "promote_check", "promote_set"}
    BY <1>0, <1>2 DEF CreateRegister, JoinRegister, KickSend, PromoteCheck, PromoteSet,
       PromoteSend, CacheData,
       SeedSend, SeedRegister, SetPartyData, Kick, LateKick, Promote, Reject, Return, Goto, TypeOK
  <2> QED
    BY <2>1, ToldOther DEF JoinPCs, JoiningPCs
<1> QED
  BY <1>1, <1>2, ToldBegins, ToldJoins, ToldSends, ToldRetires DEF Request, Continue

LEMMA SeatNext ==
  ASSUME TypeOK, MaxBusy = 1, "raise" \notin Ops,
         UniqueMemberIds, KickInv, FreshInv, GoneInv, RosterInv, HostInv, SeatInv, [Next]_vars
  PROVE  SeatInv'
<1>1. ASSUME NEW d \in Conn, Request(d) \/ Continue(d) \/ Finally(d) PROVE SeatInv'
  <2>1. PICK l, j : Goto(d, l, j)
    BY <1>1, StepGoes
  <2>2. Told(d, l, j)' /\ pc'[d] = l /\ job'[d] = j
    BY <1>1, <2>1, ToldNext DEF Goto, TypeOK
  <2>3. \A c \in Conn : Told(c, pc[c], job[c])'
    <3>1. \A c \in Conn : c # d => pc'[c] \in {"recv", "done"}
      BY <1>1, OnlyOne DEF RosterInv, Resting
    <3> QED
      BY <2>2, <3>1 DEF Told, JoinPCs, JoiningPCs
  <2>4. \A r \in active' : Known(r)'
    BY <1>1, KnownNext
  <2>5. \A r \in active', k \in Conn : Seated(k, r)'
    BY <1>1, SeatedNext
  <2> QED
    BY <2>3, <2>4, <2>5 DEF SeatInv
<1>2. ASSUME NEW d \in Conn, Drop(d) PROVE SeatInv'
  <2>1. /\ UNCHANGED <<pc, job, active, rooms>> /\ sock' = [sock EXCEPT ![d] = "lost"]
        /\ \A k \in Conn : sock'[k] = "up" => sock[k] = "up" /\ Match(k)' = Match(k)
    BY <1>2 DEF Drop, TypeOK, Match
  <2>2. \A c \in Conn : Told(c, pc[c], job[c])'
    BY <2>1 DEF SeatInv, Told, PeersOf
  <2>3. \A r \in active : Known(r)' /\ \A k \in Conn : Seated(k, r)'
    BY <2>1 DEF SeatInv, Known, Seated
  <2> QED
    BY <2>1, <2>2, <2>3 DEF SeatInv
<1>3. CASE UNCHANGED vars
  BY <1>3 DEF vars, SeatInv, Told, Known, Seated, Match, PeersOf
<1> QED
  BY <1>1, <1>2, <1>3, NoRaise

LEMMA SeatInit ==
  ASSUME Init
  PROVE  SeatInv
  BY DEF Init, SeatInv, Told, JoinPCs, JoiningPCs

(* One message at a time and with a log that can be written, the roster the  *)
(* server sends and the connections it sends to do not drift apart, whatever *)
(* sequence of joins, departures, lost peers and reseeds came before:        *)
(* whoever is connected to a room is in its roster, and the roster of a      *)
(* match has nobody else in it (session_manager.py:1243, 2381).              *)
THEOREM RostersAreWhoIsThere ==
  ASSUME MaxBusy = 1, "raise" \notin Ops
  PROVE  Spec => []ServerAgreement
<1>1. TypeOK /\ HostInv /\ SeatInv => ServerAgreement
  <2> SUFFICES ASSUME TypeOK, HostInv, SeatInv, NEW r \in active
      PROVE  LET ids == {rooms[r].conns[c] : c \in PeersOf(r)} IN
             /\ ids \subseteq rooms[r].members
             /\ rooms[r].kind = "game" => ids = rooms[r].members
    BY DEF ServerAgreement
  <2>1. r \in Minted /\ rooms[r].members \subseteq Id
    BY RoomFacts DEF TypeOK
  <2>2. \A k \in Conn : rooms[r].conns[k] # 0 => rooms[r].conns[k] \in rooms[r].members
    BY <2>1 DEF HostInv, Hosted
  <2>3. rooms[r].kind = "game" => \A m \in rooms[r].members : \E k \in Conn : rooms[r].conns[k] = m
    BY DEF SeatInv, Known
  <2> QED
    BY <2>1, <2>2, <2>3 DEF PeersOf, Id
<1>2. Init => SeatInv
  BY SeatInit
<1>3. TypeOK /\ UniqueMemberIds /\ KickInv /\ FreshInv /\ GoneInv /\ RosterInv /\ HostInv /\ SeatInv
        /\ [Next]_vars => SeatInv'
  BY SeatNext
<1> QED
  BY <1>1, <1>2, <1>3, Background, SerialInvariants, PTL DEF Spec


-----------------------------------------------------------------------------
(***************************************************************************)
(* Cached blobs                                                            *)
(***************************************************************************)

(* When no client vanishes, a connection whose handler is not over is up,  *)
(* so no reply fails.                                                      *)
Alive(c) == pc[c] = "done" \/ sock[c] = "up"

(* A blob is of a member of its room, or of one on its way into it, or its *)
(* room is out of the registry for good.                                   *)
Retired(r) == r \notin active /\ \A c \in Conn : pc[c] \in PendingPCs => job[c].room # r
Entering(r, m) ==
  \E c \in Conn : pc[c] \in {"join_send", "join_reg"} /\ job[c].room = r /\ job[c].mid = m
BlobFits(r, m) == /\ r \in Minted
                  /\ m \in rooms[r].members \/ Retired(r) \/ Entering(r, m)
CacheFits(c) == pc[c] = "data_cache" => job[c].mid \in rooms[job[c].room].members
BlobInv == /\ \A c \in Conn : Alive(c) /\ CacheFits(c)
           /\ \A b \in blobs : BlobFits(b[1], b[2])

LEMMA AliveStep ==
  ASSUME TypeOK, BlobInv, NEW d \in Conn, Request(d) \/ Continue(d) \/ Finally(d), NEW c \in Conn
  PROVE  Alive(c)'
<1>1. pc[d] # "done"
  BY SockSteps
<1>2. Alive(c) /\ Alive(d)
  BY DEF BlobInv
<1>3. PICK l, j : Goto(d, l, j)
  BY StepGoes
<1>4. CASE c # d
  <2>1. pc'[c] = pc[c]
    BY <1>3, <1>4 DEF Goto, TypeOK
  <2>2. sock'[c] = sock[c]
    BY <1>4, SockSteps
  <2> QED
    BY <1>2, <2>1, <2>2 DEF Alive
<1>5. CASE c = d
  <2>1. sock'[d] = sock[d] \/ pc'[d] = "done"
    BY SockSteps
  <2> QED
    BY <1>1, <1>2, <1>5, <2>1 DEF Alive
<1> QED
  BY <1>4, <1>5

(* Where the retiring of rooms leads.                                       *)
LEMMA ClosesOrDeparts ==
  ASSUME NEW d \in Conn, Finally(d) \/ \E r \in Minted : Leave(d, r) \/ CloseRoom(d, r)
  PROVE  \E l \in {"close", "depart"} : \E j : Goto(d, l, j)
<1>1. CASE Finally(d)
  BY <1>1, AfterRetireType DEF Finally
<1>2. CASE \E r \in Minted : Leave(d, r)
  <2>1. PICK j : Goto(d, AfterRetire(j), j)
    BY <1>2 DEF Leave
  <2> QED
    BY <2>1, AfterRetireType
<1>3. CASE \E r \in Minted : CloseRoom(d, r)
  BY <1>3, AfterRetireType DEF CloseRoom
<1> QED
  BY <1>1, <1>2, <1>3

LEMMA CacheStep ==
  ASSUME TypeOK, MaxBusy = 1, RosterInv, HostInv, BlobInv, NEW d \in Conn,
         Request(d) \/ Continue(d) \/ Finally(d), NEW c \in Conn
  PROVE  CacheFits(c)'
<1>1. CASE c # d
  <2>1. pc'[c] # "data_cache"
    BY <1>1, OnlyOne DEF RosterInv, Resting
  <2> QED
    BY <2>1 DEF CacheFits
<1>2. ASSUME NEW r \in Minted, SetPartyData(d, r), c = d PROVE CacheFits(c)'
  <2>1. job[d] \in Job /\ rooms' = rooms /\ rooms[r].conns[d] # 0
        /\ job'[d] = [job[d] EXCEPT !.room = r, !.mid = rooms[r].conns[d]]
    BY <1>2, JobFacts DEF SetPartyData, InRoom, Goto, TypeOK
  <2>2. job'[d].room = r /\ job'[d].mid = rooms[r].conns[d]
    BY <2>1 DEF Job
  <2> QED
    BY <1>2, <2>1, <2>2 DEF CacheFits, HostInv, Hosted
<1>3. CASE c = d /\ pc'[d] # "data_cache"
  BY <1>3 DEF CacheFits
<1>4. pc'[d] = "data_cache" => \E r \in Minted : SetPartyData(d, r)
  <2>1. ASSUME NEW l, l # "data_cache", NEW j, Goto(d, l, j) PROVE pc'[d] # "data_cache"
    BY <2>1 DEF Goto, TypeOK
  <2>2. CASE Finally(d) \/ \E r \in Minted : Leave(d, r) \/ CloseRoom(d, r)
    <3>1. \E l \in {"close", "depart"} : \E j : Goto(d, l, j)
      BY <2>2, ClosesOrDeparts
    <3> QED
      BY <2>1, <3>1
  <2>3. CASE Depart(d) \/ \E e \in job[d].left : TellDeparture(d, e[1], e[2])
    <3>1. PICK k : GoOn(d, k)
      BY <2>3 DEF Depart, TellDeparture
    <3> QED
      BY <2>1, <3>1, GoOnStep
  <2> QED
    BY <2>2, <2>3 DEF Request, Create, Join, Kick, LateKick, Promote,
       Continue, CreateSend, CreateRegister, JoinGate, JoinSnapshot, JoinSend,
       JoinRegister, KickSend, PromoteCheck, PromoteSet, PromoteSend, CacheData,
       SeedSend, SeedRegister, Reject, Return, Goto, TypeOK
<1> QED
  BY <1>1, <1>2, <1>3, <1>4

(* A blob that stays in the cache fits its room still.                      *)
LEMMA BlobStays ==
  ASSUME TypeOK, MaxBusy = 1, UniqueMemberIds, FreshInv, RosterInv, HostInv, BlobInv,
         NEW d \in Conn, Request(d) \/ Continue(d) \/ Finally(d),
         NEW r \in Id, NEW m \in Id, <<r, m>> \in blobs, <<r, m>> \in blobs'
  PROVE  BlobFits(r, m)'
<1>1. r \in Minted /\ r \in Minted' /\ BlobFits(r, m)
  <2>1. BlobFits(r, m)
    <3>1. \A b \in blobs : BlobFits(b[1], b[2])
      BY DEF BlobInv
    <3> QED
      BY <3>1
  <2>2. Minted \subseteq Minted'
    <3>1. seq' \in {seq, seq + 1}
      BY DEF Request, Create, Join, Leave, SetPartyData, Kick, LateKick, Promote,
         Finally, Continue, CreateSend, CreateRegister, JoinGate, JoinSnapshot, JoinSend,
         JoinRegister, KickSend, PromoteCheck, PromoteSet, PromoteSend, CacheData, CloseRoom,
         Depart,
         TellDeparture, SeedSend, SeedRegister
    <3> QED
      BY <3>1 DEF TypeOK, Minted
  <2> QED
    BY <2>1, <2>2 DEF BlobFits
<1>2. CASE m \in rooms[r].members
  <2>1. CASE rooms'[r] = rooms[r] \/ Admits(r, d) \/ Hands(r, d)
    BY <1>1, <1>2, <2>1 DEF BlobFits, Admits, Hands
  <2>2. CASE JoinRegister(d) /\ Enrols(r, d)
    <3>1. rooms[r].members \subseteq rooms'[r].members
      BY <2>2 DEF JoinRegister, Enrols, RosterInv, PlaceKept, JoiningPCs
    <3> QED
      BY <1>1, <1>2, <3>1 DEF BlobFits
  <2>3. CASE Depart(d) /\ Removes(r, d)
    <3> DEFINE w == job[d].who
    <3>1. <<r, m>> \notin {<<q, rooms[q].conns[w]>> : q \in {q \in active : rooms[q].conns[w] # 0
                                                               /\ (job[d].all \/ q = job[d].room)}}
      BY <2>3 DEF Depart, Forgotten
    <3>2. m # rooms[r].conns[w]
      BY <2>3, <3>1 DEF Removes
    <3>3. m \in rooms'[r].members
      BY <1>2, <2>3, <3>2 DEF Removes
    <3> QED
      BY <1>1, <3>3 DEF BlobFits
  <2> QED
    BY <1>1, <2>1, <2>2, <2>3, RoomChanges
<1>3. CASE Retired(r)
  <2>1. r \notin active'
    <3>1. CASE r \in active'
      <4>1. (CreateRegister(d) \/ SeedRegister(d)) /\ r = job[d].room
        BY <1>3, <3>1, NewlyActive DEF Retired
      <4>2. pc[d] \in PendingPCs
        BY <4>1 DEF CreateRegister, SeedRegister, PendingPCs
      <4> QED
        BY <1>3, <4>1, <4>2 DEF Retired
    <3> QED
      BY <3>1
  <2>2. \A c \in Conn : pc'[c] \in PendingPCs => job'[c].room # r
    <3>1. \A c \in Conn : c # d => pc'[c] \notin PendingPCs
      BY OnlyOne DEF RosterInv, Resting, PendingPCs
    <3>2. pc'[d] \in PendingPCs => job'[d].room # r
      <4>1. CASE SeedSend(d) \/ \E op \in Creates, cap \in CapInputs : Create(d, op, cap)
        <5>1. job'[d] = [job[d] EXCEPT !.room = seq + 1] \/ pc'[d] = "recv"
          BY <4>1 DEF SeedSend, Create, Return, Goto, TypeOK
        <5>2. job[d] \in Job /\ seq + 1 # r
          BY <1>1, JobFacts DEF TypeOK, Minted
        <5>3. [job[d] EXCEPT !.room = seq + 1].room = seq + 1
          BY <5>2 DEF Job
        <5> QED
          BY <5>1, <5>2, <5>3 DEF PendingPCs
      <4>2. CASE CreateSend(d)
        <5>1. pc[d] = "create_send" /\ job'[d] = job[d]
          BY <4>2 DEF CreateSend, Goto, TypeOK
        <5> QED
          BY <1>3, <5>1 DEF Retired, PendingPCs
      <4>3. ASSUME pc'[d] \in PendingPCs
            PROVE  CreateSend(d) \/ SeedSend(d) \/ \E op \in Creates, cap \in CapInputs : Create(d, op, cap)
        <5>1. ASSUME NEW l, l \notin PendingPCs, NEW j, Goto(d, l, j) PROVE FALSE
          BY <4>3, <5>1 DEF Goto, TypeOK
        <5>2. ~ (Finally(d) \/ \E q \in Minted : Leave(d, q) \/ CloseRoom(d, q))
          <6>1. SUFFICES ASSUME Finally(d) \/ \E q \in Minted : Leave(d, q) \/ CloseRoom(d, q) PROVE FALSE
            OBVIOUS
          <6>2. \E l \in {"close", "depart"} : \E j : Goto(d, l, j)
            BY <6>1, ClosesOrDeparts
          <6> QED
            BY <5>1, <6>2 DEF PendingPCs
        <5>3. ~ (Depart(d) \/ \E e \in job[d].left : TellDeparture(d, e[1], e[2]))
          <6>1. SUFFICES ASSUME NEW k, GoOn(d, k) PROVE FALSE
            BY DEF Depart, TellDeparture
          <6> QED
            BY <5>1, <6>1, GoOnStep DEF PendingPCs
        <5>4. \A l : l \in {"recv", "fin", "join_gate", "join_snap", "join_send", "join_reg", "depart",
                            "promote_check", "promote_set", "promote_send", "kick_send", "data_cache"} => l \notin PendingPCs
          BY DEF PendingPCs
        <5> QED
          BY <5>1, <5>2, <5>3, <5>4 DEF Request, Join, SetPartyData, Kick, LateKick, Promote,
             Continue, CreateRegister, JoinGate, JoinSnapshot, JoinSend, JoinRegister, KickSend,
             PromoteCheck, PromoteSet, PromoteSend, CacheData, SeedRegister, Reject, Return
      <4> QED
        BY <4>1, <4>2, <4>3
    <3> QED
      BY <3>1, <3>2
  <2> QED
    BY <1>1, <2>1, <2>2 DEF BlobFits, Retired
<1>4. CASE Entering(r, m)
  <2>1. PICK c \in Conn : pc[c] \in {"join_send", "join_reg"} /\ job[c].room = r /\ job[c].mid = m
    BY <1>4 DEF Entering
  <2>2. c = d
    BY <2>1, OnlyOne DEF RosterInv, Resting
  <2>3. JoinSend(d) \/ JoinRegister(d)
    BY <2>1, <2>2 DEF Request, Create, Join, Leave, SetPartyData, Kick, LateKick, Promote, Receive,
       Finally, Continue, CreateSend, CreateRegister, JoinGate, JoinSnapshot,
       KickSend, PromoteCheck, PromoteSet, PromoteSend, CacheData, CloseRoom, Depart,
       TellDeparture, SeedSend,
       SeedRegister
  <2>4. CASE JoinSend(d)
    <3>1. sock[d] = "up"
      BY <2>1, <2>2 DEF BlobInv, Alive
    <3>2. <<r, m>> \notin Purged(r)
      BY DEF Purged
    <3>3. pc'[d] = "join_reg" /\ job'[d] = job[d]
      BY <2>1, <2>2, <2>4, <3>1, <3>2 DEF JoinSend, Sends, Goto, TypeOK
    <3> QED
      BY <1>1, <2>1, <2>2, <3>3 DEF BlobFits, Entering
  <2>5. CASE JoinRegister(d)
    <3>1. m \in rooms'[r].members
      <4>1. rooms'[r] = With(rooms[r], d, m, job[d].roster) /\ rooms[r] \in Room
        BY <1>1, <2>1, <2>2, <2>5, RoomFacts DEF JoinRegister, TypeOK
      <4>2. m \in job[d].roster
        BY <2>1, <2>2, <2>5 DEF RosterInv, PlaceKept, JoinRegister
      <4> DEFINE new == rooms'[r]
                 old == rooms[r]
      <4>3. new = With(old, d, m, job[d].roster) /\ old \in Room
        BY <4>1
      <4> HIDE DEF new, old
      <4>4. new.members = job[d].roster
        BY <4>3 DEF With, Room
      <4> QED
        BY <4>2, <4>4 DEF new
    <3> QED
      BY <1>1, <3>1 DEF BlobFits
  <2> QED
    BY <2>3, <2>4, <2>5
<1> QED
  BY <1>1, <1>2, <1>3, <1>4 DEF BlobFits

(* One that is cached is the creator's, a member's or a joiner's.           *)
LEMMA BlobCached ==
  ASSUME TypeOK, TypeOK', BlobInv, NEW d \in Conn, Request(d) \/ Continue(d) \/ Finally(d),
         NEW b \in blobs', b \notin blobs
  PROVE  BlobFits(b[1], b[2])'
<1>1. ASSUME NEW op \in Creates, NEW v \in CapInputs, Create(d, op, v) PROVE BlobFits(b[1], b[2])'
  <2>1. b = <<seq + 1, MEMBER_ID>> /\ seq \in Nat /\ seq' = seq + 1
    BY <1>1 DEF Create, Purged, TypeOK, Minted
  <2>2. rooms'[seq + 1].members = {MEMBER_ID}
    <3>1. seq + 1 \in Minted' /\ seq + 1 \notin Minted
      BY <2>1 DEF Minted
    <3>2. Request(d)
      BY <1>1 DEF Request
    <3>3. PICK k \in Conn : \E kind, public, cap : /\ rooms'[seq + 1] = SoloRoom(k, kind, public, cap)
                                                   /\ cap >= 1
      <4> DEFINE r == seq + 1
      <4>1. r \in Minted' /\ r \notin Minted
        BY <3>1
      <4> HIDE DEF r
      <4>2. \E k \in Conn : \E kind, public, cap : rooms'[r] = SoloRoom(k, kind, public, cap) /\ cap >= 1
        BY <3>2, <4>1, MadeForOne
      <4> QED
        BY <4>2 DEF r
    <3> QED
      BY <3>3 DEF SoloRoom
  <2>3. seq + 1 \in Minted'
    BY <2>1 DEF Minted
  <2> QED
    BY <2>1, <2>2, <2>3 DEF BlobFits
<1>2. CASE JoinSnapshot(d)
  <2>1. /\ b = <<job[d].room, job[d].mid>> /\ job[d].room \in Minted /\ seq' = seq
    BY <1>2, JobRoom DEF JoinSnapshot, RoomPCs, PCs
  <2>2. PICK k : /\ Goto(d, "join_send", k)
                 /\ \E S, P : k = [job[d] EXCEPT !.roster = S, !.peers = P]
    BY <1>2 DEF JoinSnapshot
  <2>3. k.room = job[d].room /\ k.mid = job[d].mid
    BY <2>2, JobFacts DEF Job
  <2>4. pc'[d] = "join_send" /\ job'[d].room = b[1] /\ job'[d].mid = b[2]
    BY <2>1, <2>2, <2>3 DEF Goto, TypeOK
  <2> QED
    BY <2>1, <2>4 DEF BlobFits, Entering, Minted
<1>3. CASE CacheData(d)
  <2>1. /\ b = <<job[d].room, job[d].mid>> /\ job[d].room \in Minted /\ seq' = seq /\ rooms' = rooms
        /\ pc[d] = "data_cache"
    BY <1>3, JobRoom DEF CacheData, RoomPCs, PCs
  <2> QED
    BY <2>1 DEF BlobFits, BlobInv, CacheFits, Minted
<1>4. CASE blobs' \subseteq blobs
  BY <1>4
<1>5. CASE SeedSend(d) \/ SeedRegister(d) \/ CreateRegister(d) \/ CreateSend(d) \/ JoinGate(d) \/ JoinRegister(d)
           \/ KickSend(d) \/ PromoteCheck(d) \/ PromoteSet(d) \/ PromoteSend(d) \/ Finally(d)
  BY <1>5 DEF SeedSend, SeedRegister, CreateRegister, CreateSend, JoinGate, JoinRegister,
     KickSend, PromoteCheck, PromoteSet, PromoteSend, Finally
<1>6. CASE JoinSend(d) \/ Depart(d) \/ \E r \in Minted : CloseRoom(d, r)
  BY <1>4, <1>6 DEF JoinSend, Depart, CloseRoom, Purged, Forgotten
<1>7. CASE \E e \in job[d].left : TellDeparture(d, e[1], e[2])
  BY <1>7 DEF TellDeparture
<1>8. CASE Request(d) /\ ~ \E op \in Creates, cap \in CapInputs : Create(d, op, cap)
  BY <1>8 DEF Request, Join, Leave, SetPartyData, Kick, LateKick, Promote
<1> QED
  BY <1>1, <1>2, <1>3, <1>5, <1>6, <1>7, <1>8 DEF Continue

LEMMA BlobNext ==
  ASSUME TypeOK, TypeOK', MaxBusy = 1, "drop" \notin Ops, "raise" \notin Ops,
         UniqueMemberIds, FreshInv, RosterInv, HostInv, BlobInv, [Next]_vars
  PROVE  BlobInv'
<1>1. ASSUME NEW d \in Conn, Request(d) \/ Continue(d) \/ Finally(d) PROVE BlobInv'
  <2>1. \A c \in Conn : Alive(c)' /\ CacheFits(c)'
    BY <1>1, AliveStep, CacheStep
  <2>2. ASSUME NEW b \in blobs' PROVE BlobFits(b[1], b[2])'
    <3>1. b \in Id \X Id
      BY DEF TypeOK
    <3>2. b[1] \in Id /\ b[2] \in Id /\ b = <<b[1], b[2]>>
      BY <3>1
    <3> QED
      BY <1>1, <3>2, BlobStays, BlobCached
  <2> QED
    BY <2>1, <2>2 DEF BlobInv
<1>2. CASE UNCHANGED vars
  BY <1>2 DEF vars, BlobInv, Alive, CacheFits, BlobFits, Retired, Entering, Minted
<1> QED
  BY <1>1, <1>2, NoRaise DEF Drop

(* One message at a time, no peer lost and no log write raising, no blob of  *)
(* a member that has left is there to be replayed to a joiner                *)
(* (session_manager.py:1252).  A joiner whose reply fails leaves one behind, *)
(* hence the second condition, a closing that raises those of its room.      *)
THEOREM BlobsAreOfMembers ==
  ASSUME MaxBusy = 1, "drop" \notin Ops, "raise" \notin Ops
  PROVE  Spec => []BlobsOfMembers
<1>1. BlobInv => BlobsOfMembers
  BY DEF BlobInv, BlobFits, Retired, Entering, BlobsOfMembers, Quiet, Busy
<1>2. Init => BlobInv
  BY DEF Init, BlobInv, Alive, CacheFits
<1>3. TypeOK /\ TypeOK' /\ UniqueMemberIds /\ FreshInv /\ RosterInv /\ HostInv /\ BlobInv
        /\ [Next]_vars => BlobInv'
  BY BlobNext
<1> QED
  BY <1>1, <1>2, <1>3, Background, SerialInvariants, PTL DEF Spec

-----------------------------------------------------------------------------
(***************************************************************************)
(* What the clients believe                                                *)
(***************************************************************************)

(* Client k can be told, and believes that it is in room r, and whom it    *)
(* sees there.                                                             *)
Believes(k, r) == sock[k] = "up" /\ view[k][rooms[r].kind].room = r
Seen(k, r) == view[k][rooms[r].kind].roster

(* What it believes in exists; it is there, or on its way in or out; and   *)
(* it sees whoever is there.                                               *)
Real(k) == \A kind \in Kind :
             view[k][kind].room # 0 => /\ view[k][kind].room \in Minted
                                       /\ rooms[view[k][kind].room].kind = kind
Present(k, r) ==
  rooms[r].conns[k] # 0 \/ job[k].fin \/ (pc[k] = "join_reg" /\ job[k].room = r)
Agrees(k, r) == Believes(k, r) => Present(k, r) /\ rooms[r].members \subseteq Seen(k, r)

(* Nobody believes in a room before its creator is told of it; a joiner    *)
(* believes in its room when it is told, and by then everybody there sees  *)
(* it; whoever believes in a room that is being closed can be told; a      *)
(* member that is taken out of one room has been told.                     *)
Heard(c, l, j) ==
  /\ l = "create_send" => \A k \in Conn : ~ Believes(k, j.room)
  /\ l \in {"create_reg", "seed_reg"} =>
       \A k \in Conn : Believes(k, j.room) => k = For(l, c, j) /\ MEMBER_ID \in Seen(k, j.room)
  /\ l \in {"join_gate", "join_snap", "join_send"} => ~ Believes(c, j.room)
  /\ l = "join_reg" => \A k \in Conn : Believes(k, j.room) => j.roster \subseteq Seen(k, j.room)
  /\ l = "close" => \A r \in j.closing, k \in Conn \ {c} : Believes(k, r) => rooms[r].conns[k] # 0
  /\ l \in {"close", "depart"} =>
       /\ j.all = j.fin
       /\ ~ j.all => j.room \in Minted /\ ~ Believes(j.who, j.room)
  /\ l = "tell" => \A e \in j.left : e[2] \notin rooms[e[1]].members
  /\ l # "close" => j.closing = {}

AgreeInv == /\ \A k \in Conn : Real(k) /\ \A r \in active : Agrees(k, r)
            /\ \A c \in Conn : Heard(c, pc[c], job[c])

(* A message of the server names a room, and does to a client's belief in  *)
(* any room what it says.                                                  *)
LEMMA SlotAfter ==
  ASSUME TypeOK, NEW S, NEW kind, NEW m, view' = Deliver(S, kind, m), NEW k \in Conn, NEW x \in Kind
  PROVE  view'[k][x] = IF k \in S /\ sock[k] = "up" /\ kind = x
                       THEN Handled(view[k][x], m) ELSE view[k][x]
<1>1. view[k] \in [Kind -> Slot]
  BY DEF TypeOK
<1>2. view'[k] = IF k \in S /\ sock[k] = "up"
                 THEN [view[k] EXCEPT ![kind] = Handled(view[k][kind], m)] ELSE view[k]
  BY DEF Deliver
<1> QED
  BY <1>1, <1>2

LEMMA HandledRoster ==
  ASSUME NEW slot \in Slot, NEW r \in Id, NEW n \in Nat, NEW S
  PROVE  /\ Handled(slot, Member(r, S)).roster = S
         /\ slot.roster \ {n} \subseteq Handled(slot, RoomLeave(r, n)).roster
         /\ slot.room # r => Handled(slot, RoomLeave(r, n)) = slot
         /\ slot.room # r => Handled(slot, RoomGone(r)) = slot
         /\ Handled(slot, OwnerMember(r, n)).roster = slot.roster
<1>1. Handled(slot, Member(r, S)).roster = S
  BY DEF Handled, Member
<1>2. slot.roster \ {n} \subseteq Handled(slot, RoomLeave(r, n)).roster
  BY DEF Handled, RoomLeave, Slot
<1>3. slot.room # r => Handled(slot, RoomLeave(r, n)) = slot
  BY DEF Handled, RoomLeave, Slot
<1>4. slot.room # r => Handled(slot, RoomGone(r)) = slot
  BY DEF Handled, RoomGone, Slot
<1>5. Handled(slot, OwnerMember(r, n)).roster = slot.roster
  BY DEF Handled, OwnerMember, Slot
<1> QED
  BY <1>1, <1>2, <1>3, <1>4, <1>5

(* Nobody starts to believe in room q, and nobody there becomes invisible. *)
Still(k, q) ==
  Believes(k, q)' => Believes(k, q) /\ Seen(k, q) \cap rooms'[q].members \subseteq Seen(k, q)'

LEMMA StillAfter ==
  ASSUME TypeOK, NEW S, NEW kind, NEW m, view' = Deliver(S, kind, m), NEW k \in Conn, NEW q \in Minted,
         rooms'[q].kind = rooms[q].kind, sock'[k] = "up" => sock[k] = "up",
         NEW r \in Id, NEW n \in Nat,
         \/ q # r /\ \E T : m = Member(r, T)
         \/ m = RoomGone(r) \/ m = OwnerMember(r, n)
         \/ m = RoomLeave(r, n) /\ (q = r => n \notin rooms'[q].members)
  PROVE  Still(k, q)
<1> DEFINE slot == view[k][rooms[q].kind]
           new == view'[k][rooms[q].kind]
<1>1. rooms[q].kind \in Kind /\ slot \in Slot /\ q \in Id
  BY RoomFacts DEF TypeOK
<1>2. new = slot \/ new = Handled(slot, m)
  BY <1>1, SlotAfter
<1>3. CASE new = slot
  BY <1>3 DEF Still, Believes, Seen
<1>4. ASSUME NEW T, q # r, m = Member(r, T), new = Handled(slot, m) PROVE Still(k, q)
  <2>1. new.room = r
    BY <1>1, <1>4, HandledRoom
  <2> QED
    BY <1>4, <2>1 DEF Still, Believes
<1>5. CASE m = RoomGone(r) /\ new = Handled(slot, m)
  <2>1. new.room = IF slot.room = r THEN 0 ELSE slot.room
    BY <1>1, <1>5 DEF Handled, RoomGone, Slot, Empty
  <2>2. slot.room # r => new = slot
    BY <1>1, <1>5, HandledRoster
  <2>3. q # 0
    BY <1>1 DEF Id
  <2> QED
    BY <2>1, <2>2, <2>3 DEF Still, Believes, Seen
<1>6. CASE m = OwnerMember(r, n) /\ new = Handled(slot, m)
  <2>1. new.room = slot.room /\ new.roster = slot.roster
    <3> HIDE DEF slot, new
    <3> QED
      BY <1>1, <1>6, HandledRoom, HandledRoster DEF Slot
  <2> QED
    BY <2>1 DEF Still, Believes, Seen
<1>7. CASE m = RoomLeave(r, n) /\ (q = r => n \notin rooms'[q].members) /\ new = Handled(slot, m)
  <2>1. /\ new.room = slot.room /\ slot.roster \ {n} \subseteq new.roster
        /\ slot.room # r => new = slot
    <3> HIDE DEF slot, new
    <3> QED
      BY <1>1, <1>7, HandledRoom, HandledRoster
  <2> QED
    BY <1>7, <2>1 DEF Still, Believes, Seen
<1> QED
  BY <1>2, <1>3, <1>4, <1>5, <1>6, <1>7

LEMMA SocksDown ==
  ASSUME TypeOK, NEW d \in Conn, Request(d) \/ Continue(d) \/ Finally(d), NEW k \in Conn, sock'[k] = "up"
  PROVE  sock[k] = "up"
<1>1. sock' = sock \/ sock' = [sock EXCEPT ![d] = "closed"]
  BY DEF Request, Create, Join, Leave, SetPartyData, Kick, LateKick, Promote,
     Finally, Continue, CreateSend, CreateRegister, JoinGate, JoinSnapshot, JoinSend,
     JoinRegister, KickSend, PromoteCheck, PromoteSet, PromoteSend, CacheData, CloseRoom, Depart,
     TellDeparture, SeedSend, SeedRegister, GoOn, Finish
<1> QED
  BY <1>1 DEF TypeOK

(* Every message but the roster of a room is of that kind.                 *)
LEMMA StillNext ==
  ASSUME TypeOK, AgreeInv, NEW d \in Conn, Request(d) \/ Continue(d) \/ Finally(d),
         NEW k \in Conn, NEW q \in Minted, CreateSend(d) \/ JoinSend(d) => q # job[d].room
  PROVE  Still(k, q)
<1>1. /\ rooms'[q].kind = rooms[q].kind /\ (sock'[k] = "up" => sock[k] = "up")
      /\ q \in Id /\ seq \in Nat /\ seq + 1 \in Id /\ q # seq + 1 /\ 0 \in Nat
  BY RoomStays, SocksDown DEF StaysAs, Minted, TypeOK, Id
<1>2. CASE view' = view
  BY <1>1, <1>2 DEF Still, Believes, Seen
<1>3. ASSUME CreateSend(d) \/ JoinSend(d), view' # view PROVE Still(k, q)
  <2>1. job[d].room \in Id /\ q # job[d].room
    BY <1>3, JobRoom, RoomFacts DEF CreateSend, JoinSend, RoomPCs, PCs
  <2>2. PICK S, kind, T, m : view' = Deliver(S, kind, m) /\ m = Member(job[d].room, T)
    BY <1>3 DEF CreateSend, JoinSend
  <2> QED
    BY <1>1, <2>1, <2>2, StillAfter
<1>4. ASSUME SeedSend(d), view' # view PROVE Still(k, q)
  <2>1. PICK S, kind, T, m : view' = Deliver(S, kind, m) /\ m = Member(seq + 1, T)
    BY <1>4 DEF SeedSend
  <2> QED
    BY <1>1, <2>1, StillAfter
<1>5. ASSUME NEW r \in Minted, Leave(d, r) \/ CloseRoom(d, r) PROVE Still(k, q)
  <2>1. PICK S, kind, m : view' = Deliver(S, kind, m) /\ m = RoomGone(r)
    BY <1>5 DEF Leave, CloseRoom
  <2>2. r \in Id
    BY RoomFacts
  <2> QED
    BY <1>1, <2>1, <2>2, StillAfter
<1>6. ASSUME KickSend(d), view' # view PROVE Still(k, q)
  <2>1. PICK S, kind, m : view' = Deliver(S, kind, m) /\ m = RoomGone(job[d].room)
    BY <1>6 DEF KickSend
  <2>2. job[d].room \in Id
    BY <1>6, JobRoom, RoomFacts DEF KickSend, RoomPCs, PCs
  <2> QED
    BY <1>1, <2>1, <2>2, StillAfter
<1>7. CASE PromoteSend(d)
  <2>1. PICK S, kind, m : view' = Deliver(S, kind, m) /\ m = OwnerMember(job[d].room, job[d].mid)
    BY <1>7 DEF PromoteSend
  <2>2. job[d].room \in Id /\ job[d].mid \in Nat
    BY <1>7, JobRoom, RoomFacts, JobFacts DEF PromoteSend, RoomPCs, PCs, Job
  <2> QED
    BY <1>1, <2>1, <2>2, StillAfter
<1>8. ASSUME NEW e \in job[d].left, TellDeparture(d, e[1], e[2]) PROVE Still(k, q)
  <2>1. PICK S, kind, m : view' = Deliver(S, kind, m) /\ m = RoomLeave(e[1], e[2])
    BY <1>8 DEF TellDeparture
  <2>2. e[1] \in Id /\ e[2] \in Nat
    BY JobFacts, RoomFacts DEF JobOK, Job, Id
  <2>3. q = e[1] => e[2] \notin rooms'[q].members
    BY <1>8 DEF AgreeInv, Heard, TellDeparture
  <2> QED
    BY <1>1, <2>1, <2>2, <2>3, StillAfter
<1> QED
  BY <1>2, <1>3, <1>4, <1>5, <1>6, <1>7, <1>8
  DEF Request, Create, Join, SetPartyData, Kick, LateKick, Promote,
      Finally, Continue, CreateRegister, JoinGate, JoinSnapshot,
      JoinRegister, PromoteCheck, PromoteSet, CacheData, Depart, SeedRegister

(* What a client believes in was minted for that kind of object.           *)
LEMMA RealAfter ==
  ASSUME TypeOK, NEW S, NEW kind, NEW m, view' = Deliver(S, kind, m), NEW k \in Conn, Real(k),
         \A q \in Minted : q \in Minted' /\ rooms'[q].kind = rooms[q].kind,
         NEW r \in Id, NEW n \in Nat,
         \/ r \in Minted' /\ rooms'[r].kind = kind /\ \E T : m = Member(r, T)
         \/ m = RoomGone(r) \/ m = OwnerMember(r, n) \/ m = RoomLeave(r, n)
  PROVE  Real(k)'
<1> SUFFICES ASSUME NEW x \in Kind, view'[k][x].room # 0
             PROVE  view'[k][x].room \in Minted' /\ rooms'[view'[k][x].room].kind = x
  BY DEF Real
<1> DEFINE slot == view[k][x]
           new == view'[k][x]
<1>1. slot \in Slot
  BY DEF TypeOK
<1>2. new = slot \/ (new = Handled(slot, m) /\ kind = x)
  BY SlotAfter
<1>3. CASE new.room = slot.room
  BY <1>3 DEF Real
<1>4. ASSUME NEW T, m = Member(r, T), new = Handled(slot, m) PROVE new.room = r
  BY <1>1, <1>4, HandledRoom
<1>5. m = RoomGone(r) /\ new = Handled(slot, m) => new.room \in {0, slot.room}
  BY <1>1 DEF Handled, RoomGone, Slot, Empty
<1>6. m = OwnerMember(r, n) /\ new = Handled(slot, m) => new.room = slot.room
  BY <1>1 DEF Handled, OwnerMember, Slot
<1>7. m = RoomLeave(r, n) /\ new = Handled(slot, m) => new.room = slot.room
  BY <1>1 DEF Handled, RoomLeave, Slot
<1>8. \/ new.room \in {0, slot.room}
      \/ new.room = r /\ r \in Minted' /\ rooms'[r].kind = x
  <2> HIDE DEF new, slot
  <2> QED
    BY <1>2, <1>4, <1>5, <1>6, <1>7
<1> QED
  BY <1>3, <1>8

LEMMA MintedStay ==
  ASSUME TypeOK, NEW d \in Conn, Request(d) \/ Continue(d) \/ Finally(d), NEW q \in Minted
  PROVE  q \in Minted' /\ rooms'[q].kind = rooms[q].kind
<1>1. seq' = seq \/ seq' = seq + 1
  BY DEF Request, Create, Join, Leave, SetPartyData, Kick, LateKick, Promote,
     Finally, Continue, CreateSend, CreateRegister, JoinGate, JoinSnapshot, JoinSend,
     JoinRegister, KickSend, PromoteCheck, PromoteSet, PromoteSend, CacheData, CloseRoom, Depart,
     TellDeparture, SeedSend, SeedRegister
<1>2. q \in Minted'
  BY <1>1 DEF Minted, TypeOK
<1> QED
  BY <1>2, RoomStays DEF StaysAs

LEMMA RealNext ==
  ASSUME TypeOK, AgreeInv, NEW d \in Conn, Request(d) \/ Continue(d) \/ Finally(d), NEW k \in Conn
  PROVE  Real(k)'
<1>1. /\ \A q \in Minted : q \in Minted' /\ rooms'[q].kind = rooms[q].kind
      /\ Real(k) /\ seq \in Nat /\ 0 \in Nat
  BY MintedStay DEF AgreeInv, TypeOK
<1>2. CASE view' = view
  BY <1>1, <1>2 DEF Real
<1>3. ASSUME CreateSend(d) \/ JoinSend(d), view' # view PROVE Real(k)'
  <2>1. job[d].room \in Id /\ job[d].room \in Minted
    BY <1>3, JobRoom, RoomFacts DEF CreateSend, JoinSend, RoomPCs, PCs
  <2>2. PICK S, kind, T, m : /\ view' = Deliver(S, kind, m) /\ m = Member(job[d].room, T)
                             /\ kind = rooms[job[d].room].kind
    BY <1>3 DEF CreateSend, JoinSend
  <2> QED
    BY <1>1, <2>1, <2>2, RealAfter
<1>4. ASSUME SeedSend(d), view' # view PROVE Real(k)'
  <2> DEFINE new == seq + 1
  <2>1. PICK S, kind, T, m : view' = Deliver(S, kind, m) /\ m = Member(new, T) /\ kind = "party"
    BY <1>4 DEF SeedSend
  <2>2. new \in Id /\ new \in Minted' /\ rooms'[new].kind = "party"
    BY <1>1, <1>4 DEF SeedSend, Minted, SoloRoom, Id
  <2> HIDE DEF new
  <2> QED
    BY <1>1, <2>1, <2>2, RealAfter
<1>5. ASSUME NEW r \in Minted, Leave(d, r) \/ CloseRoom(d, r) PROVE Real(k)'
  <2>1. PICK S, kind, m : view' = Deliver(S, kind, m) /\ m = RoomGone(r)
    BY <1>5 DEF Leave, CloseRoom
  <2>2. r \in Id
    BY RoomFacts
  <2> QED
    BY <1>1, <2>1, <2>2, RealAfter
<1>6. ASSUME KickSend(d), view' # view PROVE Real(k)'
  <2>1. PICK S, kind, m : view' = Deliver(S, kind, m) /\ m = RoomGone(job[d].room)
    BY <1>6 DEF KickSend
  <2>2. job[d].room \in Id
    BY <1>6, JobRoom, RoomFacts DEF KickSend, RoomPCs, PCs
  <2> QED
    BY <1>1, <2>1, <2>2, RealAfter
<1>7. CASE PromoteSend(d)
  <2>1. PICK S, kind, m : view' = Deliver(S, kind, m) /\ m = OwnerMember(job[d].room, job[d].mid)
    BY <1>7 DEF PromoteSend
  <2>2. job[d].room \in Id /\ job[d].mid \in Nat
    BY <1>7, JobRoom, RoomFacts, JobFacts DEF PromoteSend, RoomPCs, PCs, Job
  <2> QED
    BY <1>1, <2>1, <2>2, RealAfter
<1>8. ASSUME NEW e \in job[d].left, TellDeparture(d, e[1], e[2]) PROVE Real(k)'
  <2>1. PICK S, kind, m : view' = Deliver(S, kind, m) /\ m = RoomLeave(e[1], e[2])
    BY <1>8 DEF TellDeparture
  <2>2. e[1] \in Id /\ e[2] \in Nat
    BY JobFacts, RoomFacts DEF JobOK, Job, Id
  <2> QED
    BY <1>1, <2>1, <2>2, RealAfter
<1> QED
  BY <1>2, <1>3, <1>4, <1>5, <1>6, <1>7, <1>8
  DEF Request, Create, Join, SetPartyData, Kick, LateKick, Promote,
      Finally, Continue, CreateRegister, JoinGate, JoinSnapshot,
      JoinRegister, PromoteCheck, PromoteSet, CacheData, Depart, SeedRegister

(* A finally block goes on to its end.                                     *)
LEMMA FinGoes ==
  ASSUME TypeOK, GoneInv, NEW d \in Conn, Request(d) \/ Continue(d) \/ Finally(d), job[d].fin
  PROVE  job'[d].fin \/ sock'[d] # "up"
<1>1. pc[d] \in {"close", "depart", "tell"} /\ job[d] \in Job
  BY JobFacts DEF GoneInv, GonePart
<1>2. ASSUME NEW j, j.fin, Goto(d, AfterRetire(j), j) \/ GoOn(d, j) PROVE job'[d].fin \/ sock'[d] # "up"
  <2>1. Goto(d, "tell", j) \/ Goto(d, AfterRetire(j), j) => job'[d] = j
    BY DEF Goto, TypeOK
  <2>2. Finish(d) => sock'[d] = "closed"
    BY DEF Finish, TypeOK
  <2> QED
    BY <1>2, <2>1, <2>2 DEF GoOn
<1>3. ASSUME NEW r, CloseRoom(d, r) PROVE job'[d].fin \/ sock'[d] # "up"
  <2> DEFINE j == [job[d] EXCEPT !.closing = @ \ {r}]
  <2>1. Goto(d, AfterRetire(j), j) /\ j.fin
    BY <1>1, <1>3 DEF CloseRoom, Job
  <2> HIDE DEF j
  <2> QED
    BY <1>2, <2>1
<1>4. ASSUME Depart(d) PROVE job'[d].fin \/ sock'[d] # "up"
  <2>1. PICK L, b : GoOn(d, [job[d] EXCEPT !.left = L, !.seed = b])
    BY <1>4 DEF Depart
  <2> DEFINE j == [job[d] EXCEPT !.left = L, !.seed = b]
  <2>2. GoOn(d, j) /\ j.fin
    BY <1>1, <2>1 DEF Job
  <2> HIDE DEF j
  <2> QED
    BY <1>2, <2>2
<1>5. ASSUME NEW r, NEW m, TellDeparture(d, r, m) PROVE job'[d].fin \/ sock'[d] # "up"
  <2> DEFINE j == [job[d] EXCEPT !.left = @ \ {<<r, m>>}]
  <2>1. GoOn(d, j) /\ j.fin
    BY <1>1, <1>5 DEF TellDeparture, Job
  <2> HIDE DEF j
  <2> QED
    BY <1>2, <2>1
<1> QED
  BY <1>1, <1>3, <1>4, <1>5
  DEF Request, Create, Join, Leave, SetPartyData, Kick, LateKick, Promote, Receive,
      Finally, Continue, CreateSend, CreateRegister, JoinGate, JoinSnapshot, JoinSend,
      JoinRegister, KickSend, PromoteCheck, PromoteSet, PromoteSend, CacheData, SeedSend,
      SeedRegister

(* Whoever still believes in a room is there, or on its way.               *)
LEMMA PresentNext ==
  ASSUME TypeOK, MaxBusy = 1, KickInv, GoneInv, RosterInv, AgreeInv, NEW d \in Conn,
         Request(d) \/ Continue(d) \/ Finally(d), NEW r \in active, NEW k \in Conn,
         Present(k, r), Believes(k, r), sock'[k] = "up"
  PROVE  Present(k, r)'
<1>1. /\ r \in Minted /\ rooms[r].conns \in [Conn -> Nat] /\ job[d] \in Job
      /\ Heard(d, pc[d], job[d]) /\ JobOK(pc[d], job[d], Minted) /\ rooms \in [Minted -> Room]
  BY RoomFacts, JobFacts DEF TypeOK, AgreeInv
<1>2. ASSUME rooms[r].conns[k] # 0 PROVE Present(k, r)'
  <2>1. CASE rooms'[r] = rooms[r] \/ Admits(r, d) \/ Hands(r, d)
    BY <1>2, <2>1 DEF Present, Admits, Hands
  <2>2. CASE JoinRegister(d) /\ Enrols(r, d)
    <3>1. job[d].mid # 0
      BY <1>1, <2>2 DEF JoinRegister, JobOK, MidPCs
    <3>2. rooms'[r].conns[k] # 0
      BY <1>1, <1>2, <2>2, <3>1 DEF Enrols
    <3> QED
      BY <3>2 DEF Present
  <2>3. CASE Depart(d) /\ Removes(r, d) /\ k # job[d].who
    BY <1>1, <1>2, <2>3 DEF Removes, Present
  <2>4. CASE Depart(d) /\ Removes(r, d) /\ k = job[d].who
    <3>1. job[d].fin
      BY <1>1, <2>4 DEF Heard, Depart, Removes
    <3>2. job[d].who = d
      BY <3>1 DEF GoneInv, GonePart
    <3> QED
      BY <2>4, <3>1, <3>2, FinGoes DEF Present
  <2> QED
    BY <1>1, <2>1, <2>2, <2>3, <2>4, RoomChanges
<1>3. ASSUME ~ Resting(k) PROVE k = d
  BY <1>3, OnlyOne DEF RosterInv
<1>4. ASSUME job[k].fin PROVE Present(k, r)'
  <2>1. ~ Resting(k)
    BY <1>4 DEF GoneInv, GonePart, Resting
  <2> QED
    BY <1>3, <1>4, <2>1, FinGoes DEF Present
<1>5. ASSUME pc[k] = "join_reg", job[k].room = r PROVE Present(k, r)'
  <2>1. k = d
    BY <1>3, <1>5 DEF Resting
  <2>2. JoinRegister(d)
    BY <1>5, <2>1
    DEF Request, Create, Join, Leave, SetPartyData, Kick, LateKick, Promote, Receive,
        Finally, Continue, CreateSend, CreateRegister, JoinGate, JoinSnapshot, JoinSend,
        KickSend, PromoteCheck, PromoteSet, PromoteSend, CacheData, CloseRoom, Depart,
        TellDeparture,
        SeedSend, SeedRegister
  <2>3. job[d].mid # 0
    BY <1>1, <1>5, <2>1 DEF JobOK, MidPCs
  <2>4. rooms'[r].conns[d] = job[d].mid
    <3> DEFINE old == rooms[r]
    <3>1. rooms'[r] = With(old, d, job[d].mid, job[d].roster) /\ old \in Room
      BY <1>1, <1>5, <2>1, <2>2 DEF JoinRegister
    <3> HIDE DEF old
    <3> QED
      BY <3>1 DEF With, Room
  <2> QED
    BY <2>1, <2>3, <2>4 DEF Present
<1> QED
  BY <1>2, <1>4, <1>5 DEF Present

(* When a join has been announced, whoever believes in the room has been   *)
(* sent its roster.                                                        *)
LEMMA JoinTold ==
  ASSUME TypeOK, MaxBusy = 1, KickInv, GoneInv, RosterInv, HostInv, SeatInv, AgreeInv,
         NEW d \in Conn, JoinSend(d), NEW r, r = job[d].room, NEW k \in Conn, Believes(k, r)',
         NEW S, view' = Deliver(S, rooms[r].kind, Member(r, job[d].roster)), job[d].peers \subseteq S
  PROVE  k \in S /\ Seen(k, r)' = job[d].roster
<1>1. /\ pc[d] = "join_send" /\ rooms' = rooms /\ sock' = sock
      /\ r \in active /\ r \in Minted /\ r \in Id /\ rooms[r].kind \in Kind
      /\ job[d].peers = PeersOf(r) /\ Continue(d)
  <2>1. pc[d] = "join_send" /\ rooms' = rooms /\ sock' = sock /\ Continue(d)
    BY DEF JoinSend, Continue
  <2>2. r \in active /\ job[d].peers = PeersOf(r)
    BY <2>1 DEF HostInv, Fits, JoinPCs, JoiningPCs, SeatInv, Told
  <2>3. r \in Minted
    BY <2>2 DEF TypeOK
  <2> QED
    BY <2>1, <2>2, <2>3, RoomFacts
<1>2. view[k][rooms[r].kind] \in Slot
  BY <1>1 DEF TypeOK
<1>3. CASE k \in S
  <2>1. PICK kind, m : /\ view' = Deliver(S, kind, m) /\ m = Member(r, job[d].roster)
                       /\ kind = rooms[r].kind
    OBVIOUS
  <2>2. kind \in Kind /\ sock[k] = "up"
    BY <1>1, <2>1 DEF Believes
  <2>3. view'[k][kind] = Handled(view[k][kind], m)
    BY <1>3, <2>1, <2>2, SlotAfter
  <2>4. Handled(view[k][kind], m).roster = job[d].roster
    BY <1>1, <1>2, <2>1 DEF Handled, Member
  <2> QED
    BY <1>1, <1>3, <2>1, <2>3, <2>4 DEF Seen
<1>4. CASE k \notin S
  <2>1. PICK m : view' = Deliver(S, rooms[r].kind, m)
    OBVIOUS
  <2>2. view'[k][rooms[r].kind] = view[k][rooms[r].kind]
    BY <1>1, <1>4, <2>1, SlotAfter
  <2>3. Believes(k, r)
    BY <1>1, <2>2 DEF Believes
  <2>4. Present(k, r) /\ k # d
    BY <1>1, <2>3 DEF AgreeInv, Agrees, Heard
  <2>5. Resting(k)
    BY <1>1, <2>4, OnlyOne DEF RosterInv
  <2>6. rooms[r].conns[k] # 0
    BY <2>4, <2>5 DEF Present, Resting, GoneInv, GonePart
  <2> QED
    BY <1>1, <1>4, <2>6 DEF PeersOf
<1> QED
  BY <1>3, <1>4

LEMMA AgreesJoin ==
  ASSUME TypeOK, MaxBusy = 1, KickInv, GoneInv, RosterInv, HostInv, SeatInv, AgreeInv,
         NEW d \in Conn, JoinSend(d), NEW r \in active', r = job[d].room, NEW k \in Conn
  PROVE  Agrees(k, r)'
<1>1. r = job[d].room
  OBVIOUS
<1>2. /\ pc[d] = "join_send" /\ rooms' = rooms /\ r \in Minted /\ rooms[r].conns \in [Conn -> Nat]
      /\ job[d].peers = PeersOf(r) /\ rooms[r].members \subseteq job[d].roster
  <2>1. pc[d] = "join_send" /\ rooms' = rooms /\ r \in Minted
    BY <1>1, JobRoom DEF JoinSend, RoomPCs, PCs
  <2> QED
    BY <1>1, <2>1, RoomFacts DEF SeatInv, Told, RosterInv, PlaceKept
<1>3. PICK S : /\ view' = Deliver(S, rooms[r].kind, Member(r, job[d].roster)) /\ job[d].peers \subseteq S
               /\ S = job[d].peers \/ (S = job[d].peers \cup {d} /\ Goto(d, "join_reg", job[d]))
  <2>1. CASE view' = Deliver(job[d].peers, rooms[r].kind, Member(r, job[d].roster))
    BY <2>1
  <2>2. CASE view' = Deliver(job[d].peers \cup {d}, rooms[r].kind, Member(r, job[d].roster))
             /\ Goto(d, "join_reg", job[d])
    BY <2>2
  <2>3. \/ view' = Deliver(job[d].peers, rooms[job[d].room].kind, Member(job[d].room, job[d].roster))
        \/ /\ view' = Deliver(job[d].peers \cup {d}, rooms[job[d].room].kind,
                              Member(job[d].room, job[d].roster))
           /\ Goto(d, "join_reg", job[d])
    BY DEF JoinSend
  <2> QED
    BY <1>1, <2>1, <2>2, <2>3
<1>4. SUFFICES ASSUME Believes(k, r)' PROVE Present(k, r)' /\ rooms'[r].members \subseteq Seen(k, r)'
  BY <1>1 DEF Agrees
<1>5. k \in S /\ Seen(k, r)' = job[d].roster
  BY <1>1, <1>3, <1>4, JoinTold
<1>6. CASE k \in job[d].peers
  BY <1>2, <1>5, <1>6 DEF PeersOf, Present
<1>7. CASE k = d /\ Goto(d, "join_reg", job[d])
  <2>1. pc'[d] = "join_reg" /\ job'[d] = job[d]
    BY <1>7 DEF Goto, TypeOK
  <2> QED
    BY <1>1, <1>2, <1>5, <1>7, <2>1 DEF Present
<1> QED
  BY <1>3, <1>5, <1>6, <1>7

LEMMA AgreesNext ==
  ASSUME TypeOK, MaxBusy = 1, KickInv, FreshInv, GoneInv, RosterInv, HostInv, SeatInv, AgreeInv,
         NEW d \in Conn, Request(d) \/ Continue(d) \/ Finally(d), NEW r \in active', NEW k \in Conn
  PROVE  Agrees(k, r)'
<1>1. CASE r \notin active
  <2>1. /\ CreateRegister(d) \/ SeedRegister(d)
        /\ r = job[d].room /\ r \in Minted /\ rooms' = rooms
    BY <1>1, NewlyActive
  <2>2. /\ pc[d] \in {"create_reg", "seed_reg"} /\ sock' = sock /\ view' = view
        /\ Fresh(r, For(pc[d], d, job[d])) /\ rooms[r].members = {MEMBER_ID}
    BY <2>1 DEF CreateRegister, SeedRegister, FreshInv, PendingOK, PendingPCs, HostInv, Fits
  <2>3. Believes(k, r) => k = For(pc[d], d, job[d]) /\ MEMBER_ID \in Seen(k, r)
    BY <2>1, <2>2 DEF AgreeInv, Heard
  <2> QED
    BY <2>1, <2>2, <2>3 DEF Agrees, Believes, Seen, Present, Fresh, MEMBER_ID
<1>2. ASSUME r \in active, CreateSend(d) \/ JoinSend(d) => r # job[d].room, Believes(k, r)'
      PROVE  /\ Present(k, r)' /\ Believes(k, r) /\ rooms[r].members \subseteq Seen(k, r)
             /\ Seen(k, r) \cap rooms'[r].members \subseteq Seen(k, r)'
  <2>1. r \in Minted
    BY <1>2 DEF TypeOK
  <2>2. Believes(k, r) /\ Seen(k, r) \cap rooms'[r].members \subseteq Seen(k, r)'
    BY <1>2, <2>1, StillNext DEF Still
  <2>3. Present(k, r) /\ rooms[r].members \subseteq Seen(k, r)
    BY <1>2, <2>2 DEF AgreeInv, Agrees
  <2>4. sock'[k] = "up"
    BY <1>2 DEF Believes
  <2> QED
    BY <1>2, <2>2, <2>3, <2>4, PresentNext
<1>3. CASE r \in active /\ (CreateSend(d) \/ JoinSend(d) => r # job[d].room) /\ ~ JoinRegister(d)
  <2>1. rooms'[r].members \subseteq rooms[r].members
    <3>1. r \in Minted
      BY <1>3 DEF TypeOK
    <3> QED
      BY <1>3, <3>1, RoomChanges DEF Admits, Hands, Removes
  <2> QED
    BY <1>2, <1>3, <2>1 DEF Agrees
<1>4. CASE r \in active /\ JoinRegister(d)
  <2>1. /\ pc[d] = "join_reg" /\ view' = view
        /\ ~ CreateSend(d) /\ ~ JoinSend(d) /\ ~ JoinGate(d) /\ ~ PromoteSet(d) /\ ~ Depart(d)
    BY <1>4 DEF JoinRegister, CreateSend, JoinSend, JoinGate, PromoteSet, Depart
  <2>2. rooms'[r].kind = rooms[r].kind /\ (rooms'[r].members = rooms[r].members \/
                                           (r = job[d].room /\ rooms'[r].members = job[d].roster))
    <3>1. r \in Minted
      BY <1>4 DEF TypeOK
    <3> QED
      BY <2>1, <3>1, RoomChanges DEF Enrols, Keeps
  <2>3. ASSUME Believes(k, r)' PROVE Present(k, r)' /\ rooms'[r].members \subseteq Seen(k, r)'
    <3>1. Present(k, r)' /\ Believes(k, r) /\ rooms[r].members \subseteq Seen(k, r)
      BY <1>2, <1>4, <2>1, <2>3
    <3>2. Seen(k, r)' = Seen(k, r)
      BY <2>1, <2>2 DEF Seen
    <3>3. r = job[d].room => job[d].roster \subseteq Seen(k, r)
      BY <2>1, <3>1 DEF AgreeInv, Heard
    <3> QED
      BY <2>2, <3>1, <3>2, <3>3
  <2> QED
    BY <2>3 DEF Agrees
<1>5. CASE r \in active /\ JoinSend(d) /\ r = job[d].room
  BY <1>5, AgreesJoin
<1>6. ~ (r \in active /\ CreateSend(d) /\ r = job[d].room)
  BY DEF CreateSend, FreshInv, PendingOK, PendingPCs
<1> QED
  BY <1>1, <1>3, <1>4, <1>5, <1>6

(* A handler stops closing rooms when there is none left to close.         *)
LEMMA ClosingEnds ==
  ASSUME TypeOK, AgreeInv, NEW d \in Conn, Request(d) \/ Continue(d) \/ Finally(d),
         NEW l, NEW j, Goto(d, l, j), l # "close"
  PROVE  j.closing = {}
<1>0. /\ pc'[d] = l /\ job'[d] = j /\ job[d] \in Job /\ (pc[d] # "close" => job[d].closing = {})
      /\ NoJob(d).closing = {}
  BY JobFacts DEF Goto, TypeOK, AgreeInv, Heard, NoJob
<1>1. ASSUME NEW k, Goto(d, AfterRetire(k), k) PROVE j.closing = {}
  BY <1>0, <1>1 DEF Goto, TypeOK, AfterRetire
<1>2. CASE Finally(d) \/ \E r \in Minted : Leave(d, r) \/ CloseRoom(d, r)
  <2>1. \E k : Goto(d, AfterRetire(k), k)
    BY <1>2 DEF Finally, Leave, CloseRoom
  <2> QED
    BY <1>1, <2>1
<1>3. ASSUME NEW k, Goto(d, l, k), k.closing = {} PROVE j.closing = {}
  BY <1>0, <1>3 DEF Goto, TypeOK
<1>4. CASE Depart(d) \/ \E e \in job[d].left : TellDeparture(d, e[1], e[2])
  <2>1. PICK k : GoOn(d, k) /\ k.closing = {}
    <3>1. pc[d] # "close"
      BY <1>4 DEF Depart, TellDeparture
    <3>2. CASE Depart(d)
      <4>1. PICK L, b : GoOn(d, [job[d] EXCEPT !.left = L, !.seed = b])
        BY <3>2 DEF Depart
      <4>2. [job[d] EXCEPT !.left = L, !.seed = b].closing = {}
        BY <1>0, <3>1 DEF Job
      <4> QED
        BY <4>1, <4>2
    <3>3. ASSUME NEW e \in job[d].left, TellDeparture(d, e[1], e[2])
          PROVE  \E k : GoOn(d, k) /\ k.closing = {}
      <4>1. PICK L : GoOn(d, [job[d] EXCEPT !.left = L])
        BY <3>3 DEF TellDeparture
      <4>2. [job[d] EXCEPT !.left = L].closing = {}
        BY <1>0, <3>1 DEF Job
      <4> QED
        BY <4>1, <4>2
    <3> QED
      BY <1>4, <3>2, <3>3
  <2>2. \E i \in {k, NoJob(d)} : \E m : Goto(d, m, i)
    BY <2>1 DEF GoOn, Finish, Return
  <2> QED
    BY <1>0, <2>1, <2>2 DEF Goto, TypeOK
<1>5. ASSUME pc[d] # "close",
             \/ \E m, n : Goto(d, m, [job[d] EXCEPT !.room = n])
             \/ \E m, n : Goto(d, m, [job[d] EXCEPT !.mid = n])
             \/ \E m, n, k : Goto(d, m, [job[d] EXCEPT !.room = n, !.mid = k])
             \/ \E m, n, k, P : Goto(d, m, [job[d] EXCEPT !.room = n, !.mid = k, !.peers = P])
             \/ \E m, S, P : Goto(d, m, [job[d] EXCEPT !.roster = S, !.peers = P])
             \/ \E m, n, k : Goto(d, m, [job[d] EXCEPT !.room = n, !.who = k])
             \/ \E m, n, k, b : Goto(d, m, [job[d] EXCEPT !.room = n, !.who = k, !.seed = b])
             \/ \E m : Goto(d, m, job[d])
             \/ Return(d)
      PROVE  j.closing = {}
  <2> DEFINE i == job[d]
  <2>1. i \in Job /\ i.closing = {}
    BY <1>0, <1>5
  <2> HIDE DEF i
  <2>2. \A n, k : /\ [i EXCEPT !.room = n].closing = {} /\ [i EXCEPT !.mid = n].closing = {}
                  /\ [i EXCEPT !.room = n, !.mid = k].closing = {}
                  /\ [i EXCEPT !.room = n, !.who = k].closing = {}
                  /\ [i EXCEPT !.roster = n, !.peers = k].closing = {}
    BY <2>1 DEF Job
  <2>3. \A n, k, P : /\ [i EXCEPT !.room = n, !.mid = k, !.peers = P].closing = {}
                     /\ [i EXCEPT !.room = n, !.who = k, !.seed = P].closing = {}
    BY <2>1 DEF Job
  <2>4. \/ \E m, n : Goto(d, m, [i EXCEPT !.room = n])
        \/ \E m, n : Goto(d, m, [i EXCEPT !.mid = n])
        \/ \E m, n, k : Goto(d, m, [i EXCEPT !.room = n, !.mid = k])
        \/ \E m, n, k, P : Goto(d, m, [i EXCEPT !.room = n, !.mid = k, !.peers = P])
        \/ \E m, S, P : Goto(d, m, [i EXCEPT !.roster = S, !.peers = P])
        \/ \E m, n, k : Goto(d, m, [i EXCEPT !.room = n, !.who = k])
        \/ \E m, n, k, b : Goto(d, m, [i EXCEPT !.room = n, !.who = k, !.seed = b])
        \/ \E m : Goto(d, m, i)
        \/ Goto(d, "recv", NoJob(d))
    BY <1>5 DEF i, Return
  <2>5. PICK m, k : Goto(d, m, k) /\ k.closing = {}
    BY <1>0, <2>1, <2>2, <2>3, <2>4
  <2> QED
    BY <1>0, <2>5 DEF Goto, TypeOK
<1>6. CASE Request(d) /\ ~ \E r \in Minted : Leave(d, r)
  BY <1>5, <1>6 DEF Request, Create, Join, SetPartyData, Kick, LateKick, Promote, Receive
<1>7. CASE CreateSend(d) \/ CreateRegister(d) \/ JoinGate(d) \/ JoinSnapshot(d) \/ JoinSend(d)
           \/ JoinRegister(d)
  BY <1>5, <1>7 DEF CreateSend, CreateRegister, JoinGate, JoinSnapshot, JoinSend, JoinRegister
<1>8. CASE SeedSend(d) \/ SeedRegister(d) \/ KickSend(d) \/ PromoteCheck(d) \/ PromoteSet(d) \/ PromoteSend(d) \/ CacheData(d)
  BY <1>5, <1>8 DEF SeedSend, SeedRegister, KickSend, PromoteCheck, PromoteSet, PromoteSend,
     CacheData, Reject
<1> QED
  BY <1>2, <1>4, <1>6, <1>7, <1>8 DEF Continue

(* Where nothing has to be known of the clients.                           *)
HearingPCs == PendingPCs \cup {"join_gate", "join_snap", "join_send", "join_reg", "close", "depart", "tell"}
LEMMA HeardOther ==
  ASSUME TypeOK, AgreeInv, NEW d \in Conn, Request(d) \/ Continue(d) \/ Finally(d),
         NEW l, NEW j, Goto(d, l, j), l \notin HearingPCs
  PROVE  Heard(d, l, j)'
<1>1. j.closing = {}
  BY ClosingEnds DEF HearingPCs
<1> QED
  BY <1>1 DEF Heard, HearingPCs, PendingPCs

(* Nobody believes in a new room.                                          *)
LEMMA NobodyYet ==
  ASSUME TypeOK, AgreeInv, NEW k \in Conn, NEW x \in Kind
  PROVE  view[k][x].room # seq + 1
  BY DEF AgreeInv, Real, Minted, TypeOK

LEMMA HeardCreate ==
  ASSUME TypeOK, AgreeInv, NEW d \in Conn, NEW op \in Creates, NEW v \in CapInputs, Create(d, op, v),
         NEW l, NEW j, Goto(d, l, j)
  PROVE  Heard(d, l, j)'
<1>0. PICK r : r = seq + 1
  OBVIOUS
<1>1. l = "create_send" /\ j = [job[d] EXCEPT !.room = r] /\ job[d] \in Job /\ pc[d] = "recv"
  BY <1>0, JobFacts DEF Create, Goto, TypeOK, Receive
<1>2. j.room = r /\ j.closing = job[d].closing
  BY <1>1 DEF Job
<1>3. job[d].closing = {}
  BY <1>1 DEF AgreeInv, Heard
<1>4. rooms'[r].kind \in Kind /\ view' = view
  <2>1. seq + 1 \in 1 .. seq + 1 /\ seq + 1 \notin Minted
    BY DEF Minted, TypeOK
  <2>2. \E x \in Kind : \E p, cap : rooms'[seq + 1] = SoloRoom(d, x, p, cap)
    BY <2>1 DEF Create, Kind
  <2> QED
    BY <1>0, <2>2 DEF SoloRoom, Create
<1>5. \A k \in Conn : ~ Believes(k, r)'
  BY <1>0, <1>4, NobodyYet DEF Believes
<1> QED
  BY <1>1, <1>2, <1>3, <1>5 DEF Heard

LEMMA HeardCreateSend ==
  ASSUME TypeOK, AgreeInv, NEW d \in Conn, CreateSend(d), NEW l, NEW j, Goto(d, l, j)
  PROVE  Heard(d, l, j)'
<1>0. PICK r : r = job[d].room
  OBVIOUS
<1>1. CASE l = "fin"
  BY <1>1, HeardOther DEF HearingPCs, PendingPCs, Continue
<1>2. CASE l # "fin"
  <2>1. /\ l = "create_reg" /\ j = job[d] /\ rooms' = rooms /\ sock' = sock /\ pc[d] = "create_send"
        /\ view' = Deliver({d}, rooms[r].kind, Member(r, {MEMBER_ID}))
    BY <1>0, <1>2 DEF CreateSend, Goto, TypeOK
  <2>2. j.closing = {} /\ j.room = r /\ \A k \in Conn : ~ Believes(k, r)
    BY <1>0, <2>1 DEF AgreeInv, Heard
  <2>3. rooms[r].kind \in Kind /\ r \in Id
    BY <1>0, <2>1, JobRoom, RoomFacts DEF RoomPCs, PCs
  <2>4. ASSUME NEW k \in Conn, Believes(k, r)' PROVE k = d /\ MEMBER_ID \in Seen(k, r)'
    <3>1. PICK kind, m, S : /\ view' = Deliver(S, kind, m) /\ m = Member(r, {MEMBER_ID}) /\ S = {d}
                            /\ kind = rooms[r].kind
      BY <2>1
    <3>6. kind \in Kind /\ view' = Deliver(S, kind, m)
      BY <2>3, <3>1
    <3>2. /\ view'[k][kind] \in {view[k][kind], Handled(view[k][kind], m)}
          /\ k \notin S => view'[k][kind] = view[k][kind]
      BY <3>6, SlotAfter
    <3>0. sock'[k] = sock[k] /\ rooms'[r].kind = kind /\ rooms[r].kind = kind
      BY <2>1, <3>1
    <3>3. sock[k] = "up" /\ view'[k][kind].room = r
      BY <2>4, <3>0 DEF Believes
    <3>4. k = d
      BY <2>2, <3>0, <3>1, <3>2, <3>3 DEF Believes
    <3>5. Handled(view[k][kind], m).roster = {MEMBER_ID}
      BY <3>1 DEF Handled, Member
    <3> QED
      BY <2>2, <3>0, <3>2, <3>3, <3>4, <3>5 DEF Seen, Believes
  <2> QED
    BY <2>1, <2>2, <2>4 DEF Heard, For
<1> QED
  BY <1>1, <1>2

LEMMA HeardSeedSend ==
  ASSUME TypeOK, AgreeInv, NEW d \in Conn, SeedSend(d), NEW l, NEW j, Goto(d, l, j)
  PROVE  Heard(d, l, j)'
<1>0. PICK r : r = seq + 1
  OBVIOUS
<1>1. CASE l = "recv"
  BY <1>1, HeardOther DEF HearingPCs, PendingPCs, Continue
<1>2. CASE l # "recv"
  <2>1. /\ l = "seed_reg" /\ j = [job[d] EXCEPT !.room = r] /\ sock' = sock /\ pc[d] = "seed_send"
        /\ view' = Deliver({job[d].who}, "party", Member(r, {MEMBER_ID}))
    BY <1>0, <1>2 DEF SeedSend, Goto, TypeOK, Return
  <2>2. j.closing = {} /\ j.room = r /\ j.who = job[d].who
    BY <2>1, JobFacts DEF AgreeInv, Heard, Job
  <2>3. rooms'[r].kind = "party"
    <3>1. r \in 1 .. seq + 1 /\ r \notin Minted
      BY <1>0 DEF Minted, TypeOK
    <3> QED
      BY <1>0, <3>1 DEF SeedSend, SoloRoom
  <2>4. ASSUME NEW k \in Conn, Believes(k, r)' PROVE k = j.who /\ MEMBER_ID \in Seen(k, r)'
    <3>1. PICK kind, m, S : /\ view' = Deliver(S, kind, m) /\ m = Member(r, {MEMBER_ID})
                            /\ S = {job[d].who} /\ kind = "party"
      BY <2>1
    <3>2. kind \in Kind /\ view' = Deliver(S, kind, m)
      BY <3>1 DEF Kind
    <3>3. /\ view'[k][kind] \in {view[k][kind], Handled(view[k][kind], m)}
          /\ k \notin S => view'[k][kind] = view[k][kind]
      BY <3>2, SlotAfter
    <3>4. view'[k][kind].room = r /\ view[k][kind].room # r
      BY <1>0, <2>3, <2>4, <3>1, <3>2, NobodyYet DEF Believes
    <3>5. k \in S
      BY <3>3, <3>4
    <3>6. Handled(view[k][kind], m).roster = {MEMBER_ID}
      BY <3>1 DEF Handled, Member
    <3> QED
      BY <2>2, <2>3, <3>1, <3>3, <3>4, <3>5, <3>6 DEF Seen
  <2> QED
    BY <2>1, <2>2, <2>4 DEF Heard, For
<1> QED
  BY <1>1, <1>2

LEMMA HeardJoins ==
  ASSUME TypeOK, AgreeInv, NEW d \in Conn, NEW l, NEW j, Goto(d, l, j),
         JoinGate(d) \/ JoinSnapshot(d) \/ \E r \in Minted : Join(d, r)
  PROVE  Heard(d, l, j)'
<1>0. /\ pc'[d] = l /\ job'[d] = j /\ job[d] \in Job /\ view' = view /\ sock' = sock
      /\ Request(d) \/ Continue(d) \/ Finally(d)
  BY JobFacts DEF Goto, TypeOK, JoinGate, JoinSnapshot, Join, Request, Continue
<1>1. CASE l = "recv"
  BY <1>0, <1>1, HeardOther DEF HearingPCs, PendingPCs
<1>2. ASSUME NEW r \in Minted, ~ Believes(d, r), l \in {"join_gate", "join_snap", "join_send"},
             j.room = r
      PROVE  Heard(d, l, j)'
  <2>1. rooms'[r].kind = rooms[r].kind
    BY <1>0, RoomStays DEF StaysAs
  <2>2. ~ Believes(d, r)'
    BY <1>0, <1>2, <2>1 DEF Believes
  <2>3. j.closing = {}
    BY <1>0, <1>2, ClosingEnds
  <2> QED
    BY <1>2, <2>2, <2>3 DEF Heard
<1>3. CASE JoinGate(d) /\ l # "recv"
  <2>1. PICK m : Goto(d, "join_snap", [job[d] EXCEPT !.mid = m])
    BY <1>0, <1>3 DEF JoinGate, Return, Goto, TypeOK
  <2>2. l = "join_snap" /\ j.room = job[d].room /\ pc[d] = "join_gate"
    BY <1>0, <1>3, <2>1 DEF Goto, TypeOK, Job, JoinGate
  <2>3. job[d].room \in Minted /\ ~ Believes(d, job[d].room)
    BY <2>2, JobRoom DEF RoomPCs, PCs, AgreeInv, Heard
  <2> QED
    BY <1>2, <2>2, <2>3
<1>4. CASE JoinSnapshot(d)
  <2>1. PICK k : /\ Goto(d, "join_send", k) /\ pc[d] = "join_snap"
                 /\ \E S, P : k = [job[d] EXCEPT !.roster = S, !.peers = P]
    BY <1>4 DEF JoinSnapshot
  <2>2. l = "join_send" /\ j.room = job[d].room /\ pc[d] = "join_snap"
    <3>1. l = "join_send" /\ j = k
      BY <1>0, <2>1 DEF Goto, TypeOK
    <3> QED
      BY <1>0, <2>1, <3>1 DEF Job
  <2>3. job[d].room \in Minted /\ ~ Believes(d, job[d].room)
    BY <2>2, JobRoom DEF RoomPCs, PCs, AgreeInv, Heard
  <2> QED
    BY <1>2, <2>2, <2>3
<1>5. ASSUME NEW r \in Minted, Join(d, r) PROVE Heard(d, l, j)'
  <2>1. l = "join_gate" /\ j.room = r
    BY <1>0, <1>5 DEF Join, Goto, TypeOK, Job
  <2>2. ~ Believes(d, r)
    BY <1>5, RoomFacts DEF Join, MayJoin, Believes, Id
  <2> QED
    BY <1>2, <2>1, <2>2
<1> QED
  BY <1>1, <1>3, <1>4, <1>5 DEF JoinGate, Return, Goto, TypeOK

LEMMA HeardJoinSend ==
  ASSUME TypeOK, MaxBusy = 1, KickInv, GoneInv, RosterInv, HostInv, SeatInv, AgreeInv,
         NEW d \in Conn, JoinSend(d), NEW l, NEW j, Goto(d, l, j)
  PROVE  Heard(d, l, j)'
<1>0. PICK r : r = job[d].room
  OBVIOUS
<1>1. /\ pc'[d] = l /\ job'[d] = j /\ rooms' = rooms
      /\ Request(d) \/ Continue(d) \/ Finally(d)
  BY DEF Goto, TypeOK, JoinSend, Continue
<1>2. CASE l # "join_reg"
  <2>1. l \in {"recv", "fin"}
    BY <1>1, <1>2 DEF JoinSend, Return, Goto, TypeOK
  <2> QED
    BY <1>1, <2>1, HeardOther DEF HearingPCs, PendingPCs
<1>3. CASE l = "join_reg"
  <2>1. j = job[d] /\ view' = Deliver(job[d].peers \cup {d}, rooms[r].kind, Member(r, job[d].roster))
    BY <1>0, <1>1, <1>3 DEF JoinSend, Return, Goto, TypeOK
  <2>2. j.closing = {}
    BY <1>1, <1>3, ClosingEnds
  <2>3. ASSUME NEW k \in Conn, Believes(k, r)' PROVE Seen(k, r)' = job[d].roster
    <3>1. PICK S : view' = Deliver(S, rooms[r].kind, Member(r, job[d].roster)) /\ job[d].peers \subseteq S
      BY <2>1
    <3> QED
      BY <1>0, <2>3, <3>1, JoinTold
  <2> QED
    BY <1>0, <1>3, <2>1, <2>2, <2>3 DEF Heard
<1> QED
  BY <1>2, <1>3

(* A client that rests believes in a registered room only if it is there.  *)
LEMMA BelieversThere ==
  ASSUME TypeOK, MaxBusy = 1, GoneInv, RosterInv, AgreeInv,
         NEW d \in Conn, Request(d) \/ Continue(d) \/ Finally(d),
         NEW k \in Conn \ {d}, NEW r \in active, Believes(k, r)
  PROVE  rooms[r].conns[k] # 0
<1>1. Resting(k)
  BY OnlyOne DEF RosterInv
<1>2. Present(k, r)
  BY DEF AgreeInv, Agrees
<1> QED
  BY <1>1, <1>2 DEF Present, Resting, GoneInv, GonePart

(* Who has been told that a room is gone does not believe in it.           *)
LEMMA GoneTold ==
  ASSUME TypeOK, NEW r \in Minted, NEW kind, kind = rooms[r].kind, rooms'[r].kind = kind, NEW S,
         view' = Deliver(S, kind, RoomGone(r)), NEW k \in Conn, k \in S, sock'[k] = "up" => sock[k] = "up"
  PROVE  ~ Believes(k, r)'
<1>1. PICK m : m = RoomGone(r)
  OBVIOUS
<1>2. kind \in Kind /\ r \in Id /\ view' = Deliver(S, kind, m)
  BY <1>1, RoomFacts
<1>3. view[k][kind] \in Slot
  BY <1>2 DEF TypeOK
<1>4. Handled(view[k][kind], m).room # r
  BY <1>1, <1>2, <1>3 DEF Handled, RoomGone, Slot, Empty, Id
<1>5. sock[k] = "up" => view'[k][kind] = Handled(view[k][kind], m)
  BY <1>2, SlotAfter
<1> QED
  BY <1>4, <1>5 DEF Believes

(* A handler on its way to remove somebody, having told what it had to.    *)
LEMMA HeardRemoval ==
  ASSUME TypeOK, NEW d \in Conn, NEW j, j.all = j.fin,
         NEW l, l = AfterRetire(j) \/ (l = "depart" /\ j.closing = {}),
         ~ j.all => j.room \in Minted' /\ ~ Believes(j.who, j.room)',
         \A r \in j.closing, k \in Conn \ {d} : Believes(k, r)' => rooms'[r].conns[k] # 0
  PROVE  Heard(d, l, j)'
  BY DEF Heard, AfterRetire, PendingPCs

LEMMA HeardLeave ==
  ASSUME TypeOK, MaxBusy = 1, KickInv, GoneInv, RosterInv, AgreeInv,
         NEW d \in Conn, NEW l, NEW j, Goto(d, l, j), NEW r \in Minted, Leave(d, r)
  PROVE  Heard(d, l, j)'
<1>1. /\ pc'[d] = l /\ job'[d] = j /\ rooms' = rooms /\ sock' = sock /\ seq' = seq
      /\ view' = Deliver({d}, rooms[r].kind, RoomGone(r)) /\ Request(d)
  BY DEF Goto, TypeOK, Leave, Request
<1>2. PICK k, S : /\ Goto(d, AfterRetire(k), k) /\ S \subseteq active
                  /\ k = [job[d] EXCEPT !.room = r, !.seed = TRUE, !.closing = S]
  <2> DEFINE public == {p \in OwnedBy(d) : rooms[p].public}
             retired == IF r \in OwnedBy(d) THEN {r} ELSE {p \in public : \A q \in public : p <= q}
  <2>1. LET k == [job[d] EXCEPT !.room = r, !.seed = TRUE, !.closing = retired]
        IN  Goto(d, AfterRetire(k), k)
    BY DEF Leave
  <2>2. retired \subseteq active
    BY DEF OwnedBy
  <2> HIDE DEF retired
  <2> QED
    BY <2>1, <2>2
<1>3. k.room = r /\ k.closing = S /\ k.all = FALSE /\ k.fin = FALSE /\ k.who = d
  <2>1. job[d] = NoJob(d)
    BY DEF Leave, Receive, KickInv, KickPart
  <2> QED
    BY <1>2, <2>1 DEF NoJob
<1>4. j = k /\ l = AfterRetire(j)
  BY <1>1, <1>2 DEF Goto, TypeOK
<1>5. ~ Believes(d, r)'
  <2>1. PICK kind, T : view' = Deliver(T, kind, RoomGone(r)) /\ d \in T /\ kind = rooms[r].kind
    BY <1>1
  <2> QED
    BY <1>1, <2>1, GoneTold
<1>6. ASSUME NEW q \in S, NEW e \in Conn \ {d}, Believes(e, q)' PROVE rooms'[q].conns[e] # 0
  <2>1. q \in active /\ q \in Minted /\ ~ CreateSend(d) /\ ~ JoinSend(d)
    BY <1>2 DEF TypeOK, Leave, Receive, CreateSend, JoinSend
  <2>2. Believes(e, q)
    BY <1>1, <1>6, <2>1, StillNext DEF Still
  <2> QED
    BY <1>1, <2>1, <2>2, BelieversThere
<1>7. r \in Minted'
  BY <1>1 DEF Minted
<1> QED
  BY <1>3, <1>4, <1>5, <1>6, <1>7, HeardRemoval

LEMMA HeardFinally ==
  ASSUME TypeOK, MaxBusy = 1, GoneInv, RosterInv, AgreeInv,
         NEW d \in Conn, NEW l, NEW j, Goto(d, l, j), Finally(d)
  PROVE  Heard(d, l, j)'
<1>1. pc'[d] = l /\ job'[d] = j /\ rooms' = rooms /\ sock' = sock /\ view' = view
  BY DEF Goto, TypeOK, Finally
<1>2. PICK k : /\ Goto(d, AfterRetire(k), k) /\ k = [NoJob(d) EXCEPT !.all = TRUE, !.fin = TRUE, !.closing = OwnedBy(d)]
  BY DEF Finally
<1>3. k.closing \subseteq active /\ k.all = TRUE /\ k.fin = TRUE
  BY <1>2 DEF NoJob, OwnedBy
<1>4. j = k /\ l = AfterRetire(j)
  BY <1>1, <1>2 DEF Goto, TypeOK
<1>5. ASSUME NEW q \in j.closing, NEW e \in Conn \ {d}, Believes(e, q)' PROVE rooms'[q].conns[e] # 0
  <2>1. q \in active /\ Believes(e, q)
    BY <1>1, <1>3, <1>4, <1>5 DEF Believes
  <2> QED
    BY <1>1, <2>1, BelieversThere
<1> QED
  BY <1>3, <1>4, <1>5, HeardRemoval

LEMMA HeardClose ==
  ASSUME TypeOK, AgreeInv, NEW d \in Conn, NEW l, NEW j, Goto(d, l, j), NEW r \in Minted, CloseRoom(d, r)
  PROVE  Heard(d, l, j)'
<1>1. /\ pc'[d] = l /\ job'[d] = j /\ rooms' = rooms /\ seq' = seq /\ job[d] \in Job
      /\ pc[d] = "close" /\ Continue(d) /\ ~ CreateSend(d) /\ ~ JoinSend(d)
      /\ Heard(d, pc[d], job[d]) /\ job[d].closing \subseteq Minted
  BY JobFacts DEF Goto, TypeOK, CloseRoom, Continue, CreateSend, JoinSend, AgreeInv, JobOK
<1>2. PICK k : Goto(d, AfterRetire(k), k) /\ k = [job[d] EXCEPT !.closing = @ \ {r}]
  BY DEF CloseRoom
<1>3. /\ k.closing \subseteq job[d].closing /\ k.all = job[d].all /\ k.fin = job[d].fin
      /\ k.who = job[d].who /\ k.room = job[d].room /\ k.who \in Conn
  <2>1. PICK i \in Job : i = job[d] /\ k = [i EXCEPT !.closing = @ \ {r}]
    BY <1>1, <1>2
  <2>2. /\ k.closing = i.closing \ {r} /\ k.all = i.all /\ k.fin = i.fin
        /\ k.who = i.who /\ k.room = i.room /\ i.who \in Conn
    BY <2>1 DEF Job
  <2> QED
    BY <2>1, <2>2
<1>4. j = k /\ l = AfterRetire(j)
  <2>1. Goto(d, AfterRetire(k), k)
    BY <1>2
  <2> QED
    BY <1>1, <2>1 DEF Goto, TypeOK
<1>5. ASSUME NEW q \in Minted, NEW e \in Conn, Believes(e, q)' PROVE Believes(e, q)
  BY <1>1, <1>5, StillNext DEF Still
<1>6. j.all = j.fin /\ (~ j.all => j.room \in Minted' /\ ~ Believes(j.who, j.room)')
  <2>1. Minted' = Minted
    BY <1>1 DEF Minted
  <2>2. j.all = j.fin /\ (~ j.all => j.room \in Minted /\ ~ Believes(j.who, j.room))
    BY <1>1, <1>3, <1>4 DEF Heard
  <2>3. PICK q, e : q = j.room /\ e = j.who
    OBVIOUS
  <2> QED
    BY <1>3, <1>4, <1>5, <2>1, <2>2, <2>3
<1>7. ASSUME NEW q \in j.closing, NEW e \in Conn \ {d}, Believes(e, q)' PROVE rooms'[q].conns[e] # 0
  BY <1>1, <1>3, <1>4, <1>5, <1>7 DEF Heard
<1> QED
  BY <1>4, <1>6, <1>7, HeardRemoval

LEMMA HeardKicks ==
  ASSUME TypeOK, KickInv, GoneInv, AgreeInv, NEW d \in Conn, NEW l, NEW j, Goto(d, l, j),
         KickSend(d) \/ \E r \in Minted, m \in Mid : LateKick(d, r, m)
  PROVE  Heard(d, l, j)'
<1>0. /\ pc'[d] = l /\ job'[d] = j /\ job[d] \in Job /\ rooms' = rooms /\ seq' = seq /\ sock' = sock
      /\ Request(d) \/ Continue(d) \/ Finally(d)
  BY JobFacts DEF Goto, TypeOK, KickSend, LateKick, Request, Continue
<1>1. CASE l # "depart"
  <2>1. l \in {"recv", "fin"}
    BY <1>0, <1>1 DEF KickSend, LateKick, Reject, Return, Goto, TypeOK
  <2> QED
    BY <1>0, <2>1, HeardOther DEF HearingPCs, PendingPCs
<1>2. ASSUME l = "depart", ~ j.all, j.all = j.fin, j.room \in Minted, ~ Believes(j.who, j.room)'
      PROVE  Heard(d, l, j)'
  <2>1. j.closing = {}
    BY <1>0, <1>2, ClosingEnds
  <2>2. j.room \in Minted'
    BY <1>0, <1>2 DEF Minted
  <2> QED
    BY <1>2, <2>1, <2>2 DEF Heard, PendingPCs
<1>3. CASE KickSend(d) /\ l = "depart"
  <2>1. PICK r : r = job[d].room
    OBVIOUS
  <2>2. /\ j = job[d] /\ pc[d] = "kick_send"
        /\ view' = Deliver({job[d].who}, rooms[r].kind, RoomGone(r))
    BY <1>0, <1>3, <2>1 DEF KickSend, Reject, Return, Goto, TypeOK
  <2>3. r \in Minted /\ job[d].who \in Conn /\ ~ job[d].all /\ job[d].all = job[d].fin
    BY <1>0, <2>1, <2>2, JobRoom DEF RoomPCs, PCs, Job, KickInv, KickPart, GoneInv, GonePart
  <2>4. PICK kind, S, e : /\ view' = Deliver(S, kind, RoomGone(r)) /\ e \in S /\ e = job[d].who
                          /\ kind = rooms[r].kind
    BY <2>2
  <2>5. ~ Believes(e, r)'
    BY <1>0, <2>3, <2>4, GoneTold
  <2> QED
    BY <1>2, <1>3, <2>1, <2>2, <2>3, <2>4, <2>5
<1>4. ASSUME NEW r \in Minted, NEW m \in Mid, LateKick(d, r, m) PROVE Heard(d, l, j)'
  <2>1. PICK e \in Conn : /\ sock[e] = "lost"
                          /\ Goto(d, "depart", [job[d] EXCEPT !.room = r, !.who = e])
    BY <1>4 DEF LateKick, PeersOf
  <2>2. l = "depart" /\ j.room = r /\ j.who = e /\ ~ j.all /\ j.all = j.fin
    <3>1. job[d] = NoJob(d)
      BY <1>4 DEF LateKick, Receive, KickInv, KickPart
    <3>2. l = "depart" /\ j = [job[d] EXCEPT !.room = r, !.who = e]
      BY <1>0, <2>1 DEF Goto, TypeOK
    <3> QED
      BY <3>1, <3>2 DEF NoJob
  <2>3. ~ Believes(e, r)'
    BY <1>0, <2>1 DEF Believes
  <2> QED
    BY <1>2, <2>2, <2>3
<1> QED
  BY <1>1, <1>3, <1>4

(* Whoever was taken out of a room is not in its roster any more.          *)
LEMMA HeardRemoves ==
  ASSUME TypeOK, AgreeInv, NEW d \in Conn, NEW l, NEW j, Goto(d, l, j),
         Depart(d) \/ \E e \in job[d].left : TellDeparture(d, e[1], e[2])
  PROVE  Heard(d, l, j)'
<1>0. /\ Heard(d, pc[d], job[d]) /\ job[d] \in Job /\ pc'[d] = l /\ job'[d] = j /\ Continue(d)
  BY JobFacts DEF AgreeInv, Goto, TypeOK, Continue
<1>1. CASE l = "tell"
  <2>1. ASSUME Depart(d) PROVE \A e \in j.left : e[2] \notin rooms'[e[1]].members
    <3> DEFINE w == job[d].who
               hit == {r \in active : rooms[r].conns[w] # 0 /\ (job[d].all \/ r = job[d].room)}
               gone == {<<r, rooms[r].conns[w]>> : r \in hit}
               k == [job[d] EXCEPT !.left = gone,
                                   !.seed = @ /\ \E r \in hit : rooms[r].kind = "party"]
    <3>1. GoOn(d, k) /\ rooms' = [r \in Minted |-> IF r \in hit THEN Without(rooms[r], w) ELSE rooms[r]]
      BY <2>1 DEF Depart
    <3>2. k.left = gone
      BY <1>0 DEF Job
    <3>3. \A r \in hit : rooms[r].conns[w] \notin rooms'[r].members
      <4>1. \A r \in hit : r \in Minted /\ rooms[r] \in Room
        BY DEF TypeOK
      <4>2. \A r \in hit : rooms'[r] = Without(rooms[r], w)
        BY <3>1, <4>1
      <4>3. \A room \in Room : room.conns[w] \notin Without(room, w).members
        BY DEF Without, Room
      <4> HIDE DEF hit, w
      <4> QED
        BY <4>1, <4>2, <4>3
    <3>4. \A e \in gone : e[2] \notin rooms'[e[1]].members
      <4> HIDE DEF hit, w
      <4> QED
        BY <3>3
    <3> HIDE DEF k, gone
    <3>5. j = k
      BY <1>0, <1>1, <3>1 DEF GoOn, Goto, Finish, Return, TypeOK
    <3> QED
      BY <3>2, <3>4, <3>5
  <2>2. ASSUME NEW e \in job[d].left, TellDeparture(d, e[1], e[2])
        PROVE  j.left \subseteq job[d].left /\ pc[d] = "tell" /\ rooms' = rooms
    <3> DEFINE k == [job[d] EXCEPT !.left = @ \ {<<e[1], e[2]>>}]
    <3>1. GoOn(d, k) /\ pc[d] = "tell" /\ rooms' = rooms
      BY <2>2 DEF TellDeparture
    <3>2. k.left \subseteq job[d].left
      BY <1>0 DEF Job
    <3> HIDE DEF k
    <3>3. j = k
      BY <1>0, <1>1, <3>1 DEF GoOn, Goto, Finish, Return, TypeOK
    <3> QED
      BY <3>1, <3>2, <3>3
  <2>3. \A e \in j.left : e[2] \notin rooms'[e[1]].members
    BY <1>0, <2>1, <2>2 DEF Heard
  <2>4. j.closing = {}
    BY <1>0, <1>1, ClosingEnds
  <2> QED
    BY <1>1, <2>3, <2>4 DEF Heard, PendingPCs
<1>2. CASE l # "tell"
  <2>1. PICK k : GoOn(d, k)
    BY DEF Depart, TellDeparture
  <2>3. PICK i \in {"recv", "tell", "done", "seed_send"} : \E q : Goto(d, i, q)
    BY <2>1, GoOnStep
  <2>2. l \in {"recv", "done", "seed_send"}
    BY <1>0, <1>2, <2>3 DEF Goto, TypeOK
  <2> QED
    BY <1>0, <2>2, HeardOther DEF HearingPCs, PendingPCs
<1> QED
  BY <1>1, <1>2

LEMMA HeardNext ==
  ASSUME TypeOK, MaxBusy = 1, KickInv, GoneInv, RosterInv, HostInv, SeatInv, AgreeInv,
         NEW d \in Conn, NEW l, NEW j, Goto(d, l, j), Request(d) \/ Continue(d) \/ Finally(d)
  PROVE  Heard(d, l, j)'
<1>0. pc'[d] = l
  BY DEF Goto, TypeOK
<1>1. CASE \/ CreateRegister(d) \/ JoinRegister(d) \/ PromoteCheck(d) \/ PromoteSet(d) \/ PromoteSend(d)
           \/ CacheData(d) \/ SeedRegister(d)
           \/ \E r \in Minted : \/ SetPartyData(d, r)
                                \/ \E m \in Mid : Kick(d, r, m) \/ Promote(d, r, m)
  <2>1. l \in {"recv", "fin", "promote_send", "data_cache", "kick_send", "promote_check", "promote_set"}
    BY <1>0, <1>1 DEF CreateRegister, JoinRegister, PromoteCheck, PromoteSet, PromoteSend,
       CacheData,
       SeedRegister, SetPartyData, Kick, Promote, Reject, Return, Goto, TypeOK
  <2> QED
    BY <2>1, HeardOther DEF HearingPCs, PendingPCs
<1> QED
  BY <1>1, HeardCreate, HeardCreateSend, HeardSeedSend, HeardJoins, HeardJoinSend, HeardLeave,
     HeardFinally, HeardClose, HeardKicks, HeardRemoves DEF Request, Continue

LEMMA AgreeNext ==
  ASSUME TypeOK, MaxBusy = 1, "raise" \notin Ops,
         KickInv, FreshInv, GoneInv, RosterInv, HostInv, SeatInv, AgreeInv, [Next]_vars
  PROVE  AgreeInv'
<1>1. ASSUME NEW d \in Conn, Request(d) \/ Continue(d) \/ Finally(d) PROVE AgreeInv'
  <2>1. PICK l, j : Goto(d, l, j)
    BY <1>1, StepGoes
  <2>2. Heard(d, l, j)' /\ pc'[d] = l /\ job'[d] = j
    BY <1>1, <2>1, HeardNext DEF Goto, TypeOK
  <2>3. \A c \in Conn : Heard(c, pc[c], job[c])'
    <3>1. \A c \in Conn : c # d => /\ pc'[c] \in {"recv", "done"} /\ pc[c] \in {"recv", "done"}
                                   /\ job'[c] = job[c]
      BY <1>1, OnlyOne DEF RosterInv, Resting
    <3>2. \A c \in Conn : c # d => Heard(c, pc[c], job[c])'
      BY <3>1 DEF AgreeInv, Heard, PendingPCs
    <3> QED
      BY <2>2, <3>2
  <2>4. \A k \in Conn : Real(k)'
    BY <1>1, RealNext
  <2>5. \A k \in Conn : \A r \in active' : Agrees(k, r)'
    BY <1>1, AgreesNext
  <2> QED
    BY <2>3, <2>4, <2>5 DEF AgreeInv
<1>2. ASSUME NEW d \in Conn, Drop(d) PROVE AgreeInv'
  <2>1. /\ UNCHANGED <<pc, job, seq, active, rooms>>
        /\ \A k \in Conn, x \in Kind : \/ view'[k][x] = view[k][x]
                                       \/ view'[k][x].room = 0 /\ sock'[k] # "up"
        /\ \A k \in Conn : sock'[k] = "up" => sock[k] = "up"
    BY <1>2 DEF Drop, TypeOK, Empty
  <2>2. \A k \in Conn, r \in Minted : Believes(k, r)' => Believes(k, r) /\ Seen(k, r)' = Seen(k, r)
    BY <2>1, RoomFacts DEF Believes, Seen
  <2>3. \A k \in Conn : Real(k)'
    BY <2>1 DEF AgreeInv, Real, Minted
  <2>4. \A k \in Conn : \A r \in active : Agrees(k, r)'
    BY <2>1, <2>2 DEF AgreeInv, Agrees, Present, TypeOK
  <2>5. \A c \in Conn : Heard(c, pc[c], job[c])'
    <3>1. ASSUME NEW c \in Conn, NEW l, NEW j, l = pc[c], j = job[c] PROVE Heard(c, l, j)'
      <4>1. Heard(c, l, j) /\ j.closing \subseteq Minted /\ Minted' = Minted /\ j.who \in Conn
        BY <2>1, <3>1, JobFacts DEF AgreeInv, JobOK, Job, Minted
      <4>2. l \in PendingPCs \cup JoinPCs => j.room \in Minted
        BY <3>1, JobRoom DEF RoomPCs, PCs, PendingPCs, JoinPCs, JoiningPCs
      <4> QED
        BY <2>1, <2>2, <4>1, <4>2 DEF Heard, For, PendingPCs, JoinPCs, JoiningPCs
    <3>2. \A c \in Conn : pc'[c] = pc[c] /\ job'[c] = job[c]
      BY <2>1
    <3> QED
      BY <3>1, <3>2
  <2> QED
    BY <2>1, <2>3, <2>4, <2>5 DEF AgreeInv
<1>3. CASE UNCHANGED vars
  <2>1. UNCHANGED <<sock, pc, job, seq, active, rooms, view>>
    BY <1>3 DEF vars
  <2>2. \A k \in Conn : Real(k)' /\ \A r \in active : Agrees(k, r)'
    BY <2>1 DEF AgreeInv, Real, Minted, Agrees, Believes, Seen, Present
  <2>3. \A c \in Conn : Heard(c, pc[c], job[c])'
    <3>1. ASSUME NEW c \in Conn, NEW l, NEW j, Heard(c, l, j) PROVE Heard(c, l, j)'
      BY <2>1, <3>1 DEF Heard, Believes, Seen, Minted, For
    <3> QED
      BY <2>1, <3>1 DEF AgreeInv
  <2> QED
    BY <2>1, <2>2, <2>3 DEF AgreeInv
<1> QED
  BY <1>1, <1>2, <1>3, NoRaise

LEMMA AgreeInit ==
  ASSUME Init
  PROVE  AgreeInv
<1>1. \A k \in Conn, x \in Kind : view[k][x].room = 0
  BY DEF Init, Empty
<1> QED
  BY <1>1 DEF Init, AgreeInv, Real, Heard, PendingPCs, NoJob

LEMMA AgreeAlways ==
  ASSUME MaxBusy = 1, "raise" \notin Ops
  PROVE  Spec => []AgreeInv
<1>1. Init => SeatInv /\ AgreeInv
  BY SeatInit, AgreeInit
<1>2. TypeOK /\ UniqueMemberIds /\ KickInv /\ FreshInv /\ GoneInv /\ RosterInv /\ HostInv /\ SeatInv
        /\ [Next]_vars => SeatInv'
  BY SeatNext
<1>3. TypeOK /\ KickInv /\ FreshInv /\ GoneInv /\ RosterInv /\ HostInv /\ SeatInv /\ AgreeInv
        /\ [Next]_vars => AgreeInv'
  BY AgreeNext
<1> QED
  BY <1>1, <1>2, <1>3, Background, SerialInvariants, PTL DEF Spec

(* One message at a time and with a log that can be written, between two     *)
(* messages a client that believes it is in a registered room is in it, and  *)
(* sees everybody who is: the joiner and those who were there have been sent *)
(* the same roster, whoever was removed has been told first, and a departure *)
(* is announced by the number of one who is not there any more               *)
(* (session_manager.py:2285-2330, 1240-1268, 2747).                          *)
THEOREM ClientsSeeEverybody ==
  ASSUME MaxBusy = 1, "raise" \notin Ops
  PROVE  Spec => []ClientAgreement
<1>1. TypeOK /\ GoneInv /\ AgreeInv => ClientAgreement
  <2> SUFFICES ASSUME TypeOK, GoneInv, AgreeInv, Quiet, NEW c \in Conn, NEW k \in Kind,
                      NEW r, r = view[c][k].room, sock[c] = "up", r \in active
               PROVE  InRoom(c, r) /\ rooms[r].members \subseteq view[c][k].roster
    BY DEF ClientAgreement
  <2>1. r # 0 /\ rooms[r].kind = k
    BY DEF AgreeInv, Real, TypeOK, Minted
  <2>2. Believes(c, r) /\ Seen(c, r) = view[c][k].roster
    BY <2>1 DEF Believes, Seen
  <2>3. Present(c, r) /\ rooms[r].members \subseteq Seen(c, r)
    BY <2>2 DEF AgreeInv, Agrees
  <2>4. pc[c] \in {"recv", "done"}
    BY DEF Quiet, Busy
  <2> QED
    BY <2>2, <2>3, <2>4 DEF Present, GoneInv, GonePart, InRoom
<1> QED
  BY <1>1, AgreeAlways, Background, PTL

(* A handler is through with a room it closes only by telling whoever is   *)
(* there, and nobody else believes to be.                                  *)
LEMMA ClosingTells ==
  ASSUME TypeOK, AgreeInv, "raise" \notin Ops, Next,
         NEW c \in Conn, NEW r \in job[c].closing \ job'[c].closing, NEW k \in Conn \ {c}, sock[k] = "up"
  PROVE  view'[k][rooms[r].kind].room # r
<1>1. pc[c] = "close" /\ r \in Minted
  BY JobFacts DEF AgreeInv, Heard, JobOK
<1>2. PICK d \in Conn : Request(d) \/ Continue(d) \/ Finally(d)
  BY NoRaise DEF Drop
<1>3. d = c
  <2>1. PICK l, j : Goto(d, l, j)
    BY <1>2, StepGoes
  <2> QED
    BY <2>1 DEF Goto, TypeOK
<1>4. PICK q \in Minted : CloseRoom(c, q)
  BY <1>1, <1>2, <1>3
  DEF Request, Create, Join, Leave, SetPartyData, Kick, LateKick, Promote, Receive,
      Finally, Continue, CreateSend, CreateRegister, JoinGate, JoinSnapshot, JoinSend, JoinRegister,
      KickSend, PromoteCheck, PromoteSet, PromoteSend, CacheData, Depart, TellDeparture, SeedSend,
      SeedRegister
<1>5. q = r
  <2>1. PICK i, j : i \in Job /\ i = job[c] /\ j = [i EXCEPT !.closing = @ \ {q}] /\ job'[c] = j
    BY <1>4, JobFacts DEF CloseRoom, Goto, TypeOK
  <2>2. j.closing = i.closing \ {q}
    BY <2>1 DEF Job
  <2> QED
    BY <2>1, <2>2
<1>6. /\ view' = Deliver(PeersOf(r) \ {c}, rooms[r].kind, RoomGone(r)) /\ rooms' = rooms /\ sock' = sock
  BY <1>1, <1>4, <1>5 DEF CloseRoom, Goto, AfterRetire
<1>7. CASE rooms[r].conns[k] # 0
  <2>1. PICK S, kind : view' = Deliver(S, kind, RoomGone(r)) /\ k \in S /\ kind = rooms[r].kind
    BY <1>6, <1>7 DEF PeersOf
  <2>2. ~ Believes(k, r)'
    BY <1>1, <1>6, <2>1, GoneTold
  <2> QED
    BY <1>6, <2>2 DEF Believes
<1>8. CASE rooms[r].conns[k] = 0
  <2>1. ~ Believes(k, r)
    BY <1>1, <1>8 DEF AgreeInv, Heard
  <2> DEFINE S == PeersOf(r) \ {c}
  <2>2. view' = Deliver(S, rooms[r].kind, RoomGone(r)) /\ k \notin S
    BY <1>6, <1>8 DEF PeersOf
  <2> HIDE DEF S
  <2>3. view'[k] = view[k]
    BY <2>2 DEF Deliver
  <2> QED
    BY <2>1, <2>3 DEF Believes
<1> QED
  BY <1>7, <1>8

(* One message at a time and with a log that can be written, nobody is left  *)
(* in a room its creator has closed, however the room was closed and whoever *)
(* had joined, left or been removed before: when close_room_and_notify is    *)
(* through with a room, every other client that can be told believes to be   *)
(* elsewhere, whether it was sent RoomClosed or had moved already            *)
(* (session_manager.py:1036, 2589, 2885).                                    *)
THEOREM ClosedRoomsAreTold ==
  ASSUME MaxBusy = 1, "raise" \notin Ops
  PROVE  Spec => ClosedIsTold
<1>1. TypeOK /\ AgreeInv /\ [Next]_vars =>
        [\A c \in Conn : \A r \in job[c].closing \ job'[c].closing : \A k \in Conn \ {c} :
           sock[k] = "up" => view'[k][rooms[r].kind].room # r]_vars
  BY ClosingTells
<1> QED
  BY <1>1, AgreeAlways, TypeCorrect, PTL DEF Spec, ClosedIsTold
=============================================================================
