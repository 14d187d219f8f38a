-------------------------- MODULE MatchmakingProofs --------------------------
(***************************************************************************)
(* Theorems about find-match, for any clients, builds and playlists.       *)
(***************************************************************************)
EXTENDS Matchmaking, FiniteSetTheorems, TLAPS

-----------------------------------------------------------------------------
(***************************************************************************)
(* Types: a room on its way to active_rooms is one nobody has seen         *)
(***************************************************************************)

Mode == Playlist \cup {Absent}
Field == Playlist \cup {Sentinel}
Kind == {"match", "private", "party"}

DraftPart(c) ==
  /\ at[c] # "create" => DOMAIN draft[c] = {}
  /\ at[c] = "create" => \E id \in 1 .. made : DOMAIN draft[c] = {id}
  /\ \A id \in DOMAIN draft[c] :
       /\ draft[c][id] \in Room /\ draft[c][id].owner = c
       /\ id \notin DOMAIN rooms
       /\ \A d \in Client : id \notin list[d] /\ (d # c => id \notin DOMAIN draft[d])
DraftInv == /\ draft = [c \in Client |-> draft[c]]
            /\ \A c \in Client : DraftPart(c)

(* The type invariant, without the sizes that DraftInv implies.            *)
RoomsOK == /\ made \in 0 .. MaxRooms /\ DOMAIN rooms \subseteq 1 .. made
           /\ \A id \in DOMAIN rooms : rooms[id] \in Room /\ at[rooms[id].owner] # "gone"
FlagsOK == /\ searching \in [Client -> BOOLEAN]
           /\ mode \in [Client -> Mode]
           /\ at \in [Client -> {"idle", "answer", "create", "gone"}]
           /\ queue \in [Client -> Mode]
           /\ field \in [Client -> Field]
           /\ build \in BuildsOf /\ asked \in [Client -> Mode]
ListOK == /\ list = [c \in Client |-> list[c]]
          /\ \A c \in Client : list[c] \subseteq 1 .. made /\ (at[c] # "answer" => list[c] = {})
Typed == FlagsOK /\ RoomsOK /\ ListOK /\ DraftInv

LEMMA TypedIsTypeOK == Typed => TypeOK
<1> SUFFICES ASSUME Typed PROVE TypeOK
  OBVIOUS
<1>1. ASSUME NEW c \in Client
      PROVE  /\ Cardinality(DOMAIN draft[c]) = (IF at[c] = "create" THEN 1 ELSE 0)
             /\ DOMAIN draft[c] \cap DOMAIN rooms = {}
  <2>1. DraftPart(c)
    BY DEF Typed, DraftInv
  <2>2. at[c] = "create" => Cardinality(DOMAIN draft[c]) = 1
    BY <2>1, FS_Singleton DEF DraftPart
  <2>3. at[c] # "create" => Cardinality(DOMAIN draft[c]) = 0
    BY <2>1, FS_EmptySet DEF DraftPart
  <2> QED
    BY <2>1, <2>2, <2>3 DEF DraftPart
<1> QED
  BY <1>1 DEF Typed, FlagsOK, RoomsOK, ListOK, TypeOK, Mode, Field

(* Steps that make no room and register none.                              *)
LEMMA QuietTyped ==
  ASSUME Typed, NEW c \in Client,
         (\E p \in Mode : Queue(c, p)) \/ Search(c) \/ Answer(c) \/ Connect(c)
  PROVE  Typed'
<1>1. UNCHANGED <<draft, rooms, made>>
  BY DEF Queue, Search, Answer, Connect, handlerVars, clientVars
<1>2. FlagsOK'
  <2>1. CASE Search(c)
    BY <2>1 DEF Typed, FlagsOK, Search
  <2>2. CASE \E p \in Mode : Queue(c, p)
    BY <2>2 DEF Typed, FlagsOK, Queue, handlerVars
  <2>3. CASE Answer(c) \/ Connect(c)
    BY <2>3 DEF Typed, FlagsOK, Answer, Connect, clientVars
  <2> QED
    BY <2>1, <2>2, <2>3
<1>3. \A d \in Client : /\ at'[d] = "create" <=> at[d] = "create"
                        /\ at'[d] = "gone" => at[d] = "gone"
  BY DEF Typed, FlagsOK, Queue, Search, Answer, Connect, handlerVars
<1>4. RoomsOK'
  <2>1. \A id \in DOMAIN rooms : rooms[id].owner \in Client
    BY DEF Typed, RoomsOK, Room
  <2> QED
    BY <1>1, <1>3, <2>1 DEF Typed, RoomsOK
<1>5. \A d \in Client : \/ list'[d] = list[d] /\ (at'[d] = "answer" <=> at[d] = "answer")
                        \/ list'[d] \subseteq DOMAIN rooms /\ at'[d] = "answer"
                        \/ list'[d] = {}
  BY DEF Typed, FlagsOK, ListOK, Queue, Search, Answer, Connect, handlerVars, Listed
<1>6. list' = [d \in Client |-> list'[d]]
  BY DEF Typed, ListOK, Queue, Search, Answer, Connect, handlerVars
<1>7. ListOK'
  BY <1>1, <1>5, <1>6 DEF Typed, ListOK, RoomsOK
<1>8. DraftInv'
  <2>1. ASSUME NEW d \in Client PROVE DraftPart(d)'
    <3>1. DraftPart(d)
      BY DEF Typed, DraftInv
    <3>2. \A id \in DOMAIN draft[d] : \A e \in Client : id \notin list'[e]
      BY <1>5, <3>1 DEF DraftPart
    <3> QED
      BY <1>1, <1>3, <3>1, <3>2 DEF DraftPart
  <2> QED
    BY <1>1, <2>1 DEF Typed, DraftInv
<1> QED
  BY <1>2, <1>4, <1>7, <1>8 DEF Typed

(***************************************************************************)
(* RoomCreate                                                              *)
(***************************************************************************)

(* The room a client creates, with what is in its game object.             *)
LEMMA NewRoomType ==
  ASSUME Typed, NEW c \in Client, NEW kind \in Kind, NEW f \in Field
  PROVE  NewRoom(c, kind, f) \in Room /\ NewRoom(c, kind, f).owner = c
<1> DEFINE object == IF kind = "party" THEN "party" ELSE "game"
           kept == IF object = "game" THEN ModeOf(c, f) ELSE FromField(c, f)
           serves == IF kind = "match" THEN queue[c] ELSE Absent
           after == IF kind = "match" THEN asked[c] ELSE Absent
<1>1. object \in {"game", "party"} /\ Declared(c, f) \in BOOLEAN
  BY DEF Declared
<1>2. kept \in Mode /\ serves \in Mode /\ after \in Mode
  BY DEF Typed, FlagsOK, Mode, ModeOf, FromField
<1>3. 1 \in 1 .. MaxPlayers /\ build[c] \in {b[d] : b \in BuildsOf, d \in Client}
  BY MatchAssumption DEF Typed, FlagsOK
<1>4. NewRoom(c, kind, f) =
        [owner |-> c, object |-> object, public |-> Declared(c, f), mode |-> kept,
         build |-> build[c], size |-> 1, kind |-> kind, serves |-> serves, after |-> after]
  BY DEF NewRoom
<1> HIDE DEF object, kept, serves, after
<1> QED
  BY <1>1, <1>2, <1>3, <1>4 DEF Room, Mode, Kind

LEMMA CreateTyped ==
  ASSUME Typed, NEW c \in Client, NEW kind \in Kind, NEW f \in Field, Create(c, kind, f)
  PROVE  Typed'
<1> DEFINE new == made + 1
<1>1. made \in Nat /\ new \in 1 .. made' /\ new \notin 1 .. made
      /\ 1 .. made \subseteq 1 .. made' /\ made' \in 0 .. MaxRooms
  BY MatchAssumption DEF Typed, RoomsOK, Create
<1>2. /\ at[c] = "idle" /\ rooms' = rooms /\ list' = list
      /\ at' = [at EXCEPT ![c] = "create"]
      /\ draft' = [draft EXCEPT ![c] = [id \in {new} |-> NewRoom(c, kind, f)]]
  BY DEF Create
<1>3. FlagsOK'
  <2>1. at' \in [Client -> {"idle", "answer", "create", "gone"}]
    BY <1>2 DEF Typed, FlagsOK
  <2> QED
    BY <2>1 DEF Typed, FlagsOK, Create, UsedUp, Field, Mode
<1>4. \A d \in Client : /\ d # c => at'[d] = at[d] /\ draft'[d] = draft[d]
                        /\ d = c => at'[d] = "create"
                                    /\ draft'[d] = [id \in {new} |-> NewRoom(c, kind, f)]
  BY <1>2 DEF Typed, FlagsOK, DraftInv
<1>5. RoomsOK'
  <2>1. \A id \in DOMAIN rooms : rooms[id].owner \in Client
    BY DEF Typed, RoomsOK, Room
  <2> QED
    BY <1>1, <1>2, <1>4, <2>1 DEF Typed, RoomsOK
<1>6. ListOK'
  BY <1>1, <1>2, <1>4 DEF Typed, ListOK
<1>7. \A d \in Client : /\ DraftPart(d) /\ new \notin list[d] /\ new \notin DOMAIN rooms
                        /\ new \notin DOMAIN draft[d]
  BY <1>1 DEF Typed, DraftInv, ListOK, RoomsOK, DraftPart
<1>8. DraftPart(c)'
  <2>1. DOMAIN draft'[c] = {new} /\ draft'[c][new] = NewRoom(c, kind, f)
    BY <1>4
  <2> HIDE DEF new
  <2> QED
    BY <1>1, <1>2, <1>4, <1>7, <2>1, NewRoomType DEF DraftPart
<1>9. ASSUME NEW d \in Client, d # c PROVE DraftPart(d)'
  <2>1. DOMAIN draft'[c] = {new} /\ new \notin DOMAIN draft[d] /\ DraftPart(d)
    BY <1>4, <1>7
  <2> HIDE DEF new
  <2> QED
    BY <1>1, <1>2, <1>4, <1>9, <2>1 DEF DraftPart
<1>10. draft' = [d \in Client |-> draft'[d]]
  BY <1>2 DEF Typed, DraftInv
<1> QED
  BY <1>3, <1>5, <1>6, <1>8, <1>9, <1>10 DEF Typed, DraftInv

LEMMA RegisterTyped ==
  ASSUME Typed, NEW c \in Client, Register(c)
  PROVE  Typed'
<1>1. /\ at[c] = "create" /\ made' = made /\ list' = list
      /\ at' = [at EXCEPT ![c] = "idle"]
      /\ draft' = [draft EXCEPT ![c] = NoRooms]
  BY DEF Register
<1>2. \A d \in Client : /\ d # c => at'[d] = at[d] /\ draft'[d] = draft[d]
                        /\ d = c => at'[d] = "idle" /\ DOMAIN draft'[d] = {}
  BY <1>1 DEF Typed, FlagsOK, DraftInv, NoRooms
<1>3. PICK new \in 1 .. made : DOMAIN draft[c] = {new}
  BY <1>1 DEF Typed, DraftInv, DraftPart
<1>4. draft[c][new] \in Room /\ draft[c][new].owner = c /\ new \notin DOMAIN rooms
  BY <1>3 DEF Typed, DraftInv, DraftPart
<1>5. /\ DOMAIN rooms' = DOMAIN rooms \cup {new}
      /\ \A id \in DOMAIN rooms : rooms'[id] = rooms[id]
      /\ rooms'[new] = draft[c][new]
  BY <1>3, <1>4 DEF Register
<1>6. FlagsOK'
  BY DEF Typed, FlagsOK, Register, clientVars
<1>7. RoomsOK'
  <2>1. \A id \in DOMAIN rooms : rooms[id].owner \in Client
    BY DEF Typed, RoomsOK, Room
  <2> QED
    BY <1>1, <1>2, <1>3, <1>4, <1>5, <2>1 DEF Typed, RoomsOK
<1>8. ListOK'
  BY <1>1, <1>2 DEF Typed, ListOK
<1>9. ASSUME NEW d \in Client PROVE DraftPart(d)'
  <2>1. CASE d = c
    BY <1>2, <2>1 DEF DraftPart
  <2>2. CASE d # c
    <3>1. DraftPart(d) /\ new \notin DOMAIN draft[d]
      BY <1>3, <2>2 DEF Typed, DraftInv, DraftPart
    <3> QED
      BY <1>1, <1>2, <1>5, <2>2, <3>1 DEF DraftPart
  <2> QED
    BY <2>1, <2>2
<1>10. draft' = [d \in Client |-> draft'[d]]
  BY <1>1 DEF Typed, DraftInv
<1> QED
  BY <1>6, <1>7, <1>8, <1>9, <1>10 DEF Typed, DraftInv

(* Members come and go.                                                    *)
LEMMA OnlySizeChanges ==
  ASSUME NEW room \in Room, NEW n \in 1 .. MaxPlayers,
         NEW other, other \in {room, [room EXCEPT !.size = n]}
  PROVE  /\ other \in Room /\ other.owner = room.owner /\ other.public = room.public
         /\ other.mode = room.mode /\ other.build = room.build /\ other.kind = room.kind
         /\ other.serves = room.serves /\ other.after = room.after
<1> DEFINE Builds == {b[c] : b \in BuildsOf, c \in Client}
<1>1. Room = [owner : Client, object : {"game", "party"}, public : BOOLEAN,
              mode : Mode, build : Builds, size : 1 .. MaxPlayers, kind : Kind,
              serves : Mode, after : Mode]
  BY DEF Room, Mode, Kind
<1> HIDE DEF Builds
<1> QED
  BY <1>1

LEMMA ResizeTyped ==
  ASSUME Typed, NEW id \in DOMAIN rooms, NEW n, Resize(id, n)
  PROVE  Typed'
<1>1. /\ UNCHANGED <<searching, mode, at, list, draft, made, queue, field, build, asked>>
      /\ rooms' = [rooms EXCEPT ![id].size = n] /\ n \in 1 .. MaxPlayers
  BY DEF Resize, handlerVars, clientVars
<1>2. DOMAIN rooms' = DOMAIN rooms
  BY <1>1
<1>3. ASSUME NEW z \in DOMAIN rooms PROVE rooms'[z] \in Room /\ rooms'[z].owner = rooms[z].owner
  <2>1. rooms[z] \in Room
    BY DEF Typed, RoomsOK
  <2>2. rooms'[z] = rooms[z] \/ rooms'[z] = [rooms[z] EXCEPT !.size = n]
    BY <1>1
  <2> QED
    BY <1>1, <2>1, <2>2, OnlySizeChanges
<1>4. FlagsOK' /\ RoomsOK' /\ ListOK'
  BY <1>1, <1>2, <1>3 DEF Typed, FlagsOK, RoomsOK, ListOK
<1>5. DraftInv'
  BY <1>1, <1>2 DEF Typed, DraftInv, DraftPart
<1> QED
  BY <1>4, <1>5 DEF Typed

(* Rooms are retired, also those of a connection that ends.                *)
LEMMA RetireTyped ==
  ASSUME Typed, NEW c \in Client, OwnerLeaves(c) \/ Close(c)
  PROVE  Typed'
<1>1. PICK S : /\ rooms' = Without(rooms, S)
               /\ Close(c) => S = OwnedBy(c)
  BY DEF OwnerLeaves, Close, ClosedWith
<1>2. DOMAIN rooms' = DOMAIN rooms \ S /\ \A id \in DOMAIN rooms' : rooms'[id] = rooms[id]
  BY <1>1 DEF Without
<1>3. CASE OwnerLeaves(c)
  <2>1. UNCHANGED <<searching, mode, at, list, draft, made, queue, field, build, asked>>
    BY <1>3 DEF OwnerLeaves, handlerVars, clientVars
  <2>2. FlagsOK' /\ RoomsOK' /\ ListOK'
    BY <1>2, <2>1 DEF Typed, FlagsOK, RoomsOK, ListOK
  <2>3. DraftInv'
    BY <1>2, <2>1 DEF Typed, DraftInv, DraftPart
  <2> QED
    BY <2>2, <2>3 DEF Typed
<1>4. CASE Close(c)
  <2>1. /\ at' = [at EXCEPT ![c] = "gone"] /\ made' = made
        /\ list' = [list EXCEPT ![c] = {}]
        /\ draft' = [draft EXCEPT ![c] = NoRooms]
    BY <1>4 DEF Close
  <2>2. \A d \in Client :
          /\ d # c => at'[d] = at[d] /\ list'[d] = list[d] /\ draft'[d] = draft[d]
          /\ d = c => at'[d] = "gone" /\ list'[d] = {} /\ DOMAIN draft'[d] = {}
    BY <2>1 DEF Typed, FlagsOK, ListOK, DraftInv, NoRooms
  <2>3. FlagsOK'
    BY <1>4 DEF Typed, FlagsOK, Close, Mode
  <2>4. RoomsOK'
    <3>1. \A id \in DOMAIN rooms' : rooms[id].owner \in Client /\ rooms[id].owner # c
      BY <1>1, <1>2, <1>4 DEF Typed, RoomsOK, Room, OwnedBy
    <3> QED
      BY <1>2, <2>1, <2>2, <3>1 DEF Typed, RoomsOK
  <2>5. ListOK'
    BY <2>1, <2>2 DEF Typed, ListOK
  <2>6. ASSUME NEW d \in Client PROVE DraftPart(d)'
    <3>1. CASE d = c
      BY <2>2, <3>1 DEF DraftPart
    <3>2. CASE d # c
      <4>1. DraftPart(d)
        BY DEF Typed, DraftInv
      <4> QED
        BY <1>2, <2>1, <2>2, <3>2, <4>1 DEF DraftPart
    <3> QED
      BY <3>1, <3>2
  <2>7. draft' = [d \in Client |-> draft'[d]]
    BY <2>1 DEF Typed, DraftInv
  <2> QED
    BY <2>3, <2>4, <2>5, <2>6, <2>7 DEF Typed, DraftInv
<1> QED
  BY <1>3, <1>4

(* What a client may create: parties and private matches carry the         *)
(* sentinel if the game object is stamped each time, and a match carries   *)
(* the playlist searched for or, without a search, the one queued for.     *)
MayMake(c, kind, f) ==
  /\ kind \in Kind /\ f \in Field
  /\ kind = "party" => f = Sentinel
  /\ kind = "private" /\ Restamps => f = Sentinel
  /\ kind = "match" => queue[c] \in Playlist /\ (f = queue[c] \/ (searching[c] /\ mode[c] = queue[c]))

LEMMA Hosting ==
  ASSUME Typed, NEW c \in Client, HostMatch(c) \/ HostPrivate(c) \/ HostParty(c)
  PROVE  \E kind, f : MayMake(c, kind, f) /\ Create(c, kind, f)
<1>1. queue[c] \in Mode /\ field[c] \in Field
  BY DEF Typed, FlagsOK
<1>2. CASE HostMatch(c)
  <2>1. PICK f \in Field : /\ Create(c, "match", f)
                           /\ f = queue[c] \/ (searching[c] /\ mode[c] = queue[c])
    BY <1>1, <1>2 DEF HostMatch, Mode, Field
  <2>2. MayMake(c, "match", f)
    BY <1>1, <1>2, <2>1 DEF MayMake, HostMatch, Mode, Kind
  <2> QED
    BY <2>1, <2>2
<1>3. CASE HostPrivate(c)
  <2>1. PICK f \in Field : Create(c, "private", f) /\ (Restamps => f = Sentinel)
    BY <1>1, <1>3 DEF HostPrivate, Field
  <2>2. MayMake(c, "private", f)
    BY <2>1 DEF MayMake, Kind
  <2> QED
    BY <2>1, <2>2
<1>4. CASE HostParty(c)
  <2>1. MayMake(c, "party", Sentinel)
    BY DEF MayMake, Kind, Field
  <2> QED
    BY <1>4, <2>1 DEF HostParty
<1> QED
  BY <1>2, <1>3, <1>4

LEMMA TypedNext ==
  ASSUME Typed, [Next]_vars
  PROVE  Typed'
<1>1. ASSUME NEW c \in Client, HostMatch(c) \/ HostPrivate(c) \/ HostParty(c) PROVE Typed'
  BY <1>1, Hosting, CreateTyped DEF MayMake
<1>2. ASSUME NEW id \in DOMAIN rooms, MemberJoins(id) \/ MemberLeaves(id) PROVE Typed'
  BY <1>2, ResizeTyped DEF MemberJoins, MemberLeaves
<1>3. CASE UNCHANGED vars
  BY <1>3 DEF vars, handlerVars, clientVars, Typed, FlagsOK, RoomsOK, ListOK, DraftInv, DraftPart
<1> QED
  BY <1>1, <1>2, <1>3, QuietTyped, RegisterTyped, RetireTyped DEF Next, Mode

LEMMA TypedInit == Init => Typed
  BY MatchAssumption DEF Init, Typed, FlagsOK, RoomsOK, ListOK, DraftInv, DraftPart, NoRooms, Mode,
     Field

(* Every variable holds what the code stores in it: an id is minted once,   *)
(* a room being created is in no list and not yet registered, and a         *)
(* registered room has an owner that is connected                           *)
(* (session_manager.py:1806, 2880).                                         *)
THEOREM MatchmakingTypeCorrect == Spec => []TypeOK
  BY TypedInit, TypedNext, TypedIsTypeOK, PTL DEF Spec

-----------------------------------------------------------------------------
(***************************************************************************)
(* Rooms are what they are registered as                                   *)
(***************************************************************************)

(* A match is of the playlist its client queues for, or of the one of the  *)
(* search before the create; and the search flag stands for such a search. *)
Honest(room) == room.public /\ room.kind = "match" => room.mode \in {room.serves, room.after}
FlagInv == \A c \in Client : searching[c] => asked[c] = mode[c]
HonestInv ==
  /\ \A id \in DOMAIN rooms : Honest(rooms[id])
  /\ \A c \in Client : \A id \in DOMAIN draft[c] : Honest(draft[c][id])

LEMMA FlagNext ==
  ASSUME Typed, FlagInv, [Next]_vars
  PROVE  FlagInv'
<1>0. /\ searching \in [Client -> BOOLEAN] /\ mode \in [Client -> Mode]
      /\ asked \in [Client -> Mode]
  BY DEF Typed, FlagsOK
<1>1. ASSUME NEW c \in Client, Search(c) PROVE FlagInv'
  BY <1>0, <1>1 DEF Search, FlagInv
<1>2. ASSUME NEW c \in Client, HostMatch(c) \/ HostPrivate(c) \/ HostParty(c) PROVE FlagInv'
  <2>1. /\ searching' = [searching EXCEPT ![c] = FALSE] /\ mode' = mode
        /\ asked' = [asked EXCEPT ![c] = Absent]
    BY <1>2 DEF HostMatch, HostPrivate, HostParty, Create, UsedUp
  <2> QED
    BY <1>0, <2>1 DEF FlagInv
<1>3. ASSUME NEW c \in Client, Close(c) PROVE FlagInv'
  BY <1>0, <1>3 DEF Close, FlagInv
<1>4. CASE UNCHANGED <<searching, mode, asked>>
  BY <1>4 DEF FlagInv
<1> QED
  BY <1>1, <1>2, <1>3, <1>4
  DEF Next, Queue, Answer, Connect, Register, OwnerLeaves, MemberJoins, MemberLeaves, Resize,
      vars, handlerVars, clientVars

LEMMA NewIsHonest ==
  ASSUME Typed, FlagInv, NEW c \in Client, NEW kind, NEW f, MayMake(c, kind, f)
  PROVE  Honest(NewRoom(c, kind, f))
<1> SUFFICES ASSUME NewRoom(c, kind, f).public, kind = "match"
             PROVE  ModeOf(c, f) \in {queue[c], asked[c]}
  BY DEF Honest, NewRoom
<1>1. CASE searching[c]
  BY <1>1 DEF ModeOf, FlagInv
<1>2. CASE ~ searching[c]
  BY <1>2 DEF ModeOf, FromField, MayMake
<1> QED
  BY <1>1, <1>2

LEMMA HonestNext ==
  ASSUME Typed, FlagInv, HonestInv, [Next]_vars
  PROVE  HonestInv'
<1>1. ASSUME NEW c \in Client, HostMatch(c) \/ HostPrivate(c) \/ HostParty(c) PROVE HonestInv'
  <2>1. PICK kind, f : MayMake(c, kind, f) /\ Create(c, kind, f)
    BY <1>1, Hosting
  <2>2. /\ rooms' = rooms
        /\ draft' = [draft EXCEPT ![c] = [id \in {made + 1} |-> NewRoom(c, kind, f)]]
    BY <2>1 DEF Create
  <2>3. \A d \in Client : draft'[d] \in {draft[d], [id \in {made + 1} |-> NewRoom(c, kind, f)]}
    BY <2>2 DEF Typed, DraftInv
  <2> QED
    BY <2>1, <2>2, <2>3, NewIsHonest DEF HonestInv
<1>2. ASSUME NEW c \in Client, Register(c) PROVE HonestInv'
  <2>1. \A d \in Client : draft'[d] = draft[d] \/ DOMAIN draft'[d] = {}
    BY <1>2 DEF Register, Typed, DraftInv, NoRooms
  <2>2. \A id \in DOMAIN rooms' : \/ id \in DOMAIN rooms /\ rooms'[id] = rooms[id]
                                  \/ id \in DOMAIN draft[c] /\ rooms'[id] = draft[c][id]
    BY <1>2 DEF Register
  <2> QED
    BY <2>1, <2>2 DEF HonestInv
<1>3. ASSUME NEW id \in DOMAIN rooms, NEW n, Resize(id, n) PROVE HonestInv'
  <2>1. /\ n \in 1 .. MaxPlayers
        /\ \A z \in DOMAIN rooms : rooms'[z] \in {rooms[z], [rooms[z] EXCEPT !.size = n]}
    BY <1>3 DEF Resize
  <2>2. \A z \in DOMAIN rooms : rooms[z] \in Room
    BY DEF Typed, RoomsOK
  <2>3. ASSUME NEW z \in DOMAIN rooms PROVE Honest(rooms'[z])
    <3>1. /\ rooms'[z].public = rooms[z].public /\ rooms'[z].kind = rooms[z].kind
          /\ rooms'[z].after = rooms[z].after /\ rooms'[z].serves = rooms[z].serves
          /\ rooms'[z].mode = rooms[z].mode
      BY <2>1, <2>2, OnlySizeChanges
    <3>2. Honest(rooms[z])
      BY DEF HonestInv
    <3> QED
      BY <3>1, <3>2 DEF Honest
  <2>4. DOMAIN rooms' = DOMAIN rooms /\ draft' = draft
    BY <1>3 DEF Resize, handlerVars
  <2> QED
    BY <2>3, <2>4 DEF HonestInv
<1>4. ASSUME NEW c \in Client, OwnerLeaves(c) \/ Close(c) PROVE HonestInv'
  <2>1. \A id \in DOMAIN rooms' : id \in DOMAIN rooms /\ rooms'[id] = rooms[id]
    BY <1>4 DEF OwnerLeaves, Close, Without
  <2>2. \A d \in Client : draft'[d] = draft[d] \/ DOMAIN draft'[d] = {}
    BY <1>4 DEF OwnerLeaves, Close, Typed, DraftInv, NoRooms, handlerVars
  <2> QED
    BY <2>1, <2>2 DEF HonestInv
<1>5. CASE UNCHANGED <<rooms, draft>>
  BY <1>5 DEF HonestInv
<1> QED
  BY <1>1, <1>2, <1>3, <1>4, <1>5
  DEF Next, Queue, Search, Answer, Connect, MemberJoins, MemberLeaves, vars, handlerVars

-----------------------------------------------------------------------------
(***************************************************************************)
(* Lists                                                                   *)
(***************************************************************************)

(* While an answer is under way, what is still registered of its list is   *)
(* what the search looked for.                                             *)
ListInv ==
  \A c \in Client : \A id \in list[c] \cap DOMAIN rooms :
    rooms[id].public /\ Fits(c, mode[c], rooms[id])

(* A room keeps what a search goes by, and what is added is in no list.    *)
LEMMA ListKept ==
  ASSUME ListInv, build' = build,
         \A c \in Client : list'[c] = {} \/ (list'[c] = list[c] /\ mode'[c] = mode[c]),
         \A id \in DOMAIN rooms' :
           \/ /\ id \in DOMAIN rooms
              /\ rooms'[id].public = rooms[id].public
              /\ rooms'[id].mode = rooms[id].mode /\ rooms'[id].build = rooms[id].build
           \/ \A c \in Client : id \notin list[c]
  PROVE  ListInv'
<1> SUFFICES ASSUME NEW c \in Client, NEW id \in list'[c] \cap DOMAIN rooms'
             PROVE  rooms'[id].public /\ Fits(c, mode[c], rooms[id])'
  BY DEF ListInv
<1>1. /\ id \in list[c] \cap DOMAIN rooms /\ mode'[c] = mode[c]
      /\ rooms'[id].public = rooms[id].public
      /\ rooms'[id].mode = rooms[id].mode /\ rooms'[id].build = rooms[id].build
  OBVIOUS
<1>2. rooms[id].public /\ Fits(c, mode[c], rooms[id])
  BY <1>1 DEF ListInv
<1> QED
  BY <1>1, <1>2 DEF Fits

LEMMA ListNext ==
  ASSUME Typed, ListInv, [Next]_vars
  PROVE  ListInv'
<1>1. ASSUME NEW c \in Client, Search(c) PROVE ListInv'
  <2>1. UNCHANGED <<rooms, made, build>> /\ mode' = [mode EXCEPT ![c] = queue[c]] /\ at[c] = "idle"
    BY <1>1 DEF Search
  <2>2. list'[c] \in {list[c], Listed(c, queue[c])} /\ mode'[c] = queue[c] /\ list[c] = {}
    BY <1>1, <2>1 DEF Search, Typed, ListOK, FlagsOK
  <2>3. \A d \in Client : d # c => list'[d] = list[d] /\ mode'[d] = mode[d]
    BY <1>1 DEF Search, Typed, ListOK, FlagsOK
  <2>4. \A id \in list'[c] \cap DOMAIN rooms :
          rooms[id].public /\ Fits(c, mode'[c], rooms[id])
    BY <2>2 DEF Listed
  <2>5. \A d \in Client : d # c => \A id \in list'[d] \cap DOMAIN rooms :
          rooms[id].public /\ Fits(d, mode'[d], rooms[id])
    BY <2>3 DEF ListInv
  <2>6. \A d \in Client : \A id \in list'[d] \cap DOMAIN rooms :
          rooms[id].public /\ Fits(d, mode'[d], rooms[id])
    BY <2>4, <2>5
  <2> QED
    BY <2>1, <2>6 DEF ListInv, Fits
<1>2. ASSUME NEW c \in Client, Register(c) PROVE ListInv'
  <2>1. \A id \in DOMAIN draft[c] : \A d \in Client : id \notin list[d]
    BY DEF Typed, DraftInv, DraftPart
  <2>2. \A id \in DOMAIN rooms' : \/ id \in DOMAIN rooms /\ rooms'[id] = rooms[id]
                                  \/ id \in DOMAIN draft[c]
    BY <1>2 DEF Register
  <2>3. list' = list /\ mode' = mode /\ build' = build
    BY <1>2 DEF Register, clientVars
  <2> QED
    BY <2>1, <2>2, <2>3, ListKept
<1>3. ASSUME NEW id \in DOMAIN rooms, NEW n, Resize(id, n) PROVE ListInv'
  <2>1. /\ n \in 1 .. MaxPlayers
        /\ \A z \in DOMAIN rooms : rooms'[z] \in {rooms[z], [rooms[z] EXCEPT !.size = n]}
    BY <1>3 DEF Resize
  <2>2. \A z \in DOMAIN rooms : rooms[z] \in Room
    BY DEF Typed, RoomsOK
  <2>3. \A z \in DOMAIN rooms : /\ rooms'[z].public = rooms[z].public
                                /\ rooms'[z].mode = rooms[z].mode
                                /\ rooms'[z].build = rooms[z].build
    BY <2>1, <2>2, OnlySizeChanges
  <2>4. DOMAIN rooms' = DOMAIN rooms /\ UNCHANGED <<list, mode, build>>
    BY <1>3 DEF Resize, handlerVars, clientVars
  <2> QED
    BY <2>3, <2>4, ListKept
<1>4. ASSUME NEW c \in Client, Answer(c) \/ OwnerLeaves(c) \/ Close(c) PROVE ListInv'
  <2>1. \A id \in DOMAIN rooms' : id \in DOMAIN rooms /\ rooms'[id] = rooms[id]
    BY <1>4 DEF Answer, OwnerLeaves, Close, Without
  <2>2. \A d \in Client : list'[d] = {} \/ (list'[d] = list[d] /\ mode'[d] = mode[d])
    BY <1>4 DEF Answer, OwnerLeaves, Close, Typed, ListOK, FlagsOK, handlerVars
  <2>3. build' = build
    BY <1>4 DEF Answer, OwnerLeaves, Close, clientVars
  <2> QED
    BY <2>1, <2>2, <2>3, ListKept
<1>5. CASE UNCHANGED <<rooms, list, mode, build>>
  BY <1>5 DEF ListInv, Fits
<1> QED
  BY <1>1, <1>2, <1>3, <1>4, <1>5
  DEF Next, Queue, Connect, HostMatch, HostPrivate, HostParty, Create, MemberJoins, MemberLeaves,
      vars, handlerVars, clientVars

(* Whatever its client searched for, hosted or cancelled before, a match    *)
(* is offered to those only who search for the playlist its host queues for *)
(* or has just searched for, and to no client of another build              *)
(* (session_manager.py:2127-2138, 2481-2490).                               *)
THEOREM OffersAreFitting == Spec => []OffersFit
<1>1. Init => FlagInv /\ HonestInv /\ ListInv
  BY DEF Init, FlagInv, HonestInv, ListInv, NoRooms
<1>2. Typed /\ FlagInv /\ HonestInv /\ ListInv /\ [Next]_vars => FlagInv' /\ HonestInv' /\ ListInv'
  BY FlagNext, HonestNext, ListNext
<1>3. FlagInv /\ HonestInv /\ ListInv => OffersFit
  BY DEF HonestInv, Honest, ListInv, OffersFit, Fits
<1> QED
  BY <1>1, <1>2, <1>3, TypedInit, TypedNext, PTL DEF Spec
=============================================================================
