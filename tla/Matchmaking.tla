----------------------------- MODULE Matchmaking -----------------------------
(***************************************************************************)
(* Find-match in session_manager.py: the search flags a connection's       *)
(* handler keeps, the rooms a RoomCreate registers as public or private,   *)
(* and the list of public rooms a search is answered with.                 *)
(*                                                                         *)
(* What SessionRooms has in detail is one step here: members come and go,  *)
(* and a room is retired when its owner leaves it or loses its connection. *)
(*                                                                         *)
(* A client has a game object and a party object.  Searches and creates    *)
(* carry the address of one, from which the server learns the build, and   *)
(* field_0c, which in the game object stays as its last create left it.    *)
(*                                                                         *)
(* A definition without a comment of its own, just before one that has the *)
(* same parameters, is a mutant of it.                                     *)
(***************************************************************************)
EXTENDS Naturals, FiniteSets

CONSTANTS
  Client,
  BuildsOf,      \* build_of for the objects of each client: one of these
  Playlist,      \* MATCHMAKING_PLAYLISTS
  Sentinel,      \* field_0c of a party, or of a private match
  Absent,        \* Python's None
  HostsFirst,    \* the clients that may host without a search (01.11)
  Restamps,      \* a private match always stamps field_0c
  MaxPlayers,
  MaxRooms       \* bound: rooms created

ASSUME MatchAssumption ==
  /\ IsFiniteSet(Client) /\ HostsFirst \subseteq Client
  /\ \A b \in BuildsOf : DOMAIN b = Client
  /\ Sentinel \notin Playlist /\ Absent \notin Playlist
  /\ Restamps \in BOOLEAN
  /\ MaxPlayers \in Nat \ {0} /\ MaxRooms \in Nat

VARIABLES
  searching,  \* find_match_searching of a connection's handler
  mode,       \* find_match_mode
  at,         \* "idle", "answer" (the list is made), "create" (the reply is
              \* being sent, the room not yet registered), "gone"
  list,       \* the rooms in the answer
  draft,      \* the room being created, by its id
  rooms,      \* active_rooms: id -> room
  made,       \* ids minted so far
  queue,      \* the playlist a client's player queues for, or Absent
  field,      \* field_0c of its game object
  build,      \* build_of its objects
  asked       \* history: the playlist of its last search, until a create

handlerVars == <<searching, mode, at, list, draft>>
clientVars == <<queue, field, build, asked>>
vars == <<handlerVars, rooms, made, clientVars>>

(* kind is what the client created, serves the playlist it queued for, and *)
(* after the one of the search before the create: these three are not in   *)
(* the program.                                                            *)
Room == [owner : Client, object : {"game", "party"}, public : BOOLEAN,
         mode : Playlist \cup {Absent}, build : {b[c] : b \in BuildsOf, c \in Client},
         size : 1 .. MaxPlayers, kind : {"match", "private", "party"},
         serves : Playlist \cup {Absent}, after : Playlist \cup {Absent}]

NoRooms == [id \in {} |-> {}]
OwnedBy(c) == {id \in DOMAIN rooms : rooms[id].owner = c}
Without(f, S) == [z \in DOMAIN f \ S |-> f[z]]

-----------------------------------------------------------------------------
Init == /\ searching = [c \in Client |-> FALSE]
        /\ mode = [c \in Client |-> Absent]
        /\ at = [c \in Client |-> "idle"]
        /\ list = [c \in Client |-> {}]
        /\ draft = [c \in Client |-> NoRooms]
        /\ rooms = NoRooms
        /\ made = 0
        /\ queue = [c \in Client |-> Absent]
        /\ field = [c \in Client |-> Sentinel]
        /\ build \in BuildsOf
        /\ asked = [c \in Client |-> Absent]

(* The player asks for a game of a playlist, or for none any more.  The    *)
(* server is not told.                                                     *)
Queue(c, p) ==
  /\ at[c] # "gone" /\ queue[c] # p
  /\ queue' = [queue EXCEPT ![c] = p]
  /\ UNCHANGED <<handlerVars, rooms, made, field, build, asked>>

-----------------------------------------------------------------------------
(* FindMatch.  A host whose own room is on the object it searches with is  *)
(* not answered.                                                           *)
OwnsAny(c) == OwnedBy(c) # {}
LiveHost(c) == \E id \in OwnedBy(c) : rooms[id].object = "game"

AnyBuild(c, p, room) == room.mode = p
Fits(c, p, room) ==
  /\ room.mode = p
  /\ build[c] = Absent \/ room.build \in {Absent, build[c]}

Listed(c, p) ==
  {id \in DOMAIN rooms : /\ rooms[id].public
                         /\ rooms[id].owner # c
                         /\ rooms[id].size < MaxPlayers
                         /\ Fits(c, p, rooms[id])}

Search(c) ==
  /\ at[c] = "idle" /\ queue[c] # Absent
  /\ searching' = [searching EXCEPT ![c] = TRUE]
  /\ mode' = [mode EXCEPT ![c] = queue[c]]
  /\ asked' = [asked EXCEPT ![c] = queue[c]]
  /\ \/ /\ LiveHost(c)
        /\ UNCHANGED <<at, list>>
     \/ /\ ~LiveHost(c)
        /\ at' = [at EXCEPT ![c] = "answer"]
        /\ list' = [list EXCEPT ![c] = Listed(c, queue[c])]
  /\ UNCHANGED <<draft, rooms, made, queue, field, build>>

Answer(c) ==
  /\ at[c] = "answer"
  /\ at' = [at EXCEPT ![c] = "idle"]
  /\ list' = [list EXCEPT ![c] = {}]
  /\ UNCHANGED <<searching, mode, draft, rooms, made, clientVars>>

-----------------------------------------------------------------------------
(* RoomCreate: public if field_0c is a playlist, of the mode that was      *)
(* searched for if a search came before, with the search flag used up      *)
(* whatever is created.                                                    *)
Searched(c, f) == searching[c] \/ f \in Playlist
Declared(c, f) == f \in Playlist

FromField(c, f) == IF f \in Playlist THEN f ELSE Absent
ModeOf(c, f) == IF searching[c] THEN mode[c] ELSE FromField(c, f)

NewRoom(c, kind, f) ==
  LET object == IF kind = "party" THEN "party" ELSE "game" IN
  [owner |-> c, object |-> object, public |-> Declared(c, f),
   mode |-> IF object = "game" THEN ModeOf(c, f) ELSE FromField(c, f),
   build |-> build[c], size |-> 1, kind |-> kind,
   serves |-> IF kind = "match" THEN queue[c] ELSE Absent,
   after |-> IF kind = "match" THEN asked[c] ELSE Absent]

StillSet(c) == searching[c]
UsedUp(c) == FALSE

Create(c, kind, f) ==
  /\ at[c] = "idle" /\ made < MaxRooms
  /\ at' = [at EXCEPT ![c] = "create"]
  /\ made' = made + 1
  /\ draft' = [draft EXCEPT ![c] = [id \in {made + 1} |-> NewRoom(c, kind, f)]]
  /\ searching' = [searching EXCEPT ![c] = UsedUp(c)]
  /\ field' = [field EXCEPT ![c] = IF kind = "party" THEN @ ELSE f]
  /\ asked' = [asked EXCEPT ![c] = Absent]
  /\ UNCHANGED <<mode, list, rooms, queue, build>>

(* What a client creates.  A match is hosted for the playlist it queues    *)
(* for: after a search for it, and then perhaps with an old field_0c, or   *)
(* on newer builds without one.                                            *)
HostMatch(c) ==
  /\ queue[c] # Absent
  /\ \/ /\ c \in HostsFirst
        /\ Create(c, "match", queue[c])
     \/ /\ searching[c] /\ mode[c] = queue[c]
        /\ \E f \in {queue[c]} \cup ({field[c]} \cap Playlist) : Create(c, "match", f)
HostPrivate(c) ==
  /\ queue[c] = Absent
  /\ \E f \in {Sentinel} \cup (IF Restamps THEN {} ELSE {field[c]}) : Create(c, "private", f)
HostParty(c) == Create(c, "party", Sentinel)

(* After the reply.                                                        *)
Register(c) ==
  /\ at[c] = "create"
  /\ rooms' = [id \in DOMAIN rooms \cup DOMAIN draft[c] |->
                 IF id \in DOMAIN rooms THEN rooms[id] ELSE draft[c][id]]
  /\ at' = [at EXCEPT ![c] = "idle"]
  /\ draft' = [draft EXCEPT ![c] = NoRooms]
  /\ UNCHANGED <<searching, mode, list, made, clientVars>>

-----------------------------------------------------------------------------
(* The rest of a room's life, as SessionRooms has it.  The members of a    *)
(* room that is never listed are not counted.                              *)
Resize(id, n) == /\ rooms[id].public /\ n \in 1 .. MaxPlayers
                 /\ rooms' = [rooms EXCEPT ![id].size = n]
                 /\ UNCHANGED <<handlerVars, made, clientVars>>
MemberJoins(id) == Resize(id, rooms[id].size + 1)
MemberLeaves(id) == Resize(id, rooms[id].size - 1)

(* The owner leaves its room.                                              *)
OwnerLeaves(c) ==
  /\ at[c] = "idle"
  /\ \E id \in OwnedBy(c) : rooms' = Without(rooms, {id})
  /\ UNCHANGED <<handlerVars, made, clientVars>>

FirstOwned(c) == {id \in OwnedBy(c) : \A other \in OwnedBy(c) : id <= other}
ClosedWith(c) == OwnedBy(c)

(* The connection ends, also between the reply to a create and the         *)
(* registration, when the reply cannot be sent.  Its handler's flags and   *)
(* the player's queue end with it: the next connection finds them as Init  *)
(* has them.                                                               *)
Close(c) ==
  /\ at[c] # "gone"
  /\ at' = [at EXCEPT ![c] = "gone"]
  /\ rooms' = Without(rooms, ClosedWith(c))
  /\ list' = [list EXCEPT ![c] = {}]
  /\ draft' = [draft EXCEPT ![c] = NoRooms]
  /\ searching' = [searching EXCEPT ![c] = FALSE]
  /\ mode' = [mode EXCEPT ![c] = Absent]
  /\ queue' = [queue EXCEPT ![c] = Absent]
  /\ asked' = [asked EXCEPT ![c] = Absent]
  /\ UNCHANGED <<made, field, build>>

Connect(c) ==
  /\ at[c] = "gone"
  /\ at' = [at EXCEPT ![c] = "idle"]
  /\ UNCHANGED <<searching, mode, list, draft, rooms, made, clientVars>>

Next ==
  \/ \E c \in Client : \/ \E p \in Playlist \cup {Absent} : Queue(c, p)
                        \/ Search(c) \/ Answer(c)
                        \/ HostMatch(c) \/ HostPrivate(c) \/ HostParty(c) \/ Register(c)
                        \/ OwnerLeaves(c) \/ Close(c) \/ Connect(c)
  \/ \E id \in DOMAIN rooms : MemberJoins(id) \/ MemberLeaves(id)

Spec == Init /\ [][Next]_vars

(* A handler goes on, and a client that queues keeps searching.            *)
FairSpec == Spec /\ \A c \in Client : WF_vars(Search(c) \/ Answer(c) \/ Register(c))

-----------------------------------------------------------------------------
(* The type invariant.  Ids are not used twice, and every room has an      *)
(* owner that is connected.                                                *)
TypeOK ==
  /\ searching \in [Client -> BOOLEAN]
  /\ mode \in [Client -> Playlist \cup {Absent}]
  /\ at \in [Client -> {"idle", "answer", "create", "gone"}]
  /\ made \in 0 .. MaxRooms
  /\ DOMAIN rooms \subseteq 1 .. made
  /\ \A id \in DOMAIN rooms : rooms[id] \in Room /\ at[rooms[id].owner] # "gone"
  /\ \A c \in Client :
       /\ list[c] \subseteq 1 .. made
       /\ at[c] # "answer" => list[c] = {}
       /\ Cardinality(DOMAIN draft[c]) = (IF at[c] = "create" THEN 1 ELSE 0)
       /\ DOMAIN draft[c] \cap DOMAIN rooms = {}
  /\ build \in BuildsOf
  /\ queue \in [Client -> Playlist \cup {Absent}]
  /\ asked \in [Client -> Playlist \cup {Absent}]
  /\ field \in [Client -> Playlist \cup {Sentinel}]

(* No party and no private match is in a list, whatever its client         *)
(* searched for, hosted or cancelled before (session_manager.py:2126).     *)
OnlyMatchesListed ==
  \A c \in Client : \A id \in list[c] \cap DOMAIN rooms : rooms[id].kind = "match"

(* Nobody is offered a match of a playlist other than it searches for: it  *)
(* is the one the host's player queues for, or the one of the search that  *)
(* came just before the create.  The second is another one when a host     *)
(* that does not search for this match had searched before; an older       *)
(* search, one that an earlier create used up, never counts, nor what an   *)
(* old field_0c says.  And nobody is offered a match of another build that *)
(* is known (session_manager.py:2127-2138, 2481-2490).                     *)
OffersFit ==
  \A c \in Client : \A id \in list[c] \cap DOMAIN rooms :
    /\ rooms[id].kind = "match" => mode[c] \in {rooms[id].serves, rooms[id].after}
    /\ Absent \notin {build[c], rooms[id].build} => build[c] = rooms[id].build

(* A player that keeps queueing for a playlist is offered a room of every  *)
(* host that keeps one it can join (session_manager.py:2476).              *)
Waits(c, d) ==
  /\ at[c] # "gone" /\ queue[c] # Absent
  /\ \A own \in OwnedBy(c) : rooms[own].object = "party"
  /\ \E id \in Listed(c, queue[c]) : rooms[id].owner = d
Offered ==
  \A c \in Client : \A d \in Client \ {c} :
    Waits(c, d) ~> ((\E id \in list[c] : id \in OwnedBy(d)) \/ ~Waits(c, d))
=============================================================================
