# Verification of the Factions server

This directory holds TLA+ models of the server in `src/server/` (the replacement
backend for the online mode of a PlayStation 3 game), the TLC configurations that
check them on small instances, and theorems about them that TLAPS checks for every
instance. Most of the effort goes where the difficulty lies: `session_manager.py`, whose
handler threads all work on one room registry and control each other's refresher threads. The
other servers, the log they write and the supervisor that starts and stops them have a module each.
`PROJECT.json` maps each definition to the lines it models, and lists the runs, the hazards, the
findings and the theorems.

    tlc -workers 2 -config authority.cfg MCSessionRooms     # any .cfg, with its module (section 3)
    tlapm SessionRoomsProofs.tla                            # any module whose name ends in Proofs

## 1. Inventory

| Component | Source (`src/server/`) | State | Operations | Status |
|---|---|---|---|---|
| Room registry | `session_manager.py` | `active_rooms` (entry per room: owner connection, `conns`, `members`, `next_member_id`, `owner_member_id`, `max_players`, kind), `member_blobs`, `_public_room_seq`, under `rooms_lock` | 0x12f RoomCreate, 0x130 RoomJoin, 0x133 RoomLeaving, 0x137 Kickout (by a member, or the game's automatic one), 0x13c Promote, 0x13a SetPartyData, the `finally` block of a connection | `SessionRooms`; the time gates of the automatic Kickout and the relay of 0x13a are abstracted |
| Member refreshers | `session_manager.py` 1389-1571 | `refreshers` (per connection: generation and stop event), `_refresher_gen`, one thread per generation, under `refresher_lock` | start, stop, periodic re-send to a solo host | `MemberRefresher` (which room is re-sent: `SessionRooms`) |
| Matchmaking | `session_manager.py` 0x135, 0x136, 1798-2157, 2428-2512 | search flag, mode and build per connection; public flag, mode and build per room | RoomSearch, FindMatch, the public part of RoomCreate | `Matchmaking` |
| Dead-peer removal | `session_manager.py` 1285-1368 | `last_inbound_ts`, join times | the game's late Kickout is taken as evidence that a peer is dead, if both clocks agree | the removal: `SessionRooms`; the clocks: not modelled |
| Shutdown drain | `session_manager.py` 2896-3021 | a snapshot of all rooms | tell every member on SIGTERM or SIGINT | `Shutdown` |
| Accept loop | `session_manager.py` `serve`, `main`, and the same loop in the other servers | handler slots (semaphore) | accept, serve, release | `StubServers` |
| Other requests | `session_manager.py` 2841-2866: SetRoomFlags, SetRoomDataBlock, Ping, Hello | none | echo to the sender, or nothing | not modelled: no state |
| Builders | `session_manager.py` | none | byte layout of the messages | a message is what it says of a room |
| HTTP gateway | `http_gateway.py` | files under `SERVED_DIR`, `_upstream_fail_cache` | GET, PUT, fetch on a miss | `HttpGateway`, without `safe_join` and the graph stub |
| Ticket server | `ticket_server.py` | score database, one lock | hello, line services (leaderboard update, get, range), migration of older schemas | `ScoreStore`, `LineServices`, without presence and the ticket exchange |
| Supervisor | `run_all.py` | `_procs` | start, watch, terminate, wait, kill | `Shutdown` |
| Rotating log | `lib/rotating_log.py` | open file, `_size`, backups | open, write, rotate, cap of a block | `RotatingLog` |
| Location and voice servers | `location_server.py`, `voice_server.py` | one log block per connection | reply, linger, log | `StubServers` |
| Graph stub | `facebook_graph.py` | none | one reply per request | not modelled: no state |
| Ciphers, archive formats | `lib/*_cipher.py`, `lib/*_crypt.py` | none | encode, decode | not modelled: bit-level functions, tested against captures |
| Client patches, schemas, notes, tools | `src/patches`, `src/protos`, `src/research`, `src/tools` | | | external: they say what the client sends, from which the guards of requests are read |

**How the parts meet.** The supervisor starts five servers and stops all when one exits or when it is
told to. A client looks the servers up (location server), fetches a ticket and its scores (ticket server),
downloads and uploads files (gateway), and opens
one TCP connection to the session manager. There a handler thread reads one message at a time from that
connection and, working on it, sends to the connections of *other* clients too. Each thread
takes `rooms_lock` several times per message and sends between the holds, so everything
a handler read in one hold may be out of date in the next. A refresher thread per connection sends to
the host of a room with no other member. When a connection ends, the thread's
`finally` block retires the rooms it created and removes it from those it joined. On a signal the main
thread takes all rooms out of the registry and tells their members, while the handlers go on. Every server has the same
accept loop with a bounded number of handler threads, and a log that rotates.

**What is hard here.** (a) A join is four critical sections with socket writes between
them: capacity gate, roster copy, registration with the copied roster. (b) Kickout and Promote
check the sender with the lock released and act later. (c) The kicker's thread removes,
and makes a new party for, *another* connection, whose own thread may be ending. (d) The
membership of a room is kept four times: `conns`, `members`, the blob cache, and what each client
was told. (e) A connection hosts several rooms and has one refresher. (f) Sends
fail at any point, for the sender or for a bystander. (g) Whether a room is listed depends on a field the client's game
object keeps from room to room and on a flag the handler keeps from search to search. (h) Signals
interrupt the supervisor anywhere, also in the handler of the previous signal, and a drain takes time that its
parent may not give it. (i) Gateway handlers write and read files in place with no lock between them. (j) The
migration of the score table and the rotation of the log are many file operations, and the process may die
between any two.

**What correct means, per component.** Registry: member ids are unique for the life of a
room (two clients with one id tear the session down); only the owner kicks or promotes;
capacity holds; roster, connections, blobs and clients agree between messages; a dead
connection leaves nothing behind, and eventually so; under every interleaving, each request has the effect of one step on
who is in a room and who leads it. Refreshers: only a registered game room with one
member is re-sent; a generation that was cancelled or replaced sends at most what it had already decided to
send, and ends. Matchmaking: only open matches of the playlist and build searched for are offered, they are offered, and never to a
host. Drain: everybody in a room is told, unless the drain is cut. Accept loop: a slot
is free or held by a running handler. Gateway: a complete upload is what is read back; what may not be uploaded is never
altered; a file that exists is found. Score store: what was committed is kept, over restarts and migrations, and replies are
consistent. Log: an unbroken recent history in bounded space. Supervisor: it never exits before its children, and it does exit.

## 2. Modules

| Module | Content |
|---|---|
| `SessionRooms` | The registry, its handler threads, the connections and what the clients have been told; type invariant, safety and liveness properties, among them `CapacityGate`, a comment that holds of one message at a time only. |
| `RoomService` | What the registry promises, a request at a time. |
| `SessionRoomsService` | The refinement mapping from `SessionRooms` to `RoomService`. |
| `MCSessionRooms` | The instance TLC checks: the above with a symmetry set. |
| `SessionRoomsProofs`, `SessionRoomsServiceProofs` | Theorems about the three and their proofs: types, ids and kicks in the first; the refinement, ended connections, and what one message at a time adds in the second. |
| `MemberRefresher`, `MCMemberRefresher`, `MemberRefresherProofs` | The registry of refreshers, the handlers that start and stop them, and the threads; its instance; theorems. |
| `Matchmaking`, `MCMatchmaking`, `MatchmakingProofs` | Searches, the public part of RoomCreate and FindMatch, with the client's queue and the field its game object keeps; its instance; theorems. |
| `Shutdown`, `MCShutdown`, `ShutdownProofs` | The supervisor, its children, and the drain of the session manager, composed; its instance; theorems. |
| `RotatingLog` | The log on disk, one file operation at a time. |
| `StubServers`, `MCStubServers`, `StubServersProofs` | `RotatingLog` composed with the accept loop and the handlers of three servers; its instance; theorems. |
| `HttpGateway`, `MCHttpGateway`, `HttpGatewayProofs` | The gateway's handlers on one key; its instance; theorems. |
| `ScoreStore` | The database: migration, statements, codec of the slots. |
| `LineServices`, `MCLineServices`, `LineServicesProofs` | `ScoreStore` composed with the handlers that use it; its instance; theorems about both. |

Definitions that change a mapped definition the way a plausible bug would stand just before it, with the same parameters; no
specification uses them, and `PROJECT.json` says which property each breaks.

`SessionRooms` treats a start or stop of a refresher as one step and keeps only which room is re-sent;
`MemberRefresher` is the same calls at the grain of `refresher_lock`, for handlers that call them in any order. `Matchmaking` treats what
`SessionRooms` does to a room as one step and keeps only its size. `Shutdown` keeps of the handler threads that a room is
registered after its reply.

### State of `SessionRooms`

| Variable | Code |
|---|---|
| `sock[c]` | the socket of connection `c`: `up`, `lost` (the peer is gone) or `closed` by this process |
| `pc[c]`, `job[c]` | where the handler thread is between two critical sections or sends, and its local variables |
| `seq` | `_public_room_seq`, shared by the three `synth_*_room_id` functions |
| `active` | keys of `active_rooms`; a key is (creator's connection, room id), and room ids are unique here, so the id stands for it |
| `rooms[r]` | the entry: `anchor` is `"conn"`, `conns[c]` the member id of a connection (0 if absent), `members` the ids of the roster, `owner` is `owner_member_id`, `next` is `next_member_id`. An entry outlives its removal from `active`, as it does in the code while a thread holds a reference |
| `blobs` | keys (room, member id) of `member_blobs` |
| `refresh[c]` | the room the refresher registered for `c` re-sends, 0 if none |
| `view[c][kind]` | external: the client's party object and game object, with room id, roster and owner as the messages set them |

### Actions of `SessionRooms`

A handler is cut where the code releases the lock or writes to a socket. Everything it does
in between is one action.

| Handler | Actions in order |
|---|---|
| 0x12f RoomCreate | `Create` (mint, blob), `CreateSend` (reply, refresher), `CreateRegister` |
| 0x130 RoomJoin | `Join` (lookup), `JoinGate` (capacity, member id), `JoinSnapshot` (blob, copies), `JoinSend` (members first; a dead host purges the room; a dead joiner ends its thread), `JoinRegister` (copied roster, refreshers) |
| 0x133 RoomLeaving | `Leave` (retire), `CloseRoom` for the retired room, `Depart`, `TellDeparture` per room, then `SeedSend`, `SeedRegister` if a party was left |
| 0x137 Kickout, from a client in a party | `Kick` (lookup), `KickSend` (owner check; 0x138 to the target), `Depart`, `TellDeparture`, `SeedSend`, `SeedRegister` |
| 0x137 Kickout, automatic | `LateKick`, `Depart`, `TellDeparture` |
| 0x13c Promote | `Promote` (lookup), `PromoteCheck` (owner check, without the lock), `PromoteSet`, `PromoteSend` |
| 0x13a SetPartyData | `SetPartyData`, `CacheData` |
| end of a connection | `Finally` (retire everything), `CloseRoom` per room, `Depart`, `TellDeparture`, close; or `CloseRaises`: a log write raises in the middle of a closing, and the rest is skipped |
| the client | `Drop`: the peer is gone, silently |

`Sends(c)` is the outcome of a `sendall`: it succeeds while the peer is there, may do either once the peer
is gone (the kernel may not know yet) and fails on a closed socket. Failures are ignored, or raised,
exactly where the code ignores or raises them. A log write that raises is modelled where it loses something, in
`close_room_and_notify` (`"raise"` in `Ops`); elsewhere in a handler it ends the connection, as a failed send does.

### `RoomService` and its refinement mapping

The abstract state is the open rooms, each with its creator, who is in it and who leads it (`open`), the connections that are gone (`gone`), and
per connection the request that is about to take effect (`doing`). Only the leader of a room can be about to remove another one from it or to pass the lead on (`Begin`), and each request is enacted in one step: `Open`, `Enter`, `Part` (or
`Lapse`, when a raising log cut it), `Expel` and `Pass` (only by the leader of that moment, or by one that led when it began and is gone itself since), `Remove` (only of one that is gone), `Retire`, `Abandon` (of a room whose creator is gone), `Vanish`.

`SessionRoomsService` maps `open` to the entries of `active` (a member is a connection in `conns`, a leader one that
holds the id in `owner`), `gone` to the sockets that are not up, and `doing` to what a thread at one of the labels before
a change of the registry has decided (`Doing`): the room it will register, the room it will join, whom it removes from where, or in which room it hands the lead on. Everything
else a handler does is a stutter: looking up, sending, caching.

The abstraction keeps what the interleavings do *not* break. A join that overlaps a departure brings a
roster entry back, but not the connection; a promoted owner that leaves leaves the room without a leader, and nobody
gets to lead it by accident; a room that is retired under its members is one of the retiring connection's own.

### `MemberRefresher`

| Variable | Code |
|---|---|
| `gen`, `reg[k]` | `_refresher_gen[0]`; the generation in `refreshers` for connection `k`, 0 if none |
| `key[g]`, `at[g]` | the connection generation `g` sends to; where its thread is |
| `stopped` | generations whose `stop_event` is set |
| `call[p]` | where handler thread `p` is in `stop_member_refresher` or `start_member_refresher`: the connection, the entry it took out (`prev`) and whether a refresher will be started |
| `closed` | connections closed by their `finally` block |
| `late[g]` | history: how often `g` sent while it was not registered (counted up to 2) |

`Pop` and `SetPrevious` are `stop_member_refresher`, which takes the entry out under the lock and sets its event after the release;
a start goes on with `Register` when the room is a game with one member. `SetRoomEvent` is a handler that sets the event of a room
directly (as `close_room_and_notify` does), so `Register` may be given an event that is set already. `CloseConn` is the end of a connection. The thread is `Wake` (event set), `Tick` (interval over: the generation
check), `Push` or `PushFails` (no lock held), and `Exit` (its `finally`, which deletes only its own entry).

### `Matchmaking`

| Variable | Code |
|---|---|
| `searching`, `mode` | `find_match_searching`, `find_match_mode` of a handler |
| `at`, `list`, `draft` | where the handler is: idle, about to send an answer with this list, or between the reply to a create and the registration of this room; or its connection is gone |
| `rooms`, `made` | the entries of `active_rooms`, by id, with `public`, `mode`, `build` and the object they are on; ids minted |
| `queue`, `field` | external: the playlist the player queues for, and field_0c of the game object |

`Search` (flags, and the list unless the client is a live host), `Answer`, `Create` by way of `HostMatch`, `HostPrivate` and `HostParty`
(what a client may create in which state, from the schemas), `Register`, `MemberJoins`, `MemberLeaves`, `OwnerLeaves`, `Close`, `Connect`. `build` is `build_of` for the objects of a
client, or none for one the server does not know. `asked` and the fields `kind`, `serves` and `after` of a room are history: the playlist of the search since the last create; whether the player meant a match, for
which playlist, and which search came just before.

### `Shutdown`

The supervisor is `Popen`, `Record` (the append to `_procs`), `Notice` (a child has exited), and the signal handler as `Terminate`, `Await`, `Kill`, which
`Signal` starts, also when it is already under way. `Hit` is a signal at a set of children: at one, from the supervisor, or at
all, which is what Ctrl-C does to the process group. The manager is `Booted` (it listens and has installed its handlers), then on a signal drains: `CloseRoom`, `Tell` per member (or `LogRaises`: a log write about that member raises, in the `except` too, so the others of its room are passed over and the drain goes on with the next room; `lost` keeps them), `Drained`; a
second signal ends it (`os._exit`). The handler threads go on: `Create`, `Register`, `Join`, `LeaveRoom`. `GoStale` is a connection that takes nothing
any more; a notification to it costs a time-out, and `Patience` is how many of those fit into the supervisor's wait. `Fault` is a child that dies or hangs.

### `RotatingLog` and `StubServers`

`files` are the generations on the disk as sequences of numbered entries with a length; `fp`, `size` are the object's; `at` is how far `_rotate` has got. `StartRotation`, `MoveGeneration`, `Reopen` are its
file operations, `MoveRaises` and `ReopenRaises` their failures, `WriteRaises` a write that the handle refuses (the text is lost, or stays in its buffer and goes out later, not counted in `size`), `LogRestart` what a new process finds.
`undone` counts the rotations that were given up or cut half way, `unsized` what is on the disk and not in `size`. `StubServers` adds the accept loop (`acc`, the semaphore `free`, the kernel's `backlog`),
a handler per connection (`st`, `talk`), and the lock of the log. One module stands for three processes (`server`), which differ in when they log: the location server and
the voice server once, after the slot is given back; the session manager as it goes, with the slot still held, so that a failing log must not leak it. A peer may go on talking for ever: `talk` only counts up to `MaxTalk`, and a handler past it goes on receiving (the session manager's stays where it is then, since every message adds to its log).

### `HttpGateway`

Requests for different keys share nothing but the handler slots, so a behaviour is about one key (`key`): an upload key, an asset, or a file larger than `MAX_UPSTREAM_BYTES`. `file` is what is on the disk, as blocks
named after the upload or the host they come from: the client names the host in its Host header, any of `Hosts` (the allowed ones), another one, or none, and what is fetched is stored under the path alone.
A GET is `Get`, `Lookup`, then on a miss `CheckFailures`, `Fetched` (the body, or as much of it as came before the host ended it, since `resp.read` with an amount does not raise for a short one), `FetchFails` (remembered for that host) or `FetchRaises`
(an error that is not caught: the handler ends), `Open`, `WriteFile`, and `ReadFile`, `Answer`; a PUT is `Put`, `Open`, `WriteFile`, `Answer`. `open(path, "wb")`
truncates and the body is written from offset 0, so two writers overlap as they do in the code. `OpenRaises` and `WriteRaises` are a disk that refuses; `Restart` may come between any two steps.

### `ScoreStore` and `LineServices`

`disk` is the committed database, `mem` what the connection sees, `open` whether a transaction is open: `sqlite3` opens one before INSERT and UPDATE and not before CREATE and ALTER. `phase` is how far the migration has got, one action per
statement, or per transaction where statements differ only in the column. `Decode` and `Encode` are the codec of the score slots. `LineServices` gives each connection a handler; a command is a sequence of operations on the store (`todo`), each of which takes `lock`
for as long as the code does: `ExecuteUpdate` and `Commits` (or `Raises`), `LookupRow` and `LookupRank`, `CountTotal`, `ReadPage`; or a statement is `Refused`, as for an integer that does not fit into 64 bits. `Restart` kills the process at any point, in the middle of the migration as well. The columns
`AddColumns` adds are committed one by one in the code; until the last is there the model's database is what it was, for a new column is zero and a restart adds the rest.

### What is assumed of clients, and left out

Clients are external and modelled from the notes and schemas: a client creates when its object is idle, joins when
it is idle or in a party that it has to itself, leaves what it is in (or crosses
its RoomLeaving with a RoomClosed), kicks and promotes only in parties. It processes
what it is sent in order, at the time of the send, but for a client that is kicked: it answers with a RoomLeaving of its own, which may reach the server at any time until its kicker's thread is through with it (`Evicted`). One that comes later is left out: it finds no room of that id, and can only retire a public room of the client's own and stop its refresher, as the earlier one can. A connection is not reused;
a client that reconnects is another element of `Conn` (in `Matchmaking` and the other servers it is the same client with a new connection). A party's capacity, ids and playlist
are data; blobs are their keys; a peer that is silent long enough for the automatic Kickout is one that is lost.
Lookups that miss and are answered with nothing or with a fixed reply change nothing and are
left out. The quarter-second pause of RoomCreate is a point where threads interleave, as any other.

## 3. Runs

Two connections make every pair of handlers interleave, and the hazards of the registry are races of two threads;
three are needed where a bystander matters (owner, target and a third member; host, joiner and a member).
All runs of `MCSessionRooms` bound `Conn` (two or three), `MaxRooms` (room ids minted), `MaxMid`
(member ids in a room) and `MaxBusy` (handlers in the middle of a message). `CapInputs` holds
the capacities a create may carry, among them 3 with `RetailMax` 2, so that the clamp is
exercised, and 0, which the code reads as "the default". With `RetailMax` 2 a room is full at two
members, so three clients meet the gate. Two member ids beyond the creator's allow a re-join after a departure. Requests are enabled only while the bounds leave room for
what handlers under way may still mint or admit, so no handler is ever stuck half way. Deadlock is not checked where clients may
stop asking and a bound ends every behaviour.

| Run | Module | Setting | Shows |
|---|---|---|---|
| `authority` | `MCSessionRooms` | 3 clients, parties, 2 handlers at a time; create, join, kick, promote | `TypeOK`; `UniqueMemberIds`: no id is held by, or promised to, two connections; `KickAuthority`: a sender that passed the owner check and is still connected is still the owner when the removal happens |
| `parties` | `MCSessionRooms` | 3 clients, 3 parties, one message at a time, all party operations | `ClientAgreement`: a client that believes it is in a registered room is in it and sees all its members; `ClosedIsTold`: when a room has been closed, nobody else believes to be in it; `BlobsOfMembers`: no blob of a member that has left |
| `games` | `MCSessionRooms` | 3 clients, public and private games, one message at a time, peer loss and automatic Kickout | `CapacityGate`: no roster exceeds the capacity; `ServerAgreement`: whoever is connected to a room is in its roster, and the roster of a match holds nobody else; `KeepaliveTarget`: a refresher serves a registered game with its creator alone in it |
| `endings` | `MCSessionRooms` | 2 clients with a party and a game, 2 handlers at a time, join, leave, kick, promote, peer loss, log writes that raise; fair threads | `GoneMeansGone`: a closed connection is in no registered room (one exception, see gaps); `LostIsFinished`: the thread of every lost connection comes to its end; `ImplementsRoomService` |
| `refresher` | `MCMemberRefresher` | one connection, two handlers that start and stop at will, three generations; fair threads | `RegisteredRuns`, `StaleAtMostOnce`, `EndsItsOwn`, `SupersededEnds`, `ClosedIsQuiet`, below |
| `stubs` | `MCStubServers` | each of three servers, 2 clients, 1 slot, 4 connections, blocks of up to 2 with `MaxBytes` 2, 2 backups, 1 crash; fair threads | `SlotsConserved`; `HistoryInOrder`: what is on the disk is one run of consecutive entries; `RecentSurvives`: `Backups` full generations, less one per rotation that was given up, and the last entry as long as these are fewer than the backups; `DiskBound`; `EverybodyIsServed`: unless a peer talks for ever |
| `gateway` | `MCHttpGateway` | 2 handlers, each kind of key, 2 allowed hosts and another one, 2 uploads (whole or cut), downloads that are cut, 1 crash or failure of the disk; fair threads | `UploadsRoundTrip`, `DamageHasACause`, `AssetsAreOriginals`, `NoFalseMiss`, `OriginalArrives`, below |
| `scores` | `MCLineServices` | 2 handlers, 2 players, 3 commands, three schemas to start from, 1 restart, statements and COMMITs that raise; fair threads | `Durable`, `RankInBoard`, `PageCoversTotal`, `SentAsStored`, `Answered`, below |
| `matches` | `MCMatchmaking` | 2 clients (one may host before it searches; the other has an older build or one that is not known), 2 playlists, 2 rooms of 2 players; fair handlers and searchers | `TypeOK`; `OnlyMatchesListed`; `OffersFit`: an offered match is of the playlist searched for and of the same build, where both are known; `Offered`: a match that stays open is offered |
| `shutdown` | `MCShutdown` | 2 children, 3 clients, 2 signals, 1 fault, patience for 2 time-outs, log writes that raise; fair supervisor, children and drain | `NobodyLeft`, `DrainTells`, `DrainHasTime`, `AllDown`, below |
| `capacity_gate` | `MCSessionRooms` | 3 clients, a private game, 2 handlers at a time | violation |
| `private_listed` | `MCMatchmaking` | as `matches`, with a client that keeps field_0c | violation |

The agreement properties relate the server to
what clients were told, or two fields of an entry to each other, which is only meaningful between messages, so `parties` and `games` take one message at a time; the gaps below show
that interleaving does break agreement. `ClientAgreement` speaks of registered rooms: a room can be forgotten with
clients still in it, in the ways listed under gaps, and `ClosedIsTold` says that closing one is not among them.

`refresher`. Two handlers are what an
overlap of two starts takes, and three generations allow a thread that ends late to meet a successor's successor; connections share only the
counter, so one is enough.

- `RegisteredRuns`: what is registered is a running thread of that connection.
- `StaleAtMostOnce`: a generation that is not registered sends at most once more (its check passed just before).
- `EndsItsOwn`: an entry disappears only by a start or stop for its connection or with its own thread, never with a predecessor's that ends late.
- `SupersededEnds`: a generation that is not registered comes to an end, also when two starts overlapped and nobody set its event.
- `ClosedIsQuiet`: nothing stays registered for a closed connection, even if another handler restarts its refresher after the `finally` block stopped it.

`endings`. Promotes let two members lead a room in turn, so that a check and what it is for may have a departure, a promotion or another kick between them; the kicked client's own RoomLeaving races its kicker. The automatic Kickout (`latekick`) is left to `games`.

`stubs`. One slot makes every second connection wait; `MaxBytes` 2 makes every second or third write rotate, so two backups go through several rounds, and the crash, like a failing rename or reopen, may fall between any two file operations. A rotation whose reopening failed has left no file, and every later write rotates again: `Halfway` counts one for each, so `RecentSurvives` says how fast the history goes, and needs no exception.
`EverybodyIsServed` has the hypothesis that no peer talks for ever (`TalksEnd`); the fairness is of the accept loop and of the handlers' own steps only.

`gateway`. Two handlers make each pair of a fetch, an upload and a reader overlap; two uploads, one overtaking the other; two hosts, for two fetches of one path from different ones.

- `UploadsRoundTrip`: a complete upload, stored while no other handler was about to write, is what the key holds until the next upload; in particular a fetch never replaces it.
- `DamageHasACause`: a file that nobody is writing is a whole upload or the whole file of one allowed host, unless the body last written was cut already (by the client, or by the host in the middle of a download), or its write overlapped another, or was cut by the disk or a crash. Fetches of one path from two hosts and the leftovers of longer files are not among the causes.
- `AssetsAreOriginals`: every block of a key outside the allowlist is what some allowed host has there: nothing of an upload, nothing of another host the client names.
- `NoFalseMiss`: "not found" is answered only if the file was absent when the request came and when its fetch came back.
- `OriginalArrives`: if from some time on one host sends a file that fits whole whenever it is asked, and clients go on asking for it there, it arrives, whatever failures of that host or of others were remembered.

`scores`. Two connections make each pair of commands interleave; a look-up of two players against an update of each needs three commands. The schemas are an empty database, one with a legacy blob and tail, and one with unused legacy columns.

- `Durable`: for every player the database holds the last committed update or a later one that was begun, across restarts at any statement, also of the migration.
- `RankInBoard`: a rank counted from zero is less than the number of players.
- `PageCoversTotal`: a page has every row that its window and the total sent with it promise.
- `SentAsStored`: what is sent decodes to what is stored.
- `Answered`: a handler with a command gets done, also when commits raise.

`shutdown`. Two children, since the order of a stuck or slow child and of the manager matters; two signals, since the second one restarts the supervisor's handler and ends the manager's drain; three clients with patience for two.

- `NobodyLeft`: the supervisor does not exit while a child it has recorded is alive.
- `DrainTells`: a drain that ends by itself has told everybody who was in a room when it began, but those whose connection takes nothing, and those whose own room was given up before it came to them because a log write raised.
- `DrainHasTime`: a drain is cut short only for two reasons to stop, or after as many time-outs as the supervisor waits for.
- `AllDown`: one signal, or one child that exits, brings everything down, though a child hangs.

Violations: each checks one sentence of the repository in the smallest setting where the code does something else.
`PROJECT.json` quotes the sentences.

| Run | What happens |
|---|---|
| `capacity_gate` | two joins pass the gate before either registers; the room is over its capacity. It may be so by more than one: the copy a join writes back also brings back members that have made room for the next one |
| `private_listed` | a client hosts a match, abandons it and creates a private match; the playlist is still in the object's field_0c, and the private match is listed |

`matches` has two builds that are known, and one client that is of the same build as the server knows for the other, or of none it knows; `OffersFit` is about every room, also one whose host's search flag came from an abandoned search (`after`). `matches` has `Restamps`, that is, it takes the clients to stamp field_0c with every private match; `OnlyMatchesListed` then holds in every order of searches, hosted, cancelled and private matches.

**Fairness.** `FairSpec` of `SessionRooms` asks for weak fairness of one thread's next step (`Someone`: connections are alike, so any one stands for all, and nothing is assumed of the others) once it is in the middle of a message (the operating
system schedules threads, no lock is held across a wait for another thread, and sends have a time limit), and of
`Finally` for a thread that failed or whose peer is gone (`recv` returns end of stream or an error, or times out after
600 s). Nothing is assumed of clients: no request and no `Drop` need ever happen. `FairSpec` of `MemberRefresher`
asks that a handler in the middle of a start or stop goes on, and that a refresher thread takes its next step: its wait ends after ten seconds, its
send after the socket's time limit. No start, stop or close need ever happen. The other modules follow the same pattern: handler and accept threads run on, receives and fetches come back with data or a time-out, a supervisor's wait and a remembered failure come to their end;
no request, crash, signal or fault need ever happen. Two exceptions: `Offered` is about a client that keeps searching while it queues (the game repeats its searches), and `OriginalArrives` states its condition on the original host and on clients in the property. `threading.Lock` is not fair; `Answered` and `EverybodyIsServed` hold with weak fairness because the commands and connections are bounded, so nobody can be overtaken for ever.

## 4. Gaps seen in the code

Where the code does not keep what one would expect, or what one of its comments says. None of these is assumed away: the properties above are stated so that they hold in spite of them.

Registry:

- A join copies `host['members']` (2285), sends, and assigns the copy back (2382): a member that left in between is in the roster again, with no connection, for good (the comment at 1214 wants "the departed member" to stop being registered).
- A member that moves its party object to another party and comes back is registered under a new id, and nothing takes the old one out of the roster (2380): `ServerAgreement` asks for equal sets in matches only.
- When a promoted leader kicks the creator, `reseed_departed_party` (1182) retires every other party under the creator's connection, which is the one it was kicked from, with its remaining members in it and nobody told. The same happens to the party of a creator that has joined another one and is kicked there, if somebody has joined its own meanwhile.
- `broadcast_member_departure` (1249) does not look at `owner_member_id`: a promoted owner that leaves by 0x133 or dies leaves the room with an owner id nobody has (1311: "owner departure is the close_room_and_notify path").
- A 0x133 for a room the connection only joined falls back to the first public room it owns (2568): leaving somebody's party may close the sender's own game (2563: "Only the room this 0x133 names"), and since `close_room_and_notify` skips the sender (1061), its client goes on believing in that game.
- The rejection of a Kickout (2735) or Promote (2803) formats `room_entry['conns'][id(conn)][0]` outside the lock; if the sender was removed since the lookup this raises `KeyError` and the connection is torn down.
- A joiner whose own reply fails has been announced to members that are never told it is gone, and its blob stays cached (2358); `BlobsOfMembers` is therefore stated of, and proved for, clients that do not vanish.
- A join that finds the host dead forgets the room without telling its other members (2335).
- A join that overlaps the host's departure registers in a forgotten room and revives its refresher (2380, 2390); its client, already answered but not yet registered, is not sent RoomClosed and goes on believing, so that `ClosedIsTold` holds only one message at a time.
- A client that joins after a promotion is told that the creator is the owner (2360).
- A client with its own party that joins another is registered in both (2381).
- A kicked client whose connection ends before the kicker's thread registers its new party leaves that party registered for good (1177): the exception in `GoneMeansGone`.
- Creating a party cancels the refresher of the game the same connection hosts alone (1525).
- A kick between the two critical sections of SetPartyData caches the blob of a member that is gone (2650).
- A create whose reply fails leaves the creator's blob in the cache (2049).
- A log write that raises in `close_room_and_notify` (1077, 1083, 1087) aborts it. In the `finally` block (2885) that skips `broadcast_member_departure` and `conn.close`: the connection stays in the rooms it had joined, and its socket open (`CloseRaises`; `GoneMeansGone` is about closed ones). In a RoomLeaving it ends the connection with the other members untold, the refresher running and the blobs cached, so that the theorems about agreement assume a log that can be written.
- A kicked client answers with a RoomLeaving of its own, which the kicker's thread may overtake. Whichever thread takes the connection out of the room first gives it the new party; a RoomLeaving that comes second names a room the client is not in any more, retires a public room of its own instead (2568), and stops its refresher.
- `last_inbound_ts` is written by the handler that reads from the client, and the same handler sends to other members, with a timeout of 600 s: while it is held up by a peer that takes nothing, pings of its own client stay unread, and after 75 s the automatic Kickout takes a client that pings for a silent one (1362: "refusing to remove a live member").

Refreshers: the generation is checked under the lock and the send comes after it (1559), so a cancelled thread may send a stale roster once (1552: "must never push a stale roster"); `StaleAtMostOnce` is what holds.

Matchmaking: a client that hosts before it searches, with the flag of an abandoned search still set, registers its match under the old search's playlist (2137): `OffersFit` allows the playlist of the search just before the create (`after`) beside the one the host's player queued for (`serves`), and no older one. `is_matchmaking_host` (1898) overwrites what the branch for the party object decided (1844), so a party create with a playlist in field_0c would be public.

Shutdown:

- Ctrl-C sends SIGINT to the children too, and the supervisor's SIGTERM is then the second signal, on which the manager leaves with `os._exit` (2984) in the middle of its drain.
- A signal between `Popen` and the append (run_all.py:86) leaves that child running; `NobodyLeft` is about recorded children.
- Members that take nothing cost two seconds each; more than seven of them exceed the supervisor's 15 s, and the manager is killed. A container runtime may allow less.
- Rooms registered after the drain took its snapshot, and members that join while it runs, are not told.
- A log write that raises while a member is told, and again in the `except` that reports it (1077, 1083), leaves `close_room_and_notify`; the drain goes on with the next room (2956) and ends normally, with the members of that room that came later untold. "Best-effort and exception-guarded" (2915) holds per room, not per member.

Log: the documented bound (rotating_log.py:14) is passed by up to an entry per file, since the size is tested before a write; `DiskBound` is the real one. If the reopening of a rotation fails, there is no file under the path and `size` stays full. Every later write then rotates again: it removes the oldest generation, makes each other one older, and raises at the missing file (45-57), so each write loses a generation until none is left, against "most recent history survives" (12-14), and nothing is logged until a restart. A write of the session manager that raises ends its connection, through the `finally` blocks of `handle` and `serve` (the slot is given back); so does one in its receive loop (1732), which is inside the `try` of 1663.

Slots: a peer that keeps sending holds its slot for ever: the voice server's and the location server's loops and the session manager's (a ping every 30 s against a time-out of 600 s) have no limit. With more such peers than slots the next connection is never served.

Gateway: an upload that arrives incomplete is stored and answered with 200. A download the host ends early is taken for whole (190: `read` with an amount returns what there is) and is served from then on, for good. So is the part of an asset that a crash, or a disk that fills up, leaves in the middle of a write (268, 423). The URL of a fetch is made from the allowed host the client names, and the file is stored under the path alone (409, 422): the file of another allowed host may be cached for a path. A GET beside a writer in place may be sent the truncated or half-written file: no property is about what a reader sees then; two writers of one key may mix contents; an upload made while a fetch of the same key is under way may be overwritten by the original. `settled` and `damaged` tell these cases apart.

Score store: errors of SQLite, and an integer of a command that does not fit into 64 bits, are not caught and end the connection (326: only `IndexError` and `ValueError` are), the latter with an empty transaction left open; a COMMIT that fails may leave the transaction open, so others read rows that are rolled back later with the next failure or restart (`PageCoversTotal` excludes the rows of such a transaction by `joined`). The ranks of one look-up of several names come from different moments. A page may have more rows than the total sent with it. `record_presence` reads the time before it takes the lock, so `last_seen` may go back.

## 5. Proofs

`SessionRoomsProofs` proves, for any finite set of connections and any values of the bounds that satisfy
`BoundsAssumption` (the only assumption; TLC evaluates it in every run):

- `TypeCorrect`: `Spec => []TypeOK`. The invariant is inductive because it also says, in `JobOK`, what a thread holds
  at each point: a minted room wherever it indexes `rooms`, a real member id where it stores one. Without it the step `JoinRegister` could write
  a 0 into the roster.
- `MemberIdsUnique`: `Spec => []UniqueMemberIds`. Inductive together with `TypeOK`. The strengthening over "no two members share an id" is that
  ids promised to joiners in the middle of their four critical sections differ from each other and from those of members, and that all
  are below `next`.
- `KicksAreTheOwners`: `Spec => []KickAuthority`. `KickAuthority` alone is not inductive: another thread could hand the sender another id, or the room another owner.
  The invariant `KickInv` adds that, while a thread is between its owner check and what the check is for, a removal or a new owner (`Ruling`), no other connection holds the owner's id, no joiner is about to register with it,
  and no other thread is past such a check of the same room (`RuleAlone`).
  A Promote passes its check, and a Kickout by a member passes its own, only for the holder of that id, whose thread is busy; the automatic
  Kickout removes only peers that are gone; an id handed out later is a new one. The invariant
  also says which threads remove whom (`who`, `seed`, `all`), for the actions that departures share.

Each preservation proof has one step per action; `Goto`, `GoOn` and the record updates have lemmas of their own.

`MemberRefresherProofs` proves, for any connections, handlers and number of generations (`GenAssumption`: `MaxGen` is a natural number):

- `RefresherTypeCorrect`: `Spec => []TypeOK`.
- `RegisteredAreRunning`: `Spec => []RegisteredRuns`; inductive with the type invariant, since only `Exit` ends a thread and it removes the thread's entry.
- `RegistrationsEndTheirOwn`: `Spec => EndsItsOwn`, an action property, from the type invariant.
- `StaleOnlyOnce`: `Spec => []StaleAtMostOnce`. The count alone is not inductive: nothing in it forbids a second late send. `LateInv` adds that a generation which has sent late
  is not registered and is not about to send. It stays unregistered because `Register` only ever stores `gen + 1`, and it passes no further check because it is unregistered.

`SessionRoomsServiceProofs` proves, under the same assumption and every interleaving,

- `RegistryImplementsService`: `Spec => ImplementsRoomService`, the refinement that `endings` checks for two clients. Three invariants carry it.
  `FreshInv`: a room about to be registered is as it was made, and its thread's own. `WhoInv`: whom a departing thread removes, and why it may. `KickInv`, from `SessionRoomsProofs`: a kick or a promotion still comes from the leader, which is what makes
  it an `Expel` or a `Pass`. With them each action maps to one step of `RoomService` or to none.
- `OneLeaderAlways`: no registered room has two leaders, or one that is no member. No step of the abstract service leaves a room so (the lemma `OneLeaderPromised`); that the handlers do not either is what the refinement adds.
- `EndedAreGone`: `Spec => []GoneMeansGone`. That the connection is in no room is not inductive: the `finally` block takes it out in several critical sections, and other threads register rooms in between.
  `GoneInv` says what each of its points has achieved: once its rooms are retired only parties of its own can be registered again (by a thread that removed it and reseeds it), and once it is taken out of all rooms nobody else can put it back, since only its own thread, which is busy ending, registers it. The socket is closed after that, and not at all if a log write raised before.

and, for `MaxBusy = 1`, that is for any clients, rooms and ids but one message at a time, the properties of `parties` and `games` that interleaving breaks; all but the first also take it that the log can be written (`"raise" \notin Ops`), without which a closing room leaves refreshers, blobs and clients behind:

- `RosterIsBounded`: `[]CapacityGate`. `RosterInv` follows the place a joiner was given through the rest of its handler (`PlaceKept`: the copied roster is the room's with the joiner, and it fits), and says that at most one thread is busy (`OneBusy`), the premise of everything below.
- `KeepalivesAreForLoneHosts`: `[]KeepaliveTarget`. `KeepInv` adds the point between the reply of a create and its registration, when the refresher runs for a room that is not registered; `HostInv` that the creator of a match is in it as its owner as long as it is registered, so that the departure
  that ends a match is always its own, and a departure of anybody else restarts the right refresher.
- `RostersAreWhoIsThere`: `[]ServerAgreement`. A roster entry is orphaned when a connection is registered in a match for a second time. `SeatInv` excludes this by what clients believe: a client in a registered match believes so or is leaving it (`Seated`), and asks for another only if it believes it is in none.
- `ClientsSeeEverybody`: `[]ClientAgreement`, for both kinds of object, with peers that are lost and connections that end. `AgreeInv` follows what each client has been told.
  `Real`: what it believes in was minted, for that kind of object. `Agrees`: whoever believes in a registered room is there, is registering a join the others know of already, or is in its `finally` block; and sees all of its roster. `Heard`: what each point of a handler has told whom. Nobody believes in a room before its creator
  is answered; once a join is announced everybody who believes in the room has the roster that is about to be stored (`JoinTold`); whoever is taken out of one room has been told first; and a departure is announced by an id that is in the roster no more, so that it hides nobody (`StillNext`: apart from the two messages that carry a roster, none makes a client believe in a room it did not believe in, or hides a member).
- `ClosedRoomsAreTold`: `ClosedIsTold`, an action property, from the same invariant: between the retiring of a room and its closing, whoever can be told and believes in it is still among the connections `close_room_and_notify` goes through.
- `BlobsAreOfMembers`: `[]BlobsOfMembers`, if moreover no peer is lost (`"drop" \notin Ops`). `BlobInv`: a blob is of a member, of a joiner between its snapshot and its registration, or of a room that is out of the registry for good (`Retired`).

`MatchmakingProofs` proves, for any clients, playlists, builds and rooms (`MatchAssumption`),

- `MatchmakingTypeCorrect`: `Spec => []TypeOK`. `DraftInv`: a room between its reply and its registration is its handler's alone and in no list.
- `OffersAreFitting`: `Spec => []OffersFit`, whether or not clients stamp field_0c. `FlagInv`: a search flag that is set is of the search since the last create. `HonestInv`: a public match has the playlist its client queued for or that of the search just before; `ListInv`: what is still registered of a list under way is what was searched for.

`StubServersProofs` proves, for any clients, slots, backups and sizes:

- `StubTypeCorrect`: `Spec => []TypeOK` (proved, not run; likewise for the other modules below).
- `SlotsAreConserved`: `Spec => []SlotsConserved`. Inductive with `BacklogOK`: the connections in the backlog are distinct and none of them has begun, so an accept never starts a second handler for one connection.
- `DiskIsBounded`: `Spec => []DiskBound`. `FilesOK` ties `size` to the file it counts, but for what raising writes have left in it (`unsized`), says that what was rotated is full, and that the place the next rename goes to is free; without the last a rename could overwrite a generation.
- `HistoryStaysInOrder`: `Spec => []HistoryInOrder`. `OrderInv` adds that the youngest generation with anything in it ends with the last entry written (`Latest`). Every step of a rotation maps the files after it to the files before it in order (`Origin`), and loses at most the oldest, so a run stays a run.
- `RecentEntriesSurvive`: `Spec => []RecentSurvives`. `HolesOK` counts the generations that are missing and says there are no more than rotations given up or cut half way, not counting the one the rotation under way has just made room for; `LastOK` that something is left as long as these are fewer than the backups, and the youngest of it ends with the last entry (`Latest`). A rotation after a failed reopening is sure to be given up at its last rename, so it counts from its start (`Doomed`).

`ShutdownProofs` proves, for any number of children, clients, signals and faults:

- `ShutdownTypeCorrect`, which says also that children are started in order and that a manager that lives has not come to its end.
- `NobodyIsLeft`: `Spec => []NobodyLeft`. `WaitInv` adds that the children the handler has already waited for are dead, and stay so: the order of the waits does not matter, and a second signal that restarts the sequence loses nothing.
- `DrainTellsAll`: `Spec => []DrainTells`. `DrainInv`: everybody due to be told has been, takes nothing, was passed over after a raising log write, is still to be told of this room, or is in a room the drain has still to visit.
- `DrainsHaveTime`: `Spec => DrainHasTime`, an action property. The supervisor's own signal starts most drains and must not be the one that cuts it. `ReasonInv` counts: a supervisor that stops has had a reason, and one whose handler has still to come to a manager that already drains has had two.

`HttpGatewayProofs` proves, for any handlers, hosts, uploads (`GatewayAssumption`: their names are not those of hosts) and number of crashes and failures of the disk, `GatewayTypeCorrect` and

- `UploadsAreKept` (`UploadsRoundTrip`), `DamageIsExplained` (`DamageHasACause`), `AssetsStayOriginal` (`AssetsAreOriginals`), `FilesAreFound` (`NoFalseMiss`).

They share an invariant. `WriterInv`: handlers that write at the same time know it of each other, and a lone one has the file truncated. `BodyInv`, `FetcherInv`: what a handler is about to write (an upload, or the beginning of one allowed host's file), and that it asks only an allowed host.
`SettledInv`: an upload stored in peace has nobody about to overwrite it. `KnownInv`: a handler that saw the file, or came back to it, answers with it.

`LineServicesProofs` proves, for any finite set of players, any connections, slots and scores, and any older database that `IsDatabase` admits (`TablesAssumption`, `ServiceAssumption`):

- `LineServicesTypeCorrect`: types, and that the lock is held exactly by the handler inside an operation and by at most one.
- `CommittedIsKept`: `Spec => []Durable`. `MigrationInv` says what each phase has achieved: after the first backfill a row with a blob has its slots from it, after the second the slots are all the row stands for, and only then may a legacy column be dropped.
  Neither backfill changes what a row stands for, so a restart may repeat either. Since a reader sees in a row only what it stands for (`Stands`), memory and disk may be at different phases. `HoldsInv` adds that between an execute and its commit the row in memory is the one that was asked for.
- `RanksAreOnTheBoard`: `Spec => []RankInBoard`. While a look-up ranks it holds the lock, and the row it read is still there: the higher rows are a strict subset of the board.
- `RowsAreSentAsStored`: `Spec => []SentAsStored`, from `CodecRoundTrip`: the encoding stops at the last slot that is not zero, which exists by well-foundedness.
- `PagesCoverTotals`: `Spec => []PageCoversTotal`. `PageInv` adds that a command counts before it reads, and that a total counted before is still reached by memory, and by the disk while an update may yet be undone; both fail only when an update joins a transaction left open.

**Only model-checked.** `OnlyMatchesListed`: under `Restamps` it would follow from what the clients are taken to send, and without it is false (`private_listed`). Liveness, which is out of the prover's reach: `LostIsFinished`, `SupersededEnds`, `ClosedIsQuiet`, `EverybodyIsServed`, `OriginalArrives`, `Answered`, `Offered`, `AllDown`.
The six theorems with `MaxBusy = 1` say nothing of overlapping handlers: `capacity_gate` and the gaps show the properties to be false of them.

## 6. Not modelled, and why

- The two thresholds of the automatic Kickout: comparisons of clock readings; the removal that follows them is modelled, for peers that are gone. A peer that is silent for long and then speaks again is therefore not.
- The relay of 0x13a to other members, SetRoomFlags, SetRoomDataBlock, Ping and Hello: messages that change nothing on the server.
- Ciphers, archive formats and byte layouts: functions without state, tested against captures.
- The graph stub (canned answers) and `safe_join` (a function of a path).
- The presence table, whose rows are only written, and the ticket exchange, one reply computed from one request.
- The client patches, notes and tools. The schemas are read for what clients send.

What could be added next: a module for the clocks of the automatic Kickout, and what overlapping handlers do keep of the agreement between clients and registry.
