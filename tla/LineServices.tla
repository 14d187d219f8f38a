----------------------------- MODULE LineServices -----------------------------
(***************************************************************************)
(* ticket_server.py: a handler thread per connection, which answers a      *)
(* hello and then either the ticket exchange or the commands of a line     *)
(* service.  The leaderboard commands use ScoreStore, in the order of      *)
(* build_leaderboard_response, each statement of the store a step.         *)
(*                                                                         *)
(* The commands of the services that only acknowledge (facebook, report,   *)
(* heartbeat, gamelist, single-player, and malformed lines) are one: a     *)
(* command without an operation on the store.                              *)
(***************************************************************************)
EXTENDS ScoreStore, TLC

CONSTANTS
  Conn,       \* client connections
  Score,      \* scores a client reports
  Wire,       \* blobs it reports, as their slots
  Window,     \* <<start, end>> of a leaderboard-range
  MaxCmd,     \* bound: commands
  MaxCrash    \* bound: restarts of the process

ASSUME ServiceAssumption ==
  /\ IsFiniteSet(Player)
  /\ Score \subseteq Int
  /\ \A w \in Wire : w \in Seq(Nat)
  /\ \A w \in Window : w[1] \in Nat /\ w[2] \in Int
  /\ MaxCmd \in Nat /\ MaxCrash \in Nat

VARIABLES
  lock,      \* the handler that holds the lock of the store, if one does
  st,        \* where the handler of a connection is
  todo,      \* the operations its command still needs
  seen,      \* the score a lookup has read
  got,       \* what it has collected for the reply
  may,       \* per player, what its row may be: the last update committed,
             \* and those begun since that have not been
  joined,    \* an update went into a transaction that a failed COMMIT left open,
             \* with another update in it
  cmds,      \* commands so far
  crashes    \* restarts so far

handlerVars == <<lock, st, todo, seen, got, may, joined, cmds, crashes>>
vars == <<storeVars, handlerVars>>

Busy == {"working", "committing", "ranking"}

(* The row of a player, as a set of at most one element.                   *)
RowOf(db, p) == {Stands(db.rows[q]) : q \in {p} \cap DOMAIN db.rows}
Asked(update) == {[score |-> update.score, slots |-> Decode(update.wire)]}

-----------------------------------------------------------------------------
(* The operations of a command.                                            *)
SwappedRange(w) == << [op |-> "page", window |-> w], [op |-> "total", window |-> w] >>
RangeOps(w) ==
  IF w = <<0, 1>> THEN << [op |-> "total", window |-> w] >>
  ELSE << [op |-> "total", window |-> w], [op |-> "page", window |-> w] >>
GetOps(names) == [i \in DOMAIN names |-> [op |-> "lookup", who |-> names[i]]]
UpdateOps(p, s, w) == << [op |-> "upsert", who |-> p, score |-> s, wire |-> w] >>

Commands ==
  {<<>>}
  \cup {UpdateOps(p, s, w) : p \in Player, s \in Score, w \in Wire}
  \cup {GetOps(names) : names \in {<<p>> : p \in Player} \cup
                                {pq \in Player \X Player : pq[1] # pq[2]}}
  \cup {RangeOps(w) : w \in Window}

Init == /\ StoreInit
        /\ lock = {}
        /\ st = [c \in Conn |-> "away"]
        /\ todo = [c \in Conn |-> <<>>]
        /\ seen = [c \in Conn |-> 0]
        /\ got = [c \in Conn |-> {}]
        /\ may = [p \in Player |-> {RowOf(disk, p)}]
        /\ joined = FALSE /\ cmds = 0 /\ crashes = 0

(* The store is opened before the server listens.                          *)
Start == Migrate /\ UNCHANGED handlerVars

Goes(c, from, to) == st[c] = from /\ st' = [st EXCEPT ![c] = to]
Quiet == UNCHANGED <<storeVars, lock, todo, seen, got, may, joined, cmds, crashes>>

Accept(c) == phase = "up" /\ Goes(c, "away", "hello") /\ Quiet

(* The hello names the service.  The ticket exchange and the watch after   *)
(* it touch nothing.                                                       *)
HelloLine(c) == Goes(c, "hello", "waiting") /\ Quiet
HelloTicket(c) == Goes(c, "hello", "ticket") /\ Quiet

Command(c, ops) ==
  /\ cmds < MaxCmd
  /\ Goes(c, "waiting", "working")
  /\ cmds' = cmds + 1
  /\ todo' = [todo EXCEPT ![c] = ops]
  /\ UNCHANGED <<storeVars, lock, seen, got, may, joined, crashes>>

(* The peer closes, is silent for too long, or the connection fails.       *)
Ends(c) == /\ \E l \in {"hello", "ticket", "waiting"} : Goes(c, l, "closing")
           /\ Quiet

(* All the operations are done.  The reply goes out, or cannot be sent.    *)
Reply(c) ==
  /\ todo[c] = <<>>
  /\ \E l \in {"waiting", "closing"} : Goes(c, "working", l)
  /\ got' = [got EXCEPT ![c] = {}]
  /\ UNCHANGED <<storeVars, lock, todo, seen, may, joined, cmds, crashes>>

Finally(c) ==
  /\ Goes(c, "closing", "away")
  /\ todo' = [todo EXCEPT ![c] = <<>>]
  /\ got' = [got EXCEPT ![c] = {}]
  /\ UNCHANGED <<storeVars, lock, seen, may, joined, cmds, crashes>>

-----------------------------------------------------------------------------
(* The operations on the store.  Each takes the lock and keeps it to its   *)
(* end.                                                                    *)
Unguarded == TRUE
LockFree == lock = {}
Does(c, op) == /\ st[c] = "working" /\ todo[c] # <<>> /\ Head(todo[c]).op = op
               /\ LockFree
Again(c) == UNCHANGED todo
Done(c) == todo' = [todo EXCEPT ![c] = Tail(@)]
Collect(c, kind, n) ==
  got' = [got EXCEPT ![c] = @ \cup {[kind |-> kind, n |-> n, of |-> Head(todo[c])]}]

ExecuteUpdate(c) ==
  /\ Does(c, "upsert")
  /\ LET u == Head(todo[c])
     IN /\ Upsert(u.who, u.score, u.wire)
        /\ may' = [may EXCEPT ![u.who] = @ \cup {Asked(u)}]
  /\ joined' = (joined \/ mem # disk)
  /\ lock' = {c}
  /\ Goes(c, "working", "committing")
  /\ UNCHANGED <<todo, seen, got, cmds, crashes>>

Commits(c) ==
  /\ Goes(c, "committing", "working")
  /\ CommitUpdate
  /\ may' = [may EXCEPT ![Head(todo[c]).who] = {Asked(Head(todo[c]))}]
  /\ lock' = {}
  /\ Done(c)
  /\ UNCHANGED <<seen, got, joined, cmds, crashes>>

(* No handler of build_leaderboard_response or handle catches an error of  *)
(* SQLite: the thread ends, through the finally block.                     *)
Raises(c) ==
  /\ Goes(c, "committing", "closing")
  /\ CommitRaises
  /\ lock' = {}
  /\ UNCHANGED <<todo, seen, got, may, joined, cmds, crashes>>

(* A statement is refused: an integer from the command does not fit into   *)
(* 64 bits, which nothing catches either.  Before an INSERT Python has     *)
(* begun a transaction by then, and it stays open, empty.                  *)
Refused(c) ==
  /\ todo[c] # <<>> /\ LockFree
  /\ Goes(c, "working", "closing")
  /\ open' = (open \/ Head(todo[c]).op = "upsert")
  /\ UNCHANGED <<disk, mem, phase, lock, todo, seen, got, may, joined, cmds, crashes>>

LookupRow(c) ==
  /\ Does(c, "lookup")
  /\ LET p == Head(todo[c]).who
     IN \/ /\ p \in DOMAIN mem.rows
           /\ seen' = [seen EXCEPT ![c] = mem.rows[p].score]
           /\ lock' = {c}
           /\ Goes(c, "working", "ranking")
           /\ UNCHANGED todo
        \/ /\ p \notin DOMAIN mem.rows
           /\ Done(c)
           /\ UNCHANGED <<seen, lock, st>>
  /\ UNCHANGED <<storeVars, got, may, joined, cmds, crashes>>

LookupRank(c) ==
  /\ Goes(c, "ranking", "working")
  /\ Collect(c, "rank", Above(seen[c]))
  /\ lock' = {}
  /\ seen' = [seen EXCEPT ![c] = 0]
  /\ Done(c)
  /\ UNCHANGED <<storeVars, may, joined, cmds, crashes>>

CountTotal(c) ==
  /\ Does(c, "total")
  /\ Collect(c, "total", Total)
  /\ Done(c)
  /\ UNCHANGED <<storeVars, lock, st, seen, may, joined, cmds, crashes>>

ReadPage(c) ==
  /\ Does(c, "page")
  /\ LET w == Head(todo[c]).window IN Collect(c, "rows", PageLen(w[1], w[2]))
  /\ Done(c)
  /\ UNCHANGED <<storeVars, lock, st, seen, may, joined, cmds, crashes>>

StoreStep(c) == \/ ExecuteUpdate(c) \/ Commits(c) \/ Raises(c) \/ Refused(c)
                \/ LookupRow(c) \/ LookupRank(c) \/ CountTotal(c) \/ ReadPage(c)

(* The process dies and its supervisor's operator starts it again.         *)
Restart ==
  /\ crashes < MaxCrash
  /\ crashes' = crashes + 1
  /\ StoreRestart
  /\ lock' = {}
  /\ st' = [c \in Conn |-> "away"]
  /\ todo' = [c \in Conn |-> <<>>]
  /\ seen' = [c \in Conn |-> 0]
  /\ got' = [c \in Conn |-> {}]
  /\ joined' = FALSE
  /\ UNCHANGED <<may, cmds>>

Next == \/ Start \/ Restart
        \/ \E c \in Conn : \/ Accept(c) \/ HelloLine(c) \/ HelloTicket(c)
                           \/ Ends(c) \/ Reply(c) \/ Finally(c) \/ StoreStep(c)
                           \/ \E ops \in Commands : Command(c, ops)

Spec == Init /\ [][Next]_vars

(* A started thread runs on, and the time-outs of recv_exact end a silent  *)
(* peer.  Nothing makes a client connect, or send.                         *)
FairSpec == /\ Spec
            /\ WF_vars(Start)
            /\ \A c \in Conn : WF_vars(Ends(c) \/ Reply(c) \/ Finally(c) \/ StoreStep(c))

-----------------------------------------------------------------------------
(* The type invariant.  It includes that the lock is held exactly by the   *)
(* handler that is inside an operation, and that there are handlers only   *)
(* when the store is open.                                                 *)
Operation == [op : {"upsert"}, who : Player, score : Score, wire : Wire]
             \cup [op : {"lookup"}, who : Player]
             \cup [op : {"total", "page"}, window : Window]

TypeOK ==
  /\ phase \in {"create", "add", "blob", "extra", "drop", "drop2", "commit", "up"}
  /\ IsDatabase(disk) /\ IsDatabase(mem)
  /\ open \in BOOLEAN
  /\ st \in [Conn -> Busy \cup {"away", "hello", "ticket", "waiting", "closing"}]
  /\ todo \in [Conn -> Seq(Operation)]
  /\ seen \in [Conn -> Int]
  /\ DOMAIN got = Conn /\ DOMAIN may = Player
  /\ lock = {c \in Conn : st[c] \in {"committing", "ranking"}}
  /\ \A c, d \in lock : c = d
  /\ \A c \in Conn : phase # "up" => st[c] = "away"

(* What a player last got committed is what the database holds for it      *)
(* (or a later update of that player that was begun and cut short): over   *)
(* restarts at any step, in the middle of a migration of an older schema   *)
(* as well, over commits that raise, and over restarts that look for       *)
(* legacy columns again (ticket_server.py:195-267).                        *)
Durable == \A p \in Player : RowOf(disk, p) \in may[p] /\ RowOf(mem, p) \in may[p]

(* A rank is a place on the board: counted from zero, it is less than the  *)
(* number of players, since no row is above itself.  A lookup reads the    *)
(* score and counts the higher ones in two statements, and in between no   *)
(* other handler moves the row (ticket_server.py:275-290).                 *)
RankInBoard == \A c \in Conn : st[c] = "ranking" => Above(seen[c]) < Total

(* A page has all the rows its window and the total beside it promise, as  *)
(* long as rows are only added: handlers read what another has not yet     *)
(* committed, and an update that joins a transaction left open by a failed *)
(* COMMIT may undo both (ticket_server.py:292-308).                        *)
PageCoversTotal ==
  ~joined => \A c \in Conn : \A a, b \in got[c] :
    (a.kind = "total" /\ b.kind = "rows") =>
      LET w == b.of.window
          promised == {i \in w[1] .. w[2] : i < a.n}
      IN b.n >= Cardinality(promised)

(* The row of a player, sent to a client and decoded by it, is the row:    *)
(* what the encoding leaves out is zero (ticket_server.py:118-160).        *)
SentAsStored ==
  \A p \in DOMAIN mem.rows : Decode(Encode(mem.rows[p].slots)) = mem.rows[p].slots

(* A handler that has a command gets done with it, though others use the   *)
(* store too, and though their commits may raise (ticket_server.py:405).   *)
Answered == \A c \in Conn : st[c] \in Busy ~> st[c] \notin Busy
=============================================================================
