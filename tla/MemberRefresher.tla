--------------------------- MODULE MemberRefresher --------------------------
(***************************************************************************)
(* The keepalive threads of the session manager: start_member_refresher,   *)
(* stop_member_refresher and the thread they control                       *)
(* (server/session_manager.py).                                            *)
(*                                                                         *)
(* At most one refresher per connection is registered, under a generation  *)
(* number.  Starting and stopping take refresher_lock once for each access *)
(* to the registry and set the previous stop event with the lock released, *)
(* and any handler thread may do it for any connection: a joiner's thread  *)
(* restarts the host's refresher, the host's own thread stops it.          *)
(***************************************************************************)
EXTENDS Naturals, FiniteSets

CONSTANTS
  Conn,    \* the client connections
  Caller,  \* the handler threads
  MaxGen   \* bound: refreshers started

ASSUME GenAssumption == MaxGen \in Nat

VARIABLES
  gen,     \* _refresher_gen
  reg,     \* refreshers: the registered generation of a connection, or 0
  key,     \* the connection a generation sends to
  at,      \* where the thread of a generation is
  stopped, \* the generations whose stop_event is set
  call,    \* where each handler thread is in a start or stop
  closed,  \* the connections this process has closed
  late     \* history: the sends of a generation that was not registered: 0, 1, more (2)

vars == <<gen, reg, key, at, stopped, call, closed, late>>

Started == 1 .. gen
Idle == [at |-> "idle"]
Place == {"wait", "send", "exit", "done"}
Call == {Idle} \cup
        [at : {"set", "register"}, key : Conn, prev : Nat, start : BOOLEAN]

(* The entry of a new generation in a function on generations.             *)
Extended(f, v) == [g \in 1 .. gen + 1 |-> IF g \in Started THEN f[g] ELSE v]

Next1(n) == n + 1     \* _refresher_gen[0] += 1

Init == /\ gen = 0 /\ key = <<>> /\ at = <<>> /\ late = <<>>
        /\ reg = [k \in Conn |-> 0]
        /\ stopped = {} /\ closed = {}
        /\ call = [p \in Caller |-> Idle]

-----------------------------------------------------------------------------
(***************************************************************************)
(* The handler threads                                                     *)
(***************************************************************************)

(* stop_member_refresher takes the entry out of the registry.  It is also  *)
(* the first thing start_member_refresher does; start says whether there   *)
(* is a game room with one member, the only case that gets a refresher.    *)
Pop(p, k, start) ==
  /\ call[p] = Idle
  /\ start => gen + Cardinality({q \in Caller : call[q] # Idle}) < MaxGen
  /\ call' = [call EXCEPT ![p] = [at |-> "set", key |-> k, prev |-> reg[k], start |-> start]]
  /\ reg' = [reg EXCEPT ![k] = 0]
  /\ UNCHANGED <<gen, key, at, stopped, closed, late>>

(* It sets the stop event of what it found, with the lock released.        *)
SetPrevious(p) ==
  /\ call[p].at = "set"
  /\ stopped' = stopped \cup ({call[p].prev} \ {0})
  /\ call' = [call EXCEPT ![p] = IF @.start THEN [@ EXCEPT !.at = "register"] ELSE Idle]
  /\ UNCHANGED <<gen, reg, key, at, closed, late>>

(* A new generation replaces whatever is registered by now, and its thread *)
(* starts.  The event it is given belongs to the room, and may have been   *)
(* set already by a handler that closed the room meanwhile.                *)
Register(p, set) ==
  /\ call[p].at = "register"
  /\ gen' = Next1(gen)
  /\ reg' = [reg EXCEPT ![call[p].key] = gen + 1]
  /\ key' = Extended(key, call[p].key)
  /\ at' = Extended(at, "wait")
  /\ late' = Extended(late, 0)
  /\ stopped' = IF set THEN stopped \cup {gen + 1} ELSE stopped
  /\ call' = [call EXCEPT ![p] = Idle]
  /\ UNCHANGED closed

(* A handler that closes or changes a room sets its event directly.        *)
SetRoomEvent(g) ==
  /\ g \notin stopped
  /\ stopped' = stopped \cup {g}
  /\ UNCHANGED <<gen, reg, key, at, call, closed, late>>

(* conn.close() at the end of the finally block.                           *)
CloseConn(k) ==
  /\ k \notin closed
  /\ closed' = closed \cup {k}
  /\ UNCHANGED <<gen, reg, key, at, stopped, call, late>>

-----------------------------------------------------------------------------
(***************************************************************************)
(* The thread of generation g                                              *)
(***************************************************************************)
Move(g, l) == at' = [at EXCEPT ![g] = l]

(* cur is None or cur[0] != gen, negated.                                  *)
Unchecked(g) == TRUE
Current(g) == reg[key[g]] = g

(* wait(interval) returned because the event is set.                       *)
Wake(g) ==
  /\ at[g] = "wait" /\ g \in stopped
  /\ Move(g, "exit")
  /\ UNCHANGED <<gen, reg, key, stopped, call, closed, late>>

(* wait(interval) timed out: is this still the registered generation?      *)
Tick(g) ==
  /\ at[g] = "wait" /\ g \notin stopped
  /\ Move(g, IF Current(g) THEN "send" ELSE "exit")
  /\ UNCHANGED <<gen, reg, key, stopped, call, closed, late>>

(* The roster is sent with no lock held.                                   *)
Push(g) ==
  /\ at[g] = "send" /\ key[g] \notin closed
  /\ Move(g, "wait")
  /\ late' = [late EXCEPT ![g] = IF reg[key[g]] = g \/ @ = 2 THEN @ ELSE @ + 1]
  /\ UNCHANGED <<gen, reg, key, stopped, call, closed>>

(* A send fails on a closed socket, and may fail or time out on any.       *)
Ignored == "wait"
Failed == "exit"
PushFails(g) ==
  /\ at[g] = "send"
  /\ Move(g, Failed)
  /\ UNCHANGED <<gen, reg, key, stopped, call, closed, late>>

(* The thread takes its own entry, and only that, with it.                 *)
Leftover(g) == reg
Whosoever(g) == [reg EXCEPT ![key[g]] = 0]
Removed(g) == [reg EXCEPT ![key[g]] = IF @ = g THEN 0 ELSE @]
Exit(g) ==
  /\ at[g] = "exit"
  /\ reg' = Removed(g)
  /\ Move(g, "done")
  /\ UNCHANGED <<gen, key, stopped, call, closed, late>>

Refresh(g) == Wake(g) \/ Tick(g) \/ Push(g) \/ PushFails(g) \/ Exit(g)

Handler(p) == \/ SetPrevious(p)
              \/ \E set \in BOOLEAN : Register(p, set)

Next == \/ \E p \in Caller : \/ Handler(p)
                             \/ \E k \in Conn, start \in BOOLEAN : Pop(p, k, start)
        \/ \E g \in Started : Refresh(g) \/ SetRoomEvent(g)
        \/ \E k \in Conn : CloseConn(k)

Spec == Init /\ [][Next]_vars

(* The wait of a refresher ends after ten seconds, its send after the      *)
(* socket's time limit, and a handler in the middle of a call goes on.     *)
Fairness == /\ \A p \in Caller : WF_vars(Handler(p))
            /\ \A g \in 1 .. MaxGen : WF_vars(g \in Started /\ Refresh(g))
FairSpec == Spec /\ Fairness

-----------------------------------------------------------------------------
(* Every variable holds what the code stores in it; a handler has a        *)
(* generation, or none, to stop.                                           *)
TypeOK ==
  /\ gen \in Nat
  /\ reg \in [Conn -> 0 .. gen]
  /\ key \in [Started -> Conn]
  /\ at \in [Started -> Place]
  /\ stopped \subseteq Started
  /\ call \in [Caller -> Call]
  /\ \A p \in Caller : call[p] # Idle => call[p].prev \in 0 .. gen
  /\ closed \subseteq Conn
  /\ late \in [Started -> 0 .. 2]

(* A registered refresher is a thread of that connection that is running:   *)
(* nothing is left in the registry by a thread that ended                   *)
(* (session_manager.py:1565).                                               *)
RegisteredRuns ==
  \A k \in Conn : reg[k] # 0 => key[reg[k]] = k /\ at[reg[k]] # "done"

(* A refresher that was cancelled or replaced sends at most once more,      *)
(* however its check, the cancellation and the start of its successors are  *)
(* interleaved (session_manager.py:1461: a cancelled thread cannot survive  *)
(* its interval).                                                           *)
StaleAtMostOnce == \A g \in Started : late[g] <= 1

(* A registration ends by a start or stop for that connection, or with its  *)
(* own thread: a thread that ends late does not take the entry of its       *)
(* successor with it (session_manager.py:1567).                             *)
EndsItsOwn ==
  [][\A k \in Conn : reg[k] # 0 /\ reg'[k] = 0 =>
       \/ at[reg[k]] = "exit" /\ at'[reg[k]] = "done"
       \/ \E p \in Caller : call[p] = Idle /\ call'[p] # Idle /\ call'[p].key = k]_vars

(* A thread that is not the registered one any more comes to an end, also   *)
(* if two starts overlapped and nobody set its event.                       *)
SupersededEnds ==
  \A g \in 1 .. MaxGen :
    g \in Started /\ reg[key[g]] # g ~> g \in Started /\ at[g] = "done"

(* No refresher stays registered for a connection that was closed, even if  *)
(* another handler restarted it after the finally block had stopped it.     *)
ClosedIsQuiet == \A k \in Conn : k \in closed ~> reg[k] = 0
=============================================================================
