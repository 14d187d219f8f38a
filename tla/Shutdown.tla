------------------------------- MODULE Shutdown -------------------------------
(***************************************************************************)
(* How the backend stops: the supervisor run_all.py, its children, and     *)
(* what session_manager.py does with the rooms when it is told to stop.    *)
(*                                                                         *)
(* A Python signal handler runs on the main thread, between any two steps  *)
(* of it, also of the handler itself.  The supervisor's ends in sys.exit,  *)
(* so nothing it interrupts is resumed.  The handler threads of the        *)
(* session manager go on during the drain.                                 *)
(*                                                                         *)
(* A definition without a comment of its own, just before one that has the *)
(* same parameters, is a mutant of it.                                     *)
(***************************************************************************)
EXTENDS Naturals, FiniteSets

CONSTANTS
  Servers,      \* how many children, in the order of SERVERS
  Manager,      \* which of them is the session manager
  Client,       \* connections to the session manager
  Patience,     \* SHUTDOWN_TIMEOUT, in time-outs of a notification
  MaxSignals,   \* bound: signals from outside, a Ctrl-C counted as two
  MaxFaults     \* bound: children that die or get stuck by themselves

ASSUME ShutdownAssumption ==
  /\ Servers \in Nat \ {0} /\ Manager \in 1 .. Servers
  /\ IsFiniteSet(Client)
  /\ Patience \in Nat /\ MaxSignals \in Nat /\ MaxFaults \in Nat

VARIABLES
  sup,       \* "main", "terminate", "wait" or "exited"
  turn,      \* the child the handler is at
  started,   \* children for which Popen has returned
  recorded,  \* those that are in _procs
  child,     \* "none", "boot", "up", "stuck", "drain", "dead"
  signals,   \* signals from outside so far; a Ctrl-C counts as two, since
             \* it goes to the whole process group, the children too
  faults,    \* faults so far
  waited,    \* notifications that timed out while the manager is waited for
  conns,     \* active_rooms, by the connection that owns the room: members
  creating,  \* clients that have been told of a room not yet registered
  left,      \* rooms the drain has still to close, with their members
  who,       \* members it has still to tell, of the room it is at
  told,      \* clients that were told by it
  lost,      \* history: members it did not come to, since a log write raised
             \* about a member of their room before them
  due,       \* members of rooms when it began
  stale,     \* clients whose connection takes nothing any more
  end        \* how the manager ended: "none", "drained", "cut", "killed", "fault"

supVars == <<sup, turn, started, recorded, signals>>
roomVars == <<conns, creating, left, who, told, lost, due, stale>>
vars == <<supVars, child, faults, waited, roomVars, end>>

Kids == 1 .. Servers
Rooms == DOMAIN conns
Members == UNION {conns[r] : r \in Rooms}
Running == {"boot", "up", "stuck", "drain"}
NoRooms == [r \in {} |-> {}]
Without(f, S) == [r \in DOMAIN f \ S |-> f[r]]

Init == /\ sup = "main" /\ turn = 1 /\ started = 0 /\ recorded = 0
        /\ child = [k \in Kids |-> "none"]
        /\ signals = 0 /\ faults = 0 /\ waited = 0
        /\ conns = NoRooms /\ creating = {} /\ left = NoRooms
        /\ who = {} /\ told = {} /\ lost = {} /\ due = {}
        /\ stale = {}
        /\ end = "none"

-----------------------------------------------------------------------------
(* A signal at a child.  Only the session manager handles it, once it has  *)
(* got so far: it takes all rooms out of the registry, and starts to close *)
(* them; a second signal ends it at once.                                  *)
Hit(S) ==
  LET drains == Manager \in S /\ child[Manager] = "up"
      cut == Manager \in S /\ child[Manager] = "drain"
  IN /\ child' = [k \in Kids |->
          IF k \notin S \/ child[k] \notin {"boot", "up", "drain"} THEN child[k]
          ELSE IF k = Manager /\ drains THEN "drain" ELSE "dead"]
     /\ left' = IF drains THEN conns ELSE left
     /\ conns' = IF drains THEN NoRooms ELSE conns
     /\ due' = IF drains THEN Members ELSE due
     /\ end' = IF cut THEN "cut" ELSE IF child'[Manager] = "dead" /\ end = "none"
                                      THEN "fault" ELSE end
     /\ UNCHANGED <<creating, who, told, lost, stale>>

-----------------------------------------------------------------------------
(* The supervisor.  Popen returns, and then the child is recorded.         *)
Popen ==
  /\ sup = "main" /\ started = recorded /\ started < Servers
  /\ started' = started + 1
  /\ child' = [child EXCEPT ![started'] = IF started' = Manager THEN "boot" ELSE "up"]
  /\ UNCHANGED <<sup, turn, recorded, signals, faults, waited, roomVars, end>>

Record ==
  /\ sup = "main" /\ started > recorded
  /\ recorded' = started
  /\ UNCHANGED <<sup, turn, started, signals, child, faults, waited, roomVars, end>>

(* The loop of main finds a child that has exited.                         *)
Notice ==
  /\ sup = "main" /\ recorded = Servers
  /\ \E k \in Kids : child[k] = "dead"
  /\ sup' = "terminate" /\ turn' = 1
  /\ UNCHANGED <<started, recorded, signals, child, faults, waited, roomVars, end>>

(* A signal to the supervisor starts _shutdown, even in the middle of      *)
(* itself.                                                                 *)
Signal ==
  /\ sup # "exited"
  /\ sup' = "terminate" /\ turn' = 1
  /\ \E S \in {{}, Kids} : Hit(S) /\ signals' = signals + (IF S = {} THEN 1 ELSE 2)
  /\ signals' <= MaxSignals
  /\ UNCHANGED <<started, recorded, faults, waited>>

LeaveAtOnce == "exited"
AwaitAll == "wait"
Terminate ==
  /\ sup = "terminate"
  /\ \/ /\ turn <= recorded
        /\ Hit({turn})
        /\ turn' = turn + 1
        /\ UNCHANGED sup
     \/ /\ turn > recorded
        /\ turn' = 1
        /\ sup' = AwaitAll
        /\ UNCHANGED <<child, roomVars, end>>
  /\ UNCHANGED <<started, recorded, signals, faults, waited>>

Await ==
  /\ sup = "wait"
  /\ \/ /\ turn <= recorded /\ child[turn] = "dead"
        /\ turn' = turn + 1
        /\ UNCHANGED sup
     \/ /\ turn > recorded
        /\ sup' = "exited"
        /\ UNCHANGED turn
  /\ UNCHANGED <<started, recorded, signals, child, faults, waited, roomVars, end>>

(* The wait times out: the child is killed.                                *)
NoKill == FALSE
AtOnce == TRUE
OutOfPatience == child[turn] = "stuck" \/ (turn = Manager /\ waited >= Patience)
Kill ==
  /\ sup = "wait" /\ turn <= recorded
  /\ child[turn] \in Running
  /\ OutOfPatience
  /\ child' = [child EXCEPT ![turn] = "dead"]
  /\ end' = IF turn = Manager THEN "killed" ELSE end
  /\ UNCHANGED <<supVars, faults, waited, roomVars>>

-----------------------------------------------------------------------------
(* The children.  The manager installs its handlers once it listens.       *)
Booted ==
  /\ child[Manager] = "boot"
  /\ child' = [child EXCEPT ![Manager] = "up"]
  /\ UNCHANGED <<supVars, faults, waited, roomVars, end>>

Fault(k) ==
  /\ child[k] \in {"boot", "up"} /\ faults < MaxFaults
  /\ faults' = faults + 1
  /\ \E f \in {"dead", "stuck"} : child' = [child EXCEPT ![k] = f]
  /\ end' = IF k = Manager /\ child'[k] = "dead" THEN "fault" ELSE end
  /\ UNCHANGED <<supVars, waited, roomVars>>

(* The drain, a member at a time.  One that takes nothing costs a time-out *)
(* and no more.  Each is logged: a log write that raises is logged again,  *)
(* and if that raises too, or at once for one that could not be told, the  *)
(* drain goes on to the next room.                                         *)
Others(r) == Without(left, {r})
CloseRoom ==
  /\ child[Manager] = "drain" /\ who = {}
  /\ \E r \in DOMAIN left : who' = left[r] /\ left' = Others(r)
  /\ UNCHANGED <<supVars, child, faults, waited, conns, creating, told, lost, due, stale, end>>

GivesUpRoom(c) == IF c \in stale THEN {} ELSE who \ {c}
GoesOn(c) == who \ {c}
Notify(c) ==
  /\ child[Manager] = "drain" /\ c \in who
  /\ told' = IF c \in stale THEN told ELSE told \cup {c}
  /\ waited' = IF c \in stale /\ sup = "wait" /\ turn = Manager THEN waited + 1 ELSE waited
  /\ UNCHANGED <<supVars, child, faults, conns, creating, left, due, stale, end>>

Tell(c) ==
  /\ Notify(c)
  /\ who' = GoesOn(c)
  /\ UNCHANGED lost

LogRaises(c) ==
  /\ Notify(c)
  /\ who' = {}
  /\ lost' = lost \cup (who \ {c})

Drained ==
  /\ child[Manager] = "drain" /\ who = {} /\ left = NoRooms
  /\ child' = [child EXCEPT ![Manager] = "dead"]
  /\ end' = "drained"
  /\ UNCHANGED <<supVars, faults, waited, roomVars>>

-----------------------------------------------------------------------------
(* The handler threads, as SessionRooms has them, a request being a step   *)
(* but for a create, whose reply comes before the registration.  A room    *)
(* the drain has taken out is found by none of them.                       *)
Handles(c) == child[Manager] \in {"up", "drain"} /\ c \notin stale
Free(c) == c \notin creating \cup Members \cup UNION {left[r] : r \in DOMAIN left}

(* Its connection fails without a word.                                    *)
GoStale(c) ==
  /\ c \notin stale
  /\ stale' = stale \cup {c}
  /\ UNCHANGED <<supVars, child, faults, waited, conns, creating, left, who, told, lost, due, end>>

Create(c) ==
  /\ Handles(c) /\ Free(c) /\ c \notin told \cup who
  /\ creating' = creating \cup {c}
  /\ UNCHANGED <<supVars, child, faults, waited, conns, left, who, told, lost, due, stale, end>>

Register(c) ==
  /\ Handles(c) /\ c \in creating
  /\ creating' = creating \ {c}
  /\ conns' = [r \in Rooms \cup {c} |-> IF r = c THEN {c} ELSE conns[r]]
  /\ UNCHANGED <<supVars, child, faults, waited, left, who, told, lost, due, stale, end>>

Join(c) ==
  /\ Handles(c) /\ Free(c) /\ c \notin told \cup who
  /\ \E r \in Rooms : conns' = [conns EXCEPT ![r] = @ \cup {c}]
  /\ UNCHANGED <<supVars, child, faults, waited, creating, left, who, told, lost, due, stale, end>>

(* A member leaves; the owner, and the room is closed.                     *)
LeaveRoom(c) ==
  /\ Handles(c)
  /\ \E r \in Rooms : /\ c \in conns[r]
                      /\ conns' = IF r = c THEN Without(conns, {r})
                                  ELSE [conns EXCEPT ![r] = @ \ {c}]
  /\ UNCHANGED <<supVars, child, faults, waited, creating, left, who, told, lost, due, stale, end>>

Next == \/ Popen \/ Record \/ Notice \/ Signal \/ Terminate \/ Await \/ Kill
        \/ Booted \/ CloseRoom \/ Drained
        \/ \E k \in Kids : Fault(k)
        \/ \E c \in Client : \/ Tell(c) \/ LogRaises(c) \/ GoStale(c)
                           \/ Create(c) \/ Register(c) \/ Join(c) \/ LeaveRoom(c)

Spec == Init /\ [][Next]_vars

(* The supervisor goes on, its time-outs pass, and so does the drain.      *)
FairSpec == /\ Spec
            /\ WF_vars(Popen \/ Record \/ Notice \/ Terminate \/ Await)
            /\ WF_vars(Kill)
            /\ WF_vars(\/ Booted \/ CloseRoom \/ Drained
                       \/ \E c \in Client : Tell(c) \/ LogRaises(c))

-----------------------------------------------------------------------------
(* The type invariant.  The children are started in order, and the manager *)
(* ends when it is dead.                                                   *)
TypeOK ==
  /\ sup \in {"main", "terminate", "wait", "exited"}
  /\ turn \in 1 .. Servers + 1
  /\ started \in 0 .. Servers /\ recorded \in 0 .. started /\ started <= recorded + 1
  /\ child \in [Kids -> Running \cup {"none", "dead"}]
  /\ \A k \in Kids : child[k] = "none" <=> k > started
  /\ signals \in Nat /\ faults \in Nat /\ waited \in Nat
  /\ \A r \in Rooms : r \in Client /\ conns[r] \subseteq Client
  /\ creating \subseteq Client /\ due \subseteq Client /\ stale \subseteq Client
  /\ end \in {"none", "drained", "cut", "killed", "fault"}
  /\ end = "none" <=> child[Manager] # "dead"

(* The supervisor never exits while a child it has recorded is alive       *)
(* (run_all.py:60-64).                                                     *)
NobodyLeft == sup = "exited" => \A k \in 1 .. recorded : child[k] = "dead"

(* A drain that comes to its end has told everybody who was in a room when *)
(* it began, but those whose connection takes nothing, and those behind a  *)
(* member of their own room about whom a log write raised: neither costs a *)
(* member of another room its notice, and the first not even one of the    *)
(* same room (session_manager.py:1072-1083, 2946).                         *)
DrainTells == end = "drained" => due \ (stale \cup lost) \subseteq told

(* A drain is cut short only when there are two reasons to stop (two       *)
(* signals, of which the supervisor's own is one when it also reaches the  *)
(* manager, or a signal and the death of a child), or after as many        *)
(* members as the supervisor has patience for could not be told            *)
(* (run_all.py:38).                                                        *)
DrainHasTime ==
  [][ (child[Manager] = "drain" /\ child'[Manager] = "dead" /\ end' # "drained")
      => waited >= Patience \/ signals' + faults > 1 ]_vars

(* One signal, or the death of one child, brings all down and ends the     *)
(* supervisor, though a child is stuck (run_all.py:91).                    *)
AllDown == \A k \in Kids :
  (sup # "main" \/ (k <= recorded /\ child[k] = "dead")) ~> sup = "exited"
=============================================================================
