----------------------- MODULE MemberRefresherProofs ------------------------
(***************************************************************************)
(* Theorems about MemberRefresher for any connections, any handler threads *)
(* and any number of refreshers started.                                   *)
(***************************************************************************)
EXTENDS MemberRefresher, TLAPS

(* A new generation leaves what is recorded of the others alone.           *)
LEMMA ExtendedEntries ==
  ASSUME gen \in Nat, NEW f, NEW v
  PROVE  /\ \A g \in Started : Extended(f, v)[g] = f[g]
         /\ Extended(f, v)[gen + 1] = v
  BY DEF Extended, Started

LEMMA ExtendedType ==
  ASSUME gen \in Nat, NEW S, NEW f \in [Started -> S], NEW v \in S
  PROVE  Extended(f, v) \in [1 .. gen + 1 -> S]
  BY DEF Extended, Started

(* The registry holds generations that were started.                       *)
LEMMA GenFacts ==
  ASSUME TypeOK
  PROVE  /\ gen \in Nat /\ gen + 1 \notin Started
         /\ \A k \in Conn : reg[k] \in Nat /\ (reg[k] # 0 => reg[k] \in Started)
         /\ \A g \in Started : g \in Nat /\ g # 0 /\ key[g] \in Conn
  BY DEF TypeOK, Started

LEMMA TypeInit == Init => TypeOK
  BY DEF Init, TypeOK, Started, Idle, Call, Place

LEMMA RegisterType ==
  ASSUME TypeOK, NEW p \in Caller, NEW set \in BOOLEAN, Register(p, set)
  PROVE  TypeOK'
<1>1. call[p].key \in Conn /\ gen \in Nat
  BY DEF TypeOK, Register, Call, Idle
<1>2. gen' = gen + 1 /\ Started' = 1 .. gen + 1
  BY DEF Register, Next1, Started
<1>3. /\ key' \in [Started' -> Conn]
      /\ at' \in [Started' -> Place]
      /\ late' \in [Started' -> 0 .. 2]
  <2>1. Extended(key, call[p].key) \in [1 .. gen + 1 -> Conn]
    BY <1>1, ExtendedType DEF TypeOK
  <2>2. Extended(at, "wait") \in [1 .. gen + 1 -> Place]
    <3>1. "wait" \in Place
      BY DEF Place
    <3> QED
      BY <1>1, <3>1, ExtendedType DEF TypeOK
  <2>3. Extended(late, 0) \in [1 .. gen + 1 -> 0 .. 2]
    <3> DEFINE S == 0 .. 2
    <3>1. late \in [Started -> S] /\ 0 \in S
      BY DEF TypeOK
    <3> HIDE DEF S
    <3>2. Extended(late, 0) \in [1 .. gen + 1 -> S]
      BY <1>1, <3>1, ExtendedType
    <3> QED
      BY <3>2 DEF S
  <2> QED
    BY <1>2, <2>1, <2>2, <2>3 DEF Register
<1>4. reg' \in [Conn -> 0 .. gen']
  BY <1>1, <1>2 DEF TypeOK, Register
<1>5. stopped' \subseteq Started' /\ closed' \subseteq Conn
  <2>1. stopped' \subseteq stopped \cup {gen + 1} /\ closed' = closed
    BY DEF Register
  <2>2. Started \cup {gen + 1} \subseteq Started'
    BY <1>1, <1>2 DEF Started
  <2> QED
    BY <2>1, <2>2 DEF TypeOK
<1>6. /\ call' \in [Caller -> Call]
      /\ \A q \in Caller : call'[q] # Idle => call'[q].prev \in 0 .. gen'
  <2>1. call' = [call EXCEPT ![p] = Idle] /\ Idle \in Call
    BY DEF Register, Call
  <2>2. \A q \in Caller : call'[q] # Idle => call'[q] = call[q]
    BY <2>1 DEF TypeOK
  <2>3. 0 .. gen \subseteq 0 .. gen'
    BY <1>1, <1>2
  <2> QED
    BY <2>1, <2>2, <2>3 DEF TypeOK
<1> QED
  BY <1>1, <1>2, <1>3, <1>4, <1>5, <1>6 DEF TypeOK

LEMMA CallerType ==
  ASSUME TypeOK, NEW p \in Caller,
         SetPrevious(p) \/ \E k \in Conn, start \in BOOLEAN : Pop(p, k, start)
  PROVE  TypeOK'
<1>1. CASE SetPrevious(p)
  <2>1. PICK b \in {"idle", "register"} :
          call' = [call EXCEPT ![p] = IF b = "idle" THEN Idle ELSE [@ EXCEPT !.at = "register"]]
    BY <1>1 DEF SetPrevious
  <2>2. call[p] \in Call /\ call[p] # Idle /\ call[p].prev \in 0 .. gen
    BY <1>1 DEF TypeOK, SetPrevious, Idle
  <2>3. [call[p] EXCEPT !.at = "register"] \in Call
    BY <2>2 DEF Call
  <2>4. [call[p] EXCEPT !.at = "register"].prev = call[p].prev
    BY <2>2 DEF Call
  <2>5. call' \in [Caller -> Call]
    BY <2>1, <2>3 DEF TypeOK, Call
  <2>6. \A q \in Caller : call'[q] # Idle => call'[q].prev \in 0 .. gen
    BY <2>1, <2>2, <2>4 DEF TypeOK
  <2>7. stopped' \subseteq Started
    BY <1>1, <2>2 DEF SetPrevious, TypeOK, Started
  <2> QED
    BY <1>1, <2>5, <2>6, <2>7 DEF TypeOK, SetPrevious, Started
<1>2. ASSUME NEW k \in Conn, NEW start \in BOOLEAN, Pop(p, k, start)
      PROVE  TypeOK'
  <2> DEFINE c == [at |-> "set", key |-> k, prev |-> reg[k], start |-> start]
  <2>1. c \in Call /\ c.prev \in 0 .. gen
    BY DEF Call, TypeOK
  <2>2. call' = [call EXCEPT ![p] = c] /\ reg' = [reg EXCEPT ![k] = 0]
    BY <1>2 DEF Pop
  <2> HIDE DEF c
  <2>3. call' \in [Caller -> Call]
    BY <2>1, <2>2 DEF TypeOK
  <2>4. \A q \in Caller : call'[q] # Idle => call'[q].prev \in 0 .. gen
    BY <2>1, <2>2 DEF TypeOK
  <2>5. reg' \in [Conn -> 0 .. gen]
    BY <2>2 DEF TypeOK
  <2> QED
    BY <1>2, <2>3, <2>4, <2>5 DEF TypeOK, Pop, Started
<1> QED
  BY <1>1, <1>2

LEMMA RefreshType ==
  ASSUME TypeOK, NEW g \in Started, Refresh(g) \/ SetRoomEvent(g)
  PROVE  TypeOK'
<1>1. CASE Wake(g) \/ Tick(g) \/ PushFails(g)
  BY <1>1 DEF TypeOK, Wake, Tick, PushFails, Failed, Move, Started, Place
<1>2. CASE Push(g)
  BY <1>2 DEF TypeOK, Push, Move, Started, Place
<1>3. CASE Exit(g)
  BY <1>3 DEF TypeOK, Exit, Removed, Move, Started, Place
<1>4. CASE SetRoomEvent(g)
  BY <1>4 DEF TypeOK, SetRoomEvent, Started
<1> QED
  BY <1>1, <1>2, <1>3, <1>4 DEF Refresh

LEMMA TypeStep == TypeOK /\ [Next]_vars => TypeOK'
<1> SUFFICES ASSUME TypeOK, [Next]_vars
             PROVE  TypeOK'
  OBVIOUS
<1>1. ASSUME NEW p \in Caller, NEW set \in BOOLEAN, Register(p, set)
      PROVE  TypeOK'
  BY <1>1, RegisterType
<1>2. ASSUME NEW p \in Caller,
             SetPrevious(p) \/ \E k \in Conn, start \in BOOLEAN : Pop(p, k, start)
      PROVE  TypeOK'
  BY <1>2, CallerType
<1>3. ASSUME NEW g \in Started, Refresh(g) \/ SetRoomEvent(g)
      PROVE  TypeOK'
  BY <1>3, RefreshType
<1>4. ASSUME NEW k \in Conn, CloseConn(k)
      PROVE  TypeOK'
  BY <1>4 DEF TypeOK, CloseConn, Started
<1>5. CASE UNCHANGED vars
  BY <1>5 DEF TypeOK, vars, Started
<1> QED
  BY <1>1, <1>2, <1>3, <1>4, <1>5 DEF Next, Handler

(* TypeOK holds in every reachable state.                                  *)
THEOREM RefresherTypeCorrect == Spec => []TypeOK
  BY TypeInit, TypeStep, PTL DEF Spec

-----------------------------------------------------------------------------
(***************************************************************************)
(* A registered refresher is running                                       *)
(***************************************************************************)
LEMMA RunsStep == TypeOK /\ RegisteredRuns /\ [Next]_vars => RegisteredRuns'
<1> SUFFICES ASSUME TypeOK, RegisteredRuns, [Next]_vars, NEW k \in Conn, reg'[k] # 0
             PROVE  key'[reg'[k]] = k /\ at'[reg'[k]] # "done"
  BY DEF RegisteredRuns
<1> USE GenFacts
<1>1. ASSUME NEW p \in Caller, NEW set \in BOOLEAN, Register(p, set)
      PROVE  key'[reg'[k]] = k /\ at'[reg'[k]] # "done"
  <2> DEFINE c == call[p].key
  <2>1. c \in Conn
    BY <1>1 DEF TypeOK, Register, Call, Idle
  <2>2. reg' = [reg EXCEPT ![c] = gen + 1] /\ key' = Extended(key, c) /\ at' = Extended(at, "wait")
    BY <1>1 DEF Register
  <2> HIDE DEF c
  <2>3. /\ key'[gen + 1] = c /\ \A g \in Started : key'[g] = key[g]
        /\ at'[gen + 1] = "wait" /\ \A g \in Started : at'[g] = at[g]
    BY <2>2, ExtendedEntries
  <2>4. CASE k = c
    BY <2>2, <2>3, <2>4 DEF TypeOK
  <2>5. CASE k # c
    BY <2>2, <2>3, <2>5 DEF TypeOK, RegisteredRuns
  <2> QED
    BY <2>4, <2>5
<1>2. ASSUME NEW p \in Caller, NEW c \in Conn, NEW start \in BOOLEAN, Pop(p, c, start)
      PROVE  key'[reg'[k]] = k /\ at'[reg'[k]] # "done"
  BY <1>2 DEF Pop, TypeOK, RegisteredRuns
<1>3. ASSUME NEW g \in Started, Wake(g) \/ Tick(g) \/ Push(g) \/ PushFails(g)
      PROVE  key'[reg'[k]] = k /\ at'[reg'[k]] # "done"
  BY <1>3 DEF Wake, Tick, Push, PushFails, Failed, Move, TypeOK, RegisteredRuns
<1>4. ASSUME NEW g \in Started, Exit(g)
      PROVE  key'[reg'[k]] = k /\ at'[reg'[k]] # "done"
  <2>1. reg'[k] = reg[k] /\ reg[k] # g
    BY <1>4 DEF Exit, Removed, TypeOK, RegisteredRuns
  <2> QED
    BY <1>4, <2>1 DEF Exit, Move, TypeOK, RegisteredRuns
<1>5. ASSUME \/ \E p \in Caller : SetPrevious(p)
             \/ \E g \in Started : SetRoomEvent(g)
             \/ \E c \in Conn : CloseConn(c)
             \/ UNCHANGED vars
      PROVE  key'[reg'[k]] = k /\ at'[reg'[k]] # "done"
  BY <1>5 DEF SetPrevious, SetRoomEvent, CloseConn, vars, RegisteredRuns
<1> QED
  BY <1>1, <1>2, <1>3, <1>4, <1>5 DEF Next, Handler, Refresh

(* Whatever the registry holds is a running thread of that connection.     *)
THEOREM RegisteredAreRunning == Spec => []RegisteredRuns
<1>1. Init => RegisteredRuns
  BY DEF Init, RegisteredRuns
<1> QED
  BY <1>1, RunsStep, RefresherTypeCorrect, PTL DEF Spec

-----------------------------------------------------------------------------
(***************************************************************************)
(* A cancelled refresher sends at most once more                           *)
(***************************************************************************)

(* One that has sent late is not registered, never will be again, and is    *)
(* past its last check: it either waits or ends.                            *)
LateInv ==
  \A g \in Started : late[g] # 0 => late[g] = 1 /\ at[g] # "send" /\ reg[key[g]] # g

LEMMA LateStep == TypeOK /\ LateInv /\ [Next]_vars => LateInv'
<1> SUFFICES ASSUME TypeOK, LateInv, [Next]_vars, NEW h \in Started', late'[h] # 0
             PROVE  late'[h] = 1 /\ at'[h] # "send" /\ reg'[key'[h]] # h
  BY DEF LateInv
<1> USE GenFacts
<1>1. ASSUME NEW p \in Caller, NEW set \in BOOLEAN, Register(p, set)
      PROVE  late'[h] = 1 /\ at'[h] # "send" /\ reg'[key'[h]] # h
  <2> DEFINE c == call[p].key
  <2>1. c \in Conn
    BY <1>1 DEF TypeOK, Register, Call, Idle
  <2>2. /\ reg' = [reg EXCEPT ![c] = gen + 1] /\ key' = Extended(key, c)
        /\ at' = Extended(at, "wait") /\ late' = Extended(late, 0)
    BY <1>1 DEF Register
  <2> HIDE DEF c
  <2>3. /\ \A g \in Started : key'[g] = key[g] /\ at'[g] = at[g] /\ late'[g] = late[g]
        /\ late'[gen + 1] = 0
    BY <2>2, ExtendedEntries
  <2>4. h \in Started
    BY <1>1, <2>3 DEF Register, Next1, Started
  <2>5. late[h] = 1 /\ at[h] # "send" /\ reg[key[h]] # h
    BY <2>3, <2>4 DEF LateInv
  <2> QED
    BY <2>2, <2>3, <2>4, <2>5 DEF TypeOK
<1>2. ASSUME NEW p \in Caller, NEW c \in Conn, NEW start \in BOOLEAN, Pop(p, c, start)
      PROVE  late'[h] = 1 /\ at'[h] # "send" /\ reg'[key'[h]] # h
  BY <1>2 DEF Pop, TypeOK, LateInv, Started
<1>3. ASSUME NEW g \in Started, Wake(g) \/ Tick(g) \/ PushFails(g)
      PROVE  late'[h] = 1 /\ at'[h] # "send" /\ reg'[key'[h]] # h
  BY <1>3 DEF Wake, Tick, PushFails, Failed, Current, Move, TypeOK, LateInv, Started
<1>4. ASSUME NEW g \in Started, Push(g)
      PROVE  late'[h] = 1 /\ at'[h] # "send" /\ reg'[key'[h]] # h
  <2>1. h \in Started /\ reg' = reg /\ key' = key
    BY <1>4 DEF Push, Started
  <2>2. CASE h = g
    <3>1. late[g] = 0 /\ late[g] \in 0 .. 2
      BY <1>4 DEF Push, LateInv, TypeOK
    <3>2. late'[g] = IF reg[key[g]] = g THEN 0 ELSE 1
      BY <1>4, <3>1 DEF Push, TypeOK
    <3>3. at'[g] = "wait"
      BY <1>4 DEF Push, Move, TypeOK
    <3> QED
      BY <2>1, <2>2, <3>2, <3>3
  <2>3. CASE h # g
    BY <1>4, <2>1, <2>3 DEF Push, Move, TypeOK, LateInv
  <2> QED
    BY <2>2, <2>3
<1>5. ASSUME NEW g \in Started, Exit(g)
      PROVE  late'[h] = 1 /\ at'[h] # "send" /\ reg'[key'[h]] # h
  BY <1>5 DEF Exit, Removed, Move, TypeOK, LateInv, Started
<1>6. ASSUME \/ \E p \in Caller : SetPrevious(p)
             \/ \E g \in Started : SetRoomEvent(g)
             \/ \E c \in Conn : CloseConn(c)
             \/ UNCHANGED vars
      PROVE  late'[h] = 1 /\ at'[h] # "send" /\ reg'[key'[h]] # h
  BY <1>6 DEF SetPrevious, SetRoomEvent, CloseConn, vars, LateInv, Started
<1> QED
  BY <1>1, <1>2, <1>3, <1>4, <1>5, <1>6 DEF Next, Handler, Refresh

(* No interleaving of checks, cancellations and starts lets a refresher     *)
(* send twice after it was cancelled.                                       *)
THEOREM StaleOnlyOnce == Spec => []StaleAtMostOnce
<1>1. Init => LateInv
  BY DEF Init, LateInv, Started
<1>2. TypeOK /\ LateInv => StaleAtMostOnce
  <2> SUFFICES ASSUME TypeOK, LateInv, NEW g \in Started
               PROVE  late[g] <= 1
    BY DEF StaleAtMostOnce
  <2>1. late[g] = 0 \/ late[g] = 1
    BY DEF LateInv
  <2> QED
    BY <2>1
<1> QED
  BY <1>1, <1>2, LateStep, RefresherTypeCorrect, PTL DEF Spec

-----------------------------------------------------------------------------
(***************************************************************************)
(* Who ends a registration                                                 *)
(***************************************************************************)

(* A thread that exits takes the entry of its connection along only if that *)
(* entry is its own.                                                        *)
LEMMA ExitTakesItsOwn ==
  ASSUME TypeOK, NEW g \in Started, Exit(g), NEW k \in Conn, reg[k] # 0, reg'[k] = 0
  PROVE  reg[k] = g /\ at[g] = "exit" /\ at'[g] = "done"
<1>1. reg' = [reg EXCEPT ![key[g]] = IF @ = g THEN 0 ELSE @]
  BY DEF Exit, Removed
<1>2. reg[k] = g
  BY <1>1, GenFacts DEF TypeOK
<1>3. at[g] = "exit" /\ at'[g] = "done"
  BY DEF Exit, Move, TypeOK
<1> QED
  BY <1>2, <1>3

(* A registration ends by a start or stop for its connection or with its    *)
(* own thread, whichever generations of the connection end late meanwhile   *)
(* (session_manager.py:1567).                                               *)
THEOREM RegistrationsEndTheirOwn == Spec => EndsItsOwn
<1> DEFINE Ends(k) == \/ at[reg[k]] = "exit" /\ at'[reg[k]] = "done"
                      \/ \E p \in Caller : call[p] = Idle /\ call'[p] # Idle /\ call'[p].key = k
<1>1. TypeOK /\ [Next]_vars => [\A k \in Conn : reg[k] # 0 /\ reg'[k] = 0 => Ends(k)]_vars
  <2> SUFFICES ASSUME TypeOK, Next, NEW k \in Conn, reg[k] # 0, reg'[k] = 0
               PROVE  Ends(k)
    OBVIOUS
  <2>1. ASSUME NEW p \in Caller, NEW c \in Conn, NEW start \in BOOLEAN, Pop(p, c, start)
        PROVE  Ends(k)
    <3> DEFINE request == [at |-> "set", key |-> c, prev |-> reg[c], start |-> start]
    <3>1. k = c
      BY <2>1 DEF Pop, TypeOK
    <3>2. call[p] = Idle /\ call'[p] = request
      BY <2>1 DEF Pop, TypeOK
    <3>3. request # Idle /\ request.key = c
      BY DEF Idle
    <3> QED
      BY <3>1, <3>2, <3>3
  <2>2. ASSUME NEW p \in Caller, NEW set \in BOOLEAN, Register(p, set) PROVE FALSE
    <3>1. gen + 1 # 0 /\ reg' = [reg EXCEPT ![call[p].key] = gen + 1]
      BY <2>2, GenFacts DEF Register
    <3> QED
      BY <3>1 DEF TypeOK
  <2>3. ASSUME NEW g \in Started, Exit(g) PROVE Ends(k)
    BY <2>3, ExitTakesItsOwn
  <2>4. reg' # reg
    OBVIOUS
  <2> QED
    BY <2>1, <2>2, <2>3, <2>4 DEF Next, Handler, Refresh, SetPrevious, SetRoomEvent, CloseConn,
       Wake, Tick, Push, PushFails
<1> QED
  BY <1>1, RefresherTypeCorrect, PTL DEF Spec, EndsItsOwn
=============================================================================
