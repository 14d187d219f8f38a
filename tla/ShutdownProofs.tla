---------------------------- MODULE ShutdownProofs ----------------------------
(***************************************************************************)
(* What holds of a shutdown for any number of children and clients, any    *)
(* number of signals and faults, and any patience of the supervisor.       *)
(***************************************************************************)
EXTENDS Shutdown, TLAPS

LEMMA ManagerIsAKid == Manager \in Kids /\ Servers \in Nat
  BY ShutdownAssumption DEF Kids

-----------------------------------------------------------------------------
(***************************************************************************)
(* Type correctness                                                        *)
(***************************************************************************)

(* A signal leaves the children that were not started, and the rooms, in   *)
(* their types.                                                            *)
LEMMA HitType ==
  ASSUME TypeOK, NEW S, Hit(S)
  PROVE  /\ child' \in [Kids -> Running \cup {"none", "dead"}]
         /\ \A k \in Kids : child'[k] = "none" <=> child[k] = "none"
         /\ \A k \in Kids : child[k] = "dead" => child'[k] = "dead"
         /\ \A r \in DOMAIN conns' : r \in Client /\ conns'[r] \subseteq Client
         /\ creating' = creating /\ due' \subseteq Client /\ stale' = stale
         /\ end' \in {"none", "drained", "cut", "killed", "fault"}
         /\ end' = "none" <=> child'[Manager] # "dead"
<1> DEFINE drains == Manager \in S /\ child[Manager] = "up"
           cut == Manager \in S /\ child[Manager] = "drain"
<1>1. child' = [k \in Kids |->
                  IF k \notin S \/ child[k] \notin {"boot", "up", "drain"} THEN child[k]
                  ELSE IF k = Manager /\ drains THEN "drain" ELSE "dead"]
  BY DEF Hit
<1>2. child' \in [Kids -> Running \cup {"none", "dead"}]
  BY <1>1 DEF TypeOK, Running
<1>3. \A k \in Kids : child'[k] = "none" <=> child[k] = "none"
  BY <1>1
<1>4. \A k \in Kids : child[k] = "dead" => child'[k] = "dead"
  BY <1>1
<1>5. \A r \in DOMAIN conns' : r \in Client /\ conns'[r] \subseteq Client
  BY DEF Hit, TypeOK, NoRooms, Rooms
<1>6. creating' = creating /\ due' \subseteq Client /\ stale' = stale
  BY DEF Hit, TypeOK, Members, Rooms
<1>7. end' = IF cut THEN "cut" ELSE IF child'[Manager] = "dead" /\ end = "none"
                                    THEN "fault" ELSE end
  BY DEF Hit
<1>8. cut => child'[Manager] = "dead"
  BY <1>1, ManagerIsAKid
<1>9. child'[Manager] # "dead" => child[Manager] # "dead"
  BY <1>4, ManagerIsAKid
<1>10. /\ end' \in {"none", "drained", "cut", "killed", "fault"}
       /\ end' = "none" <=> child'[Manager] # "dead"
  BY <1>7, <1>8, <1>9 DEF TypeOK
<1> QED
  BY <1>2, <1>3, <1>4, <1>5, <1>6, <1>10

(* A child goes on to another state, and with it perhaps the manager.      *)
LEMMA ChildType ==
  ASSUME TypeOK, NEW k \in Kids, child[k] \in Running,
         NEW l \in Running \cup {"dead"}, child' = [child EXCEPT ![k] = l]
  PROVE  /\ child' \in [Kids -> Running \cup {"none", "dead"}]
         /\ \A i \in Kids : child'[i] = "none" <=> child[i] = "none"
         /\ child'[k] = l /\ \A i \in Kids \ {k} : child'[i] = child[i]
  BY DEF TypeOK, Running

LEMMA ShutdownType ==
  ASSUME TypeOK, [Next]_vars
  PROVE  TypeOK'
<1> USE DEF TypeOK
<1>0. Manager \in Kids /\ Servers \in Nat
  BY ManagerIsAKid
<1>1. CASE UNCHANGED vars
  BY <1>1 DEF vars, supVars, roomVars, Rooms
<1>2. CASE Popen
  <2>1. started' = started + 1 /\ started' \in Kids /\ started' \in 0 .. Servers
    BY <1>2, <1>0 DEF Popen, Kids
  <2>2. /\ child' \in [Kids -> Running \cup {"none", "dead"}]
        /\ \A k \in Kids : child'[k] = "none" <=> k > started'
    BY <1>2, <2>1 DEF Popen, Running, Kids
  <2>3. child'[Manager] # "dead" <=> child[Manager] # "dead"
    BY <1>2, <1>0, <2>1 DEF Popen, Kids
  <2> QED
    BY <1>2, <2>1, <2>2, <2>3 DEF Popen, roomVars, Rooms
<1>3. CASE Record
  BY <1>3 DEF Record, roomVars, Rooms
<1>4. CASE Notice
  BY <1>0, <1>4 DEF Notice, roomVars, Rooms
<1>5. CASE Signal
  <2>1. PICK S \in {{}, Kids} : Hit(S)
    BY <1>5 DEF Signal
  <2>2. signals' \in Nat
    BY <1>5 DEF Signal
  <2>3. 1 \in 1 .. Servers + 1
    BY <1>0
  <2> QED
    BY <1>5, <2>1, <2>2, <2>3, HitType DEF Signal, Rooms
<1>6. CASE Terminate
  <2>1. CASE turn <= recorded /\ Hit({turn}) /\ turn' = turn + 1 /\ UNCHANGED sup
    BY <1>6, <1>0, <2>1, HitType DEF Terminate, Rooms
  <2>2. CASE turn > recorded
    BY <1>6, <1>0, <2>2 DEF Terminate, AwaitAll, roomVars, Rooms
  <2> QED
    BY <1>6, <2>1, <2>2 DEF Terminate
<1>7. CASE Await
  BY <1>7, <1>0 DEF Await, roomVars, Rooms
<1>8. CASE Kill
  <2>1. turn \in Kids /\ child[turn] \in Running
    BY <1>8, <1>0 DEF Kill, Kids
  <2>2. child' = [child EXCEPT ![turn] = "dead"]
    BY <1>8 DEF Kill
  <2> QED
    BY <1>8, <1>0, <2>1, <2>2, ChildType DEF Kill, supVars, roomVars, Rooms
<1>9. CASE Booted
  <2>1. child[Manager] \in Running /\ child' = [child EXCEPT ![Manager] = "up"] /\ "up" \in Running
    BY <1>9 DEF Booted, Running
  <2> QED
    BY <1>9, <1>0, <2>1, ChildType DEF Booted, supVars, roomVars, Rooms
<1>10. ASSUME NEW k \in Kids, Fault(k) PROVE TypeOK'
  <2>1. PICK f \in {"dead", "stuck"} : child' = [child EXCEPT ![k] = f]
    BY <1>10 DEF Fault
  <2>2. child[k] \in Running /\ f \in Running \cup {"dead"} /\ child[k] # "dead"
    BY <1>10 DEF Fault, Running
  <2>3. /\ child' \in [Kids -> Running \cup {"none", "dead"}]
        /\ \A i \in Kids : child'[i] = "none" <=> child[i] = "none"
        /\ child'[k] = f /\ \A i \in Kids \ {k} : child'[i] = child[i]
    BY <2>1, <2>2, ChildType
  <2>4. end' = IF k = Manager /\ child'[k] = "dead" THEN "fault" ELSE end
    BY <1>10 DEF Fault
  <2>5. /\ end' \in {"none", "drained", "cut", "killed", "fault"}
        /\ end' = "none" <=> child'[Manager] # "dead"
    BY <1>0, <2>2, <2>3, <2>4
  <2>6. faults' \in Nat /\ UNCHANGED <<supVars, waited, roomVars>>
    BY <1>10 DEF Fault
  <2> QED
    BY <2>3, <2>5, <2>6 DEF supVars, roomVars, Rooms
<1>11. CASE CloseRoom
  BY <1>11 DEF CloseRoom, supVars, Rooms
<1>12. CASE Drained
  <2>1. child[Manager] \in Running /\ child' = [child EXCEPT ![Manager] = "dead"]
    BY <1>12 DEF Drained, Running
  <2> QED
    BY <1>12, <1>0, <2>1, ChildType DEF Drained, supVars, roomVars, Rooms
<1>13. ASSUME NEW c \in Client, Tell(c) \/ LogRaises(c) PROVE TypeOK'
  BY <1>13 DEF Tell, LogRaises, Notify, supVars, Rooms
<1>14. ASSUME NEW c \in Client, Create(c) \/ GoStale(c) PROVE TypeOK'
  BY <1>14 DEF Create, GoStale, supVars, Rooms
<1>15. ASSUME NEW c \in Client, Register(c) PROVE TypeOK'
  BY <1>15 DEF Register, supVars, Rooms
<1>16. ASSUME NEW c \in Client, Join(c) PROVE TypeOK'
  BY <1>16 DEF Join, supVars, Rooms
<1>17. ASSUME NEW c \in Client, LeaveRoom(c) PROVE TypeOK'
  BY <1>17 DEF LeaveRoom, Without, supVars, Rooms
<1> QED
  BY <1>1, <1>2, <1>3, <1>4, <1>5, <1>6, <1>7, <1>8, <1>9, <1>10, <1>11, <1>12, <1>13,
     <1>14, <1>15, <1>16, <1>17 DEF Next

(* Every variable stays in its type, the children are started in order,    *)
(* and the manager has an end exactly when it is dead.                     *)
THEOREM ShutdownTypeCorrect == Spec => []TypeOK
<1>1. Init => TypeOK
  BY ShutdownAssumption DEF Init, TypeOK, Kids, Rooms, NoRooms, Running
<1>2. TypeOK /\ [Next]_vars => TypeOK'
  BY ShutdownType
<1> QED
  BY <1>1, <1>2, PTL DEF Spec

-----------------------------------------------------------------------------
(***************************************************************************)
(* The supervisor leaves nobody behind                                     *)
(***************************************************************************)

(* The children it has waited for are dead, and dead they stay, though     *)
(* another signal makes it start again.                                    *)
WaitInv ==
  /\ sup = "wait" => \A k \in 1 .. turn - 1 : child[k] = "dead"
  /\ NobodyLeft

LEMMA DeadStaysDead ==
  ASSUME TypeOK, [Next]_vars, NEW k \in Kids, child[k] = "dead"
  PROVE  child'[k] = "dead"
<1>1. CASE Popen
  <2>1. k # started + 1
    BY DEF TypeOK, Kids
  <2> QED
    BY <1>1, <2>1 DEF Popen, TypeOK
<1>2. CASE Signal \/ Terminate
  BY <1>2 DEF Signal, Terminate, Hit
<1>3. CASE UNCHANGED child
  BY <1>3
<1>4. CASE Kill \/ Booted \/ Drained \/ \E i \in Kids : Fault(i)
  BY <1>4 DEF Kill, Booted, Drained, Fault, TypeOK
<1> QED
  BY <1>1, <1>2, <1>3, <1>4
     DEF Next, vars, Record, Notice, Await, CloseRoom, Tell, LogRaises, Notify, Create, Register, Join, LeaveRoom,
         GoStale

LEMMA WaitStep ==
  ASSUME TypeOK, WaitInv, [Next]_vars
  PROVE  WaitInv'
<1>0. /\ \A k \in 1 .. Servers : child[k] = "dead" => child'[k] = "dead"
      /\ Servers \in Nat /\ turn \in 1 .. Servers + 1 /\ recorded \in 0 .. Servers
  BY DeadStaysDead, ManagerIsAKid DEF Kids, TypeOK
<1>1. CASE Popen \/ Record \/ Notice \/ Signal
  BY <1>1 DEF Popen, Record, Notice, Signal, WaitInv, NobodyLeft
<1>2. CASE Terminate
  <2>1. sup' = "terminate" \/ (sup' = "wait" /\ turn' = 1)
    BY <1>2 DEF Terminate, AwaitAll
  <2> QED
    BY <2>1 DEF WaitInv, NobodyLeft
<1>3. CASE Await
  <2>1. CASE turn <= recorded /\ child[turn] = "dead" /\ turn' = turn + 1 /\ UNCHANGED sup
    BY <1>3, <1>0, <2>1 DEF Await, WaitInv, NobodyLeft
  <2>2. CASE turn > recorded /\ sup' = "exited"
    BY <1>3, <1>0, <2>2 DEF Await, WaitInv, NobodyLeft
  <2> QED
    BY <1>3, <2>1, <2>2 DEF Await
<1>4. CASE UNCHANGED <<sup, turn, recorded>>
  BY <1>0, <1>4 DEF WaitInv, NobodyLeft
<1> QED
  BY <1>1, <1>2, <1>3, <1>4
     DEF Next, vars, supVars, Kill, Booted, CloseRoom, Drained, Fault, Tell, LogRaises, Notify, Create, Register,
         Join, LeaveRoom, GoStale

(* Whatever signals arrive and whichever children hang, the supervisor     *)
(* exits after every child it has recorded (run_all.py:60-64).             *)
THEOREM NobodyIsLeft == Spec => []NobodyLeft
<1>1. Init => WaitInv
  BY DEF Init, WaitInv, NobodyLeft
<1>2. TypeOK /\ WaitInv /\ [Next]_vars => WaitInv'
  BY WaitStep
<1>3. WaitInv => NobodyLeft
  BY DEF WaitInv
<1> QED
  BY <1>1, <1>2, <1>3, ShutdownTypeCorrect, PTL DEF Spec

-----------------------------------------------------------------------------
(***************************************************************************)
(* The drain reaches everybody                                             *)
(***************************************************************************)

(* Whoever was in a room when the drain began has been told, cannot be, is *)
(* behind a raising log write, or still to come, and this stays so         *)
(* although rooms are registered and connections fail meanwhile.           *)
DrainInv ==
  /\ child[Manager] = "drain" =>
       due \subseteq told \cup stale \cup lost \cup who \cup UNION {left[r] : r \in DOMAIN left}
  /\ DrainTells

LEMMA DrainKept ==
  ASSUME DrainInv, child'[Manager] = child[Manager], end' \in {end, "cut", "killed", "fault"},
         due' = due, left' = left, who' = who, told' = told, lost' = lost, stale \subseteq stale'
  PROVE  DrainInv'
  BY DEF DrainInv, DrainTells

(* It ends otherwise.                                                      *)
LEMMA DrainOver ==
  ASSUME DrainInv, child'[Manager] # "drain", end' \in {end, "cut", "killed", "fault"},
         due' = due, told' = told, lost' = lost, stale' = stale
  PROVE  DrainInv'
  BY DEF DrainInv, DrainTells

LEMMA DrainHit ==
  ASSUME TypeOK, DrainInv, NEW S, Hit(S)
  PROVE  DrainInv'
<1>0. Manager \in Kids
  BY ManagerIsAKid
<1>1. CASE Manager \in S /\ child[Manager] = "up"
  <2>1. /\ left' = conns /\ due' = UNION {conns[r] : r \in DOMAIN conns}
        /\ child'[Manager] = "drain" /\ end = "none" /\ end' = "none"
    BY <1>0, <1>1 DEF Hit, Members, Rooms, TypeOK
  <2> QED
    BY <2>1 DEF DrainInv, DrainTells
<1>2. CASE ~ (Manager \in S /\ child[Manager] = "up")
  <2>1. /\ UNCHANGED <<left, due, who, told, lost, stale>>
        /\ end' \in {end, "cut", "fault"}
        /\ child'[Manager] = child[Manager] \/ child'[Manager] = "dead"
    BY <1>0, <1>2 DEF Hit
  <2> QED
    BY <2>1, DrainKept, DrainOver
<1> QED
  BY <1>1, <1>2

LEMMA DrainStep ==
  ASSUME TypeOK, DrainInv, [Next]_vars
  PROVE  DrainInv'
<1>0. Manager \in Kids /\ child \in [Kids -> Running \cup {"none", "dead"}]
  BY ManagerIsAKid DEF TypeOK
<1>1. CASE UNCHANGED vars
  BY <1>1, DrainKept DEF vars, roomVars
<1>2. CASE Popen
  <2>1. /\ UNCHANGED <<left, due, who, told, lost, stale, end>>
        /\ child' = [child EXCEPT ![started + 1] = child'[started + 1]]
        /\ child'[started + 1] \in {"boot", "up"} \/ started + 1 \notin Kids
    BY <1>0, <1>2 DEF Popen, roomVars
  <2>2. child'[Manager] = child[Manager] \/ child'[Manager] # "drain"
    BY <1>0, <2>1
  <2> QED
    BY <2>1, <2>2, DrainKept, DrainOver
<1>3. CASE Record \/ Notice \/ Await
  BY <1>3, DrainKept DEF Record, Notice, Await, roomVars
<1>4. CASE Signal
  BY <1>4, DrainHit DEF Signal
<1>5. CASE Terminate
  <2>1. CASE Hit({turn})
    BY <2>1, DrainHit
  <2>2. CASE UNCHANGED <<child, roomVars, end>>
    BY <2>2, DrainKept DEF roomVars
  <2> QED
    BY <1>5, <2>1, <2>2 DEF Terminate
<1>6. CASE Kill
  <2>1. /\ UNCHANGED <<left, due, who, told, lost, stale>> /\ end' \in {end, "killed"}
        /\ child'[Manager] = child[Manager] \/ child'[Manager] = "dead"
    BY <1>0, <1>6 DEF Kill, roomVars
  <2> QED
    BY <2>1, DrainKept, DrainOver
<1>7. CASE Booted
  <2>1. UNCHANGED <<left, due, who, told, lost, stale, end>> /\ child'[Manager] = "up"
    BY <1>0, <1>7 DEF Booted, roomVars
  <2> QED
    BY <2>1, DrainOver
<1>8. ASSUME NEW k \in Kids, Fault(k) PROVE DrainInv'
  <2>1. /\ UNCHANGED <<left, due, who, told, lost, stale>> /\ end' \in {end, "fault"}
        /\ child'[Manager] = child[Manager] \/ child'[Manager] \in {"dead", "stuck"}
    BY <1>0, <1>8 DEF Fault, roomVars
  <2> QED
    BY <2>1, DrainKept, DrainOver
<1>9. CASE CloseRoom
  <2>1. PICK r \in DOMAIN left : who' = left[r] /\ left' = [i \in DOMAIN left \ {r} |-> left[i]]
    BY <1>9 DEF CloseRoom, Others, Without
  <2>2. \A i \in DOMAIN left \ {r} : left'[i] = left[i] /\ i \in DOMAIN left'
    BY <2>1
  <2>3. UNION {left[i] : i \in DOMAIN left} \subseteq who' \cup UNION {left'[i] : i \in DOMAIN left'}
    BY <2>1, <2>2
  <2>4. who = {} /\ UNCHANGED <<child, due, told, lost, stale, end>>
    BY <1>9 DEF CloseRoom
  <2> QED
    BY <2>3, <2>4 DEF DrainInv, DrainTells
<1>10. ASSUME NEW c \in Client, Tell(c) \/ LogRaises(c) PROVE DrainInv'
  <2>1. /\ who \subseteq who' \cup lost' \cup {c}
        /\ told \subseteq told' /\ lost \subseteq lost'
        /\ c \in told' \cup stale
        /\ UNCHANGED <<child, left, due, stale, end>>
    BY <1>10 DEF Tell, LogRaises, Notify, GoesOn
  <2> QED
    BY <2>1 DEF DrainInv, DrainTells
<1>11. CASE Drained
  <2>1. /\ child[Manager] = "drain" /\ who = {} /\ DOMAIN left = {}
        /\ UNCHANGED <<due, told, lost, stale>> /\ child'[Manager] = "dead"
    BY <1>0, <1>11 DEF Drained, NoRooms, roomVars
  <2>2. due \subseteq told \cup stale \cup lost
    BY <2>1 DEF DrainInv
  <2> QED
    BY <2>1, <2>2 DEF DrainInv, DrainTells
<1>12. ASSUME NEW c \in Client, Create(c) \/ Register(c) \/ Join(c) \/ LeaveRoom(c) \/ GoStale(c)
       PROVE  DrainInv'
  BY <1>12, DrainKept DEF Create, Register, Join, LeaveRoom, GoStale
<1> QED
  BY <1>1, <1>2, <1>3, <1>4, <1>5, <1>6, <1>7, <1>8, <1>9, <1>10, <1>11, <1>12 DEF Next

(* A drain that is not cut short has told every member of every room that  *)
(* can be told, but those behind a member of their room about whom a log   *)
(* write raised (session_manager.py:1072-1083, 2946).                      *)
THEOREM DrainTellsAll == Spec => []DrainTells
<1>1. Init => DrainInv
  BY ManagerIsAKid DEF Init, DrainInv, DrainTells
<1>2. TypeOK /\ DrainInv /\ [Next]_vars => DrainInv'
  BY DrainStep
<1>3. DrainInv => DrainTells
  BY DEF DrainInv
<1> QED
  BY <1>1, <1>2, <1>3, ShutdownTypeCorrect, PTL DEF Spec

-----------------------------------------------------------------------------
(***************************************************************************)
(* The drain is given its time                                             *)
(***************************************************************************)

(* There has been a reason to stop when the supervisor stops; and two when *)
(* its handler, on its way through the children, still has a manager       *)
(* before it that already drains.                                          *)
ReasonInv ==
  /\ sup = "main" => /\ child[Manager] # "drain"
                     /\ \A k \in Kids : child[k] = "dead" => faults >= 1
  /\ sup # "main" => signals + faults >= 1
  /\ sup = "terminate" /\ turn <= Manager /\ child[Manager] = "drain" => signals + faults > 1

(* What a signal to the children does to the manager, if anything.         *)
LEMMA HitManager ==
  ASSUME TypeOK, NEW S, Hit(S)
  PROVE  /\ Manager \notin S => child'[Manager] = child[Manager]
         /\ child[Manager] = "drain" => child'[Manager] \in {"drain", "dead"}
  BY ManagerIsAKid DEF Hit

LEMMA ReasonStep ==
  ASSUME TypeOK, ReasonInv, [Next]_vars
  PROVE  ReasonInv'
<1>0. /\ Manager \in Kids /\ Manager \in Nat /\ child \in [Kids -> Running \cup {"none", "dead"}]
      /\ signals \in Nat /\ faults \in Nat /\ turn \in Nat
  BY ManagerIsAKid DEF TypeOK, Kids
<1>1. CASE UNCHANGED <<sup, turn, signals, faults, child>>
  BY <1>1 DEF ReasonInv
<1>2. CASE Popen
  <2>1. /\ sup = "main" /\ UNCHANGED <<sup, turn, signals, faults>>
        /\ \A k \in Kids : child'[k] = child[k] \/ child'[k] \in {"boot", "up"}
    BY <1>0, <1>2 DEF Popen
  <2> QED
    BY <1>0, <2>1 DEF ReasonInv
<1>3. CASE Notice
  BY <1>0, <1>3 DEF Notice, ReasonInv
<1>4. CASE Signal
  <2>1. PICK S \in {{}, Kids} : Hit(S) /\ signals' = signals + (IF S = {} THEN 1 ELSE 2)
    BY <1>4 DEF Signal
  <2>2. sup' = "terminate" /\ faults' = faults
    BY <1>4 DEF Signal
  <2>3. signals' \in Nat /\ signals' >= 1 /\ signals' >= signals + 1
    BY <1>0, <2>1
  <2>4. ASSUME child'[Manager] = "drain" PROVE signals' + faults > 1
    <3>1. CASE S = {}
      <4>1. child[Manager] = "drain"
        BY <2>1, <2>4, <3>1, HitManager
      <4>2. signals + faults >= 1
        BY <4>1 DEF ReasonInv
      <4>3. \A n, m, f \in Nat : n + f >= 1 /\ m >= n + 1 => m + f > 1
        OBVIOUS
      <4> QED
        BY <1>0, <2>3, <4>2, <4>3
    <3>2. CASE S # {}
      BY <1>0, <2>1, <3>2
    <3> QED
      BY <3>1, <3>2
  <2>5. signals' + faults >= 1
    <3>1. \A m, f \in Nat : m >= 1 => m + f >= 1
      OBVIOUS
    <3> QED
      BY <1>0, <2>3, <3>1
  <2> QED
    BY <2>2, <2>4, <2>5 DEF ReasonInv
<1>5. CASE Terminate
  <2>1. CASE turn <= recorded /\ Hit({turn}) /\ turn' = turn + 1 /\ UNCHANGED sup
    <3>1. sup = "terminate" /\ UNCHANGED <<sup, signals, faults>>
      BY <1>5, <2>1 DEF Terminate
    <3>2. turn' <= Manager => child'[Manager] = child[Manager] /\ turn <= Manager
      BY <1>0, <2>1, HitManager
    <3> QED
      BY <3>1, <3>2 DEF ReasonInv
  <2>2. CASE sup' = "wait"
    BY <1>5, <2>2 DEF Terminate, ReasonInv
  <2> QED
    BY <1>5, <2>1, <2>2 DEF Terminate, AwaitAll
<1>6. CASE Await \/ Kill
  BY <1>6 DEF Await, Kill, supVars, ReasonInv
<1>7. CASE Booted
  <2>1. /\ UNCHANGED <<sup, turn, signals, faults>>
        /\ \A k \in Kids : child'[k] = child[k] \/ child'[k] = "up"
    BY <1>0, <1>7 DEF Booted, supVars
  <2> QED
    BY <1>0, <2>1 DEF ReasonInv
<1>8. ASSUME NEW k \in Kids, Fault(k) PROVE ReasonInv'
  <2>1. /\ UNCHANGED <<sup, turn, signals>> /\ faults' = faults + 1
        /\ \A i \in Kids : child'[i] = child[i] \/ child'[i] \in {"dead", "stuck"}
    BY <1>0, <1>8 DEF Fault, supVars
  <2> QED
    BY <1>0, <2>1 DEF ReasonInv
<1>9. CASE Drained
  <2>1. /\ UNCHANGED <<sup, turn, signals, faults>> /\ sup # "main"
        /\ child'[Manager] = "dead"
    BY <1>0, <1>9 DEF Drained, supVars, ReasonInv
  <2> QED
    BY <2>1 DEF ReasonInv
<1> QED
  BY <1>1, <1>2, <1>3, <1>4, <1>5, <1>6, <1>7, <1>8, <1>9
  DEF Next, vars, supVars, Record, CloseRoom, Tell, LogRaises, Notify, Create, Register, Join, LeaveRoom, GoStale

(* A draining manager that comes to its end without having drained was     *)
(* killed by a supervisor without patience, or cut by a second reason.     *)
LEMMA DrainCut ==
  ASSUME TypeOK, ReasonInv, Next,
         child[Manager] = "drain", child'[Manager] = "dead", end' # "drained"
  PROVE  waited >= Patience \/ signals' + faults > 1
<1>0. /\ Manager \in Kids /\ child \in [Kids -> Running \cup {"none", "dead"}]
      /\ signals \in Nat /\ faults \in Nat
  BY ManagerIsAKid DEF TypeOK
<1>1. CASE Signal
  <2>1. PICK S \in {{}, Kids} : Hit(S) /\ signals' = signals + (IF S = {} THEN 1 ELSE 2)
    BY <1>1 DEF Signal
  <2>2. S # {}
    BY <2>1, HitManager
  <2> QED
    BY <1>0, <2>1, <2>2
<1>2. CASE Terminate
  <2>1. sup = "terminate" /\ Hit({turn}) /\ signals' = signals
    BY <1>2 DEF Terminate
  <2>2. turn = Manager /\ turn <= Manager
    <3>1. turn = Manager
      BY <2>1, HitManager
    <3> QED
      BY <1>0, <3>1 DEF TypeOK
  <2> QED
    BY <2>1, <2>2 DEF ReasonInv
<1>3. CASE Kill
  <2>1. turn = Manager
    BY <1>0, <1>3 DEF Kill
  <2> QED
    BY <1>3, <2>1 DEF Kill, OutOfPatience
<1>4. CASE Popen
  BY <1>0, <1>4 DEF Popen
<1>5. ASSUME NEW k \in Kids, Fault(k) PROVE FALSE
  BY <1>0, <1>5 DEF Fault
<1>6. CASE Booted \/ Drained
  BY <1>6 DEF Booted, Drained
<1> QED
  BY <1>1, <1>2, <1>3, <1>4, <1>5, <1>6
  DEF Next, Record, Notice, Await, CloseRoom, Tell, LogRaises, Notify, Create, Register, Join, LeaveRoom, GoStale

(* One reason to stop does not cut a drain: for that it takes a second      *)
(* signal or a fault, or as many members that cannot be told as the         *)
(* supervisor has patience for (run_all.py:38, 61).                         *)
THEOREM DrainsHaveTime == Spec => DrainHasTime
<1>1. Init => ReasonInv
  BY ManagerIsAKid DEF Init, ReasonInv
<1>2. TypeOK /\ ReasonInv /\ [Next]_vars
        => [ (child[Manager] = "drain" /\ child'[Manager] = "dead" /\ end' # "drained")
             => waited >= Patience \/ signals' + faults > 1 ]_vars
  BY DrainCut
<1>3. TypeOK /\ ReasonInv /\ [Next]_vars => ReasonInv'
  BY ReasonStep
<1> QED
  BY <1>1, <1>2, <1>3, ShutdownTypeCorrect, PTL DEF Spec, DrainHasTime
=============================================================================
