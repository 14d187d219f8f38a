--------------------------- MODULE StubServersProofs ---------------------------
(***************************************************************************)
(* Type correctness of StubServers, conservation of its handler slots, and *)
(* what the log keeps: how large it gets, in which order its entries are   *)
(* and which of them survive, for any number of clients, slots, crashes    *)
(* and backups, and any size of the log.                                   *)
(***************************************************************************)
EXTENDS StubServers, FiniteSetTheorems, TLAPS

States == {"away", "backlog", "recv", "linger", "release", "log", "write"}

-----------------------------------------------------------------------------
(***************************************************************************)
(* Type correctness                                                        *)
(***************************************************************************)

LEMMA BlockType ==
  ASSUME TypeOK, NEW c \in Conn
  PROVE  Block(c) \in Nat
<1>1. talk[c] \in Nat /\ MaxChars \in Nat
  BY StubAssumption DEF TypeOK
<1>2. CappedBlock(c) \in Nat /\ LocationBlock(c) \in Nat
  BY <1>1 DEF CappedBlock, LocationBlock
<1> QED
  BY <1>2 DEF Block, TypeOK

LEMMA BytesType ==
  ASSUME NEW entries \in Seq(Entry)
  PROVE  Bytes(entries) \in Nat
<1>1. CASE entries = <<>>
  BY <1>1 DEF Bytes
<1>2. CASE entries # <<>>
  <2>1. entries[Len(entries)] \in Entry
    BY <1>2
  <2> QED
    BY <1>2, <2>1 DEF Bytes, Newest, Entry
<1> QED
  BY <1>1, <1>2

(* The operations on the disk, whoever calls them.                         *)
LEMMA MoveType ==
  ASSUME LogTypeOK, MoveGeneration
  PROVE  LogTypeOK'
<1>1. at \in 0 .. Backups /\ Backups \in Nat
  BY LogAssumption DEF LogTypeOK, MoveGeneration, NotRotating
<1>2. /\ DOMAIN files' \subseteq 0 .. Backups
      /\ \A g \in DOMAIN files' : files'[g] \in Seq(Entry)
  <2>1. CASE at \notin DOMAIN files
    BY <2>1 DEF LogTypeOK, MoveGeneration
  <2>2. CASE at \in DOMAIN files /\ at = Backups
    BY <2>2 DEF LogTypeOK, MoveGeneration, Moved, Removed
  <2>3. CASE at \in DOMAIN files /\ at # Backups
    <3>1. files' = [h \in (DOMAIN files \ {at}) \cup {at + 1} |->
                      IF h = at + 1 THEN files[at] ELSE files[h]]
      BY <2>3 DEF MoveGeneration, Moved, Renamed
    <3>2. at + 1 \in 0 .. Backups
      BY <1>1, <2>3
    <3> QED
      BY <2>3, <3>1, <3>2 DEF LogTypeOK
  <2> QED
    BY <2>1, <2>2, <2>3
<1>3. at' \in NotRotating .. Backups
  BY <1>1 DEF MoveGeneration, NotRotating, Reopening
<1> QED
  BY <1>2, <1>3 DEF LogTypeOK, MoveGeneration

LEMMA OpenedType ==
  ASSUME LogTypeOK
  PROVE  /\ DOMAIN Opened \subseteq 0 .. Backups
         /\ \A g \in DOMAIN Opened : Opened[g] \in Seq(Entry)
<1>1. Backups \in Nat /\ 0 \in 0 .. Backups
  BY LogAssumption
<1> QED
  BY <1>1 DEF LogTypeOK, Opened, Held

LEMMA ReopenType ==
  ASSUME LogTypeOK, Reopen \/ ReopenRaises \/ MoveRaises \/ StartRotation \/ LogRestart
  PROVE  LogTypeOK'
<1>1. NotRotating \in NotRotating .. Backups /\ Backups \in NotRotating .. Backups
  BY LogAssumption DEF NotRotating
<1>2. CASE Reopen
  BY <1>1, <1>2, OpenedType DEF LogTypeOK, Reopen
<1>3. CASE ReopenRaises
  BY <1>1, <1>3 DEF LogTypeOK, ReopenRaises
<1>4. CASE MoveRaises
  BY <1>1, <1>4 DEF LogTypeOK, MoveRaises
<1>5. CASE StartRotation
  BY <1>1, <1>5 DEF LogTypeOK, StartRotation
<1>6. CASE LogRestart
  <2>1. Held(0) \in Seq(Entry)
    BY DEF Held, LogTypeOK
  <2> QED
    BY <1>1, <1>6, <2>1, OpenedType, BytesType DEF LogTypeOK, LogRestart
<1> QED
  BY <1>2, <1>3, <1>4, <1>5, <1>6

(* An entry that gets to the file, counted by _size or not.                *)
Puts(len) ==
  /\ at = NotRotating /\ ~ NeedsRotation
  /\ Added(len)
  /\ \/ size' = size + len /\ unsized' = unsized
     \/ size' = size /\ unsized' = unsized + len
  /\ UNCHANGED <<fp, at, undone>>

LEMMA WritesPut ==
  ASSUME NEW len, Write(len) \/ WriteRaises(len)
  PROVE  Puts(len) \/ UNCHANGED logVars
  BY DEF Write, WriteRaises, Puts, logVars

LEMMA PutsType ==
  ASSUME LogTypeOK, NEW len \in Nat, Puts(len)
  PROVE  LogTypeOK'
<1>0. 0 \in DOMAIN files => Bytes(files[0]) \in Nat
  BY BytesType DEF LogTypeOK
<1>1. 0 \in DOMAIN files => [n |-> written + 1, end |-> Bytes(files[0]) + len] \in Entry
  BY <1>0 DEF LogTypeOK, Entry
<1>2. /\ DOMAIN files' = DOMAIN files
      /\ \A g \in DOMAIN files : files'[g] \in Seq(Entry)
  BY <1>1 DEF LogTypeOK, Puts, Added
<1>3. size' \in Nat /\ unsized' \in Nat /\ written' \in Nat
  BY DEF LogTypeOK, Puts, Added
<1> QED
  BY <1>2, <1>3 DEF LogTypeOK, Puts

LEMMA LogSame ==
  ASSUME LogTypeOK, UNCHANGED logVars
  PROVE  LogTypeOK'
  BY DEF LogTypeOK, logVars

LEMMA StubType ==
  ASSUME TypeOK, [Next]_vars
  PROVE  TypeOK'
<1> USE DEF TypeOK
<1>0. Slots \in Nat
  BY StubAssumption
<1>1. CASE UNCHANGED vars
  BY <1>1, LogSame DEF vars, stubVars
<1>2. CASE AcquireSlot
  BY <1>2, LogSame DEF AcquireSlot
<1>3. CASE Accept
  <2>1. Head(backlog) \in Conn /\ Tail(backlog) \in Seq(Conn)
    BY <1>3 DEF Accept
  <2> QED
    BY <1>3, <2>1, LogSame DEF Accept
<1>4. CASE Restart
  <2>1. LogTypeOK'
    BY <1>4, ReopenType DEF Restart
  <2>2. backlog' \in Seq(Conn)
    BY <1>4 DEF Restart
  <2>3. st' \in [Conn -> States] /\ talk' \in [Conn -> Nat]
    BY <1>4 DEF Restart, States
  <2>4. /\ acc' = "acquire" /\ free' \in Nat /\ locked' = FALSE
        /\ server' = server /\ made' = made /\ crashes' \in Nat
    BY <1>0, <1>4 DEF Restart
  <2> QED
    BY <2>1, <2>2, <2>3, <2>4 DEF States
<1>5. ASSUME NEW c \in Conn, Connect(c) PROVE TypeOK'
  BY <1>5, LogSame DEF Connect
<1>6. ASSUME NEW c \in Conn, LocationReply(c) \/ LocationLinger(c) \/ VoiceReply(c)
                             \/ SessionLogs(c) \/ SendFails(c)
      PROVE  TypeOK'
  <2>1. /\ talk' = [talk EXCEPT ![c] = IF @ < MaxTalk THEN @ + 1 ELSE @]
        /\ \E l \in {"recv", "linger", "log", "release"} : Goes(c, l)
    BY <1>6 DEF LocationReply, LocationLinger, VoiceReply, SessionLogs, SendFails, Received
  <2>2. talk' \in [Conn -> Nat]
    BY <2>1
  <2> QED
    BY <2>1, <2>2, LogSame DEF Goes
<1>7. ASSUME NEW c \in Conn, Ends(c) PROVE TypeOK'
  BY <1>7, LogSame DEF Ends, Goes
<1>8. ASSUME NEW c \in Conn, Release(c) PROVE TypeOK'
  BY <1>8, LogSame DEF Release, GivesBack
<1>9. ASSUME NEW c \in Conn, TakeLog(c) PROVE TypeOK'
  <2>1. LogTypeOK'
    BY <1>9, LogSame, ReopenType DEF TakeLog
  <2> QED
    BY <1>9, <2>1 DEF TakeLog
<1>10. ASSUME NEW c \in Conn, Rotating(c) PROVE TypeOK'
  BY <1>10, MoveType, ReopenType DEF Rotating, stubVars
<1>11. ASSUME NEW c \in Conn, LogStep(c) PROVE TypeOK'
  <2>0. Block(c) \in Nat
    BY BlockType
  <2>1. LogTypeOK'
    <3>1. ASSUME Write(Block(c)) \/ WriteRaises(Block(c)) PROVE LogTypeOK'
      BY <2>0, <3>1, WritesPut, PutsType, LogSame
    <3> QED
      BY <1>11, <3>1, ReopenType DEF LogStep
  <2>2. st' \in [Conn -> States]
    BY <1>11 DEF LogStep, AfterWrite, AfterRaise, States
  <2> QED
    BY <1>11, <2>1, <2>2 DEF LogStep, Released, States
<1> QED
  BY <1>1, <1>2, <1>3, <1>4, <1>5, <1>6, <1>7, <1>8, <1>9, <1>10, <1>11
     DEF Next, Acceptor, Handler

(* Every variable stays in its type: no generation beyond the oldest, and  *)
(* every entry whole, through rotations, failures and crashes.             *)
THEOREM StubTypeCorrect == Spec => []TypeOK
<1>1. Init => TypeOK
  <2> SUFFICES ASSUME Init PROVE TypeOK
    OBVIOUS
  <2>1. LogTypeOK
    BY LogAssumption DEF Init, LogInit, LogTypeOK, NotRotating
  <2>2. backlog \in Seq(Conn) /\ free \in Nat /\ made \in Nat /\ crashes \in Nat
    BY StubAssumption DEF Init
  <2>3. st \in [Conn -> {"away", "backlog", "recv", "linger", "release", "log", "write"}]
        /\ talk \in [Conn -> Nat]
    BY DEF Init
  <2> QED
    BY <2>1, <2>2, <2>3 DEF Init, TypeOK
<1>2. TypeOK /\ [Next]_vars => TypeOK'
  BY StubType
<1> QED
  BY <1>1, <1>2, PTL DEF Spec

-----------------------------------------------------------------------------
(***************************************************************************)
(* The slots                                                               *)
(***************************************************************************)

(* Whoever is in the backlog is there once, and its handler has not begun: *)
(* so the one that accept takes from it does not hold a slot already.      *)
BacklogOK ==
  /\ \A i \in 1 .. Len(backlog) : st[backlog[i]] = "backlog"
  /\ \A i, j \in 1 .. Len(backlog) : backlog[i] = backlog[j] => i = j

Holds(l) == \/ l \in {"recv", "linger", "release"}
            \/ server = "session" /\ l \in {"log", "write"}

LEMMA ServingIs ==
  ASSUME TypeOK
  PROVE  Serving = {c \in Conn : Holds(st[c])} /\ IsFiniteSet(Serving)
<1>1. Serving = {c \in Conn : Holds(st[c])}
  BY DEF Serving, Logging, Holds
<1> QED
  BY <1>1, FS_Subset, StubAssumption

(* A step moves one handler.                                               *)
Moves(c, l) == st' = [st EXCEPT ![c] = l] /\ server' = server

LEMMA BacklogStays ==
  ASSUME TypeOK, BacklogOK, NEW c \in Conn, NEW l, Moves(c, l), st[c] # "backlog",
         backlog' = backlog
  PROVE  BacklogOK'
  BY DEF TypeOK, BacklogOK, Moves

LEMMA NoneMoves ==
  ASSUME TypeOK, SlotsConserved, BacklogOK,
         UNCHANGED <<server, backlog, acc, free, st>>
  PROVE  SlotsConserved' /\ BacklogOK'
  BY DEF SlotsConserved, BacklogOK, Serving, Logging

(* One that holds a slot before and after, or neither.                     *)
LEMMA SlotStays ==
  ASSUME TypeOK, SlotsConserved, NEW c \in Conn, NEW l, Moves(c, l),
         Holds(st[c]) <=> Holds(l), UNCHANGED <<acc, free>>
  PROVE  SlotsConserved'
<1>1. Serving' = {d \in Conn : Holds(st'[d])}
  BY DEF Moves, Serving, Logging, Holds
<1>2. Serving' = Serving
  BY <1>1, ServingIs DEF TypeOK, Moves
<1> QED
  BY <1>2 DEF SlotsConserved

LEMMA SlotTaken ==
  ASSUME TypeOK, SlotsConserved, NEW c \in Conn, NEW l, Moves(c, l),
         ~ Holds(st[c]), Holds(l), acc = "accept", acc' = "acquire", free' = free
  PROVE  SlotsConserved'
<1>1. Serving' = {d \in Conn : Holds(st'[d])}
  BY DEF Moves, Serving, Logging, Holds
<1>2. Serving' = Serving \cup {c} /\ c \notin Serving
  BY <1>1, ServingIs DEF TypeOK, Moves
<1>3. Cardinality(Serving') = Cardinality(Serving) + 1 /\ Cardinality(Serving) \in Nat
  BY <1>2, ServingIs, FS_AddElement, FS_CardinalityType
<1> QED
  BY <1>3 DEF SlotsConserved, TypeOK

LEMMA SlotReturned ==
  ASSUME TypeOK, SlotsConserved, NEW c \in Conn, NEW l, Moves(c, l),
         Holds(st[c]), ~ Holds(l), acc' = acc, free' = free + 1
  PROVE  SlotsConserved'
<1>1. Serving' = {d \in Conn : Holds(st'[d])}
  BY DEF Moves, Serving, Logging, Holds
<1>2. Serving' = Serving \ {c} /\ c \in Serving
  BY <1>1, ServingIs DEF TypeOK, Moves
<1>3. Cardinality(Serving') = Cardinality(Serving) - 1 /\ Cardinality(Serving) \in Nat
  BY <1>2, ServingIs, FS_RemoveElement, FS_CardinalityType
<1> QED
  BY <1>3 DEF SlotsConserved, TypeOK

LEMMA SlotStep ==
  ASSUME TypeOK, SlotsConserved, BacklogOK, [Next]_vars
  PROVE  SlotsConserved' /\ BacklogOK'
<1>1. CASE UNCHANGED vars
  BY <1>1, NoneMoves DEF vars, stubVars
<1>2. CASE AcquireSlot
  <2>1. Serving' = Serving /\ Cardinality(Serving) \in Nat
    BY <1>2, ServingIs, FS_CardinalityType DEF AcquireSlot, Serving, Logging
  <2>2. SlotsConserved'
    BY <1>2, <2>1 DEF AcquireSlot, SlotsConserved, TypeOK
  <2> QED
    BY <1>2, <2>2 DEF AcquireSlot, BacklogOK
<1>3. CASE Accept
  <2> DEFINE c == Head(backlog)
             l == IF server = "session" THEN "log" ELSE "recv"
  <2>1. backlog \in Seq(Conn) /\ backlog # <<>> /\ Len(backlog) \in Nat /\ 1 \in 1 .. Len(backlog)
    BY <1>3 DEF Accept, TypeOK
  <2>2. c \in Conn /\ c = backlog[1]
    BY <2>1
  <2>3. Moves(c, l) /\ ~ Holds(st[c]) /\ Holds(l)
    BY <1>3, <2>1, <2>2 DEF Accept, Moves, Holds, BacklogOK
  <2>4. SlotsConserved'
    BY <1>3, <2>2, <2>3, SlotTaken DEF Accept
  <2>5. /\ backlog' = Tail(backlog) /\ Len(backlog') = Len(backlog) - 1
        /\ \A i \in 1 .. Len(backlog') : i + 1 \in 1 .. Len(backlog)
        /\ \A i \in 1 .. Len(backlog') : backlog'[i] = backlog[i + 1]
    BY <1>3, <2>1 DEF Accept
  <2>6. \A i \in 1 .. Len(backlog') : backlog'[i] # c
    BY <2>1, <2>2, <2>5 DEF BacklogOK
  <2>7. \A i \in 1 .. Len(backlog') : backlog'[i] \in Conn /\ st'[backlog'[i]] = "backlog"
    BY <2>1, <2>3, <2>5, <2>6 DEF BacklogOK, Moves, TypeOK
  <2>8. \A i, j \in 1 .. Len(backlog') : backlog'[i] = backlog'[j] => i = j
    <3> SUFFICES ASSUME NEW i \in 1 .. Len(backlog'), NEW j \in 1 .. Len(backlog'),
                        backlog'[i] = backlog'[j]
                 PROVE  i = j
      OBVIOUS
    <3>1. i + 1 = j + 1
      BY <2>5 DEF BacklogOK
    <3> QED
      BY <3>1
  <2> QED
    BY <2>4, <2>7, <2>8 DEF BacklogOK
<1>4. CASE Restart
  <2>1. Serving' = {}
    BY <1>4 DEF Restart, Serving, Logging
  <2>2. Cardinality(Serving') = 0
    BY <2>1, FS_EmptySet
  <2>3. free' = Slots /\ Slots \in Nat /\ acc' = "acquire" /\ Len(backlog') = 0
    BY <1>4, StubAssumption DEF Restart
  <2> QED
    BY <2>2, <2>3 DEF SlotsConserved, BacklogOK
<1>5. ASSUME NEW c \in Conn, Connect(c) PROVE SlotsConserved' /\ BacklogOK'
  <2>1. SlotsConserved'
    BY <1>5, SlotStays DEF Connect, Moves, Holds
  <2>2. /\ Len(backlog') = Len(backlog) + 1
        /\ \A i \in 1 .. Len(backlog') :
             backlog'[i] = IF i = Len(backlog) + 1 THEN c ELSE backlog[i]
        /\ \A i \in 1 .. Len(backlog') : i # Len(backlog) + 1 => i \in 1 .. Len(backlog)
    BY <1>5 DEF Connect, TypeOK
  <2>3. \A i \in 1 .. Len(backlog) : backlog[i] \in Conn /\ backlog[i] # c
    BY <1>5 DEF Connect, BacklogOK, TypeOK
  <2>4. st' = [st EXCEPT ![c] = "backlog"]
    BY <1>5 DEF Connect
  <2>5. \A i \in 1 .. Len(backlog') : st'[backlog'[i]] = "backlog"
    BY <2>2, <2>3, <2>4 DEF BacklogOK, TypeOK
  <2>6. \A i, j \in 1 .. Len(backlog') : backlog'[i] = backlog'[j] => i = j
    BY <2>2, <2>3 DEF BacklogOK
  <2> QED
    BY <2>1, <2>5, <2>6 DEF BacklogOK
<1>6. ASSUME NEW c \in Conn, LocationReply(c) \/ LocationLinger(c) \/ VoiceReply(c)
                             \/ SessionLogs(c) \/ SendFails(c) \/ Ends(c)
      PROVE  SlotsConserved' /\ BacklogOK'
  <2>1. /\ st[c] \in {"recv", "linger"} /\ UNCHANGED <<server, backlog, acc, free>>
        /\ \E l : st' = [st EXCEPT ![c] = l] /\ Holds(l)
    BY <1>6 DEF LocationReply, LocationLinger, VoiceReply, SessionLogs, SendFails, Ends,
                Received, Goes, Holds
  <2>2. PICK l : Moves(c, l) /\ Holds(l)
    BY <2>1 DEF Moves
  <2>3. Holds(st[c]) /\ st[c] # "backlog"
    BY <2>1 DEF Holds
  <2> QED
    BY <2>1, <2>2, <2>3, SlotStays, BacklogStays
<1>7. ASSUME NEW c \in Conn, Release(c) PROVE SlotsConserved' /\ BacklogOK'
  <2> DEFINE l == IF server = "session" THEN "away" ELSE "log"
  <2>1. Moves(c, l) /\ Holds(st[c]) /\ ~ Holds(l) /\ st[c] # "backlog"
    BY <1>7 DEF Release, Moves, Holds
  <2>2. acc' = acc /\ free' = free + 1 /\ backlog' = backlog
    BY <1>7 DEF Release, GivesBack
  <2> QED
    BY <2>1, <2>2, SlotReturned, BacklogStays
<1>8. ASSUME NEW c \in Conn, TakeLog(c) PROVE SlotsConserved' /\ BacklogOK'
  <2>1. /\ Moves(c, "write") /\ (Holds(st[c]) <=> Holds("write")) /\ st[c] # "backlog"
        /\ UNCHANGED <<acc, free, backlog>>
    BY <1>8 DEF TakeLog, Moves, Holds
  <2> QED
    BY <2>1, SlotStays, BacklogStays
<1>9. ASSUME NEW c \in Conn, Rotating(c) PROVE SlotsConserved' /\ BacklogOK'
  BY <1>9, NoneMoves DEF Rotating, stubVars
<1>10. ASSUME NEW c \in Conn, LogStep(c) PROVE SlotsConserved' /\ BacklogOK'
  <2>1. /\ st[c] = "write" /\ UNCHANGED <<server, acc, free, backlog>>
        /\ \E l \in {AfterWrite, AfterRaise} : st' = [st EXCEPT ![c] = l]
    BY <1>10 DEF LogStep
  <2>2. PICK l \in {AfterWrite, AfterRaise} : Moves(c, l)
    BY <2>1 DEF Moves
  <2>3. Holds(st[c]) <=> Holds(l)
    BY <2>1, <2>2 DEF Holds, AfterWrite, AfterRaise
  <2> QED
    BY <2>1, <2>2, <2>3, SlotStays, BacklogStays
<1> QED
  BY <1>1, <1>2, <1>3, <1>4, <1>5, <1>6, <1>7, <1>8, <1>9, <1>10
     DEF Next, Acceptor, Handler

(* No slot is lost or given back twice, whatever fails: the connection,    *)
(* the log, or the process.                                                *)
THEOREM SlotsAreConserved == Spec => []SlotsConserved
<1>1. Init => SlotsConserved /\ BacklogOK
  <2> SUFFICES ASSUME Init PROVE SlotsConserved /\ BacklogOK
    OBVIOUS
  <2>1. Serving = {} /\ Len(backlog) = 0 /\ acc = "acquire" /\ free = Slots
    BY DEF Init, Serving, Logging
  <2>2. Cardinality(Serving) = 0 /\ Slots \in Nat
    BY <2>1, FS_EmptySet, StubAssumption
  <2> QED
    BY <2>1, <2>2 DEF SlotsConserved, BacklogOK
<1>2. TypeOK /\ SlotsConserved /\ BacklogOK /\ [Next]_vars => SlotsConserved' /\ BacklogOK'
  BY SlotStep
<1> QED
  BY <1>1, <1>2, StubTypeCorrect, PTL DEF Spec

-----------------------------------------------------------------------------
(***************************************************************************)
(* The log                                                                 *)
(***************************************************************************)

(* What the process may do to its log in a step, writing at most len.      *)
LogAction == LogRestart \/ StartRotation \/ MoveGeneration \/ MoveRaises \/ Reopen \/ ReopenRaises

LEMMA BlockBound ==
  ASSUME TypeOK, NEW c \in Conn
  PROVE  Block(c) \in 0 .. MaxChars + 1
<1>1. talk[c] \in Nat /\ MaxChars \in Nat \ {0}
  BY StubAssumption DEF TypeOK
<1>2. CappedBlock(c) \in 0 .. MaxChars + 1 /\ LocationBlock(c) \in 0 .. MaxChars + 1
  BY <1>1 DEF CappedBlock, LocationBlock
<1> QED
  BY <1>1, <1>2 DEF Block, TypeOK

LEMMA LogSteps ==
  ASSUME TypeOK, [Next]_vars
  PROVE  \/ UNCHANGED logVars
         \/ LogAction
         \/ \E len \in 0 .. MaxChars + 1 : Puts(len)
<1>1. ASSUME NEW c \in Conn, LogStep(c)
      PROVE  UNCHANGED logVars \/ LogAction \/ \E len \in 0 .. MaxChars + 1 : Puts(len)
  <2>1. MoveRaises \/ ReopenRaises \/ Write(Block(c)) \/ WriteRaises(Block(c))
    BY <1>1 DEF LogStep
  <2>2. CASE Write(Block(c)) \/ WriteRaises(Block(c))
    BY <2>2, BlockBound, WritesPut
  <2> QED
    BY <2>1, <2>2 DEF LogAction
<1>2. ASSUME NEW c \in Conn, TakeLog(c) \/ Rotating(c)
      PROVE  UNCHANGED logVars \/ LogAction
  BY <1>2 DEF TakeLog, Rotating, LogAction
<1>3. ASSUME NEW c \in Conn, Connect(c) \/ Ends(c) \/ Release(c) \/ SendFails(c)
                             \/ LocationReply(c) \/ LocationLinger(c) \/ VoiceReply(c) \/ SessionLogs(c)
      PROVE  UNCHANGED logVars
  BY <1>3 DEF Connect, Ends, Release, SendFails, LocationReply, LocationLinger, VoiceReply,
     SessionLogs, Goes
<1>4. CASE AcquireSlot \/ Accept \/ UNCHANGED vars
  BY <1>4 DEF AcquireSlot, Accept, vars
<1>5. CASE Restart
  BY <1>5 DEF Restart, LogAction
<1> QED
  BY <1>1, <1>2, <1>3, <1>4, <1>5 DEF Next, Acceptor, Handler

(* What is on the disk is full, but for generation 0 between rotations,    *)
(* and the place the next move of a rotation goes to is free.              *)
FilesOK ==
  /\ \A g \in DOMAIN files : g > 0 => Full(g)
  /\ at >= 0 /\ 0 \in DOMAIN files => Full(0)
  /\ at # NotRotating => size >= MaxBytes
  /\ 0 \in DOMAIN files =>
       size <= Bytes(files[0]) /\ Bytes(files[0]) <= size + unsized
  /\ 0 \notin DOMAIN files => at = Reopening \/ size >= MaxBytes
  /\ at = Reopening => 0 \notin DOMAIN files
  /\ at >= 0 => at + 1 \notin DOMAIN files

LEMMA LogRange ==
  ASSUME LogTypeOK
  PROVE  /\ Backups \in Nat /\ MaxBytes \in Nat \ {0} /\ at \in Int /\ at <= Backups
         /\ at = NotRotating \/ at = Reopening \/ at >= 0
         /\ NotRotating < 0 /\ Reopening < 0 /\ Reopening # NotRotating
         /\ \A g \in DOMAIN files : g \in Nat /\ g <= Backups /\ files[g] \in Seq(Entry)
                                    /\ Bytes(files[g]) \in Nat
         /\ size \in Nat /\ written \in Nat /\ undone \in Nat /\ unsized \in Nat
<1>1. /\ Backups \in Nat /\ MaxBytes \in Nat \ {0} /\ at \in -2 .. Backups
      /\ NotRotating = -2 /\ Reopening = -1
  BY LogAssumption DEF LogTypeOK, NotRotating, Reopening
<1>2. \A g \in DOMAIN files : g \in Nat /\ g <= Backups /\ files[g] \in Seq(Entry)
  BY <1>1 DEF LogTypeOK
<1>3. \A g \in DOMAIN files : Bytes(files[g]) \in Nat
  BY <1>2, BytesType
<1> HIDE DEF NotRotating, Reopening
<1>4. size \in Nat /\ written \in Nat /\ undone \in Nat /\ unsized \in Nat
  BY DEF LogTypeOK
<1>5. /\ at \in Int /\ at <= Backups /\ (at = NotRotating \/ at = Reopening \/ at >= 0)
      /\ NotRotating < 0 /\ Reopening < 0 /\ Reopening # NotRotating
  BY <1>1
<1> QED
  BY <1>1, <1>2, <1>3, <1>4, <1>5

(* Three ways to move a generation: there is none, it is the oldest and is *)
(* removed, or it becomes one older.                                       *)
Skips == at \notin DOMAIN files /\ files' = files
Drops == /\ at \in DOMAIN files /\ at = Backups
         /\ DOMAIN files' = DOMAIN files \ {at}
         /\ \A g \in DOMAIN files' : files'[g] = files[g]
Ages == /\ at \in DOMAIN files /\ at < Backups
        /\ DOMAIN files' = (DOMAIN files \ {at}) \cup {at + 1}
        /\ files'[at + 1] = files[at]
        /\ \A g \in DOMAIN files' : g # at + 1 => files'[g] = files[g]

LEMMA Moves3 ==
  ASSUME LogTypeOK, MoveGeneration
  PROVE  Skips \/ Drops \/ Ages
<1>1. at <= Backups /\ at \in Int /\ Backups \in Nat
  BY LogRange
<1>2. CASE at \notin DOMAIN files
  BY <1>2 DEF MoveGeneration, Skips
<1>3. CASE at \in DOMAIN files /\ at = Backups
  BY <1>3 DEF MoveGeneration, Moved, Removed, Drops
<1>4. CASE at \in DOMAIN files /\ at < Backups
  <2>1. files' = Renamed(at)
    BY <1>1, <1>4 DEF MoveGeneration, Moved
  <2> QED
    BY <1>4, <2>1 DEF Renamed, Ages
<1> QED
  BY <1>1, <1>2, <1>3, <1>4

LEMMA FilesMove ==
  ASSUME LogTypeOK, FilesOK, MoveGeneration
  PROVE  FilesOK'
<1>1. /\ at >= 0 /\ (at = 0 => 0 \in DOMAIN files) /\ UNCHANGED <<size, unsized>>
      /\ at' = (IF at = 0 THEN Reopening ELSE at - 1)
  BY DEF MoveGeneration
<1>2. at + 1 \notin DOMAIN files /\ size >= MaxBytes /\ at # NotRotating /\ at # Reopening
  BY <1>1, LogRange DEF FilesOK
<1>3. at' # NotRotating /\ at' < at /\ (at' = Reopening <=> at = 0)
      /\ (at' >= 0 => at' + 1 = at /\ at # 0)
  BY <1>1, LogRange DEF Reopening, NotRotating
<1>4. at \notin DOMAIN files'
  <2>1. CASE Skips
    BY <2>1 DEF Skips
  <2>2. CASE Drops
    BY <2>2 DEF Drops
  <2>3. CASE Ages
    BY <2>3, LogRange DEF Ages
  <2> QED
    BY <2>1, <2>2, <2>3, Moves3
<1>5. \A g \in DOMAIN files' : g > 0 => Full(g)'
  <2>1. CASE Skips \/ Drops
    BY <2>1 DEF Skips, Drops, FilesOK, Full
  <2>2. CASE Ages
    <3>1. Full(at)
      BY <1>1, <2>2, LogRange DEF Ages, FilesOK
    <3> QED
      BY <2>2, <3>1 DEF Ages, FilesOK, Full
  <2> QED
    BY <2>1, <2>2, Moves3
<1>6. at # 0 => (0 \in DOMAIN files' <=> 0 \in DOMAIN files) /\ (0 \in DOMAIN files => files'[0] = files[0])
  BY <1>1, LogRange, Moves3 DEF Skips, Drops, Ages
<1>7. at = 0 => 0 \notin DOMAIN files'
  BY <1>4
<1>8. at' >= 0 /\ 0 \in DOMAIN files' => Full(0)'
  BY <1>1, <1>3, <1>6 DEF FilesOK, Full
<1>9. 0 \notin DOMAIN files' => at' = Reopening \/ size' >= MaxBytes
  BY <1>1, <1>2, <1>3, <1>6 DEF FilesOK
<1>10. 0 \in DOMAIN files' => size' <= Bytes(files'[0]) /\ Bytes(files'[0]) <= size' + unsized'
  BY <1>1, <1>6, <1>7 DEF FilesOK
<1> QED
  BY <1>1, <1>2, <1>3, <1>4, <1>5, <1>7, <1>8, <1>9, <1>10 DEF FilesOK

LEMMA FilesOthers ==
  ASSUME LogTypeOK, FilesOK,
         LogRestart \/ StartRotation \/ MoveRaises \/ Reopen \/ ReopenRaises
  PROVE  FilesOK'
<1>0. NotRotating < 0 /\ NotRotating # Reopening /\ ~ (NotRotating >= 0)
  BY DEF NotRotating, Reopening
<1>1. CASE LogRestart \/ Reopen
  <2>1. /\ DOMAIN files' = DOMAIN files \cup {0} /\ at' = NotRotating
        /\ \A g \in DOMAIN files : files'[g] = files[g]
        /\ files'[0] = Held(0)
    BY <1>1 DEF LogRestart, Reopen, Opened, Held
  <2>2. size' = Bytes(files'[0]) /\ Bytes(files'[0]) \in Nat /\ unsized' \in Nat
    <3>1. CASE LogRestart
      <4>1. Held(0) \in Seq(Entry)
        BY DEF Held, LogTypeOK
      <4> QED
        BY <2>1, <3>1, <4>1, BytesType, LogRange DEF LogRestart
    <3>2. CASE Reopen
      BY <2>1, <3>2, LogRange DEF Reopen, FilesOK, Held, Bytes
    <3> QED
      BY <1>1, <3>1, <3>2
  <2>3. \A g \in DOMAIN files' : g > 0 => Full(g)'
    BY <2>1 DEF FilesOK, Full
  <2> QED
    BY <1>0, <2>1, <2>2, <2>3 DEF FilesOK
<1>2. CASE StartRotation
  <2>1. /\ at = NotRotating /\ size >= MaxBytes /\ at' = Backups /\ UNCHANGED <<files, size, unsized>>
    BY <1>2 DEF StartRotation, NeedsRotation
  <2>2. 0 \in DOMAIN files => Full(0)
    BY <2>1, LogRange DEF FilesOK, Full
  <2>3. at # Reopening /\ at' + 1 \notin DOMAIN files /\ at' # Reopening /\ at' # NotRotating
    BY <2>1, LogRange
  <2> QED
    BY <2>1, <2>2, <2>3 DEF FilesOK, Full
<1>3. CASE MoveRaises
  <2>1. /\ at >= 0 /\ at' = NotRotating /\ UNCHANGED <<files, size, unsized>> /\ size >= MaxBytes
        /\ (0 \in DOMAIN files => Full(0)) /\ (\A g \in DOMAIN files : g > 0 => Full(g))
    BY <1>0, <1>3, LogRange DEF MoveRaises, FilesOK
  <2>2. 0 \in DOMAIN files => size <= Bytes(files[0]) /\ Bytes(files[0]) <= size + unsized
    BY <2>1 DEF FilesOK
  <2> QED
    BY <1>0, <2>1, <2>2 DEF FilesOK, Full
<1>4. CASE ReopenRaises
  <2>1. /\ at = Reopening /\ at' = NotRotating /\ UNCHANGED <<files, size, unsized>>
        /\ size >= MaxBytes /\ 0 \notin DOMAIN files
    BY <1>0, <1>4 DEF ReopenRaises, FilesOK
  <2> QED
    BY <1>0, <2>1 DEF FilesOK, Full
<1> QED
  BY <1>1, <1>2, <1>3, <1>4

(* A write goes to generation 0, which is there and has room.              *)
LEMMA Writes ==
  ASSUME LogTypeOK, FilesOK, NEW len \in Nat, Puts(len)
  PROVE  /\ at = NotRotating /\ size < MaxBytes /\ 0 \in DOMAIN files
         /\ size <= Bytes(files[0]) /\ Bytes(files[0]) <= size + unsized
         /\ DOMAIN files' = DOMAIN files /\ \A g \in DOMAIN files : g # 0 => files'[g] = files[g]
         /\ files'[0] = Append(files[0], [n |-> written + 1, end |-> Bytes(files[0]) + len])
         /\ files'[0] # <<>>
         /\ Newest(files'[0]) = [n |-> written + 1, end |-> Bytes(files[0]) + len]
         /\ Bytes(files'[0]) = Bytes(files[0]) + len
         /\ at' = at /\ undone' = undone /\ written' = written + 1
         /\ \/ size' = size + len /\ unsized' = unsized
            \/ size' = size /\ unsized' = unsized + len
<1>1. at = NotRotating /\ size < MaxBytes
  BY LogRange DEF Puts, NeedsRotation
<1>2. 0 \in DOMAIN files /\ size <= Bytes(files[0]) /\ Bytes(files[0]) <= size + unsized
  BY <1>1, LogRange DEF FilesOK
<1> DEFINE e == [n |-> written + 1, end |-> Bytes(files[0]) + len]
<1>3. files' = [files EXCEPT ![0] = Append(files[0], e)]
  BY <1>2 DEF Puts, Added
<1>4. files[0] \in Seq(Entry) /\ e \in Entry /\ e.end = Bytes(files[0]) + len
  BY <1>2, LogRange DEF Entry
<1> HIDE DEF e
<1>5. /\ Append(files[0], e) # <<>>
      /\ Append(files[0], e)[Len(Append(files[0], e))] = e
  BY <1>4
<1>6. Newest(files'[0]) = e /\ files'[0] # <<>> /\ files'[0] = Append(files[0], e)
  BY <1>2, <1>3, <1>5 DEF Newest
<1>7. DOMAIN files' = DOMAIN files /\ \A g \in DOMAIN files : g # 0 => files'[g] = files[g]
  BY <1>3
<1>8. Bytes(files'[0]) = Bytes(files[0]) + len
  BY <1>4, <1>6 DEF Bytes
<1>9. /\ at' = at /\ undone' = undone /\ written' = written + 1
      /\ \/ size' = size + len /\ unsized' = unsized
         \/ size' = size /\ unsized' = unsized + len
  BY DEF Puts, Added
<1> QED
  BY <1>1, <1>2, <1>6, <1>7, <1>8, <1>9 DEF e

LEMMA FilesWrite ==
  ASSUME LogTypeOK, FilesOK, NEW len \in Nat, Puts(len)
  PROVE  FilesOK'
<1>1. NotRotating < 0 /\ NotRotating # Reopening /\ ~ (NotRotating >= 0)
  BY DEF NotRotating, Reopening
<1>2. \A g \in DOMAIN files' : g > 0 => Full(g)'
  <2>1. DOMAIN files' = DOMAIN files /\ \A g \in DOMAIN files : g # 0 => files'[g] = files[g]
    BY Writes
  <2> QED
    BY <2>1 DEF FilesOK, Full
<1>3. at' = NotRotating /\ 0 \in DOMAIN files'
  <2>1. at' = at /\ at = NotRotating
    BY Writes
  <2>2. DOMAIN files' = DOMAIN files /\ 0 \in DOMAIN files
    BY Writes
  <2> QED
    BY <2>1, <2>2
<1>4. size' <= Bytes(files'[0]) /\ Bytes(files'[0]) <= size' + unsized'
  <2>1. 0 \in DOMAIN files /\ size <= Bytes(files[0]) /\ Bytes(files[0]) <= size + unsized
    BY Writes
  <2>2. Bytes(files'[0]) = Bytes(files[0]) + len
    BY Writes
  <2>3. \/ size' = size + len /\ unsized' = unsized
        \/ size' = size /\ unsized' = unsized + len
    BY Writes
  <2>4. Bytes(files[0]) \in Nat /\ size \in Nat /\ unsized \in Nat
    BY <2>1, LogRange
  <2> QED
    BY <2>1, <2>2, <2>3, <2>4
<1>5. at' # Reopening /\ ~ (at' >= 0)
  BY <1>1, <1>3
<1> QED
  BY <1>2, <1>3, <1>4, <1>5 DEF FilesOK

LEMMA FilesNext ==
  ASSUME LogTypeOK, FilesOK,
         UNCHANGED logVars \/ LogAction \/ \E len \in 0 .. MaxChars + 1 : Puts(len)
  PROVE  FilesOK'
<1>1. CASE UNCHANGED logVars
  BY <1>1 DEF logVars, FilesOK, Full
<1>2. \A len \in 0 .. MaxChars + 1 : len \in Nat
  BY StubAssumption
<1> QED
  BY <1>1, <1>2, FilesMove, FilesOthers, FilesWrite DEF LogAction

(***************************************************************************)
(* The bound on the disk                                                   *)
(***************************************************************************)

LEMMA DiskMove ==
  ASSUME LogTypeOK, FilesOK, DiskBound,
         UNCHANGED logVars \/ LogAction \/ \E len \in 0 .. MaxChars + 1 : Puts(len)
  PROVE  DiskBound'
<1>1. MaxBytes \in Nat /\ MaxChars \in Nat
  BY LogAssumption, StubAssumption
<1>2. ASSUME NEW len \in 0 .. MaxChars + 1, Puts(len) PROVE DiskBound'
  <2>1. len \in Nat /\ len <= MaxChars + 1
    BY <1>1
  <2>2. /\ Bytes(files'[0]) = Bytes(files[0]) + len /\ size < MaxBytes
        /\ Bytes(files[0]) <= size + unsized /\ 0 \in DOMAIN files
    BY <1>2, <2>1, Writes
  <2>3. \/ size' = size + len /\ unsized' = unsized
        \/ size' = size /\ unsized' = unsized + len
    BY <1>2, <2>1, Writes
  <2>4. Bytes(files[0]) \in Nat /\ size \in Nat /\ unsized \in Nat
    BY <2>2, LogRange
  <2>5. Bytes(files'[0]) <= MaxBytes + MaxChars + unsized'
    BY <1>1, <2>1, <2>2, <2>3, <2>4
  <2>6. unsized' >= unsized
    BY <2>1, <2>3, <2>4
  <2>7. DOMAIN files' = DOMAIN files /\ \A g \in DOMAIN files : g # 0 => files'[g] = files[g]
    BY <1>2, <2>1, Writes
  <2>8. \A g \in DOMAIN files : Bytes(files[g]) <= MaxBytes + MaxChars + unsized'
    BY <1>1, <2>1, <2>3, <2>4, <2>6, LogRange DEF DiskBound
  <2> QED
    BY <2>5, <2>7, <2>8 DEF DiskBound
<1>3. CASE MoveGeneration
  <2>1. unsized' = unsized
    BY <1>3 DEF MoveGeneration
  <2> QED
    BY <1>3, <2>1, Moves3 DEF DiskBound, Skips, Drops, Ages
<1>4. CASE LogRestart \/ Reopen
  <2>1. \A g \in DOMAIN files' : \/ g \in DOMAIN files /\ files'[g] = files[g]
                                 \/ files'[g] = <<>>
    BY <1>4 DEF LogRestart, Reopen, Opened, Held
  <2>2. Bytes(<<>>) <= MaxBytes + MaxChars + unsized /\ unsized' = unsized
    BY <1>1, <1>4, LogRange DEF Bytes, LogRestart, Reopen
  <2> QED
    BY <2>1, <2>2 DEF DiskBound
<1>5. CASE files' = files /\ unsized' = unsized
  BY <1>5 DEF DiskBound
<1> QED
  BY <1>2, <1>3, <1>4, <1>5 DEF LogAction, StartRotation, MoveRaises, ReopenRaises, logVars

LEMMA LogInits ==
  ASSUME Init
  PROVE  FilesOK /\ DiskBound
<1>1. /\ DOMAIN files = {0} /\ files[0] = <<>> /\ size = 0 /\ at = NotRotating /\ unsized = 0
      /\ NotRotating < 0 /\ ~ (NotRotating >= 0) /\ NotRotating # Reopening
  BY DEF Init, LogInit, NotRotating, Reopening
<1>2. Bytes(<<>>) = 0 /\ 0 <= MaxBytes + MaxChars
  BY LogAssumption, StubAssumption DEF Bytes
<1> QED
  BY <1>1, <1>2 DEF FilesOK, DiskBound

(* No generation is ever larger than the limit and one entry, however big   *)
(* the messages of the clients, and through rotations that fail and crashes *)
(* in the middle of them (rotating_log.py:63, 85).                          *)
THEOREM DiskIsBounded == Spec => []DiskBound
<1>1. Init => FilesOK /\ DiskBound
  BY LogInits
<1>2. TypeOK /\ FilesOK /\ DiskBound /\ [Next]_vars => FilesOK' /\ DiskBound'
  <2> SUFFICES ASSUME TypeOK, FilesOK, DiskBound, [Next]_vars PROVE FilesOK' /\ DiskBound'
    OBVIOUS
  <2>1. LogTypeOK
    BY DEF TypeOK
  <2> QED
    BY <2>1, LogSteps, FilesNext, DiskMove
<1> QED
  BY <1>1, <1>2, StubTypeCorrect, PTL DEF Spec

(***************************************************************************)
(* The order of what is kept                                               *)
(***************************************************************************)

(* The youngest generation with anything in it ends with the last entry.   *)
Youngest(g) == files[g] # <<>> /\ \A k \in DOMAIN files : k < g => files[k] = <<>>
Latest ==
  \A g \in DOMAIN files :
    /\ \A i \in 1 .. Len(files[g]) : files[g][i].n <= written
    /\ Youngest(g) => Newest(files[g]).n = written
OrderInv == HistoryInOrder /\ Latest

(* A step of a rotation leaves each generation where it comes from, s, in  *)
(* the same order, and loses at most the oldest.                           *)
LEMMA Origin ==
  ASSUME LogTypeOK, FilesOK, MoveGeneration
  PROVE  \E s \in [DOMAIN files' -> DOMAIN files] :
           /\ \A g \in DOMAIN files' : files'[g] = files[s[g]]
           /\ \A g, h \in DOMAIN files' : g < h <=> s[g] < s[h]
           /\ \A y \in DOMAIN files : y # Backups => \E g \in DOMAIN files' : s[g] = y
<1>1. at >= 0 /\ at + 1 \notin DOMAIN files
  BY DEF MoveGeneration, FilesOK
<1>2. CASE Skips
  <2> DEFINE s == [g \in DOMAIN files' |-> g]
  <2>1. s \in [DOMAIN files' -> DOMAIN files] /\ \A g \in DOMAIN files' : s[g] = g
    BY <1>2 DEF Skips
  <2> HIDE DEF s
  <2> QED
    BY <1>2, <2>1 DEF Skips
<1>3. CASE Drops
  <2> DEFINE s == [g \in DOMAIN files' |-> g]
  <2>1. s \in [DOMAIN files' -> DOMAIN files] /\ \A g \in DOMAIN files' : s[g] = g
    BY <1>3 DEF Drops
  <2> HIDE DEF s
  <2> QED
    BY <1>3, <2>1 DEF Drops
<1>4. CASE Ages
  <2> DEFINE s == [g \in DOMAIN files' |-> IF g = at + 1 THEN at ELSE g]
  <2>1. /\ s \in [DOMAIN files' -> DOMAIN files]
        /\ \A g \in DOMAIN files' : s[g] = IF g = at + 1 THEN at ELSE g
    BY <1>4 DEF Ages
  <2>2. \A g \in DOMAIN files' : g \in Int /\ g # at
    BY <1>4, LogRange DEF Ages
  <2> HIDE DEF s
  <2>3. \A g \in DOMAIN files' : files'[g] = files[s[g]]
    BY <1>4, <2>1 DEF Ages
  <2>4. \A g, h \in DOMAIN files' : g < h <=> s[g] < s[h]
    <3> SUFFICES ASSUME NEW g \in DOMAIN files', NEW h \in DOMAIN files'
                 PROVE  g < h <=> s[g] < s[h]
      OBVIOUS
    <3>1. at \in Int /\ g \in Int /\ h \in Int /\ g # at /\ h # at
      BY <2>2, LogRange
    <3>2. s[g] = (IF g = at + 1 THEN at ELSE g) /\ s[h] = (IF h = at + 1 THEN at ELSE h)
      BY <2>1
    <3>3. CASE g = at + 1 /\ h # at + 1
      BY <3>1, <3>2, <3>3
    <3>4. CASE g # at + 1 /\ h = at + 1
      BY <3>1, <3>2, <3>4
    <3>5. CASE g = at + 1 /\ h = at + 1
      BY <3>1, <3>2, <3>5
    <3>6. CASE g # at + 1 /\ h # at + 1
      BY <3>1, <3>2, <3>6
    <3> QED
      BY <3>3, <3>4, <3>5, <3>6
  <2>5. \A y \in DOMAIN files : \E g \in DOMAIN files' : s[g] = y
    <3> SUFFICES ASSUME NEW y \in DOMAIN files PROVE \E g \in DOMAIN files' : s[g] = y
      OBVIOUS
    <3>1. CASE y = at
      BY <1>4, <2>1, <3>1 DEF Ages
    <3>2. CASE y # at
      <4>1. y \in DOMAIN files' /\ y # at + 1
        BY <1>1, <1>4, <3>2 DEF Ages
      <4> QED
        BY <2>1, <4>1
    <3> QED
      BY <3>1, <3>2
  <2> QED
    BY <2>1, <2>3, <2>4, <2>5
<1> QED
  BY <1>2, <1>3, <1>4, Moves3

LEMMA OrderMove ==
  ASSUME LogTypeOK, FilesOK, OrderInv, MoveGeneration
  PROVE  OrderInv'
<1>1. PICK s \in [DOMAIN files' -> DOMAIN files] :
             /\ \A g \in DOMAIN files' : files'[g] = files[s[g]]
             /\ \A g, h \in DOMAIN files' : g < h <=> s[g] < s[h]
             /\ \A y \in DOMAIN files : y # Backups => \E g \in DOMAIN files' : s[g] = y
  BY Origin
<1>2. written' = written
  BY DEF MoveGeneration
<1>3. \A g \in DOMAIN files' : s[g] \in DOMAIN files /\ s[g] <= Backups /\ s[g] \in Int
  BY <1>1, LogRange
<1>4. \A k \in DOMAIN files : k \in Int
  BY LogRange
<1>5. ASSUME NEW g \in DOMAIN files', NEW k \in DOMAIN files, k < s[g]
      PROVE  \E x \in DOMAIN files' : s[x] = k /\ x < g /\ files'[x] = files[k]
  <2>1. k # Backups
    BY <1>3, <1>4, <1>5, LogAssumption
  <2>2. PICK x \in DOMAIN files' : s[x] = k
    BY <1>1, <2>1
  <2> QED
    BY <1>1, <1>5, <2>2
<1>6. ASSUME NEW g \in DOMAIN files', NEW h \in DOMAIN files', Precedes(g, h)'
      PROVE  files'[h][1].n = Newest(files'[g]).n + 1
  <2>1. s[h] < s[g] /\ files[s[g]] # <<>> /\ files[s[h]] # <<>>
    BY <1>1, <1>6 DEF Precedes
  <2>2. ASSUME NEW k \in DOMAIN files, s[h] < k, k < s[g] PROVE files[k] = <<>>
    <3>1. PICK x \in DOMAIN files' : s[x] = k /\ x < g /\ files'[x] = files[k]
      BY <1>5, <2>2
    <3>2. h < x
      BY <1>1, <2>2, <3>1
    <3> QED
      BY <1>6, <3>1, <3>2 DEF Precedes
  <2>3. Precedes(s[g], s[h])
    BY <2>1, <2>2 DEF Precedes
  <2> QED
    BY <1>1, <1>3, <2>3 DEF OrderInv, HistoryInOrder
<1>7. HistoryInOrder'
  BY <1>1, <1>3, <1>6 DEF OrderInv, HistoryInOrder
<1>8. ASSUME NEW g \in DOMAIN files', Youngest(g)' PROVE Newest(files'[g]).n = written
  <2>1. Youngest(s[g])
    BY <1>1, <1>5, <1>8 DEF Youngest
  <2> QED
    BY <1>1, <1>3, <2>1 DEF OrderInv, Latest
<1>9. Latest'
  BY <1>1, <1>2, <1>3, <1>8 DEF OrderInv, Latest
<1> QED
  BY <1>7, <1>9 DEF OrderInv

LEMMA OrderOpened ==
  ASSUME LogTypeOK, OrderInv, LogRestart \/ Reopen
  PROVE  OrderInv'
<1>1. /\ DOMAIN files' = DOMAIN files \cup {0}
      /\ \A g \in DOMAIN files : files'[g] = files[g]
      /\ 0 \notin DOMAIN files => files'[0] = <<>>
      /\ written' = written
  BY DEF LogRestart, Reopen, Opened, Held
<1>2. \A g \in DOMAIN files' : files'[g] # <<>> => g \in DOMAIN files
  BY <1>1
<1>3. \A g, h \in DOMAIN files' : Precedes(g, h)' => Precedes(g, h)
  BY <1>1 DEF Precedes
<1>4. \A g \in DOMAIN files' : Youngest(g)' => Youngest(g)
  BY <1>1 DEF Youngest
<1>5. Len(<<>>) = 0
  OBVIOUS
<1>6. HistoryInOrder'
  <2>1. \A g, h \in DOMAIN files' : Precedes(g, h)' => g \in DOMAIN files /\ h \in DOMAIN files
    BY <1>2 DEF Precedes
  <2>2. \A g, h \in DOMAIN files' : Precedes(g, h)' => files'[h][1].n = Newest(files'[g]).n + 1
    BY <1>1, <1>3, <2>1 DEF OrderInv, HistoryInOrder
  <2>3. \A g \in DOMAIN files' : \A i \in 1 .. Len(files'[g]) - 1 :
          files'[g][i + 1].n = files'[g][i].n + 1
    <3> SUFFICES ASSUME NEW g \in DOMAIN files', NEW i \in 1 .. Len(files'[g]) - 1
                 PROVE  files'[g][i + 1].n = files'[g][i].n + 1
      OBVIOUS
    <3>1. g \in DOMAIN files
      BY <1>1, <1>5
    <3> QED
      BY <1>1, <3>1 DEF OrderInv, HistoryInOrder
  <2> QED
    BY <2>2, <2>3 DEF HistoryInOrder
<1>7. Latest'
  <2> SUFFICES ASSUME NEW g \in DOMAIN files'
               PROVE  /\ \A i \in 1 .. Len(files'[g]) : files'[g][i].n <= written'
                      /\ Youngest(g)' => Newest(files'[g]).n = written'
    BY DEF Latest
  <2>1. CASE g \in DOMAIN files
    BY <1>1, <1>4, <2>1 DEF OrderInv, Latest
  <2>2. CASE g \notin DOMAIN files
    BY <1>1, <1>5, <2>2 DEF Youngest
  <2> QED
    BY <2>1, <2>2
<1> QED
  BY <1>6, <1>7 DEF OrderInv

LEMMA OrderWrite ==
  ASSUME LogTypeOK, FilesOK, OrderInv, NEW len \in Nat, Puts(len)
  PROVE  OrderInv'
<1> DEFINE e == [n |-> written + 1, end |-> Bytes(files[0]) + len]
<1>1. /\ DOMAIN files' = DOMAIN files /\ 0 \in DOMAIN files
      /\ \A g \in DOMAIN files : g # 0 => files'[g] = files[g]
  BY Writes
<1>2. files'[0] = Append(files[0], e) /\ Newest(files'[0]) = e /\ files'[0] # <<>>
  BY Writes
<1>3. e.n = written + 1 /\ written' = written + 1
  BY Writes
<1> HIDE DEF e
<1>4. /\ \A g \in DOMAIN files : g \in Nat /\ files[g] \in Seq(Entry)
      /\ written \in Nat
  BY LogRange
<1>5. /\ Len(files'[0]) = Len(files[0]) + 1 /\ Len(files[0]) \in Nat
      /\ \A i \in 1 .. Len(files[0]) : files'[0][i] = files[0][i]
      /\ files'[0][Len(files[0]) + 1] = e
  BY <1>1, <1>2, <1>4
<1>6. files[0] # <<>> => /\ Newest(files[0]) = files[0][Len(files[0])]
                         /\ Newest(files[0]).n = written /\ Len(files[0]) # 0
  <2>1. files[0] # <<>> => Youngest(0)
    BY <1>4 DEF Youngest
  <2>2. files[0] # <<>> => Len(files[0]) # 0
    BY <1>1, <1>4
  <2> QED
    BY <1>1, <2>1, <2>2 DEF OrderInv, Latest, Newest
<1>7. \A i \in 1 .. Len(files'[0]) - 1 : files'[0][i + 1].n = files'[0][i].n + 1
  <2> SUFFICES ASSUME NEW i \in 1 .. Len(files'[0]) - 1
               PROVE  files'[0][i + 1].n = files'[0][i].n + 1
    OBVIOUS
  <2>1. i \in 1 .. Len(files[0]) /\ i \in Nat
    BY <1>5
  <2>2. CASE i = Len(files[0])
    <3>1. files[0] # <<>>
      BY <1>5, <2>1, <2>2
    <3> QED
      BY <1>3, <1>5, <1>6, <2>1, <2>2, <3>1
  <2>3. CASE i # Len(files[0])
    <3>1. i \in 1 .. Len(files[0]) - 1 /\ i + 1 \in 1 .. Len(files[0])
      BY <1>5, <2>1, <2>3
    <3>2. files[0][i + 1].n = files[0][i].n + 1
      BY <1>1, <3>1 DEF OrderInv, HistoryInOrder
    <3> QED
      BY <1>5, <2>1, <3>1, <3>2
  <2> QED
    BY <2>2, <2>3
<1>8. ASSUME NEW g \in DOMAIN files, NEW h \in DOMAIN files, Precedes(g, h)'
      PROVE  files'[h][1].n = Newest(files'[g]).n + 1
  <2>1. h < g /\ files'[g] # <<>> /\ g # 0 /\ files'[g] = files[g]
    BY <1>1, <1>4, <1>8 DEF Precedes
  <2>2. \A k \in DOMAIN files : h < k /\ k < g => files[k] = <<>>
    <3> SUFFICES ASSUME NEW k \in DOMAIN files, h < k, k < g PROVE files[k] = <<>>
      OBVIOUS
    <3>1. k # 0 /\ files'[k] = <<>>
      BY <1>1, <1>4, <1>8 DEF Precedes
    <3> QED
      BY <1>1, <3>1
  <2>3. CASE h = 0 /\ files[0] = <<>>
    <3>1. \A k \in DOMAIN files : k < g => files[k] = <<>>
      BY <1>4, <2>2, <2>3
    <3>2. Youngest(g)
      BY <2>1, <3>1 DEF Youngest
    <3>3. Newest(files[g]).n = written
      BY <3>2 DEF OrderInv, Latest
    <3>4. files'[0][1] = e
      BY <1>5, <2>3
    <3> QED
      BY <1>3, <2>1, <2>3, <3>3, <3>4
  <2>4. CASE h = 0 /\ files[0] # <<>>
    <3>1. Precedes(g, 0)
      BY <2>1, <2>2, <2>4 DEF Precedes
    <3>2. files[0][1].n = Newest(files[g]).n + 1
      BY <1>1, <3>1 DEF OrderInv, HistoryInOrder
    <3>3. files'[0][1] = files[0][1]
      BY <1>5, <1>6, <2>4
    <3> QED
      BY <2>1, <2>4, <3>2, <3>3
  <2>5. CASE h # 0
    <3>1. files'[h] = files[h] /\ files[h] # <<>>
      BY <1>1, <1>8, <2>5 DEF Precedes
    <3>2. Precedes(g, h)
      BY <2>1, <2>2, <3>1 DEF Precedes
    <3> QED
      BY <2>1, <3>1, <3>2 DEF OrderInv, HistoryInOrder
  <2> QED
    BY <2>3, <2>4, <2>5
<1>9. HistoryInOrder'
  <2>1. \A g \in DOMAIN files : g # 0 =>
          \A i \in 1 .. Len(files'[g]) - 1 : files'[g][i + 1].n = files'[g][i].n + 1
    BY <1>1 DEF OrderInv, HistoryInOrder
  <2> QED
    BY <1>1, <1>7, <1>8, <2>1 DEF HistoryInOrder
<1>10. Latest'
  <2> SUFFICES ASSUME NEW g \in DOMAIN files
               PROVE  /\ \A i \in 1 .. Len(files'[g]) : files'[g][i].n <= written'
                      /\ Youngest(g)' => Newest(files'[g]).n = written'
    BY <1>1 DEF Latest
  <2>1. CASE g = 0
    <3>1. \A i \in 1 .. Len(files[0]) : files[0][i] \in Entry /\ files[0][i].n <= written
      BY <1>1, <1>4 DEF OrderInv, Latest
    <3>2. ASSUME NEW i \in 1 .. Len(files'[0]) PROVE files'[0][i].n <= written'
      <4>1. CASE i \in 1 .. Len(files[0])
        <5>1. files'[0][i] = files[0][i] /\ files[0][i].n \in Nat /\ files[0][i].n <= written
          BY <1>5, <3>1, <4>1 DEF Entry
        <5> QED
          BY <1>3, <1>4, <5>1
      <4>2. CASE i = Len(files[0]) + 1
        BY <1>3, <1>4, <1>5, <4>2
      <4> QED
        BY <1>5, <4>1, <4>2
    <3> QED
      BY <1>2, <1>3, <2>1, <3>2
  <2>2. CASE g # 0
    <3>1. ~ Youngest(g)'
      BY <1>1, <1>2, <1>4, <2>2 DEF Youngest
    <3>2. \A i \in 1 .. Len(files[g]) : files[g][i] \in Entry /\ files[g][i].n <= written
      BY <1>4 DEF OrderInv, Latest
    <3> QED
      BY <1>1, <1>3, <1>4, <2>2, <3>1, <3>2 DEF Entry
  <2> QED
    BY <2>1, <2>2
<1> QED
  BY <1>9, <1>10 DEF OrderInv

LEMMA OrderNext ==
  ASSUME LogTypeOK, FilesOK, OrderInv,
         UNCHANGED logVars \/ LogAction \/ \E len \in 0 .. MaxChars + 1 : Puts(len)
  PROVE  OrderInv'
<1>1. CASE files' = files /\ written' = written
  BY <1>1 DEF OrderInv, HistoryInOrder, Latest, Precedes, Youngest
<1>2. \A len \in 0 .. MaxChars + 1 : len \in Nat
  BY StubAssumption
<1> QED
  BY <1>1, <1>2, OrderMove, OrderOpened, OrderWrite
  DEF LogAction, StartRotation, MoveRaises, ReopenRaises, logVars

LEMMA OrderInits ==
  ASSUME Init
  PROVE  OrderInv
<1>1. DOMAIN files = {0} /\ files[0] = <<>> /\ Len(<<>>) = 0
  BY DEF Init, LogInit
<1> QED
  BY <1>1 DEF OrderInv, HistoryInOrder, Latest, Precedes, Youngest

(* Whatever rotates, fails to rotate or dies half way, the files hold one   *)
(* run of consecutive entries in the order of the writes: nothing between   *)
(* two entries that are kept is lost (rotating_log.py:43-58).               *)
THEOREM HistoryStaysInOrder == Spec => []HistoryInOrder
<1>1. Init => FilesOK /\ OrderInv
  BY LogInits, OrderInits
<1>2. TypeOK /\ FilesOK /\ OrderInv /\ [Next]_vars => FilesOK' /\ OrderInv'
  <2> SUFFICES ASSUME TypeOK, FilesOK, OrderInv, [Next]_vars PROVE FilesOK' /\ OrderInv'
    OBVIOUS
  <2>1. LogTypeOK
    BY DEF TypeOK
  <2> QED
    BY <2>1, LogSteps, FilesNext, OrderNext
<1>3. OrderInv => HistoryInOrder
  BY DEF OrderInv
<1> QED
  BY <1>1, <1>2, <1>3, StubTypeCorrect, PTL DEF Spec

-----------------------------------------------------------------------------
(***************************************************************************)
(* What survives                                                           *)
(***************************************************************************)

(* The generations up to m that are missing, without the one that the      *)
(* rotation has just made room for: each is the work of an interrupted     *)
(* rotation.                                                               *)
Gaps(F, a, m) == {x \in 1 .. m : x \notin F /\ x # a + 1}
Holes(m) == Gaps(DOMAIN files, at, m)
HolesOK ==
  /\ \A m \in DOMAIN files : Cardinality(Holes(m)) <= undone
  /\ written > 0 /\ ~ FirstIsHeld => Cardinality(Holes(Backups)) <= undone

(* What is youngest on the disk ends with the last entry (Latest).         *)
LastOK == written > 0 /\ Halfway < Backups => \E g \in DOMAIN files : Youngest(g)

LEMMA SumBound ==
  ASSUME NEW S, NEW T, IsFiniteSet(S), IsFiniteSet(T)
  PROVE  /\ IsFiniteSet(S \cup T) /\ Cardinality(S \cup T) \in Nat
         /\ Cardinality(S \cup T) <= Cardinality(S) + Cardinality(T)
<1>1. Cardinality(S) \in Nat /\ Cardinality(T) \in Nat
  BY FS_CardinalityType
<1>2. IsFiniteSet(S \cap T)
  BY FS_Intersection
<1>3. Cardinality(S \cap T) \in Nat
  BY <1>2, FS_CardinalityType
<1>4. /\ IsFiniteSet(S \cup T)
      /\ Cardinality(S \cup T) = Cardinality(S) + Cardinality(T) - Cardinality(S \cap T)
  BY FS_Union
<1>5. Cardinality(S \cup T) \in Nat
  BY <1>4, FS_CardinalityType
<1> QED
  BY <1>1, <1>3, <1>4, <1>5

LEMMA OneMore ==
  ASSUME NEW S, NEW x, IsFiniteSet(S)
  PROVE  /\ IsFiniteSet(S \cup {x}) /\ Cardinality(S \cup {x}) \in Nat
         /\ Cardinality(S) \in Nat /\ Cardinality(S \cup {x}) <= Cardinality(S) + 1
<1>1. Cardinality(S) \in Nat
  BY FS_CardinalityType
<1>2. IsFiniteSet(S \cup {x}) /\ Cardinality(S \cup {x}) \in {Cardinality(S), Cardinality(S) + 1}
  BY FS_AddElement
<1> QED
  BY <1>1, <1>2

LEMMA GapsFinite ==
  ASSUME NEW F, NEW a, NEW m \in Nat
  PROVE  IsFiniteSet(Gaps(F, a, m)) /\ Cardinality(Gaps(F, a, m)) \in Nat
<1>1. IsFiniteSet(1 .. m)
  BY FS_Interval
<1>2. Gaps(F, a, m) \subseteq 1 .. m
  BY DEF Gaps
<1> QED
  BY <1>1, <1>2, FS_Subset, FS_CardinalityType

(* A move of the rotation does not make more of them.                      *)
LEMMA HolesMove ==
  ASSUME LogTypeOK, FilesOK, MoveGeneration, NEW m \in Nat, m <= Backups
  PROVE  /\ Cardinality(Holes(m)') <= Cardinality(Holes(m))
         /\ ~ Skips => Holes(m)' = Holes(m)
<1>1. at >= 0 /\ at \in Int /\ at <= Backups /\ Backups \in Nat
      /\ \A g \in DOMAIN files : g \in Int /\ g <= Backups
  BY LogRange DEF MoveGeneration
<1>2. at' + 1 = at
  BY <1>1 DEF MoveGeneration, Reopening
<1>3. at = 0 => 0 \in DOMAIN files
  BY DEF MoveGeneration
<1>4. Holes(m)' = {x \in 1 .. m : x \notin DOMAIN files' /\ x # at}
  BY <1>2 DEF Holes, Gaps
<1>5. Holes(m) = {x \in 1 .. m : x \notin DOMAIN files /\ x # at + 1}
  BY DEF Holes, Gaps
<1>6. IsFiniteSet(Holes(m)) /\ Cardinality(Holes(m)) \in Nat
  BY GapsFinite DEF Holes
<1>7. CASE Skips
  <2>1. at > 0 /\ at \notin DOMAIN files /\ files' = files
    BY <1>1, <1>3, <1>7 DEF Skips
  <2>2. CASE m <= at
    <3>1. Holes(m)' \subseteq Holes(m)
      BY <1>1, <1>4, <1>5, <2>1, <2>2
    <3> QED
      BY <1>6, <1>7, <3>1, FS_Subset
  <2>3. CASE m > at
    <3>1. at \in Holes(m)
      BY <1>1, <1>5, <2>1, <2>3
    <3> DEFINE R == Holes(m) \ {at}
    <3>2. Holes(m)' \subseteq R \cup {at + 1}
      BY <1>1, <1>4, <1>5, <2>1
    <3>3. IsFiniteSet(R) /\ Cardinality(R) = Cardinality(Holes(m)) - 1
      BY <1>6, <3>1, FS_RemoveElement
    <3>4. IsFiniteSet(R \cup {at + 1}) /\ Cardinality(R \cup {at + 1}) <= Cardinality(R) + 1
          /\ Cardinality(R \cup {at + 1}) \in Nat
      BY <3>3, OneMore
    <3>5. Cardinality(Holes(m)') <= Cardinality(R \cup {at + 1})
      BY <3>2, <3>4, FS_Subset
    <3>6. Cardinality(Holes(m)') \in Nat
      BY <3>2, <3>4, FS_Subset, FS_CardinalityType
    <3> HIDE DEF R
    <3> QED
      BY <1>6, <1>7, <3>3, <3>4, <3>5, <3>6
  <2> QED
    BY <1>1, <2>2, <2>3
<1>8. CASE Drops
  <2>1. Holes(m)' = Holes(m)
    BY <1>1, <1>4, <1>5, <1>8 DEF Drops
  <2> QED
    BY <1>6, <2>1
<1>9. CASE Ages
  <2>1. Holes(m)' = Holes(m)
    BY <1>1, <1>4, <1>5, <1>9 DEF Ages
  <2> QED
    BY <1>6, <2>1
<1> QED
  BY <1>7, <1>8, <1>9, Moves3

(* The first entry goes only with the oldest generation.                   *)
LEMMA FirstMove ==
  ASSUME LogTypeOK, FilesOK, MoveGeneration, FirstIsHeld, ~ Drops
  PROVE  FirstIsHeld'
<1>0. PICK g \in DOMAIN files : \E i \in 1 .. Len(files[g]) : files[g][i].n = 1
  BY DEF FirstIsHeld
<1>1. PICK i \in 1 .. Len(files[g]) : files[g][i].n = 1
  BY <1>0
<1>2. CASE Skips
  BY <1>1, <1>2 DEF Skips, FirstIsHeld
<1>3. CASE Ages
  <2>1. at + 1 \notin DOMAIN files
    BY DEF FilesOK, MoveGeneration
  <2>2. CASE g = at
    <3>1. at + 1 \in DOMAIN files' /\ files'[at + 1] = files[g]
      BY <1>3, <2>2 DEF Ages
    <3> QED
      BY <1>1, <3>1 DEF FirstIsHeld
  <2>3. CASE g # at
    <3>1. g \in DOMAIN files' /\ files'[g] = files[g]
      BY <1>1, <1>3, <2>1, <2>3 DEF Ages
    <3> QED
      BY <1>1, <3>1 DEF FirstIsHeld
  <2> QED
    BY <2>2, <2>3
<1> QED
  BY <1>2, <1>3, Moves3

LEMMA HolesOKMove ==
  ASSUME LogTypeOK, FilesOK, HolesOK, MoveGeneration
  PROVE  HolesOK'
<1>1. UNCHANGED <<written, undone>> /\ at + 1 \notin DOMAIN files /\ at >= 0
  BY DEF MoveGeneration, FilesOK
<1>2. /\ Backups \in Nat /\ at \in Int /\ at <= Backups /\ undone \in Nat
      /\ \A g \in DOMAIN files : g \in Nat /\ g <= Backups
  BY LogRange
<1>3. SUFFICES /\ \A m \in DOMAIN files' : Cardinality(Holes(m)') <= undone
               /\ written > 0 /\ ~ FirstIsHeld' => Cardinality(Holes(Backups)') <= undone
  BY <1>1 DEF HolesOK
<1>4. ASSUME NEW m \in Nat, m <= Backups, Cardinality(Holes(m)) <= undone
      PROVE  Cardinality(Holes(m)') <= undone
  <2>1. Cardinality(Holes(m)) \in Nat
    BY GapsFinite DEF Holes
  <2>2. Cardinality(Holes(m)') \in Nat
    <3>1. Cardinality(Gaps(DOMAIN files', at', m)) \in Nat
      BY GapsFinite
    <3> QED
      BY <3>1 DEF Holes
  <2> QED
    BY <1>2, <1>4, <2>1, <2>2, HolesMove
<1>5. ASSUME NEW m \in DOMAIN files' PROVE Cardinality(Holes(m)') <= undone
  <2>1. CASE m \in DOMAIN files
    BY <1>2, <1>3, <1>4, <2>1 DEF HolesOK
  <2>2. CASE m \notin DOMAIN files
    <3>1. Ages /\ m = at + 1 /\ at \in DOMAIN files /\ at < Backups
      BY <1>5, <2>2, Moves3 DEF Skips, Drops, Ages
    <3>2. m \in Nat /\ m <= Backups
      BY <1>1, <1>2, <3>1
    <3>3. Holes(m) = Holes(at)
      BY <1>1, <1>2, <3>1, <3>2 DEF Holes, Gaps
    <3> QED
      BY <1>3, <1>4, <3>1, <3>2, <3>3 DEF HolesOK
  <2> QED
    BY <2>1, <2>2
<1>6. ASSUME written > 0, ~ FirstIsHeld' PROVE Cardinality(Holes(Backups)') <= undone
  <2>1. CASE Drops
    <3>1. Backups \in DOMAIN files
      BY <2>1 DEF Drops
    <3> QED
      BY <1>2, <1>3, <1>4, <3>1 DEF HolesOK
  <2>2. CASE ~ Drops
    <3>1. ~ FirstIsHeld
      BY <1>6, <2>2, FirstMove
    <3>2. Backups \in Nat /\ Backups <= Backups
      BY <1>2
    <3> QED
      BY <1>3, <1>4, <1>6, <3>1, <3>2 DEF HolesOK
  <2> QED
    BY <2>1, <2>2
<1> QED
  BY <1>5, <1>6

LEMMA HolesOKOpened ==
  ASSUME LogTypeOK, FilesOK, HolesOK, LogRestart \/ Reopen
  PROVE  HolesOK'
<1>1. /\ DOMAIN files' = DOMAIN files \cup {0} /\ at' = NotRotating
      /\ \A g \in DOMAIN files : files'[g] = files[g]
      /\ written' = written
  BY DEF LogRestart, Reopen, Opened, Held
<1>2. /\ Backups \in Nat /\ at \in Int /\ undone \in Nat
      /\ \A g \in DOMAIN files : g \in Nat
  BY LogRange
<1>3. FirstIsHeld => FirstIsHeld'
  BY <1>1 DEF FirstIsHeld
<1>4. ASSUME NEW m \in Nat, Cardinality(Holes(m)) <= undone
      PROVE  Cardinality(Holes(m)') <= undone'
  <2>1. Holes(m)' = {x \in 1 .. m : x \notin DOMAIN files}
    BY <1>1 DEF Holes, Gaps, NotRotating
  <2>2. IsFiniteSet(Holes(m)) /\ Cardinality(Holes(m)) \in Nat
    BY GapsFinite DEF Holes
  <2>3. CASE at < 0 /\ undone' = undone
    <3>1. Holes(m)' = Holes(m)
      BY <1>2, <2>1, <2>3 DEF Holes, Gaps
    <3> QED
      BY <1>4, <2>3, <3>1
  <2>4. CASE undone' = undone + 1
    <3>1. Holes(m)' \subseteq Holes(m) \cup {at + 1}
      BY <2>1 DEF Holes, Gaps
    <3>2. /\ IsFiniteSet(Holes(m) \cup {at + 1})
          /\ Cardinality(Holes(m) \cup {at + 1}) <= Cardinality(Holes(m)) + 1
          /\ Cardinality(Holes(m) \cup {at + 1}) \in Nat
      BY <2>2, OneMore
    <3>3. /\ Cardinality(Holes(m)') <= Cardinality(Holes(m) \cup {at + 1})
          /\ Cardinality(Holes(m)') \in Nat
      BY <3>1, <3>2, FS_Subset, FS_CardinalityType
    <3> QED
      BY <1>2, <1>4, <2>2, <2>4, <3>2, <3>3
  <2>5. undone' = undone + 1 \/ (at < 0 /\ undone' = undone)
    BY <1>2 DEF LogRestart, Reopen, NotRotating, Reopening
  <2> QED
    BY <2>3, <2>4, <2>5
<1>5. Cardinality(Holes(0)') <= undone'
  <2>1. Holes(0)' = {}
    BY DEF Holes, Gaps
  <2>2. undone' \in Nat
    BY <1>2 DEF LogRestart, Reopen
  <2> QED
    BY <2>1, <2>2, FS_EmptySet
<1>6. SUFFICES /\ \A m \in DOMAIN files' : Cardinality(Holes(m)') <= undone'
               /\ written > 0 /\ ~ FirstIsHeld' => Cardinality(Holes(Backups)') <= undone'
  BY <1>1 DEF HolesOK
<1>7. ASSUME NEW m \in DOMAIN files' PROVE Cardinality(Holes(m)') <= undone'
  <2>1. m \in DOMAIN files \/ m = 0
    BY <1>1, <1>7
  <2> QED
    BY <1>2, <1>4, <1>5, <1>6, <2>1 DEF HolesOK
<1>8. ASSUME written > 0, ~ FirstIsHeld' PROVE Cardinality(Holes(Backups)') <= undone'
  BY <1>2, <1>3, <1>4, <1>6, <1>8 DEF HolesOK
<1> QED
  BY <1>7, <1>8

LEMMA HolesOKRaised ==
  ASSUME LogTypeOK, FilesOK, HolesOK, MoveRaises
  PROVE  HolesOK'
<1>1. at' = NotRotating /\ undone' = undone + 1 /\ UNCHANGED <<files, written>>
  BY DEF MoveRaises
<1>2. Backups \in Nat /\ undone \in Nat /\ \A g \in DOMAIN files : g \in Nat
  BY LogRange
<1>3. ASSUME NEW m \in Nat, Cardinality(Holes(m)) <= undone
      PROVE  Cardinality(Holes(m)') <= undone + 1
  <2>1. Holes(m)' = {x \in 1 .. m : x \notin DOMAIN files}
    BY <1>1 DEF Holes, Gaps, NotRotating
  <2>2. IsFiniteSet(Holes(m)) /\ Cardinality(Holes(m)) \in Nat
    BY GapsFinite DEF Holes
  <2>3. Holes(m)' \subseteq Holes(m) \cup {at + 1}
    BY <2>1 DEF Holes, Gaps
  <2>4. /\ IsFiniteSet(Holes(m) \cup {at + 1})
        /\ Cardinality(Holes(m) \cup {at + 1}) <= Cardinality(Holes(m)) + 1
        /\ Cardinality(Holes(m) \cup {at + 1}) \in Nat
    BY <2>2, OneMore
  <2>5. /\ Cardinality(Holes(m)') <= Cardinality(Holes(m) \cup {at + 1})
        /\ Cardinality(Holes(m)') \in Nat
    BY <2>3, <2>4, FS_Subset, FS_CardinalityType
  <2> QED
    BY <1>2, <1>3, <2>2, <2>4, <2>5
<1> QED
  BY <1>1, <1>2, <1>3 DEF HolesOK, FirstIsHeld

LEMMA HolesOKWrite ==
  ASSUME LogTypeOK, FilesOK, HolesOK, NEW len \in Nat, Puts(len)
  PROVE  HolesOK'
<1>1. DOMAIN files' = DOMAIN files /\ \A g \in DOMAIN files : g # 0 => files'[g] = files[g]
  BY Writes
<1>2. at' = at /\ undone' = undone
  BY Writes
<1>3. 0 \in DOMAIN files /\ files'[0] = Append(files[0], [n |-> written + 1, end |-> Bytes(files[0]) + len])
  BY Writes
<1>4. \A m : Holes(m)' = Holes(m)
  BY <1>1, <1>2 DEF Holes
<1> DEFINE e == [n |-> written + 1, end |-> Bytes(files[0]) + len]
<1>5. e.n = written + 1 /\ files'[0] = Append(files[0], e)
  BY <1>3
<1> HIDE DEF e
<1>6. /\ Len(files[0]) \in Nat /\ Len(files'[0]) = Len(files[0]) + 1
      /\ \A i \in 1 .. Len(files[0]) : files'[0][i] = files[0][i]
      /\ files'[0][Len(files[0]) + 1] = e
  BY <1>3, <1>5, LogRange
<1>7. FirstIsHeld => FirstIsHeld'
  <2> SUFFICES ASSUME NEW g \in DOMAIN files, NEW i \in 1 .. Len(files[g]), files[g][i].n = 1
               PROVE  FirstIsHeld'
    BY DEF FirstIsHeld
  <2>1. i \in 1 .. Len(files'[g]) /\ files'[g][i] = files[g][i]
    BY <1>1, <1>6
  <2> QED
    BY <1>1, <2>1 DEF FirstIsHeld
<1>8. written = 0 => FirstIsHeld'
  <2>1. Len(files[0]) + 1 \in 1 .. Len(files'[0])
    BY <1>6
  <2> QED
    BY <1>1, <1>3, <1>5, <1>6, <2>1 DEF FirstIsHeld
<1>9. written \in Nat
  BY LogRange
<1> QED
  BY <1>1, <1>2, <1>4, <1>7, <1>8, <1>9 DEF HolesOK

LEMMA HolesNext ==
  ASSUME LogTypeOK, FilesOK, HolesOK,
         UNCHANGED logVars \/ LogAction \/ \E len \in 0 .. MaxChars + 1 : Puts(len)
  PROVE  HolesOK'
<1>1. CASE UNCHANGED logVars
  BY <1>1 DEF HolesOK, Holes, FirstIsHeld, logVars
<1>2. \A len \in 0 .. MaxChars + 1 : len \in Nat
  BY StubAssumption
<1>3. CASE StartRotation
  <2>1. at = NotRotating /\ at' = Backups /\ UNCHANGED <<files, written, undone>>
    BY <1>3 DEF StartRotation
  <2>2. ASSUME NEW m \in Nat, m <= Backups PROVE Holes(m)' = Holes(m)
    BY <2>1, <2>2, LogRange DEF Holes, Gaps, NotRotating
  <2>3. Holes(Backups)' = Holes(Backups) /\ \A m \in DOMAIN files : Holes(m)' = Holes(m)
    BY <2>2, LogRange
  <2> QED
    BY <2>1, <2>3 DEF HolesOK, FirstIsHeld
<1>4. CASE MoveRaises
  BY <1>4, HolesOKRaised
<1>5. CASE ReopenRaises
  <2>1. at = Reopening /\ at' = NotRotating /\ UNCHANGED <<files, written, undone>>
    BY <1>5 DEF ReopenRaises
  <2>2. ASSUME NEW m \in Nat PROVE Holes(m)' = Holes(m)
    BY <2>1 DEF Holes, Gaps, NotRotating, Reopening
  <2>3. Holes(Backups)' = Holes(Backups) /\ \A m \in DOMAIN files : Holes(m)' = Holes(m)
    BY <2>2, LogRange
  <2> QED
    BY <2>1, <2>3 DEF HolesOK, FirstIsHeld
<1> QED
  BY <1>1, <1>2, <1>3, <1>4, <1>5, HolesOKMove, HolesOKOpened, HolesOKWrite DEF LogAction

(* A rotation that is bound to fail moves the last entry towards the       *)
(* oldest generation, and drops it there only if all the younger ones are  *)
(* missing.                                                                *)
LEMMA LastMove ==
  ASSUME LogTypeOK, FilesOK, HolesOK, LastOK, MoveGeneration
  PROVE  LastOK'
<1>1. written' = written /\ undone' = undone /\ at + 1 \notin DOMAIN files /\ at >= 0
  BY DEF MoveGeneration, FilesOK
<1>2. /\ Backups \in Nat /\ at \in Int /\ at <= Backups /\ undone \in Nat /\ MaxBytes \in Nat \ {0}
      /\ \A g \in DOMAIN files : g \in Nat /\ g <= Backups
  BY LogRange
<1>3. at # 0 => at' = at - 1 /\ (0 \in DOMAIN files' <=> 0 \in DOMAIN files)
  BY <1>1, <1>2, Moves3 DEF MoveGeneration, Skips, Drops, Ages
<1>4. at = 0 => 0 \in DOMAIN files
  BY DEF MoveGeneration
<1>5. Doomed => at # 0 /\ Doomed'
  BY <1>1, <1>2, <1>3, <1>4 DEF Doomed
<1>6. Halfway' >= Halfway
  BY <1>1, <1>2, <1>5 DEF Halfway
<1>7. SUFFICES ASSUME written > 0, Halfway' < Backups PROVE \E g \in DOMAIN files' : Youngest(g)'
  BY <1>1 DEF LastOK
<1>8. Halfway \in Nat /\ Halfway' \in Nat
  BY <1>1, <1>2 DEF Halfway
<1>9. PICK g \in DOMAIN files : Youngest(g)
  BY <1>2, <1>6, <1>7, <1>8 DEF LastOK
<1>10. \A k \in DOMAIN files : k > 0 => files[k] # <<>>
  BY <1>2 DEF FilesOK, Full, Bytes
<1>11. CASE Skips
  BY <1>9, <1>11 DEF Skips, Youngest
<1>12. CASE Ages
  <2>1. CASE g = at
    <3>1. at + 1 \in DOMAIN files' /\ files'[at + 1] # <<>>
      BY <1>9, <1>12, <2>1 DEF Ages, Youngest
    <3>2. ASSUME NEW k \in DOMAIN files', k < at + 1 PROVE files'[k] = <<>>
      BY <1>2, <1>9, <1>12, <2>1, <3>2 DEF Ages, Youngest
    <3> QED
      BY <3>1, <3>2 DEF Youngest
  <2>2. CASE g # at
    <3>1. g \in DOMAIN files' /\ files'[g] # <<>>
      BY <1>1, <1>9, <1>12, <2>2 DEF Ages, Youngest
    <3>2. ASSUME NEW k \in DOMAIN files', k < g PROVE files'[k] = <<>>
      <4>1. CASE k = at + 1
        <5>1. at < g
          BY <1>2, <3>2, <4>1
        <5> QED
          BY <1>9, <1>12, <4>1, <5>1 DEF Ages, Youngest
      <4>2. CASE k # at + 1
        BY <1>9, <1>12, <3>2, <4>2 DEF Ages, Youngest
      <4> QED
        BY <4>1, <4>2
    <3> QED
      BY <3>1, <3>2 DEF Youngest
  <2> QED
    BY <2>1, <2>2
<1>13. CASE Drops
  <2>1. CASE g # Backups
    BY <1>9, <1>13, <2>1 DEF Drops, Youngest
  <2>2. CASE g = Backups
    <3>1. at = Backups /\ Backups \in DOMAIN files
      BY <1>13 DEF Drops
    <3>2. Backups > 0
      BY <1>2, <1>7, <1>8
    <3>3. 0 \notin DOMAIN files
      <4> SUFFICES ASSUME 0 \in DOMAIN files PROVE FALSE
        OBVIOUS
      <4>1. files[0] # <<>>
        BY <1>1, <1>2 DEF FilesOK, Full, Bytes
      <4> QED
        BY <1>9, <2>2, <3>2, <4>1 DEF Youngest
    <3>4. \A k \in DOMAIN files : ~ (k < Backups)
      BY <1>2, <1>9, <1>10, <2>2, <3>3 DEF Youngest
    <3>5. 1 .. Backups - 1 \subseteq Holes(Backups)
      BY <1>2, <3>1, <3>4 DEF Holes, Gaps
    <3>6. IsFiniteSet(Holes(Backups)) /\ Cardinality(Holes(Backups)) \in Nat
      BY <1>2, GapsFinite DEF Holes
    <3>7. Cardinality(1 .. Backups - 1) = Backups - 1
      BY <1>2, <3>2, FS_Interval
    <3>8. Backups - 1 <= Cardinality(Holes(Backups))
      <4> DEFINE H == Holes(Backups)
                 I == 1 .. Backups - 1
      <4>1. I \subseteq H /\ IsFiniteSet(H) /\ Cardinality(I) = Backups - 1
        BY <3>5, <3>6, <3>7
      <4> HIDE DEF H, I
      <4>2. Cardinality(I) <= Cardinality(H)
        BY <4>1, FS_Subset
      <4> QED
        BY <4>1, <4>2 DEF H
    <3>9. Cardinality(Holes(Backups)) <= undone
      BY <3>1 DEF HolesOK
    <3>10. Doomed
      BY <1>1, <3>3 DEF Doomed
    <3>11. Halfway' = undone + 1
      BY <1>1, <1>5, <3>10 DEF Halfway
    <3> QED
      BY <1>2, <1>7, <3>6, <3>8, <3>9, <3>11
  <2> QED
    BY <2>1, <2>2
<1> QED
  BY <1>11, <1>12, <1>13, Moves3

LEMMA HalfwayType ==
  /\ undone \in Nat => Halfway \in Nat
  /\ undone' \in Nat => Halfway' \in Nat
<1>1. ASSUME NEW n \in Nat, NEW b, b \in BOOLEAN
      PROVE  (IF b THEN n + 1 ELSE n) \in Nat
  BY <1>1
<1>2. Doomed \in BOOLEAN /\ Doomed' \in BOOLEAN
  BY DEF Doomed
<1>3. Halfway = (IF Doomed THEN undone + 1 ELSE undone)
      /\ Halfway' = (IF Doomed' THEN undone' + 1 ELSE undone')
  BY Zenon DEF Halfway
<1> QED
  BY <1>1, <1>2, <1>3

LEMMA LastNext ==
  ASSUME LogTypeOK, FilesOK, HolesOK, LastOK,
         UNCHANGED logVars \/ LogAction \/ \E len \in 0 .. MaxChars + 1 : Puts(len)
  PROVE  LastOK'
<1>1. Backups \in Nat /\ undone \in Nat
  BY LogRange
<1>2. ASSUME files' = files, written' = written, Halfway' >= Halfway, undone' \in Nat
      PROVE  LastOK'
  <2>1. Halfway \in Nat /\ Halfway' \in Nat
    BY <1>1, <1>2, HalfwayType
  <2>2. Halfway' < Backups => Halfway < Backups
    BY <1>1, <1>2, <2>1
  <2> QED
    BY <1>2, <2>2 DEF LastOK, Youngest
<1>3. CASE UNCHANGED logVars
  <2>1. Halfway' = Halfway
    BY <1>3 DEF logVars, Halfway, Doomed
  <2> QED
    BY <1>1, <1>2, <1>3, <2>1, HalfwayType DEF logVars
<1>4. CASE StartRotation \/ MoveRaises \/ ReopenRaises
  <2>1. files' = files /\ written' = written /\ undone' \in Nat
    BY <1>1, <1>4 DEF StartRotation, MoveRaises, ReopenRaises
  <2>2. Halfway' >= Halfway
    <3>1. CASE StartRotation
      <4>1. ~ Doomed /\ undone' = undone
        BY <3>1 DEF StartRotation, Doomed, NotRotating
      <4> QED
        BY <1>1, <4>1 DEF Halfway
    <3>2. CASE MoveRaises
      <4>1. undone' = undone + 1
        BY <3>2 DEF MoveRaises
      <4> QED
        BY <1>1, <4>1 DEF Halfway
    <3>3. CASE ReopenRaises
      <4>1. ~ Doomed /\ undone' = undone
        BY <3>3 DEF ReopenRaises, Doomed, Reopening
      <4> QED
        BY <1>1, <4>1 DEF Halfway
    <3> QED
      BY <1>4, <3>1, <3>2, <3>3
  <2> QED
    BY <1>2, <2>1, <2>2
<1>5. CASE LogRestart \/ Reopen
  <2>1. /\ DOMAIN files' = DOMAIN files \cup {0} /\ written' = written
        /\ \A g \in DOMAIN files : files'[g] = files[g]
        /\ 0 \notin DOMAIN files => files'[0] = <<>>
    BY <1>5 DEF LogRestart, Reopen, Opened, Held
  <2>2. Halfway' >= Halfway
    <3>1. CASE LogRestart
      BY <1>1, <3>1 DEF LogRestart, Halfway, Doomed
    <3>2. CASE Reopen
      <4>1. ~ Doomed /\ undone' = undone
        BY <3>2 DEF Reopen, Doomed, Reopening
      <4> QED
        BY <1>1, <4>1 DEF Halfway
    <3> QED
      BY <1>5, <3>1, <3>2
  <2>3. Halfway \in Nat /\ Halfway' \in Nat /\ (Halfway' < Backups => Halfway < Backups)
    <3>1. undone' \in Nat
      BY <1>1, <1>5 DEF LogRestart, Reopen
    <3>2. Halfway \in Nat /\ Halfway' \in Nat
      BY <1>1, <3>1, HalfwayType
    <3> QED
      BY <1>1, <2>2, <3>2
  <2>4. \A g \in DOMAIN files : Youngest(g) => Youngest(g)'
    BY <2>1 DEF Youngest
  <2> QED
    BY <2>1, <2>3, <2>4 DEF LastOK
<1>6. ASSUME NEW len \in 0 .. MaxChars + 1, Puts(len) PROVE LastOK'
  <2>1. len \in Nat
    BY StubAssumption
  <2>2. 0 \in DOMAIN files' /\ files'[0] # <<>>
    BY <1>6, <2>1, Writes
  <2>3. \A k \in DOMAIN files' : ~ (k < 0)
    <3>1. DOMAIN files' = DOMAIN files
      BY <1>6, <2>1, Writes
    <3> QED
      BY <3>1, LogRange
  <2> QED
    BY <2>2, <2>3 DEF LastOK, Youngest
<1> QED
  BY <1>3, <1>4, <1>5, <1>6, LastMove DEF LogAction

(* Each generation that is there is full, but for the one being written,   *)
(* and the rest are holes.                                                 *)
LEMMA HolesBoundLoss ==
  ASSUME LogTypeOK, FilesOK, HolesOK, written > 0, ~ FirstIsHeld
  PROVE  Cardinality({g \in DOMAIN files : Full(g)}) >= Backups - Halfway
<1> DEFINE W == {g \in DOMAIN files : Full(g)}
           H == Holes(Backups)
<1>1. /\ Backups \in Nat /\ undone \in Nat /\ at \in Int
      /\ \A g \in DOMAIN files : g \in Nat /\ g <= Backups
  BY LogRange
<1>2. IsFiniteSet(H) /\ Cardinality(H) \in Nat /\ Cardinality(H) <= undone
  BY <1>1, GapsFinite DEF Holes, HolesOK
<1>3. IsFiniteSet(W) /\ Cardinality(W) \in Nat
  <2>1. IsFiniteSet(0 .. Backups)
    BY <1>1, FS_Interval
  <2>2. W \subseteq 0 .. Backups
    BY <1>1
  <2> QED
    BY <2>1, <2>2, FS_Subset, FS_CardinalityType
<1>4. IsFiniteSet(1 .. Backups) /\ Cardinality(1 .. Backups) = Backups
  BY <1>1, FS_Interval
<1>5. \A x \in 1 .. Backups : x \in DOMAIN files => x \in W
  BY <1>1 DEF FilesOK
<1>6. CASE at < 0
  <2>1. 1 .. Backups \subseteq W \cup H
    BY <1>1, <1>5, <1>6 DEF Holes, Gaps
  <2>2. IsFiniteSet(W \cup H) /\ Cardinality(W \cup H) <= Cardinality(W) + Cardinality(H)
        /\ Cardinality(W \cup H) \in Nat
    BY <1>2, <1>3, SumBound
  <2>3. Backups <= Cardinality(W \cup H)
    <3> DEFINE U == W \cup H
    <3>1. 1 .. Backups \subseteq U /\ IsFiniteSet(U)
      BY <2>1, <2>2
    <3> HIDE DEF U
    <3>2. Cardinality(1 .. Backups) <= Cardinality(U)
      BY <3>1, FS_Subset
    <3> QED
      BY <1>4, <3>2 DEF U
  <2>4. Halfway = undone
    BY <1>1, <1>6 DEF Halfway, Doomed
  <2>5. Cardinality(W) >= Backups - Halfway
    <3> HIDE DEF W, H
    <3> QED
      BY <1>1, <1>2, <1>3, <2>2, <2>3, <2>4
  <2> QED
    BY <2>5
<1>7. CASE at >= 0
  <2> DEFINE V == W \ {0}
             I == (1 .. Backups) \ {at + 1}
  <2>1. 0 \notin DOMAIN files \/ 0 \in W
    BY <1>1, <1>7, LogRange DEF FilesOK
  <2>2. /\ IsFiniteSet(V) /\ Cardinality(V) \in Nat
        /\ Cardinality(V) <= Cardinality(W) - (IF 0 \in DOMAIN files THEN 1 ELSE 0)
    <3>1. CASE 0 \in W
      <4>1. IsFiniteSet(V) /\ Cardinality(V) = Cardinality(W) - 1
        BY <1>3, <3>1, FS_RemoveElement
      <4>2. Cardinality(V) \in Nat
        BY <4>1, FS_CardinalityType
      <4>3. 0 \in DOMAIN files
        BY <3>1
      <4> HIDE DEF V, W
      <4> QED
        BY <4>1, <4>2, <4>3
    <3>2. CASE 0 \notin DOMAIN files
      <4>1. V = W
        BY <3>2
      <4> HIDE DEF V, W
      <4> QED
        BY <1>3, <3>2, <4>1
    <3> QED
      BY <2>1, <3>1, <3>2
  <2>3. I \subseteq V \cup H
    BY <1>1, <1>5 DEF Holes, Gaps
  <2>4. IsFiniteSet(V \cup H) /\ Cardinality(V \cup H) <= Cardinality(V) + Cardinality(H)
        /\ Cardinality(V \cup H) \in Nat
    BY <1>2, <2>2, SumBound
  <2>5. IsFiniteSet(I) /\ Cardinality(I) >= Backups - 1 /\ Cardinality(I) \in Nat
    <3>1. IsFiniteSet(I) /\ Cardinality(I) \in {Backups, Backups - 1}
      BY <1>4, FS_RemoveElement
    <3>2. Cardinality(I) \in Nat
      BY <3>1, FS_CardinalityType
    <3> QED
      BY <1>1, <3>1, <3>2
  <2>6. Cardinality(I) <= Cardinality(V \cup H)
    BY <2>3, <2>4, FS_Subset
  <2>7. Halfway = undone + (IF 0 \in DOMAIN files THEN 0 ELSE 1)
    BY <1>1, <1>7 DEF Halfway, Doomed
  <2>8. Cardinality(W) >= Backups - Halfway
    <3> HIDE DEF W, H, V, I
    <3> QED
      BY <1>1, <1>2, <1>3, <2>2, <2>4, <2>5, <2>6, <2>7
  <2> QED
    BY <2>8
<1> QED
  BY <1>1, <1>6, <1>7

(* The rotation drops the oldest entries and keeps the latest: the last    *)
(* entry is not lost before as many rotations have ended half way as there *)
(* are backups, and no more generations are missing than rotations have    *)
(* (rotating_log.py:12-15, 45-57).                                         *)
THEOREM RecentEntriesSurvive == Spec => []RecentSurvives
<1> DEFINE LogInv == FilesOK /\ OrderInv /\ HolesOK /\ LastOK
<1>1. Init => LogInv
  <2> SUFFICES ASSUME Init PROVE HolesOK /\ LastOK
    BY LogInits, OrderInits
  <2>1. DOMAIN files = {0} /\ written = 0 /\ undone = 0 /\ ~ (0 > 0)
    BY DEF Init, LogInit
  <2>2. Holes(0) = {} /\ Cardinality({}) = 0 /\ 0 <= 0
    BY FS_EmptySet DEF Holes, Gaps
  <2> QED
    BY <2>1, <2>2 DEF HolesOK, LastOK
<1>2. TypeOK /\ LogInv /\ [Next]_vars => LogInv'
  <2> SUFFICES ASSUME TypeOK, LogInv, [Next]_vars PROVE LogInv'
    OBVIOUS
  <2>1. LogTypeOK
    BY DEF TypeOK
  <2> QED
    BY <2>1, LogSteps, FilesNext, OrderNext, HolesNext, LastNext
<1>3. TypeOK /\ LogInv => RecentSurvives
  <2> SUFFICES ASSUME TypeOK, LogInv, written > 0 PROVE RecentSurvives
    BY DEF RecentSurvives
  <2>1. LogTypeOK
    BY DEF TypeOK
  <2>2. Halfway < Backups => LastIsHeld
    BY DEF LastOK, LastIsHeld, OrderInv, Latest, Youngest
  <2>3. FirstIsHeld \/ Cardinality({g \in DOMAIN files : Full(g)}) >= Backups - Halfway
    BY <2>1, HolesBoundLoss
  <2> QED
    BY <2>2, <2>3 DEF RecentSurvives
<1> QED
  BY <1>1, <1>2, <1>3, StubTypeCorrect, PTL DEF Spec
=============================================================================
