----------------------------- MODULE StubServers -----------------------------
(***************************************************************************)
(* What the servers have in common: an accept loop gated by a semaphore, a *)
(* handler thread per connection, and one log.  RotatingLog is the log.  A *)
(* process is the location server (location_server.py), the voice server   *)
(* (voice_server.py) or the session manager (session_manager.py), of which *)
(* only this frame is here.  The first two write the log once, when the    *)
(* connection is over and its slot given back; the session manager writes  *)
(* what it receives as it goes, and gives the slot back at the very end.   *)
(*                                                                         *)
(* The same accept loop runs in the HTTP gateway and the ticket server.    *)
(* As in RotatingLog, a definition without a comment of its own, just      *)
(* before one that has the same parameters, is a mutant of it.             *)
(***************************************************************************)
EXTENDS RotatingLog, TLC

CONSTANTS
  Conn,        \* the clients, each with one connection at a time
  Slots,       \* MAX_CONCURRENT_HANDLERS
  MaxChars,    \* MAX_LOG_CHARS, in blocks: a header or a message received
  MaxTalk,     \* bound: messages of a connection that are counted
  MaxConns,    \* bound: connections
  MaxCrash     \* bound: crashes of the process

ASSUME StubAssumption ==
  /\ IsFiniteSet(Conn) /\ Slots \in Nat \ {0} /\ MaxChars \in Nat \ {0}
  /\ MaxTalk \in Nat /\ MaxConns \in Nat /\ MaxCrash \in Nat

VARIABLES
  server,    \* which of the three this process is
  backlog,   \* connections the kernel holds for accept
  acc,       \* the accept loop: about to "acquire" a slot, or to "accept"
  free,      \* the value of _handler_slots
  st,        \* where the handler of a connection is
  talk,      \* messages received on it
  locked,    \* log_lock is held
  made,      \* connections so far
  crashes    \* crashes so far

stubVars == <<server, backlog, acc, free, st, talk, locked, made, crashes>>
vars == <<logVars, stubVars>>

(* Handlers that have not given their slot back.                           *)
Logging == {c \in Conn : st[c] \in {"log", "write"}}
Serving == {c \in Conn : st[c] \in {"recv", "linger", "release"}}
           \cup (IF server = "session" THEN Logging ELSE {})

(* capped_appender: the header and what fits, and a line that says how     *)
(* much was dropped.                                                       *)
UncappedBlock(c) == 1 + talk[c]
CappedBlock(c) == IF 1 + talk[c] > MaxChars THEN MaxChars + 1 ELSE 1 + talk[c]
LocationBlock(c) == 1 + (IF talk[c] > 0 THEN 1 ELSE 0)
Block(c) == CASE server = "voice" -> CappedBlock(c)
              [] server = "location" -> LocationBlock(c)
              [] server = "session" -> 1

-----------------------------------------------------------------------------
Init == /\ LogInit
        /\ server \in {"location", "voice", "session"}
        /\ backlog = <<>> /\ acc = "acquire" /\ free = Slots
        /\ st = [c \in Conn |-> "away"] /\ talk = [c \in Conn |-> 0]
        /\ locked = FALSE /\ made = 0 /\ crashes = 0

Connect(c) ==
  /\ st[c] = "away"
  /\ made < MaxConns
  /\ made' = made + 1
  /\ st' = [st EXCEPT ![c] = "backlog"]
  /\ talk' = [talk EXCEPT ![c] = 0]
  /\ backlog' = Append(backlog, c)
  /\ UNCHANGED <<logVars, server, acc, free, locked, crashes>>

(* A slot is taken before accept.                                          *)
AcquireSlot ==
  /\ acc = "acquire" /\ free > 0
  /\ free' = free - 1
  /\ acc' = "accept"
  /\ UNCHANGED <<logVars, server, backlog, st, talk, locked, made, crashes>>

Accept ==
  /\ acc = "accept" /\ backlog # <<>>
  /\ st' = [st EXCEPT ![Head(backlog)] = IF server = "session" THEN "log" ELSE "recv"]
  /\ backlog' = Tail(backlog)
  /\ acc' = "acquire"
  /\ UNCHANGED <<logVars, server, free, talk, locked, made, crashes>>

Goes(c, l) == /\ st' = [st EXCEPT ![c] = l]
              /\ UNCHANGED <<logVars, server, backlog, acc, free, locked, made, crashes>>

(* recv returned bytes, they are logged and answered.  The location server *)
(* then only waits for the client to close; the voice server goes on.  A   *)
(* client may keep talking for ever: past MaxTalk the messages are no more *)
(* counted.                                                                *)
Received(c, l) == /\ st[c] = l
                  /\ talk' = [talk EXCEPT ![c] = IF @ < MaxTalk THEN @ + 1 ELSE @]
LocationReply(c) ==
  /\ server = "location" /\ Received(c, "recv")
  /\ Goes(c, "linger")
LocationLinger(c) ==
  /\ server = "location" /\ Received(c, "linger")
  /\ Goes(c, "linger")
VoiceReply(c) ==
  /\ server = "voice" /\ Received(c, "recv")
  /\ Goes(c, "recv")

(* The session manager logs the message before it works on it: MaxTalk of  *)
(* them, for the log grows.                                                *)
SessionLogs(c) ==
  /\ server = "session" /\ talk[c] < MaxTalk /\ Received(c, "recv")
  /\ Goes(c, "log")

(* The reply could not be sent.                                            *)
SendFails(c) == Received(c, "recv") /\ Goes(c, "release")

(* End of stream, time-out or error: to the finally block.                 *)
Ends(c) == /\ st[c] \in {"recv", "linger"}
           /\ Goes(c, "release")
           /\ UNCHANGED talk

(* The stubs give the slot back first, close the connection and then log.  *)
KeepsSlot == free
GivesBack == free + 1
Release(c) ==
  /\ st[c] = "release"
  /\ free' = GivesBack
  /\ st' = [st EXCEPT ![c] = IF server = "session" THEN "away" ELSE "log"]
  /\ UNCHANGED <<logVars, server, backlog, acc, talk, locked, made, crashes>>

(* The block is written under log_lock, and the log rotated if it has to   *)
(* be.                                                                     *)
LogFree == ~ locked
TakeLog(c) ==
  /\ st[c] = "log" /\ LogFree
  /\ locked' = TRUE
  /\ st' = [st EXCEPT ![c] = "write"]
  /\ IF NeedsRotation THEN StartRotation ELSE UNCHANGED logVars
  /\ UNCHANGED <<server, backlog, acc, free, talk, made, crashes>>

Rotating(c) ==
  /\ st[c] = "write"
  /\ MoveGeneration \/ Reopen
  /\ UNCHANGED stubVars

(* The block is written, or an exception leaves the handler (print, write  *)
(* or flush), which is no different for the stubs: the thread is gone.  In the session manager it *)
(* gets to the slot through the finally of serve, outside handle.          *)
StillHeld == ~ fp'
Released == FALSE
AfterWrite == IF server = "session" THEN "recv" ELSE "away"
AfterRaise == IF server = "session" THEN "release" ELSE "away"
LogStep(c) ==
  /\ st[c] = "write"
  /\ \/ Write(Block(c)) /\ st' = [st EXCEPT ![c] = AfterWrite]
     \/ /\ MoveRaises \/ ReopenRaises \/ Write(Block(c)) \/ WriteRaises(Block(c))
        /\ st' = [st EXCEPT ![c] = AfterRaise]
  /\ locked' = Released
  /\ UNCHANGED <<server, backlog, acc, free, talk, made, crashes>>

(* The process dies, or is killed, wherever it is, and is started again.   *)
Restart ==
  /\ crashes < MaxCrash
  /\ crashes' = crashes + 1
  /\ LogRestart
  /\ backlog' = <<>> /\ acc' = "acquire" /\ free' = Slots
  /\ st' = [c \in Conn |-> "away"] /\ talk' = [c \in Conn |-> 0]
  /\ locked' = FALSE
  /\ UNCHANGED <<server, made>>

Acceptor == AcquireSlot \/ Accept
Handler(c) ==
  \/ LocationReply(c) \/ LocationLinger(c) \/ VoiceReply(c) \/ SessionLogs(c)
  \/ SendFails(c) \/ Ends(c) \/ Release(c) \/ TakeLog(c) \/ Rotating(c) \/ LogStep(c)

Next == Acceptor \/ Restart \/ \E c \in Conn : Connect(c) \/ Handler(c)

Spec == Init /\ [][Next]_vars

(* Threads are scheduled and files answer.  What a client does in a        *)
(* conversation, and when it stops, is its own affair.                     *)
FairSpec == /\ Spec /\ WF_vars(Acceptor)
            /\ \A c \in Conn : WF_vars(Release(c) \/ TakeLog(c) \/ Rotating(c) \/ LogStep(c))

-----------------------------------------------------------------------------
TypeOK ==
  /\ LogTypeOK
  /\ server \in {"location", "voice", "session"}
  /\ backlog \in Seq(Conn)
  /\ acc \in {"acquire", "accept"}
  /\ free \in Nat
  /\ st \in [Conn -> {"away", "backlog", "recv", "linger", "release", "log", "write"}]
  /\ talk \in [Conn -> Nat]
  /\ locked \in BOOLEAN
  /\ made \in Nat /\ crashes \in Nat

(* A slot is free, or held by a handler or by the accept loop: none is     *)
(* lost when a connection or the log fails, so the server never shrinks    *)
(* (location_server.py:95, voice_server.py:91, session_manager.py:1644).   *)
SlotsConserved ==
  free + Cardinality(Serving) + (IF acc = "accept" THEN 1 ELSE 0) = Slots

(* The files never take more than this: the size is tested before a write, *)
(* so each may pass the limit by an entry less one byte, and an entry is   *)
(* bounded by its cap and the line that says it was cut                    *)
(* (rotating_log.py:63, 85); and by what writes that raised have left in   *)
(* them all the same.                                                      *)
DiskBound ==
  \A g \in DOMAIN files : Bytes(files[g]) <= MaxBytes + MaxChars + unsized

(* A peer that goes on talking keeps its slot for ever.  If none does, a   *)
(* connection that waits in the backlog is served, logged and done with,   *)
(* also when there are more of them than slots and when the log raises     *)
(* (voice_server.py:61, 77-85; location_server.py:84).                     *)
Talking(c) == \/ st[c] \in {"recv", "linger"}
              \/ server = "session" /\ c \in Logging
TalksEnd == \A c \in Conn : []<>~ Talking(c)
EverybodyIsServed == TalksEnd => \A c \in Conn : st[c] = "backlog" ~> st[c] = "away"
=============================================================================
