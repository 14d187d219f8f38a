----------------------------- MODULE RotatingLog -----------------------------
(***************************************************************************)
(* lib/rotating_log.py: an append-only log of bounded size.  A write that  *)
(* finds the file full renames it aside first; _rotate works on the disk   *)
(* one file at a time, so a process that dies half way leaves whatever it  *)
(* had done, and the next one opens what it finds.                         *)
(*                                                                         *)
(* Generation 0 is the file at path, generation i is path.i.  An entry is  *)
(* its number in the order of the writes and the place in the file where   *)
(* it ends.  (A definition without a comment of its own, just before one   *)
(* that has the same parameters, is a mutant of it.)                       *)
(***************************************************************************)
EXTENDS Integers, Sequences, FiniteSets

CONSTANTS
  MaxBytes,   \* MAX_BYTES
  Backups     \* BACKUPS

ASSUME LogAssumption == MaxBytes \in Nat \ {0} /\ Backups \in Nat

VARIABLES
  files,    \* what is on the disk: the entries of each generation that exists
  fp,       \* the handle is open
  size,     \* _size
  at,       \* the next generation _rotate moves, or one of the two below
  written,  \* history: how many entries were ever written
  undone,   \* history: rotations that ended half way, by a crash or an exception
  unsized   \* history: bytes in the files that _size has never counted

logVars == <<files, fp, size, at, written, undone, unsized>>

Entry == [n : Nat, end : Nat]

NotRotating == -2
Reopening == -1

Newest(entries) == entries[Len(entries)]
Bytes(entries) == IF entries = <<>> THEN 0 ELSE Newest(entries).end

Held(g) == IF g \in DOMAIN files THEN files[g] ELSE <<>>

(* open(path, "a"): creates the file or goes to its end.                   *)
Truncated == [g \in DOMAIN files \cup {0} |-> IF g = 0 THEN <<>> ELSE files[g]]
Opened == [g \in DOMAIN files \cup {0} |-> Held(g)]

LogInit == /\ files = [g \in {0} |-> <<>>]
           /\ fp = TRUE /\ size = 0 /\ at = NotRotating
           /\ written = 0 /\ undone = 0 /\ unsized = 0

(* A new process, whatever the last one was doing.                         *)
LogRestart ==
  /\ files' = Opened
  /\ fp' = TRUE
  /\ size' = Bytes(Held(0))
  /\ at' = NotRotating
  /\ undone' = IF at >= 0 THEN undone + 1 ELSE undone
  /\ UNCHANGED <<written, unsized>>

NeedsRotation == size >= MaxBytes

(* _rotate closes the file, and removes the oldest ...                     *)
StartRotation ==
  /\ at = NotRotating /\ NeedsRotation
  /\ fp' = FALSE
  /\ at' = Backups
  /\ UNCHANGED <<files, size, written, undone, unsized>>

(* ... then makes each generation one older, the oldest first.             *)
Renamed(g) == [h \in (DOMAIN files \ {g}) \cup {g + 1} |->
                 IF h = g + 1 THEN files[g] ELSE files[h]]
Removed(g) == [h \in DOMAIN files \ {g} |-> files[h]]
OneTooMany(g) == IF g >= Backups - 1 THEN Removed(g) ELSE Renamed(g)
Moved(g) == IF g = Backups THEN Removed(g) ELSE Renamed(g)

MoveGeneration ==
  /\ at >= 0
  /\ at = 0 => 0 \in DOMAIN files
  /\ files' = IF at \in DOMAIN files THEN Moved(at) ELSE files
  /\ at' = IF at = 0 THEN Reopening ELSE at - 1
  /\ UNCHANGED <<fp, size, written, undone, unsized>>

(* The close, a remove or a rename raises: the last one surely does when   *)
(* there is no file at path.  The handle stays closed and _size full, so   *)
(* the next write rotates again, from the oldest.                          *)
MoveRaises ==
  /\ at >= 0
  /\ at' = NotRotating
  /\ undone' = undone + 1
  /\ UNCHANGED <<files, fp, size, written, unsized>>

Reopen ==
  /\ at = Reopening
  /\ files' = Opened
  /\ fp' = TRUE /\ size' = 0
  /\ at' = NotRotating
  /\ UNCHANGED <<written, undone, unsized>>

(* open raises, as when the process is out of descriptors.  Every write    *)
(* from now on rotates again, finds no file at path, and raises.           *)
ReopenRaises ==
  /\ at = Reopening
  /\ at' = NotRotating
  /\ UNCHANGED <<files, fp, size, written, undone, unsized>>

(* write, with room in the file.                                           *)
Added(len) ==
  /\ files' = [files EXCEPT ![0] = Append(@, [n |-> written + 1, end |-> Bytes(@) + len])]
  /\ written' = written + 1

Write(len) ==
  /\ at = NotRotating /\ ~ NeedsRotation
  /\ Added(len)
  /\ size' = size + len
  /\ UNCHANGED <<fp, at, undone, unsized>>

(* The same, and the handle raises, as on a full disk: the text is lost,   *)
(* or stays in the buffer and goes out with the next one, not counted.     *)
WriteRaises(len) ==
  /\ at = NotRotating /\ ~ NeedsRotation
  /\ \/ UNCHANGED <<files, written, unsized>>
     \/ Added(len) /\ unsized' = unsized + len
  /\ UNCHANGED <<fp, size, at, undone>>

-----------------------------------------------------------------------------
LogTypeOK ==
  /\ DOMAIN files \subseteq 0 .. Backups
  /\ \A g \in DOMAIN files : files[g] \in Seq(Entry)
  /\ fp \in BOOLEAN
  /\ size \in Nat /\ written \in Nat /\ undone \in Nat /\ unsized \in Nat
  /\ at \in NotRotating .. Backups

(* Generation g is the last before h that has anything in it.              *)
Precedes(g, h) ==
  /\ h < g /\ files[g] # <<>> /\ files[h] # <<>>
  /\ \A k \in DOMAIN files : h < k /\ k < g => files[k] = <<>>

(* What is on the disk is one run of consecutive entries, in the order they *)
(* were written: a rotation, a crash in the middle of one or one that       *)
(* failed loses none between two that are kept (rotating_log.py:43-58).     *)
HistoryInOrder ==
  /\ \A g \in DOMAIN files : \A i \in 1 .. Len(files[g]) - 1 :
       files[g][i + 1].n = files[g][i].n + 1
  /\ \A g, h \in DOMAIN files :
       Precedes(g, h) => files[h][1].n = Newest(files[g]).n + 1

(* Rotation drops the oldest and keeps the most recent                     *)
(* (rotating_log.py:12-15) as long as few rotations end half way: each     *)
(* costs a generation, and one that could not reopen the file is followed  *)
(* by one that does at every write, until nothing is left                  *)
(* (rotating_log.py:45-57).  While those are fewer than the backups, the   *)
(* last entry is on the disk; and once the first is gone, there are as     *)
(* many full generations as backups, less one for each.                    *)
Full(g) == Bytes(files[g]) >= MaxBytes
FirstIsHeld == \E g \in DOMAIN files : \E i \in 1 .. Len(files[g]) : files[g][i].n = 1
LastIsHeld == \E g \in DOMAIN files : files[g] # <<>> /\ Newest(files[g]).n = written
Doomed == at >= 0 /\ 0 \notin DOMAIN files
Halfway == IF Doomed THEN undone + 1 ELSE undone
RecentSurvives ==
  written > 0 =>
    /\ Halfway < Backups => LastIsHeld
    /\ FirstIsHeld \/ Cardinality({g \in DOMAIN files : Full(g)}) >= Backups - Halfway
=============================================================================
