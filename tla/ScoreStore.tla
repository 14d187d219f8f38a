------------------------------ MODULE ScoreStore ------------------------------
(***************************************************************************)
(* ScoreStore of ticket_server.py: one SQLite connection shared by every   *)
(* handler thread under a lock, the migration of older schemas it runs at  *)
(* start, and the codec of the score blobs.                                *)
(*                                                                         *)
(* A database is its columns beside player and score, and its rows, for    *)
(* one board.  disk is what has been committed, mem what the connection    *)
(* sees; they differ while a transaction is open.  Python opens one before *)
(* an INSERT or UPDATE and not before CREATE or ALTER, which are therefore *)
(* committed at once unless a transaction is open already.                 *)
(*                                                                         *)
(* A definition without a comment of its own, just before one that has the *)
(* same parameters, is a mutant of it.                                     *)
(***************************************************************************)
EXTENDS Integers, Sequences, FiniteSets

CONSTANTS
  Player,
  Named,      \* slots with a name, len(BLOB_FIELDS)
  Extra,      \* slots after them, len(EXTRA_SLOTS)
  OldTables   \* the databases a start may find

ASSUME SlotAssumption == Named \in Nat \ {0} /\ Extra \in Nat

VARIABLES
  disk,    \* the committed database
  mem,     \* the database as the connection sees it
  open,    \* a transaction is open
  phase    \* how far the process has got with its start

storeVars == <<disk, mem, open, phase>>

AllSlots == Named + Extra
Slots == [1 .. AllSlots -> Nat]

(* decode_blob: what the wire omits is zero, what is past the last slot is *)
(* dropped.                                                                *)
DecodeNamed(wire) == [i \in 1 .. AllSlots |-> IF i <= Named /\ i <= Len(wire) THEN wire[i] ELSE 0]
Decode(wire) == [i \in 1 .. AllSlots |-> IF i <= Len(wire) THEN wire[i] ELSE 0]

(* encode_blob: up to the last slot that is not zero, and all named ones.  *)
Emitted(slots) ==
  CHOOSE n \in Named .. AllSlots :
    /\ \A i \in n + 1 .. AllSlots : slots[i] = 0
    /\ n > Named => slots[n] # 0
Encode(slots) == SubSeq(slots, 1, Emitted(slots))

(* Rows: the score, the slots, and the two legacy columns, empty if absent *)
(* or unused.                                                              *)
Row == [score : Int, slots : Slots, blob : Seq(Nat), extra : Seq(Nat)]
Legacy == {"blob", "extra"}
NoTable == [cols |-> {}, rows |-> [p \in {} |-> 0]]
IsDatabase(db) ==
  /\ db = [cols |-> db.cols, rows |-> db.rows]
  /\ db.cols \subseteq Legacy \cup {"slots"}
  /\ DOMAIN db.rows \subseteq Player
  /\ db.rows \in [DOMAIN db.rows -> Row]
  /\ \A l \in Legacy \ db.cols : \A p \in DOMAIN db.rows : db.rows[p][l] = <<>>

(* What a start finds is a database with the columns of some version.      *)
ASSUME TablesAssumption == \A db \in OldTables : IsDatabase(db)

(* The two backfills: a stored blob replaces the slots, then a stored tail *)
(* the slots after the named ones.                                         *)
FromBlob(row) == IF row.blob = <<>> THEN row ELSE [row EXCEPT !.slots = Decode(row.blob)]
FromExtra(row) ==
  [row EXCEPT !.slots = [i \in 1 .. AllSlots |->
     IF i \in Named + 1 .. Named + Len(row.extra) THEN row.extra[i - Named] ELSE @[i]]]

(* What a row stands for, whether the database has been migrated or not.   *)
Stands(row) ==
  LET r == FromExtra(FromBlob(row)) IN [score |-> r.score, slots |-> r.slots]

StoreInit == /\ disk \in OldTables
             /\ mem = disk
             /\ open = FALSE
             /\ phase = "create"

(* CREATE and ALTER, INSERT and UPDATE.                                    *)
Define(db) == mem' = db /\ disk' = (IF open THEN disk ELSE db) /\ UNCHANGED open
Change(db) == mem' = db /\ open' = TRUE /\ UNCHANGED disk
Commit == disk' = mem /\ open' = FALSE /\ UNCHANGED mem

-----------------------------------------------------------------------------
(* __init__ and _migrate, a statement, or the statements of a transaction  *)
(* that touch one column, at a time.                                       *)
CreateTable ==
  /\ phase = "create" /\ phase' = "add"
  /\ Define(IF mem = NoTable THEN [mem EXCEPT !.cols = {"slots"}] ELSE mem)

(* An ALTER for each column that is missing.  Before the last of them the  *)
(* database is, as far as cols tells, what it was: a new column is zero,   *)
(* and a start that was cut short goes on with those still missing.        *)
AddColumns ==
  /\ phase = "add" /\ phase' = "blob"
  /\ Define([mem EXCEPT !.cols = @ \cup {"slots"}])

(* SELECT the rows with something in the column, UPDATE each.              *)
Backfill(c, next, rows) ==
  /\ phase = c /\ phase' = next
  /\ IF c \in mem.cols /\ \E p \in DOMAIN mem.rows : mem.rows[p][c] # <<>>
     THEN Change([mem EXCEPT !.rows = rows])
     ELSE UNCHANGED <<disk, mem, open>>

LeaveColumn(c) == mem
DropColumn(c) ==
  [cols |-> mem.cols \ {c},
   rows |-> [p \in DOMAIN mem.rows |-> [mem.rows[p] EXCEPT ![c] = <<>>]]]

Migrate ==
  \/ CreateTable \/ AddColumns
  \/ Backfill("blob", "extra", [p \in DOMAIN mem.rows |-> FromBlob(mem.rows[p])])
  \/ Backfill("extra", "drop", [p \in DOMAIN mem.rows |-> FromExtra(mem.rows[p])])
  \/ /\ phase = "drop" /\ phase' = "drop2"
     /\ Define(DropColumn("blob"))
  \/ /\ phase = "drop2" /\ phase' = "commit"
     /\ Define(DropColumn("extra"))
  \/ /\ phase = "commit" /\ phase' = "up"
     /\ Commit

(* The process dies and is started again.  What was not committed is gone. *)
StoreRestart ==
  /\ mem' = disk /\ open' = FALSE /\ phase' = "create"
  /\ UNCHANGED disk

(* update: the row of a player is inserted or replaced.  The legacy        *)
(* columns are not in the statement.                                       *)
Stored(p, score, wire) ==
  LET old == IF p \in DOMAIN mem.rows THEN mem.rows[p]
             ELSE [blob |-> <<>>, extra |-> <<>>]
  IN [mem EXCEPT !.rows =
        [q \in DOMAIN @ \cup {p} |->
           IF q = p THEN [score |-> score, slots |-> Decode(wire),
                          blob |-> old.blob, extra |-> old.extra]
           ELSE @[q]]]
Upsert(p, score, wire) == Change(Stored(p, score, wire)) /\ UNCHANGED phase
CommitUpdate == Commit /\ UNCHANGED phase

(* COMMIT raises: SQLite may have rolled the transaction back, or left it  *)
(* open, to be committed with the next update.                             *)
CommitRaises == /\ \/ mem' = disk /\ open' = FALSE
                   \/ UNCHANGED <<mem, open>>
                /\ UNCHANGED <<disk, phase>>

(* total, and the number of rows page returns.                             *)
Total == Cardinality(DOMAIN mem.rows)
PageLen(start, end) ==
  LET left == Total - start
      window == end - start + 1
  IN IF left <= 0 \/ window <= 0 THEN 0 ELSE IF left < window THEN left ELSE window

(* lookup's count of strictly higher scores.                               *)
Above(score) == Cardinality({p \in DOMAIN mem.rows : mem.rows[p].score > score})
=============================================================================
