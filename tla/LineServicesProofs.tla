-------------------------- MODULE LineServicesProofs --------------------------
(***************************************************************************)
(* Theorems about LineServices: its types and the discipline of its lock,  *)
(* what the database holds for a player, ranks, pages and what is sent.    *)
(***************************************************************************)
EXTENDS LineServices, FiniteSetTheorems, WellFoundedInduction, TLAPS

-----------------------------------------------------------------------------
(* The codec.                                                              *)
LEMMA SlotCount == AllSlots \in Nat /\ Named <= AllSlots /\ Named \in Nat \ {0} /\ Extra \in Nat
  BY SlotAssumption DEF AllSlots

LEMMA EmptySeq == \A S : <<>> \in Seq(S)
  OBVIOUS

LEMMA DecodeType == ASSUME NEW wire \in Seq(Nat) PROVE Decode(wire) \in Slots
  BY SlotCount DEF Decode, Slots

(* There is a last slot to emit: the smallest n after which all are zero.  *)
LEMMA EmittedExists ==
  ASSUME NEW slots \in Slots
  PROVE  /\ Emitted(slots) \in Named .. AllSlots
         /\ \A i \in Emitted(slots) + 1 .. AllSlots : slots[i] = 0
<1> DEFINE Rest(n) == \A i \in n + 1 .. AllSlots : slots[i] = 0
           T == {n \in Named .. AllSlots : Rest(n)}
           R == OpToRel(<, Nat)
<1>1. T \subseteq Nat /\ AllSlots \in T
  BY SlotCount
<1>2. PICK n \in T : \A m \in T : <<m, n>> \notin R
  <2> HIDE DEF T, R
  <2> QED BY <1>1, WFMin, NatLessThanWellFounded, Zenon DEF R
<1>3. \A m \in T : ~ (m < n)
  <2>1. \A m \in T : <<m, n>> \in Nat \X Nat
    BY <1>1
  <2> QED BY <1>2, <2>1 DEF OpToRel
<1>4. n > Named => slots[n] # 0
  <2> SUFFICES ASSUME n > Named, slots[n] = 0 PROVE FALSE
    OBVIOUS
  <2>1. n - 1 \in T
    BY SlotCount
  <2> QED BY <2>1, <1>3, SlotCount
<1>5. \E k \in Named .. AllSlots : Rest(k) /\ (k > Named => slots[k] # 0)
  BY <1>4
<1> QED BY <1>5 DEF Emitted

(* SentAsStored (encode_blob, decode_blob), for any slots.                 *)
LEMMA CodecRoundTrip == ASSUME NEW slots \in Slots PROVE Decode(Encode(slots)) = slots
<1> DEFINE n == Emitted(slots)
           wire == Encode(slots)
<1>1. n \in Named .. AllSlots /\ \A i \in n + 1 .. AllSlots : slots[i] = 0
  BY EmittedExists
<1>2. n \in Nat /\ n <= AllSlots
  BY <1>1, SlotCount
<1>3. Len(wire) = n /\ \A i \in 1 .. n : wire[i] = slots[i]
  <2> HIDE DEF n
  <2>1. wire = [i \in 1 .. (1 + n - 1) |-> slots[i + 1 - 1]]
    BY <1>2, SlotCount DEF Encode, n, Slots
  <2> QED BY <2>1, <1>2
<1>4. \A i \in 1 .. AllSlots : (IF i <= Len(wire) THEN wire[i] ELSE 0) = slots[i]
  <2> HIDE DEF n, wire
  <2> QED BY <1>1, <1>2, <1>3, SlotCount
<1>5. Decode(wire) = [i \in 1 .. AllSlots |-> slots[i]]
  BY <1>4 DEF Decode
<1> QED BY <1>5 DEF Slots

-----------------------------------------------------------------------------
(* Rows and the backfills.                                                 *)
Based(row) == IF row.blob = <<>> THEN row.slots ELSE Decode(row.blob)
Tailed(slots, extra) ==
  [i \in 1 .. AllSlots |->
     IF i \in Named + 1 .. Named + Len(extra) THEN extra[i - Named] ELSE slots[i]]

LEMMA TailedType ==
  ASSUME NEW slots \in Slots, NEW extra \in Seq(Nat)
  PROVE  /\ Tailed(slots, extra) \in Slots
         /\ Tailed(Tailed(slots, extra), extra) = Tailed(slots, extra)
         /\ Tailed(slots, <<>>) = slots
<1>1. Tailed(slots, extra) \in Slots
  BY SlotCount DEF Tailed, Slots
<1>2. Tailed(Tailed(slots, extra), extra) = Tailed(slots, extra)
  BY SlotCount DEF Tailed, Slots
<1>3. Tailed(slots, <<>>) = slots
  <2>1. \A i \in 1 .. AllSlots : i \notin Named + 1 .. Named + Len(<<>>)
    BY SlotCount
  <2> QED BY <2>1 DEF Tailed, Slots
<1> QED BY <1>1, <1>2, <1>3

LEMMA BlobRow ==
  ASSUME NEW row \in Row
  PROVE  /\ FromBlob(row) \in Row
         /\ FromBlob(row) = [row EXCEPT !.slots = Based(row)]
         /\ Based(row) \in Slots
<1>1. row.blob \in Seq(Nat) /\ row.slots \in Slots
  BY DEF Row
<1>2. Based(row) \in Slots
  BY <1>1, DecodeType DEF Based
<1>3. FromBlob(row) = [row EXCEPT !.slots = Based(row)]
  BY DEF Row, FromBlob, Based
<1> QED BY <1>2, <1>3 DEF Row

LEMMA ExtraRow ==
  ASSUME NEW row \in Row
  PROVE  /\ FromExtra(row) \in Row
         /\ FromExtra(row) = [row EXCEPT !.slots = Tailed(row.slots, row.extra)]
<1>1. row.extra \in Seq(Nat) /\ row.slots \in Slots
  BY DEF Row
<1>2. FromExtra(row) = [row EXCEPT !.slots = Tailed(row.slots, row.extra)]
  BY DEF FromExtra, Tailed
<1> QED BY <1>1, <1>2, TailedType DEF Row

LEMMA StandsRow ==
  ASSUME NEW row \in Row
  PROVE  Stands(row) = [score |-> row.score, slots |-> Tailed(Based(row), row.extra)]
<1>1. FromBlob(row) \in Row /\ FromBlob(row) = [row EXCEPT !.slots = Based(row)]
  BY BlobRow
<1>2. FromExtra(FromBlob(row)) =
        [FromBlob(row) EXCEPT !.slots = Tailed(FromBlob(row).slots, FromBlob(row).extra)]
  BY <1>1, ExtraRow
<1>3. /\ FromBlob(row).slots = Based(row)
      /\ FromBlob(row).extra = row.extra
      /\ FromBlob(row).score = row.score
  BY <1>1 DEF Row
<1>4. /\ FromExtra(FromBlob(row)).slots = Tailed(Based(row), row.extra)
      /\ FromExtra(FromBlob(row)).score = row.score
  BY <1>1, <1>2, <1>3 DEF Row
<1> QED BY <1>4 DEF Stands

(* The slots of the row are what it stands for.                            *)
FilledIn(row) == row.slots = Tailed(Based(row), row.extra)

(* A backfill does not change what a row stands for.                       *)
LEMMA BlobKeeps ==
  ASSUME NEW row \in Row
  PROVE  /\ Stands(FromBlob(row)) = Stands(row)
         /\ FromBlob(FromBlob(row)) = FromBlob(row)
<1> DEFINE r == FromBlob(row)
<1>1. r \in Row /\ r = [row EXCEPT !.slots = Based(row)]
  BY BlobRow
<1>2. r.score = row.score /\ r.slots = Based(row) /\ r.blob = row.blob /\ r.extra = row.extra
  BY <1>1 DEF Row
<1>3. Based(r) = Based(row)
  BY <1>2 DEF Based
<1>4. FromBlob(r) = r
  BY <1>1, <1>2, <1>3, BlobRow DEF Row
<1> HIDE DEF r
<1>5. Stands(r) = Stands(row)
  BY <1>1, <1>2, <1>3, StandsRow
<1> QED BY <1>4, <1>5 DEF r

LEMMA ExtraKeeps ==
  ASSUME NEW row \in Row, FromBlob(row) = row
  PROVE  /\ Stands(FromExtra(row)) = Stands(row)
         /\ FilledIn(FromExtra(row))
         /\ row.extra = <<>> => FilledIn(row)
<1> DEFINE r == FromExtra(row)
<1>1. r \in Row /\ r = [row EXCEPT !.slots = Tailed(row.slots, row.extra)]
  BY ExtraRow
<1>2. /\ r.score = row.score /\ r.blob = row.blob /\ r.extra = row.extra
      /\ r.slots = Tailed(row.slots, row.extra)
  BY <1>1 DEF Row
<1>3. Based(row) = row.slots
  BY BlobRow DEF Row
<1>4. row.slots \in Slots /\ row.extra \in Seq(Nat)
  BY DEF Row
<1>5. Tailed(Based(r), r.extra) = r.slots
  BY <1>2, <1>3, <1>4, TailedType DEF Based
<1> HIDE DEF r
<1>6. Stands(r) = Stands(row)
  BY <1>1, <1>2, <1>3, <1>5, StandsRow
<1>7. row.extra = <<>> => FilledIn(row)
  BY <1>3, <1>4, TailedType DEF FilledIn
<1> QED BY <1>5, <1>6, <1>7 DEF r, FilledIn

(* A legacy column may go once its contents are in the slots.              *)
LEMMA DropKeeps ==
  ASSUME NEW row \in Row, FilledIn(row)
  PROVE  /\ [row EXCEPT !.blob = <<>>] \in Row
         /\ Stands([row EXCEPT !.blob = <<>>]) = Stands(row)
         /\ FilledIn([row EXCEPT !.blob = <<>>])
         /\ row.blob = <<>> =>
              /\ [row EXCEPT !.extra = <<>>] \in Row
              /\ Stands([row EXCEPT !.extra = <<>>]) = Stands(row)
<1>1. row.slots \in Slots /\ row.extra \in Seq(Nat)
  BY DEF Row
<1>2. Based(row) \in Slots
  BY BlobRow
<1>3. Tailed(row.slots, row.extra) = row.slots
  BY <1>1, <1>2, TailedType DEF FilledIn
<1>4. /\ [row EXCEPT !.blob = <<>>] \in Row
      /\ Stands([row EXCEPT !.blob = <<>>]) = Stands(row)
      /\ FilledIn([row EXCEPT !.blob = <<>>])
  <2> DEFINE r == [row EXCEPT !.blob = <<>>]
  <2>1. r \in Row
    BY EmptySeq DEF Row
  <2>2. r.score = row.score /\ r.slots = row.slots /\ r.blob = <<>> /\ r.extra = row.extra
    BY DEF Row
  <2>3. Based(r) = row.slots
    BY <2>2 DEF Based
  <2> HIDE DEF r
  <2>4. Stands(r) = Stands(row)
    BY <2>1, <2>2, <2>3, <1>3, StandsRow DEF FilledIn
  <2>5. FilledIn(r)
    BY <2>2, <2>3, <1>3 DEF FilledIn
  <2> QED BY <2>1, <2>4, <2>5 DEF r
<1>5. ASSUME row.blob = <<>>
      PROVE  /\ [row EXCEPT !.extra = <<>>] \in Row
             /\ Stands([row EXCEPT !.extra = <<>>]) = Stands(row)
  <2> DEFINE r == [row EXCEPT !.extra = <<>>]
  <2>1. r \in Row
    BY EmptySeq DEF Row
  <2>2. r.score = row.score /\ r.slots = row.slots /\ r.blob = <<>> /\ r.extra = <<>>
    BY <1>5 DEF Row
  <2>3. Based(r) = row.slots
    BY <2>2 DEF Based
  <2> HIDE DEF r
  <2>4. Stands(r) = Stands(row)
    BY <2>1, <2>2, <2>3, <1>1, <1>3, TailedType, StandsRow DEF FilledIn
  <2> QED BY <2>1, <2>4 DEF r
<1> QED BY <1>4, <1>5

-----------------------------------------------------------------------------
(* The migration.                                                          *)
Plain(db) == \A p \in DOMAIN db.rows : db.rows[p].blob = <<>> /\ db.rows[p].extra = <<>>

(* How far the backfills have got, at each phase.                          *)
MigrationInv ==
  /\ phase = "extra" => \A p \in DOMAIN mem.rows : FromBlob(mem.rows[p]) = mem.rows[p]
  /\ phase \in {"drop", "drop2"} => \A p \in DOMAIN mem.rows : FilledIn(mem.rows[p])
  /\ phase = "drop2" => \A p \in DOMAIN mem.rows : mem.rows[p].blob = <<>>
  /\ phase \in {"commit", "up"} => Plain(mem)
  /\ phase = "up" => Plain(disk) /\ (~open => disk = mem)

(* A database with the rows of another, changed, and some columns.         *)
LEMMA DatabaseType ==
  ASSUME NEW db, IsDatabase(db), NEW cols, cols \subseteq Legacy \cup {"slots"},
         NEW rows, DOMAIN rows \subseteq Player, rows \in [DOMAIN rows -> Row],
         \A l \in Legacy \ cols : \A p \in DOMAIN rows : rows[p][l] = <<>>
  PROVE  /\ IsDatabase([cols |-> cols, rows |-> rows])
         /\ [db EXCEPT !.cols = cols] = [cols |-> cols, rows |-> db.rows]
         /\ [db EXCEPT !.rows = rows] = [cols |-> db.cols, rows |-> rows]
<1>1. IsDatabase([cols |-> cols, rows |-> rows])
  BY DEF IsDatabase
<1>2. db = [cols |-> db.cols, rows |-> db.rows]
  BY DEF IsDatabase
<1> QED BY <1>1, <1>2

(* Rows that stand for the same are the same to a reader.                  *)
LEMMA SameRows ==
  ASSUME NEW db, NEW ndb, DOMAIN ndb.rows = DOMAIN db.rows,
         \A p \in DOMAIN db.rows : Stands(ndb.rows[p]) = Stands(db.rows[p])
  PROVE  \A p : RowOf(ndb, p) = RowOf(db, p)
  BY DEF RowOf

Same(ndb, db) == IsDatabase(ndb) /\ \A p : RowOf(ndb, p) = RowOf(db, p)

LEMMA BackfillStep ==
  ASSUME IsDatabase(mem), IsDatabase(disk), open \in BOOLEAN, MigrationInv,
         NEW l \in Legacy, NEW next, NEW rows, Backfill(l, next, rows),
         DOMAIN rows = DOMAIN mem.rows, rows \in [DOMAIN rows -> Row],
         \A p \in DOMAIN rows : /\ Stands(rows[p]) = Stands(mem.rows[p])
                                /\ \A m \in Legacy : rows[p][m] = mem.rows[p][m]
  PROVE  /\ Same(mem', mem) /\ IsDatabase(disk')
         /\ disk' = disk /\ open' \in BOOLEAN
         /\ mem'.rows = rows
            \/ (mem' = mem /\ \A p \in DOMAIN mem.rows : mem.rows[p][l] = <<>>)
<1>1. CASE l \in mem.cols /\ \E p \in DOMAIN mem.rows : mem.rows[p][l] # <<>>
  <2>1. mem' = [mem EXCEPT !.rows = rows] /\ disk' = disk /\ open' = TRUE
    BY <1>1 DEF Backfill, Change
  <2>2. \A m \in Legacy \ mem.cols : \A p \in DOMAIN rows : rows[p][m] = <<>>
    BY DEF IsDatabase
  <2>3. /\ IsDatabase([cols |-> mem.cols, rows |-> rows])
        /\ mem' = [cols |-> mem.cols, rows |-> rows]
    BY <2>1, <2>2, DatabaseType DEF IsDatabase
  <2>4. \A p : RowOf(mem', p) = RowOf(mem, p)
    BY <2>3, SameRows
  <2> QED BY <2>1, <2>3, <2>4 DEF Same
<1>2. CASE ~ (l \in mem.cols /\ \E p \in DOMAIN mem.rows : mem.rows[p][l] # <<>>)
  <2>1. mem' = mem /\ disk' = disk /\ open' = open
    BY <1>2 DEF Backfill
  <2>2. \A p \in DOMAIN mem.rows : mem.rows[p][l] = <<>>
    BY <1>2 DEF IsDatabase
  <2> QED BY <2>1, <2>2 DEF Same
<1> QED BY <1>1, <1>2

(* A statement that is committed at once unless a transaction is open.     *)
LEMMA DefineStep ==
  ASSUME IsDatabase(mem), IsDatabase(disk), open \in BOOLEAN,
         NEW ndb, Same(ndb, mem), Define(ndb)
  PROVE  /\ mem' = ndb /\ Same(mem', mem) /\ IsDatabase(disk')
         /\ Same(disk', disk) \/ Same(disk', mem)
         /\ open' \in BOOLEAN
  BY DEF Define, Same

LEMMA DropStep ==
  ASSUME IsDatabase(mem), NEW l \in Legacy,
         \A p \in DOMAIN mem.rows : /\ [mem.rows[p] EXCEPT ![l] = <<>>] \in Row
                                    /\ Stands([mem.rows[p] EXCEPT ![l] = <<>>]) = Stands(mem.rows[p])
  PROVE  /\ Same(DropColumn(l), mem)
         /\ DOMAIN DropColumn(l).rows = DOMAIN mem.rows
         /\ \A p \in DOMAIN mem.rows :
              DropColumn(l).rows[p] = [mem.rows[p] EXCEPT ![l] = <<>>]
<1> DEFINE rows == [p \in DOMAIN mem.rows |-> [mem.rows[p] EXCEPT ![l] = <<>>]]
           cols == mem.cols \ {l}
<1>1. DropColumn(l) = [cols |-> cols, rows |-> rows]
  BY DEF DropColumn
<1>2. rows \in [DOMAIN rows -> Row] /\ DOMAIN rows \subseteq Player
  BY DEF IsDatabase
<1>3. \A m \in Legacy \ cols : \A p \in DOMAIN rows : rows[p][m] = <<>>
  BY DEF IsDatabase, Row, Legacy
<1>4. cols \subseteq Legacy \cup {"slots"}
  BY DEF IsDatabase
<1>5. /\ IsDatabase([cols |-> cols, rows |-> rows])
      /\ DropColumn(l) = [cols |-> cols, rows |-> rows]
  <2> HIDE DEF rows, cols
  <2> QED BY <1>1, <1>2, <1>3, <1>4, DatabaseType
<1>6. DOMAIN DropColumn(l).rows = DOMAIN mem.rows
  BY <1>5
<1>7. \A p \in DOMAIN mem.rows : DropColumn(l).rows[p] = [mem.rows[p] EXCEPT ![l] = <<>>]
  BY <1>5
<1>8. \A p \in DOMAIN mem.rows : Stands(DropColumn(l).rows[p]) = Stands(mem.rows[p])
  BY <1>7
<1>9. \A p : RowOf(DropColumn(l), p) = RowOf(mem, p)
  <2> HIDE DEF rows, cols
  <2> QED BY <1>6, <1>8, SameRows, Zenon
<1> QED BY <1>5, <1>6, <1>7, <1>9 DEF Same

(* A step of the migration changes nothing that a reader would see, in     *)
(* memory or on disk.                                                      *)
LEMMA MigrateStep ==
  ASSUME IsDatabase(mem), IsDatabase(disk), open \in BOOLEAN, MigrationInv, Migrate
  PROVE  /\ Same(mem', mem) /\ IsDatabase(disk')
         /\ \A p : RowOf(disk', p) \in {RowOf(disk, p), RowOf(mem, p)}
         /\ open' \in BOOLEAN /\ MigrationInv'
         /\ phase' \in {"add", "blob", "extra", "drop", "drop2", "commit", "up"}
         /\ phase # "up"
<1> DEFINE Rest == /\ Same(mem', mem) /\ IsDatabase(disk')
                   /\ \A p : RowOf(disk', p) \in {RowOf(disk, p), RowOf(mem, p)}
                   /\ open' \in BOOLEAN
<1>0. \A p \in DOMAIN mem.rows : mem.rows[p] \in Row
  BY DEF IsDatabase
<1>1. CASE CreateTable
  <2> DEFINE ndb == IF mem = NoTable THEN [mem EXCEPT !.cols = {"slots"}] ELSE mem
  <2>1. Same(ndb, mem)
    <3>1. CASE mem = NoTable
      <4>1. mem.rows = [p \in {} |-> 0] /\ ndb = [cols |-> {"slots"}, rows |-> mem.rows]
        BY <3>1 DEF NoTable
      <4>2. IsDatabase(ndb)
        BY <4>1 DEF IsDatabase
      <4>3. \A p : RowOf(ndb, p) = RowOf(mem, p)
        BY <4>1 DEF RowOf
      <4> QED BY <4>2, <4>3 DEF Same
    <3>2. CASE mem # NoTable
      BY <3>2 DEF Same
    <3> QED BY <3>1, <3>2
  <2>2. Define(ndb)
    BY <1>1 DEF CreateTable
  <2> HIDE DEF ndb
  <2>3. Rest
    BY <2>1, <2>2, DefineStep DEF Same
  <2> QED BY <1>1, <2>3 DEF CreateTable, MigrationInv
<1>2. CASE AddColumns
  <2> DEFINE ndb == [mem EXCEPT !.cols = @ \cup {"slots"}]
  <2>1. Same(ndb, mem)
    <3>1. mem.rows \in [DOMAIN mem.rows -> Row] /\ DOMAIN mem.rows \subseteq Player
      BY DEF IsDatabase
    <3>2. \A l \in Legacy \ (mem.cols \cup {"slots"}) :
            \A p \in DOMAIN mem.rows : mem.rows[p][l] = <<>>
      BY DEF IsDatabase
    <3>3. mem.cols \cup {"slots"} \subseteq Legacy \cup {"slots"}
      BY DEF IsDatabase
    <3>4. ndb = [mem EXCEPT !.cols = mem.cols \cup {"slots"}]
      BY DEF IsDatabase
    <3>5. IsDatabase(ndb) /\ ndb.rows = mem.rows
      <4> HIDE DEF ndb
      <4>1. IsDatabase([cols |-> mem.cols \cup {"slots"}, rows |-> mem.rows])
        BY <3>1, <3>2, <3>3, DatabaseType
      <4>2. [mem EXCEPT !.cols = mem.cols \cup {"slots"}]
              = [cols |-> mem.cols \cup {"slots"}, rows |-> mem.rows]
        BY <3>1, <3>2, <3>3, DatabaseType
      <4> QED BY <3>4, <4>1, <4>2
    <3>6. \A p : RowOf(ndb, p) = RowOf(mem, p)
      BY <3>5 DEF RowOf
    <3> QED BY <3>5, <3>6 DEF Same
  <2>2. Define(ndb)
    BY <1>2 DEF AddColumns
  <2> HIDE DEF ndb
  <2>3. Rest
    BY <2>1, <2>2, DefineStep DEF Same
  <2> QED BY <1>2, <2>3 DEF AddColumns, MigrationInv
<1>3. CASE Backfill("blob", "extra", [p \in DOMAIN mem.rows |-> FromBlob(mem.rows[p])])
  <2> DEFINE rows == [p \in DOMAIN mem.rows |-> FromBlob(mem.rows[p])]
  <2>1. \A p \in DOMAIN rows : /\ rows[p] \in Row
                               /\ Stands(rows[p]) = Stands(mem.rows[p])
                               /\ FromBlob(rows[p]) = rows[p]
    BY <1>0, BlobRow, BlobKeeps
  <2>2. \A p \in DOMAIN rows : \A m \in Legacy : rows[p][m] = mem.rows[p][m]
    BY <1>0, BlobRow DEF Legacy, Row
  <2>3. DOMAIN rows = DOMAIN mem.rows /\ rows \in [DOMAIN rows -> Row]
    BY <2>1
  <2>4. Backfill("blob", "extra", rows)
    BY <1>3
  <2> HIDE DEF rows
  <2>5. "blob" \in Legacy
    BY DEF Legacy
  <2>6. /\ Rest
        /\ mem'.rows = rows
           \/ (mem' = mem /\ \A p \in DOMAIN mem.rows : mem.rows[p]["blob"] = <<>>)
    BY <2>1, <2>2, <2>3, <2>4, <2>5, BackfillStep
  <2>7. \A p \in DOMAIN mem'.rows : FromBlob(mem'.rows[p]) = mem'.rows[p]
    <3>1. CASE mem'.rows = rows
      BY <3>1, <2>1
    <3>2. CASE mem' = mem /\ \A p \in DOMAIN mem.rows : mem.rows[p]["blob"] = <<>>
      BY <3>2, <1>0 DEF FromBlob, Row
    <3> QED BY <3>1, <3>2, <2>6
  <2>8. phase = "blob" /\ phase' = "extra"
    BY <1>3 DEF Backfill
  <2> QED BY <2>6, <2>7, <2>8 DEF MigrationInv
<1>4. CASE Backfill("extra", "drop", [p \in DOMAIN mem.rows |-> FromExtra(mem.rows[p])])
  <2> DEFINE rows == [p \in DOMAIN mem.rows |-> FromExtra(mem.rows[p])]
  <2>0. phase = "extra" /\ phase' = "drop"
    BY <1>4 DEF Backfill
  <2>a. \A p \in DOMAIN mem.rows : FromBlob(mem.rows[p]) = mem.rows[p]
    BY <2>0 DEF MigrationInv
  <2>1. \A p \in DOMAIN rows : /\ rows[p] \in Row
                               /\ Stands(rows[p]) = Stands(mem.rows[p])
                               /\ FilledIn(rows[p])
    BY <1>0, <2>a, ExtraRow, ExtraKeeps
  <2>2. \A p \in DOMAIN rows : \A m \in Legacy : rows[p][m] = mem.rows[p][m]
    BY <1>0, ExtraRow DEF Legacy, Row
  <2>3. DOMAIN rows = DOMAIN mem.rows /\ rows \in [DOMAIN rows -> Row]
    BY <2>1
  <2>4. Backfill("extra", "drop", rows)
    BY <1>4
  <2> HIDE DEF rows
  <2>5. "extra" \in Legacy
    BY DEF Legacy
  <2>6. /\ Rest
        /\ mem'.rows = rows
           \/ (mem' = mem /\ \A p \in DOMAIN mem.rows : mem.rows[p]["extra"] = <<>>)
    BY <2>1, <2>2, <2>3, <2>4, <2>5, BackfillStep
  <2>7. \A p \in DOMAIN mem'.rows : FilledIn(mem'.rows[p])
    <3>1. CASE mem'.rows = rows
      BY <3>1, <2>1
    <3>2. CASE mem' = mem /\ \A p \in DOMAIN mem.rows : mem.rows[p]["extra"] = <<>>
      BY <3>2, <1>0, <2>a, ExtraKeeps
    <3> QED BY <3>1, <3>2, <2>6
  <2> QED BY <2>0, <2>6, <2>7 DEF MigrationInv
<1>5. CASE phase = "drop" /\ phase' = "drop2" /\ Define(DropColumn("blob"))
  <2>1. \A p \in DOMAIN mem.rows :
          LET r == [mem.rows[p] EXCEPT !["blob"] = <<>>]
          IN r \in Row /\ Stands(r) = Stands(mem.rows[p]) /\ FilledIn(r) /\ r.blob = <<>>
    <3>1. \A p \in DOMAIN mem.rows : FilledIn(mem.rows[p])
      BY <1>5 DEF MigrationInv
    <3>2. \A row \in Row : [row EXCEPT !["blob"] = <<>>].blob = <<>>
      BY DEF Row
    <3> QED BY <1>0, <3>1, <3>2, DropKeeps
  <2>2. "blob" \in Legacy
    BY DEF Legacy
  <2>3. /\ Same(DropColumn("blob"), mem)
        /\ DOMAIN DropColumn("blob").rows = DOMAIN mem.rows
        /\ \A p \in DOMAIN mem.rows :
             DropColumn("blob").rows[p] = [mem.rows[p] EXCEPT !["blob"] = <<>>]
    BY <2>1, <2>2, DropStep
  <2>4. Rest /\ mem' = DropColumn("blob")
    BY <1>5, <2>3, DefineStep DEF Same
  <2>5. \A p \in DOMAIN mem'.rows : FilledIn(mem'.rows[p]) /\ mem'.rows[p].blob = <<>>
    BY <2>1, <2>3, <2>4
  <2> QED BY <1>5, <2>4, <2>5 DEF MigrationInv
<1>6. CASE phase = "drop2" /\ phase' = "commit" /\ Define(DropColumn("extra"))
  <2>1. \A p \in DOMAIN mem.rows :
          LET r == [mem.rows[p] EXCEPT !["extra"] = <<>>]
          IN r \in Row /\ Stands(r) = Stands(mem.rows[p]) /\ r.blob = <<>> /\ r.extra = <<>>
    <3>1. \A p \in DOMAIN mem.rows : FilledIn(mem.rows[p]) /\ mem.rows[p].blob = <<>>
      BY <1>6 DEF MigrationInv
    <3>2. \A row \in Row : /\ [row EXCEPT !["extra"] = <<>>].extra = <<>>
                           /\ [row EXCEPT !["extra"] = <<>>].blob = row.blob
      BY DEF Row
    <3> QED BY <1>0, <3>1, <3>2, DropKeeps
  <2>2. "extra" \in Legacy
    BY DEF Legacy
  <2>3. /\ Same(DropColumn("extra"), mem)
        /\ DOMAIN DropColumn("extra").rows = DOMAIN mem.rows
        /\ \A p \in DOMAIN mem.rows :
             DropColumn("extra").rows[p] = [mem.rows[p] EXCEPT !["extra"] = <<>>]
    BY <2>1, <2>2, DropStep
  <2>4. Rest /\ mem' = DropColumn("extra")
    BY <1>6, <2>3, DefineStep DEF Same
  <2>5. Plain(mem')
    BY <2>1, <2>3, <2>4 DEF Plain
  <2> QED BY <1>6, <2>4, <2>5 DEF MigrationInv
<1>7. CASE phase = "commit" /\ phase' = "up" /\ Commit
  <2>1. Plain(mem) /\ disk' = mem /\ mem' = mem /\ open' = FALSE
    BY <1>7 DEF MigrationInv, Commit
  <2> QED BY <1>7, <2>1 DEF MigrationInv, Same, Plain
<1> QED BY <1>1, <1>2, <1>3, <1>4, <1>5, <1>6, <1>7 DEF Migrate

-----------------------------------------------------------------------------
(* Commands.  In each, the total is counted before the page is read.       *)
TotalFirst(ops) ==
  \A i, j \in DOMAIN ops : i < j /\ ops[j].op = "total" => ops[i].op # "page"

LEMMA CommandType ==
  ASSUME NEW ops \in Commands
  PROVE  ops \in Seq(Operation) /\ TotalFirst(ops)
<1>1. CASE ops = <<>>
  BY <1>1 DEF TotalFirst
<1>2. CASE \E p \in Player, s \in Score, w \in Wire : ops = UpdateOps(p, s, w)
  BY <1>2 DEF UpdateOps, Operation, TotalFirst
<1>3. ASSUME NEW names \in {<<p>> : p \in Player} \cup
                             {pq \in Player \X Player : pq[1] # pq[2]},
             ops = GetOps(names)
      PROVE  ops \in Seq(Operation) /\ TotalFirst(ops)
  <2>1. names \in Seq(Player)
    <3>1. \A p \in Player : <<p>> \in Seq(Player)
      OBVIOUS
    <3>2. \A p, q \in Player : <<p, q>> \in Seq(Player)
      OBVIOUS
    <3> QED BY <1>3, <3>1, <3>2
  <2>2. Len(names) \in Nat /\ DOMAIN names = 1 .. Len(names)
    BY <2>1
  <2>3. \A i \in 1 .. Len(names) : [op |-> "lookup", who |-> names[i]] \in Operation
    BY <2>1 DEF Operation
  <2>4. ops = [i \in 1 .. Len(names) |-> [op |-> "lookup", who |-> names[i]]]
    BY <1>3, <2>2 DEF GetOps
  <2>5. \A i \in DOMAIN ops : ops[i].op = "lookup"
    BY <2>4
  <2>6. ops \in [1 .. Len(names) -> Operation]
    BY <2>3, <2>4
  <2>7. ops \in Seq(Operation)
    BY <2>2, <2>6
  <2> QED BY <2>5, <2>7 DEF TotalFirst
<1>4. ASSUME NEW w \in Window, ops = RangeOps(w)
      PROVE  ops \in Seq(Operation) /\ TotalFirst(ops)
  <2>1. [op |-> "total", window |-> w] \in Operation /\ [op |-> "page", window |-> w] \in Operation
    BY DEF Operation
  <2> QED BY <1>4, <2>1 DEF RangeOps, TotalFirst
<1> QED BY <1>1, <1>2, <1>3, <1>4 DEF Commands

-----------------------------------------------------------------------------
(* What the handler inside an operation on the store relies on: an update  *)
(* not yet committed is in memory, and a score just read is on the board.  *)
Holds(c) ==
  /\ st[c] = "committing" =>
       /\ open
       /\ todo[c] # <<>> /\ Head(todo[c]).op = "upsert"
       /\ RowOf(mem, Head(todo[c]).who) = Asked(Head(todo[c]))
  /\ st[c] = "ranking" =>
       /\ todo[c] # <<>>
       /\ \E p \in DOMAIN mem.rows : mem.rows[p].score = seen[c]
HoldsInv == \A c \in Conn : Holds(c)

StoreInv == TypeOK /\ MigrationInv /\ HoldsInv /\ Durable

(* A step of a handler that leaves the store and the lock alone.           *)
LEMMA HandlerStep ==
  ASSUME StoreInv, NEW c \in Conn, UNCHANGED <<storeVars, lock, seen, may>>,
         NEW s \in {"away", "hello", "ticket", "waiting", "closing", "working"},
         st' = [st EXCEPT ![c] = s],
         st[c] \notin {"committing", "ranking"},
         phase = "up" \/ s = "away",
         \/ todo' = todo
         \/ \E ops \in Seq(Operation) : todo' = [todo EXCEPT ![c] = ops],
         DOMAIN got' = DOMAIN got
  PROVE  StoreInv'
<1> USE DEF StoreInv, storeVars
<1>1. TypeOK'
  <2>1. st' \in [Conn -> Busy \cup {"away", "hello", "ticket", "waiting", "closing"}]
    BY DEF TypeOK, Busy
  <2>2. todo' \in [Conn -> Seq(Operation)]
    BY DEF TypeOK
  <2>3. \A d \in Conn : st'[d] \in {"committing", "ranking"} <=> st[d] \in {"committing", "ranking"}
    BY DEF TypeOK
  <2>4. lock' = {d \in Conn : st'[d] \in {"committing", "ranking"}}
    BY <2>3 DEF TypeOK
  <2>5. \A d \in Conn : phase' # "up" => st'[d] = "away"
    BY DEF TypeOK
  <2> QED BY <2>1, <2>2, <2>4, <2>5 DEF TypeOK
<1>2. MigrationInv'
  BY DEF MigrationInv, Plain
<1>3. HoldsInv'
  <2>1. \A d \in Conn : st'[d] \in {"committing", "ranking"} =>
          st'[d] = st[d] /\ todo'[d] = todo[d]
    BY DEF TypeOK
  <2>2. mem' = mem /\ seen' = seen /\ open' = open
    OBVIOUS
  <2> SUFFICES ASSUME NEW d \in Conn PROVE Holds(d)'
    BY DEF HoldsInv
  <2>3. Holds(d)
    BY DEF HoldsInv
  <2>4. CASE st'[d] \in {"committing", "ranking"}
    BY <2>1, <2>2, <2>3, <2>4 DEF Holds
  <2>5. CASE st'[d] \notin {"committing", "ranking"}
    BY <2>5 DEF Holds
  <2> QED BY <2>4, <2>5
<1>4. Durable'
  BY DEF Durable, RowOf
<1> QED BY <1>1, <1>2, <1>3, <1>4

LEMMA StoreInvInit == Init => StoreInv
<1> SUFFICES ASSUME Init PROVE StoreInv
  OBVIOUS
<1>1. IsDatabase(disk) /\ mem = disk /\ phase = "create" /\ open = FALSE
  BY TablesAssumption DEF Init, StoreInit
<1>2. TypeOK
  <2>1. todo \in [Conn -> Seq(Operation)]
    BY EmptySeq DEF Init
  <2>2. /\ st \in [Conn -> Busy \cup {"away", "hello", "ticket", "waiting", "closing"}]
        /\ seen \in [Conn -> Int]
        /\ DOMAIN got = Conn /\ DOMAIN may = Player
    BY DEF Init
  <2> QED BY <1>1, <2>1, <2>2 DEF Init, TypeOK
<1>3. MigrationInv /\ HoldsInv
  BY <1>1 DEF MigrationInv, HoldsInv, Holds, Init
<1>4. Durable
  BY <1>1 DEF Durable, Init
<1> QED BY <1>2, <1>3, <1>4 DEF StoreInv

LEMMA StartStep == StoreInv /\ Start => StoreInv'
<1> SUFFICES ASSUME StoreInv, Start PROVE StoreInv'
  OBVIOUS
<1>1. /\ Same(mem', mem) /\ IsDatabase(disk')
      /\ \A p : RowOf(disk', p) \in {RowOf(disk, p), RowOf(mem, p)}
      /\ open' \in BOOLEAN /\ MigrationInv'
      /\ phase' \in {"add", "blob", "extra", "drop", "drop2", "commit", "up"}
      /\ phase # "up"
  BY MigrateStep DEF Start, StoreInv, TypeOK
<1>2. UNCHANGED <<lock, st, todo, seen, got, may>>
  BY DEF Start, handlerVars
<1>3. \A c \in Conn : st[c] = "away"
  BY <1>1 DEF StoreInv, TypeOK
<1>4. TypeOK'
  BY <1>1, <1>2, <1>3 DEF StoreInv, TypeOK, Same
<1>5. HoldsInv'
  BY <1>2, <1>3 DEF HoldsInv, Holds
<1>6. Durable'
  BY <1>1, <1>2 DEF StoreInv, Durable, Same
<1> QED BY <1>1, <1>4, <1>5, <1>6 DEF StoreInv

LEMMA RestartStep == StoreInv /\ Restart => StoreInv'
<1> SUFFICES ASSUME StoreInv, Restart PROVE StoreInv'
  OBVIOUS
<1>1. mem' = disk /\ disk' = disk /\ open' = FALSE /\ phase' = "create" /\ may' = may
  BY DEF Restart, StoreRestart
<1>2. TypeOK'
  <2>1. todo' \in [Conn -> Seq(Operation)]
    BY EmptySeq DEF Restart
  <2>2. /\ st' \in [Conn -> Busy \cup {"away", "hello", "ticket", "waiting", "closing"}]
        /\ seen' \in [Conn -> Int]
        /\ DOMAIN got' = Conn
    BY DEF Restart
  <2> QED BY <1>1, <2>1, <2>2 DEF Restart, StoreInv, TypeOK
<1>3. MigrationInv' /\ HoldsInv'
  BY <1>1 DEF Restart, MigrationInv, HoldsInv, Holds
<1>4. Durable'
  BY <1>1 DEF StoreInv, Durable
<1> QED BY <1>2, <1>3, <1>4 DEF StoreInv

(* The rows after an update.                                               *)
LEMMA StoredType ==
  ASSUME IsDatabase(mem), Plain(mem),
         NEW p \in Player, NEW score \in Score, NEW wire \in Wire
  PROVE  /\ IsDatabase(Stored(p, score, wire))
         /\ Plain(Stored(p, score, wire))
         /\ DOMAIN Stored(p, score, wire).rows = DOMAIN mem.rows \cup {p}
         /\ RowOf(Stored(p, score, wire), p) = {[score |-> score, slots |-> Decode(wire)]}
         /\ \A q : q # p => RowOf(Stored(p, score, wire), q) = RowOf(mem, q)
<1> DEFINE row == [score |-> score, slots |-> Decode(wire), blob |-> <<>>, extra |-> <<>>]
           rows == [q \in DOMAIN mem.rows \cup {p} |-> IF q = p THEN row ELSE mem.rows[q]]
           db == Stored(p, score, wire)
<1>1. wire \in Seq(Nat) /\ score \in Int
  BY ServiceAssumption
<1>2. Decode(wire) \in Slots
  BY <1>1, DecodeType
<1>3. row \in Row
  BY <1>1, <1>2, EmptySeq DEF Row
<1>4. Stands(row) = [score |-> score, slots |-> Decode(wire)]
  <2>1. Tailed(Based(row), <<>>) = Decode(wire)
    BY <1>2, EmptySeq, TailedType DEF Based
  <2> QED BY <2>1, <1>3, StandsRow
<1>5. db = [mem EXCEPT !.rows = rows]
  <2>1. p \in DOMAIN mem.rows => mem.rows[p].blob = <<>> /\ mem.rows[p].extra = <<>>
    BY DEF Plain
  <2>2. Stored(p, score, wire) = [mem EXCEPT !.rows =
          [q \in DOMAIN mem.rows \cup {p} |->
             IF q = p
             THEN [score |-> score, slots |-> Decode(wire),
                   blob |-> (IF p \in DOMAIN mem.rows THEN mem.rows[p]
                             ELSE [blob |-> <<>>, extra |-> <<>>]).blob,
                   extra |-> (IF p \in DOMAIN mem.rows THEN mem.rows[p]
                              ELSE [blob |-> <<>>, extra |-> <<>>]).extra]
             ELSE mem.rows[q]]]
    BY DEF Stored, IsDatabase
  <2>3. /\ (IF p \in DOMAIN mem.rows THEN mem.rows[p] ELSE [blob |-> <<>>, extra |-> <<>>]).blob = <<>>
        /\ (IF p \in DOMAIN mem.rows THEN mem.rows[p] ELSE [blob |-> <<>>, extra |-> <<>>]).extra = <<>>
    BY <2>1
  <2> QED BY <2>2, <2>3
<1>6. /\ DOMAIN rows = DOMAIN mem.rows \cup {p}
      /\ rows[p] = row
      /\ \A q \in DOMAIN mem.rows \ {p} : rows[q] = mem.rows[q]
  OBVIOUS
<1>7. rows \in [DOMAIN rows -> Row] /\ DOMAIN rows \subseteq Player
  BY <1>3 DEF IsDatabase
<1>8. \A l \in Legacy : \A q \in DOMAIN rows : rows[q][l] = <<>>
  BY DEF Plain, Legacy
<1>9. IsDatabase(db) /\ db.rows = rows
  <2>1. mem.cols \subseteq Legacy \cup {"slots"}
    BY DEF IsDatabase
  <2>2. \A l \in Legacy \ mem.cols : \A q \in DOMAIN rows : rows[q][l] = <<>>
    BY <1>8
  <2> HIDE DEF rows, db
  <2>3. IsDatabase([cols |-> mem.cols, rows |-> rows])
    BY <1>7, <2>1, <2>2, DatabaseType
  <2>4. [mem EXCEPT !.rows = rows] = [cols |-> mem.cols, rows |-> rows]
    BY <1>7, <2>1, <2>2, DatabaseType
  <2> QED BY <1>5, <2>3, <2>4
<1> HIDE DEF rows, row, db
<1>10. Plain(db)
  BY <1>8, <1>9 DEF Plain, Legacy
<1>11. RowOf(db, p) = {[score |-> score, slots |-> Decode(wire)]}
  BY <1>4, <1>6, <1>9 DEF RowOf
<1>12. \A q : q # p => RowOf(db, q) = RowOf(mem, q)
  BY <1>6, <1>9 DEF RowOf
<1> QED BY <1>6, <1>9, <1>10, <1>11, <1>12 DEF db

-----------------------------------------------------------------------------
(* The handler inside an operation is the only one.                        *)
LEMMA OneHolder ==
  ASSUME TypeOK
  PROVE  /\ \A c, d \in Conn : st[c] \in {"committing", "ranking"} /\ st[d] \in {"committing", "ranking"} => c = d
         /\ lock = {} => \A c \in Conn : st[c] \notin {"committing", "ranking"}
         /\ \A c \in Conn : st[c] # "away" => phase = "up"
  BY DEF TypeOK

LEMMA TodoTail ==
  ASSUME TypeOK, NEW c \in Conn, todo[c] # <<>>
  PROVE  /\ Tail(todo[c]) \in Seq(Operation)
         /\ Head(todo[c]) \in Operation
         /\ [todo EXCEPT ![c] = Tail(@)] \in [Conn -> Seq(Operation)]
<1>1. todo[c] \in Seq(Operation) /\ todo \in [Conn -> Seq(Operation)]
  BY DEF TypeOK
<1>2. Tail(todo[c]) \in Seq(Operation) /\ Head(todo[c]) \in Operation
  BY <1>1
<1> QED BY <1>1, <1>2

LEMMA UpdateStep ==
  ASSUME StoreInv, NEW c \in Conn, ExecuteUpdate(c)
  PROVE  StoreInv'
<1> DEFINE u == Head(todo[c])
           ndb == Stored(u.who, u.score, u.wire)
<1>1. /\ st[c] = "working" /\ todo[c] # <<>> /\ u.op = "upsert" /\ lock = {}
      /\ mem' = ndb /\ open' = TRUE /\ disk' = disk /\ phase' = phase
      /\ may' = [may EXCEPT ![u.who] = @ \cup {Asked(u)}]
      /\ lock' = {c} /\ st' = [st EXCEPT ![c] = "committing"]
      /\ todo' = todo /\ seen' = seen /\ got' = got
  BY DEF ExecuteUpdate, Does, LockFree, Upsert, Change, Goes
<1>2. phase = "up" /\ \A d \in Conn : st[d] \notin {"committing", "ranking"}
  BY <1>1, OneHolder DEF StoreInv
<1>3. u \in Operation
  BY <1>1, TodoTail DEF StoreInv
<1>4. u.who \in Player /\ u.score \in Score /\ u.wire \in Wire
  BY <1>1, <1>3 DEF Operation
<1>5. IsDatabase(mem) /\ IsDatabase(disk) /\ Plain(mem) /\ Plain(disk)
  BY <1>2 DEF StoreInv, TypeOK, MigrationInv
<1> HIDE DEF u
<1>6. /\ IsDatabase(ndb) /\ Plain(ndb)
      /\ RowOf(ndb, u.who) = {[score |-> u.score, slots |-> Decode(u.wire)]}
      /\ \A q : q # u.who => RowOf(ndb, q) = RowOf(mem, q)
  BY <1>4, <1>5, StoredType
<1> HIDE DEF ndb
<1>7. TypeOK'
  <2>1. st' \in [Conn -> Busy \cup {"away", "hello", "ticket", "waiting", "closing"}]
    BY <1>1 DEF StoreInv, TypeOK, Busy
  <2>2. \A d \in Conn : st'[d] \in {"committing", "ranking"} <=> d = c
    BY <1>1, <1>2 DEF StoreInv, TypeOK
  <2>3. lock' = {d \in Conn : st'[d] \in {"committing", "ranking"}}
    BY <1>1, <2>2
  <2>4. DOMAIN may' = Player
    BY <1>1 DEF StoreInv, TypeOK
  <2> QED BY <1>1, <1>2, <1>5, <1>6, <2>1, <2>3, <2>4 DEF StoreInv, TypeOK
<1>8. MigrationInv'
  BY <1>1, <1>2, <1>5, <1>6 DEF MigrationInv
<1>9. HoldsInv'
  <2>1. RowOf(mem', u.who) = Asked(u)
    BY <1>1, <1>6 DEF Asked
  <2>2. \A d \in Conn : st'[d] \in {"committing", "ranking"} => d = c
    BY <1>1, <1>2 DEF StoreInv, TypeOK
  <2>3. Holds(c)'
    BY <1>1, <2>1 DEF Holds, StoreInv, TypeOK, u
  <2> QED BY <2>2, <2>3 DEF HoldsInv, Holds
<1>10. Durable'
  <2> SUFFICES ASSUME NEW p \in Player PROVE RowOf(disk', p) \in may'[p] /\ RowOf(mem', p) \in may'[p]
    BY DEF Durable
  <2>1. RowOf(disk, p) \in may[p] /\ RowOf(mem, p) \in may[p]
    BY DEF StoreInv, Durable
  <2>2. may[p] \subseteq may'[p] /\ Asked(u) \in may'[u.who]
    BY <1>1, <1>4 DEF StoreInv, TypeOK
  <2>3. RowOf(disk', p) = RowOf(disk, p)
    BY <1>1
  <2>4. RowOf(mem', p) = (IF p = u.who THEN Asked(u) ELSE RowOf(mem, p))
    BY <1>1, <1>6 DEF Asked
  <2> QED BY <2>1, <2>2, <2>3, <2>4
<1> QED BY <1>7, <1>8, <1>9, <1>10 DEF StoreInv

(* The lock is given back.                                                 *)
LEMMA ReleaseType ==
  ASSUME TypeOK, NEW c \in Conn, st[c] \in {"committing", "ranking"}, lock' = {},
         NEW s \in {"working", "closing"}, st' = [st EXCEPT ![c] = s]
  PROVE  /\ st' \in [Conn -> Busy \cup {"away", "hello", "ticket", "waiting", "closing"}]
         /\ \A d \in Conn : st'[d] \notin {"committing", "ranking"}
         /\ lock' = {d \in Conn : st'[d] \in {"committing", "ranking"}}
         /\ phase = "up"
<1>1. st' \in [Conn -> Busy \cup {"away", "hello", "ticket", "waiting", "closing"}]
  BY DEF TypeOK, Busy
<1>2. \A d \in Conn : st'[d] \notin {"committing", "ranking"}
  BY OneHolder DEF TypeOK
<1> QED BY <1>1, <1>2, OneHolder

LEMMA CommitsStep ==
  ASSUME StoreInv, NEW c \in Conn, Commits(c)
  PROVE  StoreInv'
<1> DEFINE u == Head(todo[c])
<1>1. /\ st[c] = "committing" /\ st' = [st EXCEPT ![c] = "working"]
      /\ disk' = mem /\ mem' = mem /\ open' = FALSE /\ phase' = phase
      /\ may' = [may EXCEPT ![u.who] = {Asked(u)}]
      /\ lock' = {} /\ todo' = [todo EXCEPT ![c] = Tail(@)]
      /\ seen' = seen /\ got' = got
  BY DEF Commits, Goes, CommitUpdate, Commit, Done
<1>2. todo[c] # <<>> /\ RowOf(mem, u.who) = Asked(u)
  BY <1>1 DEF StoreInv, HoldsInv, Holds
<1>3. /\ st' \in [Conn -> Busy \cup {"away", "hello", "ticket", "waiting", "closing"}]
      /\ \A d \in Conn : st'[d] \notin {"committing", "ranking"}
      /\ lock' = {d \in Conn : st'[d] \in {"committing", "ranking"}}
      /\ phase = "up"
  BY <1>1, ReleaseType DEF StoreInv
<1>4. todo' \in [Conn -> Seq(Operation)]
  BY <1>1, <1>2, TodoTail DEF StoreInv
<1> HIDE DEF u
<1>5. TypeOK'
  BY <1>1, <1>3, <1>4 DEF StoreInv, TypeOK
<1>6. MigrationInv' /\ HoldsInv'
  BY <1>1, <1>3 DEF StoreInv, MigrationInv, HoldsInv, Holds
<1>7. Durable'
  <2> SUFFICES ASSUME NEW p \in Player PROVE RowOf(mem, p) \in may'[p]
    BY <1>1 DEF Durable
  <2>1. RowOf(mem, p) \in may[p]
    BY DEF StoreInv, Durable
  <2>2. may'[p] = (IF p = u.who THEN {Asked(u)} ELSE may[p])
    BY <1>1 DEF StoreInv, TypeOK
  <2> QED BY <1>2, <2>1, <2>2
<1> QED BY <1>5, <1>6, <1>7 DEF StoreInv

LEMMA RaisesStep ==
  ASSUME StoreInv, NEW c \in Conn, Raises(c)
  PROVE  StoreInv'
<1>1. /\ st[c] = "committing" /\ st' = [st EXCEPT ![c] = "closing"]
      /\ disk' = disk /\ phase' = phase
      /\ (mem' = disk /\ open' = FALSE) \/ (mem' = mem /\ open' = open)
      /\ lock' = {} /\ UNCHANGED <<todo, seen, got, may>>
  BY DEF Raises, Goes, CommitRaises
<1>2. /\ st' \in [Conn -> Busy \cup {"away", "hello", "ticket", "waiting", "closing"}]
      /\ \A d \in Conn : st'[d] \notin {"committing", "ranking"}
      /\ lock' = {d \in Conn : st'[d] \in {"committing", "ranking"}}
      /\ phase = "up"
  BY <1>1, ReleaseType DEF StoreInv
<1>3. TypeOK'
  BY <1>1, <1>2 DEF StoreInv, TypeOK
<1>4. MigrationInv' /\ HoldsInv'
  BY <1>1, <1>2 DEF StoreInv, MigrationInv, HoldsInv, Holds
<1>5. Durable'
  BY <1>1 DEF StoreInv, Durable
<1> QED BY <1>3, <1>4, <1>5 DEF StoreInv

LEMMA RefusedStep ==
  ASSUME StoreInv, NEW c \in Conn, Refused(c)
  PROVE  StoreInv'
<1>1. /\ st[c] = "working" /\ st' = [st EXCEPT ![c] = "closing"]
      /\ lock = {} /\ lock' = lock /\ todo[c] # <<>>
      /\ UNCHANGED <<disk, mem, phase, todo, seen, got, may>>
      /\ open' = (open \/ Head(todo[c]).op = "upsert")
  BY DEF Refused, Goes, LockFree
<1>2. phase = "up" /\ \A d \in Conn : st[d] \notin {"committing", "ranking"}
  BY <1>1, OneHolder DEF StoreInv
<1>3. open' \in BOOLEAN /\ (~open' => ~open)
  BY <1>1 DEF StoreInv, TypeOK
<1>4. /\ st' \in [Conn -> Busy \cup {"away", "hello", "ticket", "waiting", "closing"}]
      /\ \A d \in Conn : st'[d] \notin {"committing", "ranking"}
  BY <1>1, <1>2 DEF StoreInv, TypeOK, Busy
<1>5. lock' = {d \in Conn : st'[d] \in {"committing", "ranking"}}
  BY <1>1, <1>4
<1>6. TypeOK'
  BY <1>1, <1>2, <1>3, <1>4, <1>5 DEF StoreInv, TypeOK
<1>7. MigrationInv' /\ HoldsInv'
  BY <1>1, <1>2, <1>3, <1>4 DEF StoreInv, MigrationInv, HoldsInv, Holds
<1>8. Durable'
  BY <1>1 DEF StoreInv, Durable
<1> QED BY <1>6, <1>7, <1>8 DEF StoreInv

LEMMA LookupStep ==
  ASSUME StoreInv, NEW c \in Conn, LookupRow(c)
  PROVE  StoreInv'
<1> DEFINE p == Head(todo[c]).who
<1>1. /\ st[c] = "working" /\ todo[c] # <<>> /\ lock = {}
      /\ UNCHANGED <<storeVars, got, may>>
  BY DEF LookupRow, Does, LockFree
<1>2. \A d \in Conn : st[d] \notin {"committing", "ranking"}
  BY <1>1, OneHolder DEF StoreInv
<1>3. CASE /\ p \in DOMAIN mem.rows
           /\ seen' = [seen EXCEPT ![c] = mem.rows[p].score]
           /\ lock' = {c}
           /\ Goes(c, "working", "ranking")
           /\ UNCHANGED todo
  <2>1. mem.rows[p].score \in Int
    BY <1>3 DEF StoreInv, TypeOK, IsDatabase, Row
  <2>2. st' \in [Conn -> Busy \cup {"away", "hello", "ticket", "waiting", "closing"}]
    BY <1>3 DEF StoreInv, TypeOK, Busy, Goes
  <2>3. \A d \in Conn : st'[d] \in {"committing", "ranking"} <=> d = c
    BY <1>2, <1>3 DEF StoreInv, TypeOK, Goes
  <2>4. lock' = {d \in Conn : st'[d] \in {"committing", "ranking"}}
    BY <1>3, <2>3
  <2>5. phase = "up"
    BY <1>1, OneHolder DEF StoreInv
  <2>6. seen' \in [Conn -> Int]
    BY <1>3, <2>1 DEF StoreInv, TypeOK
  <2>7. TypeOK'
    BY <1>1, <1>3, <2>2, <2>3, <2>4, <2>5, <2>6 DEF StoreInv, TypeOK, storeVars
  <2>8. MigrationInv' /\ Durable'
    BY <1>1 DEF StoreInv, MigrationInv, Durable, storeVars, Plain, RowOf
  <2>9. Holds(c)'
    <3>1. mem' = mem /\ todo' = todo /\ seen'[c] = mem.rows[p].score /\ st'[c] = "ranking"
      BY <1>1, <1>3 DEF StoreInv, TypeOK, storeVars, Goes
    <3> HIDE DEF p
    <3> QED BY <1>1, <1>3, <3>1 DEF Holds
  <2>10. HoldsInv'
    BY <2>3, <2>9 DEF HoldsInv, Holds
  <2> QED BY <2>7, <2>8, <2>10 DEF StoreInv
<1>4. CASE p \notin DOMAIN mem.rows /\ Done(c) /\ UNCHANGED <<seen, lock, st>>
  <2>1. Tail(todo[c]) \in Seq(Operation)
    BY <1>1, TodoTail DEF StoreInv
  <2>2. st' = [st EXCEPT ![c] = "working"]
    BY <1>1, <1>4 DEF StoreInv, TypeOK
  <2>3. phase = "up"
    BY <1>1, OneHolder DEF StoreInv
  <2>4. \E ops \in Seq(Operation) : todo' = [todo EXCEPT ![c] = ops]
    BY <1>4, <2>1 DEF Done
  <2>5. UNCHANGED <<storeVars, lock, seen, may>> /\ DOMAIN got' = DOMAIN got
    BY <1>1, <1>4
  <2> QED BY <1>2, <2>2, <2>3, <2>4, <2>5, HandlerStep
<1> QED BY <1>3, <1>4 DEF LookupRow

LEMMA RankStep ==
  ASSUME StoreInv, NEW c \in Conn, LookupRank(c)
  PROVE  StoreInv'
<1>1. /\ st[c] = "ranking" /\ st' = [st EXCEPT ![c] = "working"]
      /\ UNCHANGED <<storeVars, may>>
      /\ lock' = {} /\ todo' = [todo EXCEPT ![c] = Tail(@)]
      /\ seen' = [seen EXCEPT ![c] = 0] /\ DOMAIN got' = DOMAIN got
  BY DEF LookupRank, Goes, Done, Collect
<1>2. /\ st' \in [Conn -> Busy \cup {"away", "hello", "ticket", "waiting", "closing"}]
      /\ \A d \in Conn : st'[d] \notin {"committing", "ranking"}
      /\ lock' = {d \in Conn : st'[d] \in {"committing", "ranking"}}
      /\ phase = "up"
  BY <1>1, ReleaseType DEF StoreInv
<1>3. todo[c] # <<>>
  BY <1>1 DEF StoreInv, HoldsInv, Holds
<1>4. todo' \in [Conn -> Seq(Operation)] /\ seen' \in [Conn -> Int]
  BY <1>1, <1>3, TodoTail DEF StoreInv, TypeOK
<1>5. TypeOK'
  BY <1>1, <1>2, <1>4 DEF StoreInv, TypeOK, storeVars
<1>6. MigrationInv' /\ Durable'
  BY <1>1 DEF StoreInv, MigrationInv, Durable, storeVars, Plain, RowOf
<1>7. HoldsInv'
  BY <1>2 DEF HoldsInv, Holds
<1> QED BY <1>5, <1>6, <1>7 DEF StoreInv

(* CountTotal and ReadPage.                                                *)
LEMMA CountStep ==
  ASSUME StoreInv, NEW c \in Conn, CountTotal(c) \/ ReadPage(c)
  PROVE  StoreInv'
<1>1. /\ st[c] = "working" /\ todo[c] # <<>> /\ Done(c)
      /\ UNCHANGED <<storeVars, lock, st, seen, may>>
      /\ DOMAIN got' = DOMAIN got
  BY DEF CountTotal, ReadPage, Does, Collect
<1>2. Tail(todo[c]) \in Seq(Operation)
  BY <1>1, TodoTail DEF StoreInv
<1>3. st' = [st EXCEPT ![c] = "working"]
  BY <1>1 DEF StoreInv, TypeOK
<1>4. phase = "up"
  BY <1>1, OneHolder DEF StoreInv
<1>5. \E ops \in Seq(Operation) : todo' = [todo EXCEPT ![c] = ops]
  BY <1>1, <1>2 DEF Done
<1> QED BY <1>1, <1>3, <1>4, <1>5, HandlerStep

(* The steps that have nothing to do with the store.                       *)
LEMMA IdleStep ==
  ASSUME StoreInv, NEW c \in Conn,
         \/ Accept(c) \/ HelloLine(c) \/ HelloTicket(c) \/ Ends(c) \/ Reply(c) \/ Finally(c)
         \/ \E ops \in Commands : Command(c, ops)
  PROVE  StoreInv'
<1>1. UNCHANGED <<storeVars, lock, seen, may>> /\ DOMAIN got' = DOMAIN got
  BY DEF Accept, HelloLine, HelloTicket, Ends, Reply, Finally, Command, Quiet
<1>2. \/ todo' = todo
      \/ \E ops \in Seq(Operation) : todo' = [todo EXCEPT ![c] = ops]
  <2>1. Finally(c) => todo' = [todo EXCEPT ![c] = <<>>] /\ <<>> \in Seq(Operation)
    BY EmptySeq DEF Finally
  <2>2. \A ops \in Commands : Command(c, ops) => todo' = [todo EXCEPT ![c] = ops] /\ ops \in Seq(Operation)
    BY CommandType DEF Command
  <2>3. Accept(c) \/ HelloLine(c) \/ HelloTicket(c) \/ Ends(c) \/ Reply(c) => todo' = todo
    BY DEF Accept, HelloLine, HelloTicket, Ends, Reply, Quiet
  <2> QED BY <2>1, <2>2, <2>3
<1>3. \E s \in {"away", "hello", "ticket", "waiting", "closing", "working"} :
        /\ st' = [st EXCEPT ![c] = s]
        /\ phase = "up" \/ s = "away"
  <2>1. Accept(c) => phase = "up" /\ st' = [st EXCEPT ![c] = "hello"]
    BY DEF Accept, Goes
  <2>2. Finally(c) => st' = [st EXCEPT ![c] = "away"]
    BY DEF Finally, Goes
  <2>3. /\ HelloLine(c) \/ HelloTicket(c) \/ Ends(c) \/ Reply(c) \/ (\E ops \in Commands : Command(c, ops))
           => /\ st[c] # "away"
              /\ \E s \in {"ticket", "waiting", "closing", "working"} : st' = [st EXCEPT ![c] = s]
    BY DEF HelloLine, HelloTicket, Ends, Reply, Command, Goes
  <2>4. st[c] # "away" => phase = "up"
    BY OneHolder DEF StoreInv
  <2> QED BY <2>1, <2>2, <2>3, <2>4
<1>4. st[c] \notin {"committing", "ranking"}
  BY DEF Accept, HelloLine, HelloTicket, Ends, Reply, Finally, Command, Goes
<1> QED BY <1>1, <1>2, <1>3, <1>4, HandlerStep

LEMMA StoreInvStep == StoreInv /\ [Next]_vars => StoreInv'
<1> SUFFICES ASSUME StoreInv, [Next]_vars PROVE StoreInv'
  OBVIOUS
<1>1. CASE Start
  BY <1>1, StartStep
<1>2. CASE Restart
  BY <1>2, RestartStep
<1>3. ASSUME NEW c \in Conn, StoreStep(c) PROVE StoreInv'
  BY <1>3, UpdateStep, CommitsStep, RaisesStep, RefusedStep, LookupStep, RankStep, CountStep DEF StoreStep
<1>4. ASSUME NEW c \in Conn,
             \/ Accept(c) \/ HelloLine(c) \/ HelloTicket(c) \/ Ends(c) \/ Reply(c) \/ Finally(c)
             \/ \E ops \in Commands : Command(c, ops)
      PROVE  StoreInv'
  BY <1>4, IdleStep
<1>5. CASE UNCHANGED vars
  <2>1. UNCHANGED <<disk, mem, open, phase, lock, st, todo, seen, got, may>>
    BY <1>5 DEF vars, storeVars, handlerVars
  <2>2. TypeOK'
    BY <2>1 DEF StoreInv, TypeOK
  <2>3. MigrationInv'
    BY <2>1 DEF StoreInv, MigrationInv, Plain
  <2>4. HoldsInv'
    BY <2>1 DEF StoreInv, HoldsInv, Holds, RowOf
  <2>5. Durable'
    BY <2>1 DEF StoreInv, Durable, RowOf
  <2> QED BY <2>2, <2>3, <2>4, <2>5 DEF StoreInv
<1> QED BY <1>1, <1>2, <1>3, <1>4, <1>5 DEF Next

(* The types, and the lock: it is held by the one handler that is inside   *)
(* an operation on the store, by nobody otherwise (ticket_server.py:189).  *)
THEOREM LineServicesTypeCorrect == Spec => []TypeOK
<1>1. StoreInv => TypeOK
  BY DEF StoreInv
<1> QED BY <1>1, StoreInvInit, StoreInvStep, PTL DEF Spec

(* Durable, for any players, schemas and number of restarts: what was      *)
(* committed for a player is there (ticket_server.py:195-267).             *)
THEOREM CommittedIsKept == Spec => []Durable
<1>1. StoreInv => Durable
  BY DEF StoreInv
<1> QED BY <1>1, StoreInvInit, StoreInvStep, PTL DEF Spec

(* While a look-up ranks, the row it has read is not among the higher ones. *)
LEMMA RankInvariant == StoreInv => RankInBoard
<1> SUFFICES ASSUME StoreInv, NEW c \in Conn, st[c] = "ranking"
             PROVE  Above(seen[c]) < Total
  BY DEF RankInBoard
<1> DEFINE D == DOMAIN mem.rows
           Higher == {p \in D : mem.rows[p].score > seen[c]}
<1>1. PICK p \in D : mem.rows[p].score = seen[c]
  BY DEF StoreInv, HoldsInv, Holds
<1>2. D \subseteq Player /\ IsFiniteSet(Player)
  BY ServiceAssumption DEF StoreInv, TypeOK, IsDatabase
<1>3. IsFiniteSet(D)
  BY <1>2, FS_Subset
<1>4. seen[c] \in Int
  BY DEF StoreInv, TypeOK
<1>5. Higher \subseteq D /\ Higher # D
  BY <1>1, <1>4
<1>6. /\ IsFiniteSet(Higher)
      /\ Cardinality(Higher) <= Cardinality(D)
      /\ Cardinality(D) # Cardinality(Higher)
  <2> HIDE DEF Higher, D
  <2> QED BY <1>3, <1>5, FS_Subset
<1>7. Cardinality(Higher) \in Nat /\ Cardinality(D) \in Nat
  BY <1>3, <1>6, FS_CardinalityType
<1> QED BY <1>6, <1>7 DEF Above, Total

(* RankInBoard, for any number of handlers and scores: the row whose score *)
(* a look-up has read is still on the board when the higher ones are       *)
(* counted (ticket_server.py:275-290).                                     *)
THEOREM RanksAreOnTheBoard == Spec => []RankInBoard
  BY RankInvariant, StoreInvInit, StoreInvStep, PTL DEF Spec

(* SentAsStored, for any number of slots and any values in them            *)
(* (ticket_server.py:118-160).                                             *)
THEOREM RowsAreSentAsStored == Spec => []SentAsStored
<1>1. StoreInv => SentAsStored
  BY CodecRoundTrip DEF StoreInv, TypeOK, IsDatabase, Row, SentAsStored
<1> QED BY <1>1, StoreInvInit, StoreInvStep, PTL DEF Spec

-----------------------------------------------------------------------------
(* Pages.  What a handler has collected, in the order of its operations.   *)
Collected(c) ==
  /\ got[c] # {} => st[c] \in Busy \cup {"closing"}
  /\ \A a \in got[c] : a.n \in Nat
  /\ (\E b \in got[c] : b.kind = "rows") => \A i \in DOMAIN todo[c] : todo[c][i].op # "total"
  /\ TotalFirst(todo[c])

(* A total stays right as long as no transaction is shared: the rows it    *)
(* counted are in memory, and on disk while there is something to undo.    *)
TotalHolds(c) ==
  ~joined => \A a \in got[c] : a.kind = "total" =>
    /\ a.n <= Total
    /\ (\E d \in Conn : st[d] = "committing") => a.n <= Cardinality(DOMAIN disk.rows)

Promised(w, n) == {i \in w[1] .. w[2] : i < n}
Covered(c) ==
  ~joined => \A a, b \in got[c] :
    (a.kind = "total" /\ b.kind = "rows") => b.n >= Cardinality(Promised(b.of.window, a.n))

PageInv == \A c \in Conn : Collected(c) /\ TotalHolds(c) /\ Covered(c)

LEMMA PageInvCovers == PageInv => PageCoversTotal
  BY DEF PageInv, Covered, PageCoversTotal, Promised

LEMMA TotalType ==
  ASSUME NEW db, IsDatabase(db)
  PROVE  IsFiniteSet(DOMAIN db.rows) /\ Cardinality(DOMAIN db.rows) \in Nat
  BY ServiceAssumption, FS_Subset, FS_CardinalityType DEF IsDatabase

(* page, on a board that has not shrunk since the total was counted.       *)
LEMMA PageIsLongEnough ==
  ASSUME IsDatabase(mem), NEW w \in Window
  PROVE  /\ PageLen(w[1], w[2]) \in Nat
         /\ \A n \in Nat : n <= Total => PageLen(w[1], w[2]) >= Cardinality(Promised(w, n))
<1>1. Total \in Nat
  BY TotalType DEF Total
<1>2. w[1] \in Nat /\ w[2] \in Int
  BY ServiceAssumption
<1>3. PageLen(w[1], w[2]) \in Nat
  BY <1>1, <1>2 DEF PageLen
<1>4. ASSUME NEW n \in Nat, n <= Total
      PROVE  PageLen(w[1], w[2]) >= Cardinality(Promised(w, n))
  <2> DEFINE last == IF w[2] < n THEN w[2] ELSE n - 1
  <2>1. Promised(w, n) = w[1] .. last /\ last \in Int
    BY <1>2 DEF Promised
  <2>2. Cardinality(w[1] .. last) = IF w[1] > last THEN 0 ELSE last - w[1] + 1
    <3>1. \A a, b \in Int : Cardinality(a .. b) = IF a > b THEN 0 ELSE b - a + 1
      BY FS_Interval
    <3> HIDE DEF last
    <3>2. w[1] \in Int /\ last \in Int
      BY <1>2, <2>1
    <3> QED BY <3>1, <3>2, Zenon
  <2> QED BY <1>1, <1>2, <1>4, <2>1, <2>2 DEF PageLen
<1> QED BY <1>3, <1>4

LEMMA TailOps ==
  ASSUME NEW ops \in Seq(Operation), ops # <<>>, TotalFirst(ops)
  PROVE  /\ TotalFirst(Tail(ops))
         /\ \A i \in DOMAIN Tail(ops) : \E j \in DOMAIN ops : Tail(ops)[i] = ops[j]
         /\ Head(ops).op = "page" => \A i \in DOMAIN Tail(ops) : Tail(ops)[i].op # "total"
<1>1. /\ Len(ops) \in Nat \ {0} /\ DOMAIN ops = 1 .. Len(ops)
      /\ DOMAIN Tail(ops) = 1 .. Len(ops) - 1
      /\ \A i \in 1 .. Len(ops) - 1 : Tail(ops)[i] = ops[i + 1]
      /\ Head(ops) = ops[1]
  OBVIOUS
<1>2. \A i \in 1 .. Len(ops) - 1 : i + 1 \in 1 .. Len(ops) /\ 1 < i + 1
  BY <1>1
<1>3. \A i, j \in 1 .. Len(ops) - 1 : i < j => i + 1 < j + 1
  BY <1>1
<1>4. TotalFirst(Tail(ops))
  BY <1>1, <1>2, <1>3 DEF TotalFirst
<1>5. Head(ops).op = "page" => \A i \in DOMAIN Tail(ops) : Tail(ops)[i].op # "total"
  BY <1>1, <1>2 DEF TotalFirst
<1> QED BY <1>1, <1>2, <1>4, <1>5

(* A step that leaves the store alone and collects nothing.                *)
LEMMA QuietPages ==
  ASSUME StoreInv, PageInv, NEW c \in Conn,
         UNCHANGED <<mem, disk, joined>>,
         \A d \in Conn \ {c} : got'[d] = got[d] /\ todo'[d] = todo[d] /\ st'[d] = st[d],
         got'[c] \in {got[c], {}},
         got'[c] # {} => /\ st'[c] \in Busy \cup {"closing"}
                         /\ \A i \in DOMAIN todo'[c] : \E j \in DOMAIN todo[c] : todo'[c][i] = todo[c][j],
         TotalFirst(todo'[c]),
         st'[c] # "committing"
  PROVE  PageInv'
<1>1. Total' = Total
  BY DEF Total
<1>2. (\E d \in Conn : st'[d] = "committing") => (\E d \in Conn : st[d] = "committing")
  OBVIOUS
<1>3. ASSUME NEW d \in Conn PROVE Collected(d)'
  <2>1. CASE d = c
    BY <2>1 DEF PageInv, Collected
  <2>2. CASE d # c
    BY <2>2 DEF PageInv, Collected
  <2> QED BY <2>1, <2>2
<1>4. ASSUME NEW d \in Conn PROVE TotalHolds(d)' /\ Covered(d)'
  <2>1. got'[d] \subseteq got[d] /\ joined' = joined /\ disk' = disk
    OBVIOUS
  <2> QED BY <1>1, <1>2, <2>1 DEF PageInv, TotalHolds, Covered
<1> QED BY <1>3, <1>4 DEF PageInv

(* A step after which no operation of a handler is under way, and the      *)
(* connections have collected what they had.                               *)
LEMMA PageFrame ==
  ASSUME PageInv, NEW c \in Conn,
         UNCHANGED got, \A d \in Conn \ {c} : todo'[d] = todo[d] /\ st'[d] = st[d],
         todo'[c] = todo[c] \/ todo'[c] = Tail(todo[c]),
         todo[c] \in Seq(Operation) \ {<<>>},
         st'[c] \in Busy \cup {"closing"}
  PROVE  \A d \in Conn : Collected(d)'
<1> SUFFICES ASSUME NEW d \in Conn PROVE Collected(d)'
  OBVIOUS
<1>1. CASE d # c
  BY <1>1 DEF PageInv, Collected
<1>2. CASE d = c
  <2>1. TotalFirst(todo[c])
    BY DEF PageInv, Collected
  <2>2. /\ TotalFirst(Tail(todo[c]))
        /\ \A i \in DOMAIN Tail(todo[c]) : \E j \in DOMAIN todo[c] : Tail(todo[c])[i] = todo[c][j]
    BY <2>1, TailOps
  <2>3. TotalFirst(todo'[c])
    BY <2>1, <2>2
  <2>4. \A i \in DOMAIN todo'[c] : \E j \in DOMAIN todo[c] : todo'[c][i] = todo[c][j]
    BY <2>2
  <2> QED BY <1>2, <2>3, <2>4 DEF PageInv, Collected
<1> QED BY <1>1, <1>2

LEMMA UpdatePages ==
  ASSUME StoreInv, PageInv, NEW c \in Conn, ExecuteUpdate(c)
  PROVE  PageInv'
<1> DEFINE u == Head(todo[c])
<1>1. /\ st[c] = "working" /\ todo[c] # <<>> /\ u.op = "upsert"
      /\ mem' = Stored(u.who, u.score, u.wire) /\ disk' = disk
      /\ joined' = (joined \/ mem # disk)
      /\ st' = [st EXCEPT ![c] = "committing"]
      /\ todo' = todo /\ got' = got
  BY DEF ExecuteUpdate, Does, Upsert, Change, Goes
<1>2. phase = "up"
  BY <1>1, OneHolder DEF StoreInv
<1>3. u \in Operation /\ todo[c] \in Seq(Operation) \ {<<>>}
  BY <1>1, TodoTail DEF StoreInv, TypeOK
<1>4. u.who \in Player /\ u.score \in Score /\ u.wire \in Wire
  BY <1>1, <1>3 DEF Operation
<1>5. IsDatabase(mem) /\ Plain(mem)
  BY <1>2 DEF StoreInv, TypeOK, MigrationInv
<1> HIDE DEF u
<1>6. IsDatabase(mem') /\ DOMAIN mem'.rows = DOMAIN mem.rows \cup {u.who}
  BY <1>1, <1>4, <1>5, StoredType
<1>7. Total <= Total' /\ Total \in Nat /\ Total' \in Nat
  BY <1>5, <1>6, TotalType, FS_Subset DEF Total
<1>8. ~joined' => ~joined /\ disk' = mem
  BY <1>1, <1>2 DEF StoreInv, TypeOK, MigrationInv
<1>9. \A d \in Conn : Collected(d)'
  <2>1. st'[c] \in Busy \cup {"closing"} /\ \A d \in Conn \ {c} : st'[d] = st[d]
    BY <1>1 DEF StoreInv, TypeOK, Busy
  <2> QED BY <1>1, <1>3, <2>1, PageFrame
<1>10. ASSUME NEW d \in Conn PROVE TotalHolds(d)' /\ Covered(d)'
  <2>1. \A a \in got[d] : a.n \in Nat
    BY DEF PageInv, Collected
  <2>2. ~joined' => \A a \in got[d] : a.kind = "total" => a.n <= Total
    BY <1>8 DEF PageInv, TotalHolds
  <2>3. ~joined' => Total = Cardinality(DOMAIN disk'.rows)
    BY <1>8 DEF Total
  <2>4. ~joined' => \A a \in got'[d] : a.kind = "total" => a.n <= Total' /\ a.n <= Cardinality(DOMAIN disk'.rows)
    BY <1>1, <1>7, <2>1, <2>2, <2>3
  <2>5. Covered(d)'
    BY <1>1, <1>8 DEF PageInv, Covered
  <2> QED BY <2>4, <2>5 DEF TotalHolds
<1> QED BY <1>9, <1>10 DEF PageInv

LEMMA ReleasePages ==
  ASSUME StoreInv, PageInv, NEW c \in Conn, Commits(c) \/ Raises(c)
  PROVE  PageInv'
<1>1. /\ mem' = mem \/ (mem' = disk /\ disk' = disk)
      /\ st' = [st EXCEPT ![c] = "working"] \/ st' = [st EXCEPT ![c] = "closing"]
      /\ lock' = {}
      /\ todo' = todo \/ todo' = [todo EXCEPT ![c] = Tail(@)]
      /\ got' = got /\ joined' = joined
  BY DEF Commits, Raises, Goes, CommitUpdate, CommitRaises, Commit, Done
<1>2. st[c] = "committing"
  BY DEF Commits, Raises, Goes
<1>3. \A d \in Conn : st'[d] # "committing"
  BY <1>1, <1>2, ReleaseType DEF StoreInv
<1>4. todo[c] \in Seq(Operation) \ {<<>>}
  BY <1>2 DEF StoreInv, HoldsInv, Holds, TypeOK
<1>5. \A d \in Conn : Collected(d)'
  <2>1. st'[c] \in Busy \cup {"closing"} /\ \A d \in Conn \ {c} : st'[d] = st[d] /\ todo'[d] = todo[d]
    BY <1>1 DEF StoreInv, TypeOK, Busy
  <2>2. todo'[c] = todo[c] \/ todo'[c] = Tail(todo[c])
    BY <1>1 DEF StoreInv, TypeOK
  <2> QED BY <1>1, <1>4, <2>1, <2>2, PageFrame
<1>6. ASSUME NEW d \in Conn PROVE TotalHolds(d)' /\ Covered(d)'
  <2>1. Total' = Total \/ Total' = Cardinality(DOMAIN disk.rows)
    BY <1>1 DEF Total
  <2>2. ~joined' => \A a \in got'[d] : a.kind = "total" => a.n <= Total'
    BY <1>1, <1>2, <2>1 DEF PageInv, TotalHolds
  <2>3. Covered(d)'
    BY <1>1 DEF PageInv, Covered
  <2> QED BY <1>3, <2>2, <2>3 DEF TotalHolds
<1> QED BY <1>5, <1>6 DEF PageInv

(* LookupRank, CountTotal and ReadPage: one more entry.                    *)
LEMMA CollectPages ==
  ASSUME StoreInv, PageInv, NEW c \in Conn, NEW kind, NEW n \in Nat,
         Collect(c, kind, n), Done(c), UNCHANGED <<mem, disk, joined>>,
         st[c] \in Busy, st'[c] # "committing", st'[c] \in Busy, \A d \in Conn \ {c} : st'[d] = st[d],
         todo[c] # <<>>,
         kind = "rows" => Head(todo[c]).op = "page",
         kind = "total" => /\ Head(todo[c]).op = "total" /\ n = Total
                           /\ \A d \in Conn : st'[d] # "committing",
         kind = "rows" => \A a \in got[c] : a.kind = "total" /\ ~joined =>
                            n >= Cardinality(Promised(Head(todo[c]).window, a.n))
  PROVE  PageInv'
<1> DEFINE new == [kind |-> kind, n |-> n, of |-> Head(todo[c])]
<1>1. /\ got' = [got EXCEPT ![c] = @ \cup {new}]
      /\ todo' = [todo EXCEPT ![c] = Tail(@)]
  BY DEF Collect, Done
<1>2. /\ got'[c] = got[c] \cup {new} /\ todo'[c] = Tail(todo[c])
      /\ \A d \in Conn \ {c} : got'[d] = got[d] /\ todo'[d] = todo[d]
  BY <1>1 DEF StoreInv, TypeOK
<1>3. new.kind = kind /\ new.n = n /\ new.of = Head(todo[c])
  OBVIOUS
<1> HIDE DEF new
<1>4. todo[c] \in Seq(Operation) /\ Len(todo[c]) \in Nat \ {0} /\ Head(todo[c]) = todo[c][1]
  BY DEF StoreInv, TypeOK
<1>5. Collected(c) /\ TotalHolds(c) /\ Covered(c)
  BY DEF PageInv
<1>6. /\ TotalFirst(todo'[c])
      /\ \A i \in DOMAIN todo'[c] : \E j \in DOMAIN todo[c] : todo'[c][i] = todo[c][j]
      /\ kind = "rows" => \A i \in DOMAIN todo'[c] : todo'[c][i].op # "total"
  BY <1>2, <1>4, <1>5, TailOps DEF Collected
<1>7. Collected(c)'
  BY <1>2, <1>3, <1>5, <1>6 DEF Collected
<1>8. Total' = Total /\ Total \in Nat
  BY TotalType DEF Total, StoreInv, TypeOK
<1>9. TotalHolds(c)'
  <2>1. \A a \in got[c] : a.n \in Nat
    BY <1>5 DEF Collected
  <2> QED BY <1>2, <1>3, <1>5, <1>8, <2>1 DEF TotalHolds
<1>10. Covered(c)'
  <2> SUFFICES ASSUME ~joined, NEW a \in got'[c], NEW b \in got'[c], a.kind = "total", b.kind = "rows"
               PROVE  b.n >= Cardinality(Promised(b.of.window, a.n))
    BY DEF Covered
  <2>1. CASE a \in got[c] /\ b \in got[c]
    BY <1>5, <2>1 DEF Covered
  <2>2. CASE a \in got[c] /\ b = new
    BY <1>3, <2>2
  <2>3. CASE a = new
    <3>1. Head(todo[c]).op = "total" /\ 1 \in DOMAIN todo[c] /\ todo[c][1].op = "total"
      BY <1>3, <1>4, <2>3
    <3>2. b \in got[c]
      BY <1>2, <1>3, <2>3
    <3> QED BY <1>5, <3>1, <3>2 DEF Collected
  <2> QED BY <1>2, <2>1, <2>2, <2>3
<1>11. ASSUME NEW d \in Conn \ {c} PROVE Collected(d)' /\ TotalHolds(d)' /\ Covered(d)'
  <2>1. Collected(d) /\ TotalHolds(d) /\ Covered(d)
    BY DEF PageInv
  <2>2. got'[d] = got[d] /\ todo'[d] = todo[d] /\ st'[d] = st[d]
    BY <1>2
  <2> QED BY <1>8, <2>1, <2>2 DEF Collected, TotalHolds, Covered
<1> QED BY <1>7, <1>9, <1>10, <1>11 DEF PageInv

LEMMA RefusedPages ==
  ASSUME StoreInv, PageInv, NEW c \in Conn, Refused(c)
  PROVE  PageInv'
<1>1. /\ st[c] = "working" /\ st' = [st EXCEPT ![c] = "closing"] /\ lock = {}
      /\ UNCHANGED <<mem, disk, joined, todo, got>> /\ todo[c] # <<>>
  BY DEF Refused, Goes, LockFree
<1>2. todo[c] \in Seq(Operation) \ {<<>>} /\ TotalFirst(todo[c])
  BY <1>1 DEF StoreInv, TypeOK, PageInv, Collected
<1>3. /\ st'[c] = "closing" /\ \A d \in Conn \ {c} : st'[d] = st[d]
      /\ st'[c] \in Busy \cup {"closing"} /\ st'[c] # "committing"
  BY <1>1 DEF StoreInv, TypeOK, Busy
<1>4. /\ TotalFirst(todo'[c])
      /\ \A i \in DOMAIN todo'[c] : \E j \in DOMAIN todo[c] : todo'[c][i] = todo[c][j]
  BY <1>1, <1>2
<1> QED BY <1>1, <1>3, <1>4, QuietPages

LEMMA StorePages ==
  ASSUME StoreInv, PageInv, NEW c \in Conn, StoreStep(c)
  PROVE  PageInv'
<1>1. CASE ExecuteUpdate(c)
  BY <1>1, UpdatePages
<1>2. CASE Commits(c) \/ Raises(c)
  BY <1>2, ReleasePages
<1>3. CASE LookupRow(c)
  <2>1. /\ st[c] = "working" /\ todo[c] # <<>> /\ UNCHANGED <<mem, disk, joined, got>>
        /\ \/ todo' = todo /\ st' = [st EXCEPT ![c] = "ranking"]
           \/ todo' = [todo EXCEPT ![c] = Tail(@)] /\ st' = st
    BY <1>3 DEF LookupRow, Does, Goes, Done, storeVars
  <2>2. /\ \A d \in Conn \ {c} : todo'[d] = todo[d] /\ st'[d] = st[d]
        /\ st'[c] \in {"ranking", "working"}
        /\ todo'[c] = todo[c] \/ todo'[c] = Tail(todo[c])
    BY <2>1 DEF StoreInv, TypeOK
  <2>3. todo[c] \in Seq(Operation) \ {<<>>} /\ TotalFirst(todo[c])
    BY <2>1 DEF StoreInv, TypeOK, PageInv, Collected
  <2>4. /\ TotalFirst(todo'[c])
        /\ \A i \in DOMAIN todo'[c] : \E j \in DOMAIN todo[c] : todo'[c][i] = todo[c][j]
    <3>1. /\ TotalFirst(Tail(todo[c]))
          /\ \A i \in DOMAIN Tail(todo[c]) : \E j \in DOMAIN todo[c] : Tail(todo[c])[i] = todo[c][j]
      BY <2>3, TailOps
    <3> QED BY <2>2, <2>3, <3>1
  <2>5. st'[c] \in Busy \cup {"closing"} /\ st'[c] # "committing"
    BY <2>2 DEF Busy
  <2>6. got'[c] = got[c] /\ \A d \in Conn : got'[d] = got[d]
    BY <2>1
  <2> QED BY <2>1, <2>2, <2>4, <2>5, <2>6, QuietPages
<1>4. CASE LookupRank(c)
  <2> DEFINE n == Above(seen[c])
  <2>1. n \in Nat
    <3>1. IsFiniteSet(DOMAIN mem.rows)
      BY TotalType DEF StoreInv, TypeOK
    <3>2. {p \in DOMAIN mem.rows : mem.rows[p].score > seen[c]} \subseteq DOMAIN mem.rows
      OBVIOUS
    <3> QED BY <3>1, <3>2, FS_Subset, FS_CardinalityType DEF Above
  <2>2. /\ st[c] = "ranking" /\ st' = [st EXCEPT ![c] = "working"]
        /\ Collect(c, "rank", n) /\ Done(c) /\ UNCHANGED <<mem, disk, joined>>
    BY <1>4 DEF LookupRank, Goes, storeVars
  <2>3. st[c] \in Busy /\ st'[c] # "committing" /\ st'[c] \in Busy /\ \A d \in Conn \ {c} : st'[d] = st[d]
    BY <2>2 DEF StoreInv, TypeOK, Busy
  <2>4. todo[c] # <<>>
    BY <2>2 DEF StoreInv, HoldsInv, Holds
  <2> HIDE DEF n
  <2> QED BY <2>1, <2>2, <2>3, <2>4, CollectPages
<1>5. CASE CountTotal(c)
  <2>1. /\ st[c] = "working" /\ st' = st /\ lock = {} /\ todo[c] # <<>>
        /\ Head(todo[c]).op = "total"
        /\ Collect(c, "total", Total) /\ Done(c) /\ UNCHANGED <<mem, disk, joined>>
    BY <1>5 DEF CountTotal, Does, LockFree, storeVars
  <2>2. Total \in Nat
    BY TotalType DEF Total, StoreInv, TypeOK
  <2>3. \A d \in Conn : st'[d] # "committing"
    BY <2>1, OneHolder DEF StoreInv
  <2>4. st[c] \in Busy /\ st'[c] \in Busy
    BY <2>1 DEF Busy
  <2> QED BY <2>1, <2>2, <2>3, <2>4, CollectPages
<1>6. CASE ReadPage(c)
  <2> DEFINE w == Head(todo[c]).window
             n == PageLen(w[1], w[2])
  <2>1. /\ st[c] = "working" /\ st' = st /\ todo[c] # <<>>
        /\ Head(todo[c]).op = "page"
        /\ Collect(c, "rows", n) /\ Done(c) /\ UNCHANGED <<mem, disk, joined>>
    BY <1>6 DEF ReadPage, Does, storeVars
  <2>2. w \in Window
    BY <2>1, TodoTail DEF StoreInv, Operation
  <2>3. n \in Nat /\ \A m \in Nat : m <= Total => n >= Cardinality(Promised(w, m))
    BY <2>2, PageIsLongEnough DEF StoreInv, TypeOK
  <2>4. \A a \in got[c] : a.kind = "total" /\ ~joined => a.n \in Nat /\ a.n <= Total
    BY DEF PageInv, Collected, TotalHolds
  <2>5. st[c] \in Busy /\ st'[c] # "committing" /\ st'[c] \in Busy
    BY <2>1 DEF Busy
  <2>6. \A a \in got[c] : a.kind = "total" /\ ~joined =>
          n >= Cardinality(Promised(Head(todo[c]).window, a.n))
    BY <2>3, <2>4
  <2> HIDE DEF n
  <2> QED BY <2>1, <2>3, <2>5, <2>6, CollectPages
<1>7. CASE Refused(c)
  BY <1>7, RefusedPages
<1> QED BY <1>1, <1>2, <1>3, <1>4, <1>5, <1>6, <1>7 DEF StoreStep

LEMMA PageInvInit == Init => PageInv
<1> SUFFICES ASSUME Init, NEW c \in Conn
             PROVE  Collected(c) /\ TotalHolds(c) /\ Covered(c)
  BY DEF PageInv
<1>1. got[c] = {} /\ todo[c] = <<>>
  BY DEF Init
<1> QED BY <1>1 DEF Collected, TotalHolds, Covered, TotalFirst

LEMMA PageInvStep == StoreInv /\ PageInv /\ [Next]_vars => PageInv'
<1> SUFFICES ASSUME StoreInv, PageInv, [Next]_vars PROVE PageInv'
  OBVIOUS
<1>1. CASE Start
  <2>1. phase # "up" /\ UNCHANGED <<todo, got>>
    BY <1>1, MigrateStep DEF Start, handlerVars, StoreInv, TypeOK
  <2>2. \A c \in Conn : got[c] = {}
    BY <2>1 DEF StoreInv, TypeOK, PageInv, Collected, Busy
  <2> QED BY <2>1, <2>2 DEF PageInv, Collected, TotalHolds, Covered
<1>2. CASE Restart
  <2>1. \A c \in Conn : got'[c] = {} /\ todo'[c] = <<>>
    BY <1>2 DEF Restart
  <2> QED BY <2>1 DEF PageInv, Collected, TotalHolds, Covered, TotalFirst
<1>3. ASSUME NEW c \in Conn, StoreStep(c) PROVE PageInv'
  BY <1>3, StorePages
<1>4. ASSUME NEW c \in Conn, Accept(c) \/ HelloLine(c) \/ HelloTicket(c) \/ Ends(c) PROVE PageInv'
  <2>1. /\ UNCHANGED <<mem, disk, joined, todo, got>>
        /\ st[c] \notin Busy \cup {"closing"}
        /\ \E s \in {"hello", "waiting", "ticket", "closing"} : st' = [st EXCEPT ![c] = s]
    BY <1>4 DEF Accept, HelloLine, HelloTicket, Ends, Goes, Quiet, storeVars, Busy
  <2>2. got[c] = {} /\ TotalFirst(todo[c])
    BY <2>1 DEF PageInv, Collected
  <2>3. st'[c] # "committing" /\ \A d \in Conn \ {c} : st'[d] = st[d]
    BY <2>1 DEF StoreInv, TypeOK
  <2> QED BY <2>1, <2>2, <2>3, QuietPages
<1>5. ASSUME NEW c \in Conn, Reply(c) \/ Finally(c) PROVE PageInv'
  <2>1. /\ UNCHANGED <<mem, disk, joined>>
        /\ todo' = todo \/ todo' = [todo EXCEPT ![c] = <<>>]
        /\ got' = [got EXCEPT ![c] = {}]
        /\ \E s \in {"waiting", "closing", "away"} : st' = [st EXCEPT ![c] = s]
    BY <1>5 DEF Reply, Finally, Goes, storeVars
  <2>2. TotalFirst(todo[c]) /\ TotalFirst(<<>>)
    BY DEF PageInv, Collected, TotalFirst
  <2>3. /\ st'[c] # "committing" /\ got'[c] = {} /\ TotalFirst(todo'[c])
        /\ \A d \in Conn \ {c} : st'[d] = st[d] /\ got'[d] = got[d] /\ todo'[d] = todo[d]
    BY <2>1, <2>2 DEF StoreInv, TypeOK
  <2> QED BY <2>1, <2>3, QuietPages
<1>6. ASSUME NEW c \in Conn, NEW ops \in Commands, Command(c, ops) PROVE PageInv'
  <2>1. /\ UNCHANGED <<mem, disk, joined, got>> /\ st[c] = "waiting"
        /\ todo' = [todo EXCEPT ![c] = ops] /\ st' = [st EXCEPT ![c] = "working"]
    BY <1>6 DEF Command, Goes, storeVars
  <2>2. got[c] = {} /\ TotalFirst(ops)
    BY <2>1, CommandType DEF PageInv, Collected, Busy
  <2>3. /\ st'[c] # "committing" /\ TotalFirst(todo'[c])
        /\ \A d \in Conn \ {c} : st'[d] = st[d] /\ todo'[d] = todo[d]
    BY <2>1, <2>2 DEF StoreInv, TypeOK
  <2> QED BY <2>1, <2>2, <2>3, QuietPages
<1>7. CASE UNCHANGED vars
  <2>1. UNCHANGED <<disk, mem, open, phase, lock, st, todo, seen, got, may, joined>>
    BY <1>7 DEF vars, storeVars, handlerVars
  <2>2. Total' = Total
    BY <2>1 DEF Total
  <2>3. \A c \in Conn : Collected(c)'
    BY <2>1 DEF PageInv, Collected
  <2>4. \A c \in Conn : TotalHolds(c)' /\ Covered(c)'
    BY <2>1, <2>2 DEF PageInv, TotalHolds, Covered
  <2> QED BY <2>3, <2>4 DEF PageInv
<1> QED BY <1>1, <1>2, <1>3, <1>4, <1>5, <1>6, <1>7 DEF Next

(* PageCoversTotal, for any windows, number of handlers and players: rows  *)
(* that a total has counted are there when the page is read, unless an     *)
(* update joined a transaction that a failed COMMIT left open              *)
(* (ticket_server.py:292-308).                                             *)
THEOREM PagesCoverTotals == Spec => []PageCoversTotal
<1>1. Init => StoreInv /\ PageInv
  BY StoreInvInit, PageInvInit
<1>2. StoreInv /\ PageInv /\ [Next]_vars => (StoreInv /\ PageInv)'
  BY StoreInvStep, PageInvStep
<1>3. StoreInv /\ PageInv => PageCoversTotal
  BY PageInvCovers
<1> QED BY <1>1, <1>2, <1>3, PTL DEF Spec
=============================================================================
