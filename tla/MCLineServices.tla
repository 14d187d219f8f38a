---------------------------- MODULE MCLineServices ----------------------------
(* LineServices with two players and the tables earlier versions left.     *)
EXTENDS LineServices

LegacyRow(score, blob, extra) ==
  [score |-> score, slots |-> [i \in 1 .. AllSlots |-> 0], blob |-> blob, extra |-> extra]

(* No table; one that lacks columns, with a blob in one row and a tail in  *)
(* the other; one with both legacy columns and nothing in them.            *)
MCOldTables ==
  { NoTable,
    [cols |-> {"blob", "extra"},
     rows |-> [p \in {"p", "q"} |->
                 IF p = "p" THEN LegacyRow(1, <<2, 0, 3>>, <<>>)
                 ELSE [LegacyRow(2, <<>>, <<4>>) EXCEPT !.slots = Decode(<<5>>)]]],
    [cols |-> {"slots", "blob", "extra"},
     rows |-> [p \in {"p"} |-> [LegacyRow(1, <<>>, <<>>) EXCEPT !.slots = Decode(<<2>>)]]] }

MCWire == { <<0, 0, 3>> }
MCWindow == { <<0, 1>>, <<0, 9>>, <<1, 1>> }
=============================================================================
