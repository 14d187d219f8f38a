---------------------------- MODULE MCMatchmaking ----------------------------
(* Matchmaking with a client of a known build, and one of another known    *)
(* build or of none that is.                                               *)
EXTENDS Matchmaking

MCBuildsOf ==
  {[c \in Client |-> IF c = "new" THEN "01.11" ELSE other] : other \in {"01.00", Absent}}
=============================================================================
