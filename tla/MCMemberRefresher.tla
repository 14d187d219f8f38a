------------------------- MODULE MCMemberRefresher --------------------------
(* MemberRefresher with two handler threads.                               *)
EXTENDS MemberRefresher, TLC

Symmetry == Permutations(Conn) \cup Permutations(Caller)
=============================================================================
