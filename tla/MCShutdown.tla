------------------------------ MODULE MCShutdown ------------------------------
(* Shutdown with three clients and two children, the manager the second.   *)
EXTENDS Shutdown
=============================================================================
