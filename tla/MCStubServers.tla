---------------------------- MODULE MCStubServers ----------------------------
(* StubServers with a few clients.                                         *)
EXTENDS StubServers
=============================================================================
