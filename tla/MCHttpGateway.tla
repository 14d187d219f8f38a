---------------------------- MODULE MCHttpGateway ----------------------------
(* HttpGateway with a few handlers and uploads.                            *)
EXTENDS HttpGateway
=============================================================================
