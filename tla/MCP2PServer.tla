---------------------------- MODULE MCP2PServer ----------------------------
(***************************************************************************)
(* Instances of P2PServer.                                                 *)
(***************************************************************************)
EXTENDS P2PServer

=============================================================================
