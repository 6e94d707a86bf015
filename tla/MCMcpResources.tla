-------------------------- MODULE MCMcpResources --------------------------
(***************************************************************************)
(* Two requests that start a server or look one up, or disconnect it, and  *)
(* one that closes, in any order, over two managers: a second client of a  *)
(* manager, namesakes of two managers, and a request that waits behind a   *)
(* connect and a close for the lock.                                       *)
(***************************************************************************)
EXTENDS McpResources, TLC

CONSTANTS c1, c2, c3

Mixed ==
  (c1 :> {"open", "from_transport", "connect"}) @@
  (c2 :> {"connect_from_config", "get_client", "disconnect"}) @@
  (c3 :> {"disconnect", "close_all", "client.close", "resource.close"})
=============================================================================
