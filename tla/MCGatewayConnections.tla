------------------------ MODULE MCGatewayConnections ------------------------
(* Small instances of GatewayConnections for TLC. *)
EXTENDS GatewayConnections, TLC

MCManaged == {"CONNECT", "UPDATE", "DISCONNECT", "DIRECT"}
MCAllOps == AllOps
MCAllFaults == AllFaults

(* Of a single device nothing is claimed once its requests have crossed.   *)
Uncrossed == crossed = {}
=============================================================================
