--------------------------- MODULE MCGatewayAgents ---------------------------
(***************************************************************************)
(* Instances of GatewayAgents for TLC.                                     *)
(***************************************************************************)
EXTENDS GatewayAgents, TLC

CONSTANTS a, b, r1, m1, m2
=============================================================================
