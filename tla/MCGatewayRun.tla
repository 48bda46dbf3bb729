---------------------------- MODULE MCGatewayRun ----------------------------
(***************************************************************************)
(* Three addresses, one of them with two ports.                            *)
(***************************************************************************)
EXTENDS GatewayHistory, TLC

CONSTANTS a443, a500, b443, c443, a, b, c

MCIpOf == (a443 :> a) @@ (a500 :> a) @@ (b443 :> b) @@ (c443 :> c)
=============================================================================
