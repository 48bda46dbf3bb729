--------------------------- MODULE MCWireguardRun ---------------------------
(***************************************************************************)
(* Model-checking instance of WireguardRun.                                *)
(***************************************************************************)
EXTENDS WireguardRun
=============================================================================
