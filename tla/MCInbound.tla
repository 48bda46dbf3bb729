------------------------------ MODULE MCInbound ------------------------------
(***************************************************************************)
(* One place at each listener.  c1 asks to be connected at either, sends   *)
(* two chunks and is answered with two; c2 holds the place of the socks5   *)
(* listener, for long or short.  They meet in its queue and when the       *)
(* tunnel ends.                                                            *)
(***************************************************************************)
EXTENDS Inbound, TLC

CONSTANTS c1, c2

MCClients == {c1, c2}
MCAsks == (c1 :> {"odd", "address", "connect"}) @@ (c2 :> {"udp"})
Two == (c1 :> 2) @@ (c2 :> 0)
=============================================================================
