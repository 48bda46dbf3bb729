--------------------------- MODULE GatewayHistory ---------------------------
(***************************************************************************)
(* GatewayRun with a history of the tunnels that ended soon: through which *)
(* gateway the last one went, and how many in a row went through that same *)
(* gateway, counted from the last rest.  The history is independent of the *)
(* run's own count, so it can judge it.                                    *)
(***************************************************************************)
EXTENDS GatewayRun

VARIABLE hist

NoHistory == [last |-> NoPeer, row |-> 0]

(* Bound: the history counts up to Strikes. *)
OneMore(n) == IF n < Strikes THEN n + 1 ELSE n

Recorded ==
    LET soon == lasted < StayedUp
    IN  [last |-> peer,
         row |-> IF ~soon THEN 0 ELSE IF hist.last = peer THEN OneMore(hist.row) ELSE 1]

HInit == Init /\ hist = NoHistory

HNext ==
    \/ TunnelEnds /\ hist' = Recorded
    \/ Restart /\ hist' = NoHistory
    \/ Top /\ hist' = IF lastGood' # lastGood THEN [hist EXCEPT !.row = 0] ELSE hist
    \/ (StartUp \/ Choosing \/ Running \/ Tick) /\ UNCHANGED hist

hvars == <<vars, hist>>

HSpec == HInit /\ [][HNext]_hvars /\ Fairness

(* A gateway is left once its tunnels ended soon Strikes times in a row: no *)
(* tunnel runs through the gateway of the last Strikes tunnels when each of *)
(* them ended sooner than TUNNEL_STAYED_UP and it has not rested since.     *)
GatewayLeft ==
    forced = NoPeer /\ pc = "tunnel" /\ hist.last = peer => hist.row < Strikes
=============================================================================
