------------------------- MODULE MCTransparentMode --------------------------
(***************************************************************************)
(* Model-checking instances of TransparentMode.                            *)
(***************************************************************************)
EXTENDS TransparentMode

(* For the liveness properties, which are about a service that is left     *)
(* alone: the init script is not called while an orphan is still running.  *)
CalmNext == \/ \E p \in Procs : Script(p)
            \/ at["orphan"] = Idle /\ \E o \in {"start", "stop", "restart"} : Called(o)
            \/ InitScript \/ Monitor
            \/ \E port \in Ports : PortOpens(port) \/ PortCloses(port)

CalmSpec == Init /\ [][CalmNext]_vars /\ Fairness
=============================================================================
