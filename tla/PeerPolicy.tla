----------------------------- MODULE PeerPolicy -----------------------------
(***************************************************************************)
(* What a run loop of the core promises about the far ends it uses,        *)
(* however it finds, verifies and remembers them: it runs one tunnel at a  *)
(* time; a far end whose tunnels ended soon Strikes times in a row is      *)
(* given up and its address is excluded, and no other is excluded; no      *)
(* tunnel starts through an excluded address until it has recovered.  The  *)
(* run may begin with another far end at any time between two tunnels.     *)
(* A far end named by hand is the exception: it may be used again at once, *)
(* and nothing is excluded.                                                *)
(***************************************************************************)
EXTENDS Naturals

CONSTANTS Peers, NoPeer, AddressOf, Strikes

VARIABLES
    fresh,      \* the process has just started
    pinned,     \* a far end is named by hand
    using,      \* the far end of the tunnel, or of the last one
    live,       \* a tunnel runs
    row,        \* its tunnels that ended soon, in a row, up to Strikes
    excluded    \* addresses left alone

pvars == <<fresh, pinned, using, live, row, excluded>>

Init ==
    /\ fresh = TRUE /\ pinned \in BOOLEAN
    /\ using = NoPeer /\ live = FALSE /\ row = 0 /\ excluded = {}

(* Another far end starts with no strikes; the same one keeps its own.     *)
Begin(p) ==
    /\ ~fresh /\ ~live /\ live' = TRUE
    /\ ~pinned => AddressOf[p] \notin excluded /\ (p = using => row < Strikes)
    /\ using' = p
    /\ row' = IF p = using THEN row ELSE 0
    /\ UNCHANGED <<fresh, pinned, excluded>>

EndSoon ==
    /\ live /\ live' = FALSE
    /\ row' = IF row < Strikes THEN row + 1 ELSE row
    /\ UNCHANGED <<fresh, pinned, using, excluded>>

EndLate ==
    /\ live /\ live' = FALSE
    /\ row' = 0
    /\ UNCHANGED <<fresh, pinned, using, excluded>>

GiveUp ==
    /\ ~fresh /\ ~live /\ using \in Peers /\ row = Strikes
    /\ using' = NoPeer /\ row' = 0
    /\ excluded' = IF pinned THEN excluded ELSE excluded \cup {AddressOf[using]}
    /\ UNCHANGED <<fresh, pinned, live>>

Recover ==
    /\ excluded' \subseteq excluded
    /\ UNCHANGED <<fresh, pinned, using, live, row>>

Start ==
    /\ fresh' = FALSE
    /\ UNCHANGED <<pinned, using, live, row, excluded>>

(* The process starts again and knows of no failure.                       *)
Restart ==
    /\ fresh' = TRUE
    /\ using' = NoPeer /\ live' = FALSE /\ row' = 0 /\ excluded' = {}
    /\ UNCHANGED pinned

Next == \/ (\E p \in Peers : Begin(p)) \/ EndSoon \/ EndLate \/ GiveUp
        \/ Recover \/ Start \/ Restart

Spec == Init /\ [][Next]_pvars

(* No tunnel runs through an excluded address, or through a far end whose  *)
(* strikes are used up: what the policy is for, and what follows from it.  *)
PolicySafe == live /\ ~pinned => AddressOf[using] \notin excluded /\ row < Strikes
=============================================================================
