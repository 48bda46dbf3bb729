---------------------------- MODULE WireguardRun ----------------------------
(***************************************************************************)
(* The supervisor of a WireGuard run: run_wireguard of aether/src/lib.rs.  *)
(*                                                                         *)
(* It keeps to the same policy as the MASQUE run (PeerPolicy), by other    *)
(* means: the last known-good endpoint is also the one the failures are    *)
(* counted for, the exclusion is per address and port, and it is a map of  *)
(* deadlines that is only cleared of the past ones at the top of the loop. *)
(* An endpoint named by hand is verified before use, and is left and       *)
(* taken again.                                                            *)
(*                                                                         *)
(* A verification tries the obfuscation profiles in turn and passes or     *)
(* not; what the lastconn file names is any endpoint (the file itself is   *)
(* GatewayRun's subject).  Time passes in ticks at every await.            *)
(***************************************************************************)
EXTENDS Naturals

CONSTANTS
    Peers,      \* endpoints (SocketAddr)
    NoPeer,     \* None
    Named,      \* what AETHER_WG_PEER may be: endpoints, or NoPeer
    MaxFails,   \* MAX_CONSECUTIVE_FAILS
    Cooldown,   \* wg_endpoint_cooldown(), in ticks
    StayedUp,   \* TUNNEL_STAYED_UP, in ticks
    MaxCount    \* u32::MAX

ASSUME WireguardRunAssumption ==
    /\ NoPeer \notin Peers
    /\ Named \subseteq Peers \cup {NoPeer}
    /\ MaxFails \in Nat \ {0} /\ Cooldown \in Nat \ {0} /\ StayedUp \in Nat \ {0}
    /\ MaxCount \in Nat /\ MaxCount >= MaxFails

VARIABLES
    pc,         \* where run_wireguard is
    forced,     \* AETHER_WG_PEER or AETHER_PEER
    quick,      \* quick
    lastGood,   \* last_good
    fails,      \* consecutive_fails_on_peer
    listed,     \* the keys of endpoint_cooldowns
    left,       \* for each endpoint the ticks until its deadline
    avoid,      \* the endpoints the scan under way leaves out
    peer,       \* the endpoint chosen for the next tunnel, or in use
    lasted      \* how long the tunnel has been up, up to StayedUp

countVars == <<lastGood, fails, listed, left>>
vars == <<pc, forced, quick, countVars, avoid, peer, lasted>>

MaybePeer == Peers \cup {NoPeer}
NotCooling == [p \in Peers |-> 0]

Init ==
    /\ pc = "boot"
    /\ forced \in Named
    /\ quick = NoPeer /\ lastGood = NoPeer /\ peer = NoPeer
    /\ fails = 0 /\ lasted = 0
    /\ listed = {} /\ left = NotCooling
    /\ avoid = {}

-----------------------------------------------------------------------------
(* Before the loop: an assigned endpoint, or a remembered one, that passes *)
(* verification is taken first.                                            *)
StartUp ==
    /\ pc = "boot"
    /\ pc' = "top"
    /\ quick' \in IF forced = NoPeer THEN MaybePeer ELSE {NoPeer}
    /\ UNCHANGED <<forced, countVars, avoid, peer, lasted>>

(* Variant: deadlines that have passed stay in the map. *)
CoolingForGood == listed

(* endpoint_cooldowns.retain: only deadlines still to come are kept.       *)
Cooling == {p \in listed : left[p] > 0}

GiveUp ==
    /\ lastGood' = NoPeer /\ fails' = 0
    /\ IF lastGood = NoPeer
       THEN listed' = Cooling /\ UNCHANGED left
       ELSE listed' = Cooling \cup {lastGood} /\ left' = [left EXCEPT ![lastGood] = Cooldown]

(* Variant: one failure more is forgiven. *)
SpentLate == fails > MaxFails

Spent == fails >= MaxFails

Top ==
    /\ pc = "top"
    /\ pc' = "choose"
    /\ IF Spent THEN GiveUp
       ELSE listed' = Cooling /\ UNCHANGED <<lastGood, fails, left>>
    /\ UNCHANGED <<forced, quick, avoid, peer, lasted>>

ChooseQuick ==
    /\ pc = "choose" /\ quick # NoPeer
    /\ peer' = quick /\ quick' = NoPeer
    /\ pc' = "chosen"
    /\ UNCHANGED <<forced, countVars, avoid, lasted>>

(* The last known-good endpoint is verified again before a new scan.       *)
RetryLastGood ==
    /\ pc = "choose" /\ quick = NoPeer
    /\ \/ lastGood # NoPeer /\ peer' = lastGood /\ pc' = "chosen"
       \/ UNCHANGED peer /\ pc' = "fallback"
    /\ UNCHANGED <<forced, quick, countVars, avoid, lasted>>

(* The endpoint named by hand passes with one of the profiles, or the run  *)
(* sleeps and begins again.                                                *)
UseForced ==
    /\ pc = "fallback" /\ forced # NoPeer
    /\ \/ peer' = forced /\ pc' = "chosen"
       \/ UNCHANGED peer /\ pc' = "sleep"
    /\ UNCHANGED <<forced, quick, countVars, avoid, lasted>>

StartHunt ==
    /\ pc = "fallback" /\ forced = NoPeer
    /\ avoid' = listed
    /\ pc' = "hunting"
    /\ UNCHANGED <<forced, quick, countVars, peer, lasted>>

(* Variant: the scan is not told what to leave out. *)
FoundAny == Peers

(* hunt_wg_peer: a scan for each profile, none of which looks at excluded. *)
Found == Peers \ avoid

HuntEnds ==
    /\ pc = "hunting"
    /\ \/ peer' \in Found /\ pc' = "chosen"
       \/ UNCHANGED peer /\ pc' = "sleep"
    /\ avoid' = {}
    /\ UNCHANGED <<forced, quick, countVars, lasted>>

(* Variant: every tunnel starts with no failures. *)
CarriedOverNone == 0

(* Another endpoint than the last starts with no failures.                 *)
CarriedOver == IF lastGood = peer THEN fails ELSE 0

(* The tunnel's own validation is part of the tunnel: it may end at once.  *)
StartTunnel ==
    /\ pc = "chosen"
    /\ fails' = CarriedOver
    /\ lastGood' = peer
    /\ lasted' = 0
    /\ pc' = "tunnel"
    /\ UNCHANGED <<forced, quick, listed, left, avoid, peer>>

(* count_tunnel_end *)
CountTunnelEnd(n, up) == IF up >= StayedUp THEN 0 ELSE IF n < MaxCount THEN n + 1 ELSE n

TunnelEnds ==
    /\ pc = "tunnel"
    /\ fails' = CountTunnelEnd(fails, lasted)
    /\ pc' = "sleep"
    /\ UNCHANGED <<forced, quick, lastGood, listed, left, avoid, peer, lasted>>

ReconnectDelay ==
    /\ pc = "sleep"
    /\ pc' = "top"
    /\ UNCHANGED <<forced, quick, countVars, avoid, peer, lasted>>

Tick ==
    /\ left' = [p \in Peers |-> IF left[p] > 0 THEN left[p] - 1 ELSE 0]
    /\ lasted' = IF pc = "tunnel" /\ lasted < StayedUp THEN lasted + 1 ELSE lasted
    /\ UNCHANGED <<pc, forced, quick, lastGood, fails, listed, avoid, peer>>

(* The process ends and is started again.                                  *)
Restart ==
    /\ pc' = "boot"
    /\ quick' = NoPeer /\ lastGood' = NoPeer /\ peer' = NoPeer
    /\ fails' = 0 /\ lasted' = 0
    /\ listed' = {} /\ left' = NotCooling
    /\ avoid' = {}
    /\ UNCHANGED forced

Going == \/ StartUp \/ Top \/ ChooseQuick \/ RetryLastGood \/ UseForced
         \/ StartHunt \/ HuntEnds \/ StartTunnel \/ ReconnectDelay

Next == Going \/ TunnelEnds \/ Tick \/ Restart

(* The run goes on whenever it can and time passes; a tunnel may last.     *)
Fairness == WF_vars(Going) /\ WF_vars(Tick)

Spec == Init /\ [][Next]_vars /\ Fairness

-----------------------------------------------------------------------------
(* The policy this run implements: an endpoint is excluded until its        *)
(* deadline, whether or not the map has been cleared of it since.           *)
Policy == INSTANCE PeerPolicy WITH
    AddressOf <- [p \in Peers |-> p], Strikes <- MaxFails,
    fresh <- (pc = "boot"), pinned <- forced # NoPeer,
    using <- lastGood, live <- (pc = "tunnel"),
    row <- IF fails < MaxFails THEN fails ELSE MaxFails,
    excluded <- IF forced = NoPeer THEN {p \in Peers : left[p] > 0} ELSE {}

(* The WireGuard run keeps the policy the MASQUE run keeps: whatever the    *)
(* order of verifications, scans, ends, restarts and time, no tunnel starts *)
(* through an endpoint before its deadline, and none is excluded before its *)
(* failures are used up.                                                    *)
KeepsPolicy == Policy!Spec

(* Every variable has its type; the count never passes MaxFails, so the     *)
(* saturation at u32::MAX is not met.                                       *)
TypeOK ==
    /\ pc \in {"boot", "top", "choose", "fallback", "hunting", "chosen", "tunnel", "sleep"}
    /\ forced \in MaybePeer /\ quick \in MaybePeer /\ lastGood \in MaybePeer
    /\ peer \in MaybePeer
    /\ fails \in 0..MaxFails
    /\ listed \subseteq Peers /\ avoid \subseteq Peers
    /\ left \in [Peers -> 0..Cooldown]
    /\ lasted \in 0..StayedUp

(* No endpoint is lost to the scans: as long as a run with none named by    *)
(* hand comes round, every endpoint is time and again out of the map of the *)
(* excluded, though the map is cleared in one place only.                   *)
ExclusionLapses ==
    \A p \in Peers : forced = NoPeer /\ []<>(pc = "top") => []<>(p \notin listed)

(* An endpoint whose tunnels keep ending soon does not hold the run.        *)
NotHeldForGood ==
    \A p \in Peers :
        forced = NoPeer /\ <>[](lastGood = p) /\ []<>(pc = "tunnel")
            => []<>(pc = "tunnel" /\ lasted = StayedUp)
=============================================================================
