----------------------------- MODULE GatewayRun -----------------------------
(***************************************************************************)
(* The supervisor of a MASQUE run: run_masque and GatewayStrikes of        *)
(* aether/src/lib.rs with the remembered gateways of lastconn.rs.          *)
(*                                                                         *)
(* The run picks a gateway (forced, assigned, remembered, last known good, *)
(* or found by a scan), runs one tunnel after another through it, counts   *)
(* the tunnels that end soon, and leaves a gateway that fails Strikes      *)
(* times in a row, resting its address for Rest.  The process may die at   *)
(* any await and be started again; only the lastconn file survives.        *)
(* Time is a counter in steps of Tick; verification, scans and tunnels     *)
(* have every outcome.                                                     *)
(***************************************************************************)
EXTENDS Integers, Sequences, FiniteSets

CONSTANTS
    Peers,      \* gateways, an address and a port each (SocketAddr)
    Ips,        \* their addresses
    IpOf,       \* the address of each gateway
    NoPeer,     \* None
    Named,      \* what AETHER_PEER may be: gateways, or NoPeer
    Assigned,   \* AETHER_TEAM_ENDPOINT, or NoPeer
    Carriers,   \* lastconn::CARRIER_*
    Strikes,    \* MASQUE_GATEWAY_STRIKES
    Rest,       \* MASQUE_GATEWAY_REST, in ticks
    StayedUp,   \* TUNNEL_STAYED_UP, in ticks
    MaxCount,   \* u32::MAX, where saturating_add stops
    RecentCap   \* lastconn::RECENT_CAP

ASSUME GatewayRunAssumption ==
    /\ IpOf \in [Peers -> Ips]
    /\ NoPeer \notin Peers
    /\ Named \subseteq Peers \cup {NoPeer} /\ Assigned \in Peers \cup {NoPeer}
    /\ Strikes \in Nat \ {0} /\ Rest \in Nat \ {0} /\ StayedUp \in Nat \ {0}
    /\ MaxCount \in Nat /\ MaxCount >= Strikes
    /\ RecentCap \in Nat \ {0}

(* A carrier's name is neither that of no carrier nor that of no record.   *)
ASSUME CarriersAssumption == "" \notin Carriers /\ "none" \notin Carriers

VARIABLES
    pc,         \* where run_masque is
    quick,      \* quick_peer
    lastGood,   \* last_good_peer
    current,    \* GatewayStrikes.current
    inARow,     \* GatewayStrikes.in_a_row
    resting,    \* GatewayStrikes.resting: ticks an address has still to rest
    avoid,      \* the addresses the scan under way leaves out
    untried,    \* remembered gateways the start-up has still to verify
    peer,       \* the gateway chosen for the next tunnel, or in use
    lasted,     \* how long the tunnel has been up, up to StayedUp
    forced,     \* AETHER_PEER
    carrier,    \* masque_carrier() of this process
    record,     \* what lastconn::save is about to write
    file        \* the lastconn file

strikeVars == <<current, inARow, resting>>
diskVars == <<forced, carrier, record, file>>
vars == <<pc, quick, lastGood, strikeVars, avoid, untried, peer, lasted, diskVars>>

-----------------------------------------------------------------------------
MaybePeer == Peers \cup {NoPeer}
NoRest == [ip \in Ips |-> 0]
Records == [carrier : Carriers \cup {"", "none"}, peer : MaybePeer, recent : Seq(Peers)]
Unreadable == [carrier |-> "none", peer |-> NoPeer, recent |-> <<>>]
PCs == {"boot", "cache", "ring", "top", "choose", "fallback", "hunting",
        "chosen", "saving", "tunnel", "sleep"}

Init ==
    /\ pc = "boot"
    /\ quick = NoPeer /\ lastGood = NoPeer /\ current = NoPeer /\ peer = NoPeer
    /\ inARow = 0 /\ lasted = 0
    /\ resting = NoRest
    /\ avoid = {}
    /\ untried = <<>>
    /\ forced \in Named
    /\ carrier \in Carriers
    /\ record = Unreadable
    /\ \/ file = Unreadable
       \/ \E p \in Peers : file = [carrier |-> "", peer |-> p, recent |-> <<>>]

-----------------------------------------------------------------------------
(* GatewayStrikes                                                          *)

(* Variant: the count does not saturate. *)
CountTunnelEndWide(row, up) == IF up >= StayedUp THEN 0 ELSE row + 1

(* count_tunnel_end *)
CountTunnelEnd(row, up) ==
    IF up >= StayedUp THEN 0 ELSE IF row < MaxCount THEN row + 1 ELSE row

(* Variant: every tunnel starts with none, the same gateway too. *)
UsingAnew(p) == current' = p /\ inARow' = 0

(* using: another gateway than the last starts with none. *)
Using(p) ==
    /\ current' = p
    /\ inARow' = IF current = p THEN inARow ELSE 0

(* left_out *)
LeftOut == {ip \in Ips : resting[ip] > 0}

-----------------------------------------------------------------------------
(* lastconn                                                                *)

(* Variant: the gateway saved again stays where it was too. *)
WithoutNone(s, p) == s

(* The entries other than p.  The file names no gateway twice (RingSound), *)
(* so leaving out one entry leaves out every one.                          *)
Without(s, p) ==
    IF \E i \in 1..Len(s) : s[i] = p
    THEN LET i == CHOOSE j \in 1..Len(s) : s[j] = p
         IN  SubSeq(s, 1, i - 1) \o SubSeq(s, i + 1, Len(s))
    ELSE s

Capped(s) == SubSeq(s, 1, IF Len(s) < RecentCap THEN Len(s) ELSE RecentCap)

(* A file written before the carriers were told apart names none. *)
SameCarrier == file.carrier \in {carrier, ""}

(* save: the gateway in use first, then those remembered for this carrier. *)
Remembered(p) ==
    [carrier |-> carrier, peer |-> p,
     recent |-> Capped(<<p>> \o (IF SameCarrier THEN Without(file.recent, p) ELSE <<>>))]

(* load and usable_peers: gateways saved for another carrier are ignored.  *)
UsablePeers == IF SameCarrier /\ file.peer # NoPeer
               THEN <<file.peer>> \o Without(file.recent, file.peer) ELSE <<>>

-----------------------------------------------------------------------------
(* Start-up                                                                *)

BootForced ==
    /\ pc = "boot" /\ forced # NoPeer
    /\ pc' = "top"
    /\ UNCHANGED <<quick, lastGood, strikeVars, avoid, untried, peer, lasted, diskVars>>

(* An assigned endpoint is verified; without one, or without its answer,   *)
(* the cache is next.                                                      *)
BootAssigned ==
    /\ pc = "boot" /\ forced = NoPeer
    /\ \/ Assigned # NoPeer /\ quick' = Assigned /\ pc' = "top"
       \/ UNCHANGED quick /\ pc' = "cache"
    /\ UNCHANGED <<lastGood, strikeVars, avoid, untried, peer, lasted, diskVars>>

(* The file is loaded; want_quick_reconnect may decline it.                *)
LoadCache ==
    /\ pc = "cache"
    /\ \/ untried' = UsablePeers /\ pc' = "ring"
       \/ UNCHANGED untried /\ pc' = "top"
    /\ UNCHANGED <<quick, lastGood, strikeVars, avoid, peer, lasted, diskVars>>

VerifyCached ==
    /\ pc = "ring" /\ untried # <<>>
    /\ \/ /\ quick' = Head(untried)
          /\ pc' = "top"
          /\ untried' = <<>>
       \/ /\ untried' = Tail(untried)
          /\ UNCHANGED <<quick, pc>>
    /\ UNCHANGED <<lastGood, strikeVars, avoid, peer, lasted, diskVars>>

CacheExhausted ==
    /\ pc = "ring" /\ untried = <<>>
    /\ pc' = "top"
    /\ UNCHANGED <<quick, lastGood, strikeVars, avoid, untried, peer, lasted, diskVars>>

-----------------------------------------------------------------------------
(* The loop                                                                *)

(* Variant: a gateway named by hand is given up like any other. *)
TopForcedToo ==
    /\ pc = "top"
    /\ pc' = "choose"
    /\ IF inARow >= Strikes /\ current # NoPeer
       THEN /\ inARow' = 0 /\ current' = NoPeer /\ lastGood' = NoPeer
            /\ resting' = [resting EXCEPT ![IpOf[current]] = Rest]
       ELSE UNCHANGED <<strikeVars, lastGood>>
    /\ UNCHANGED <<quick, avoid, untried, peer, lasted, diskVars>>

(* Variant: the gateway given up stays the last known-good one. *)
TopKeepsLastGood ==
    /\ pc = "top"
    /\ pc' = "choose"
    /\ IF forced = NoPeer /\ inARow >= Strikes /\ current # NoPeer
       THEN /\ inARow' = 0 /\ current' = NoPeer
            /\ resting' = [resting EXCEPT ![IpOf[current]] = Rest]
       ELSE UNCHANGED strikeVars
    /\ UNCHANGED <<quick, lastGood, avoid, untried, peer, lasted, diskVars>>

(* Variant: one strike more is forgiven. *)
TopLate ==
    /\ pc = "top"
    /\ pc' = "choose"
    /\ IF forced = NoPeer /\ inARow > Strikes /\ current # NoPeer
       THEN /\ inARow' = 0 /\ current' = NoPeer /\ lastGood' = NoPeer
            /\ resting' = [resting EXCEPT ![IpOf[current]] = Rest]
       ELSE UNCHANGED <<strikeVars, lastGood>>
    /\ UNCHANGED <<quick, avoid, untried, peer, lasted, diskVars>>

(* give_up, skipped for a forced gateway: enough strikes rest the address. *)
Top ==
    /\ pc = "top"
    /\ pc' = "choose"
    /\ IF forced = NoPeer /\ inARow >= Strikes
       THEN /\ inARow' = 0
            /\ current' = NoPeer
            /\ resting' = IF current = NoPeer THEN resting
                          ELSE [resting EXCEPT ![IpOf[current]] = Rest]
            /\ lastGood' = IF current = NoPeer THEN lastGood ELSE NoPeer
       ELSE UNCHANGED <<strikeVars, lastGood>>
    /\ UNCHANGED <<quick, avoid, untried, peer, lasted, diskVars>>

ChooseQuick ==
    /\ pc = "choose" /\ quick # NoPeer
    /\ peer' = quick /\ quick' = NoPeer
    /\ pc' = "chosen"
    /\ UNCHANGED <<lastGood, strikeVars, avoid, untried, lasted, diskVars>>

(* The last known-good gateway is verified before a new scan.              *)
RetryLastGood ==
    /\ pc = "choose" /\ quick = NoPeer /\ lastGood # NoPeer
    /\ \/ peer' = lastGood /\ pc' = "chosen"
       \/ UNCHANGED peer /\ pc' = "fallback"
    /\ UNCHANGED <<quick, lastGood, strikeVars, avoid, untried, lasted, diskVars>>

NoLastGood ==
    /\ pc = "choose" /\ quick = NoPeer /\ lastGood = NoPeer
    /\ pc' = "fallback"
    /\ UNCHANGED <<quick, lastGood, strikeVars, avoid, untried, peer, lasted, diskVars>>

UseForced ==
    /\ pc = "fallback" /\ forced # NoPeer
    /\ peer' = forced
    /\ pc' = "chosen"
    /\ UNCHANGED <<quick, lastGood, strikeVars, avoid, untried, lasted, diskVars>>

StartHunt ==
    /\ pc = "fallback" /\ forced = NoPeer
    /\ avoid' = LeftOut
    /\ pc' = "hunting"
    /\ UNCHANGED <<quick, lastGood, strikeVars, untried, peer, lasted, diskVars>>

HuntFinds ==
    /\ pc = "hunting"
    /\ \E p \in {q \in Peers : IpOf[q] \notin avoid} : peer' = p
    /\ avoid' = {}
    /\ pc' = "chosen"
    /\ UNCHANGED <<quick, lastGood, strikeVars, untried, lasted, diskVars>>

HuntFails ==
    /\ pc = "hunting"
    /\ avoid' = {}
    /\ pc' = "sleep"
    /\ UNCHANGED <<quick, lastGood, strikeVars, untried, peer, lasted, diskVars>>

(* lastconn::save reads the file, truncates it, then writes: between the   *)
(* two a process that dies, or a write that fails, leaves it unreadable.   *)
SaveTruncate ==
    /\ pc = "chosen" /\ forced = NoPeer
    /\ record' = Remembered(peer)
    /\ file' = Unreadable
    /\ pc' = "saving"
    /\ UNCHANGED <<quick, lastGood, strikeVars, avoid, untried, peer, lasted, forced, carrier>>

StartTunnel ==
    /\ lastGood' = peer
    /\ Using(peer)
    /\ lasted' = 0
    /\ pc' = "tunnel"

SaveWrite ==
    /\ pc = "saving"
    /\ file' \in {Unreadable, record}
    /\ record' = Unreadable
    /\ StartTunnel
    /\ UNCHANGED <<quick, resting, avoid, untried, peer, forced, carrier>>

ForcedTunnel ==
    /\ pc = "chosen" /\ forced # NoPeer
    /\ StartTunnel
    /\ UNCHANGED <<quick, resting, avoid, untried, peer, diskVars>>

TunnelEnds ==
    /\ pc = "tunnel"
    /\ inARow' = CountTunnelEnd(inARow, lasted)
    /\ pc' = "sleep"
    /\ UNCHANGED <<quick, lastGood, current, resting, avoid, untried, peer, lasted, diskVars>>

ReconnectDelay ==
    /\ pc = "sleep"
    /\ pc' = "top"
    /\ UNCHANGED <<quick, lastGood, strikeVars, avoid, untried, peer, lasted, diskVars>>

-----------------------------------------------------------------------------
(* Time passes at every await.                                             *)
Tick ==
    /\ resting' = [ip \in Ips |-> IF resting[ip] > 0 THEN resting[ip] - 1 ELSE 0]
    /\ lasted' = IF pc = "tunnel" /\ lasted < StayedUp THEN lasted + 1 ELSE lasted
    /\ UNCHANGED <<pc, quick, lastGood, current, inARow, avoid, untried, peer, diskVars>>

(* The process ends and is started again, perhaps on the other carrier.    *)
Restart ==
    /\ pc' = "boot"
    /\ quick' = NoPeer /\ lastGood' = NoPeer /\ current' = NoPeer /\ peer' = NoPeer
    /\ inARow' = 0 /\ lasted' = 0
    /\ resting' = NoRest
    /\ avoid' = {}
    /\ untried' = <<>>
    /\ carrier' \in Carriers
    /\ record' = Unreadable
    /\ UNCHANGED <<forced, file>>

-----------------------------------------------------------------------------
StartUp == BootForced \/ BootAssigned \/ LoadCache \/ VerifyCached \/ CacheExhausted

Choosing == \/ ChooseQuick \/ RetryLastGood \/ NoLastGood
            \/ UseForced \/ StartHunt \/ HuntFinds \/ HuntFails

Running == SaveTruncate \/ SaveWrite \/ ForcedTunnel \/ ReconnectDelay

Next == StartUp \/ Top \/ Choosing \/ Running \/ TunnelEnds \/ Tick \/ Restart

(* The run goes on whenever it can; a tunnel may stay up for ever.         *)
Fairness == WF_vars(StartUp \/ Top \/ Choosing \/ Running) /\ WF_vars(Tick)

Spec == Init /\ [][Next]_vars /\ Fairness

-----------------------------------------------------------------------------
(* The policy this run implements: strikes and rests are per address.      *)
Policy == INSTANCE PeerPolicy WITH
    AddressOf <- IpOf,
    fresh <- (pc = "boot"), pinned <- forced # NoPeer,
    using <- current, live <- (pc = "tunnel"),
    row <- IF inARow < Strikes THEN inARow ELSE Strikes, excluded <- LeftOut

(* The run keeps the policy: no scan, retry, remembered or assigned gateway, *)
(* no lapse of time and no restart makes it start a tunnel that the policy   *)
(* forbids, or give a gateway up, and exclude its address, before its        *)
(* strikes are used up.  (It may begin with another one at any time, as it   *)
(* does when the last good one does not answer.)                             *)
KeepsPolicy == Policy!Spec

(* Every variable has its type; the strike count never passes u32::MAX.    *)
TypeOK ==
    /\ pc \in PCs
    /\ quick \in MaybePeer /\ lastGood \in MaybePeer /\ current \in MaybePeer
    /\ peer \in MaybePeer
    /\ inARow \in 0..MaxCount
    /\ resting \in [Ips -> 0..Rest]
    /\ avoid \subseteq Ips
    /\ untried \in Seq(Peers)
    /\ lasted \in 0..StayedUp
    /\ forced \in MaybePeer /\ carrier \in Carriers
    /\ record \in Records /\ file \in Records

(* A gateway the run gave up on is left alone while its address rests:     *)
(* neither the tunnel in use, nor the gateway chosen for the next one, nor *)
(* the one remembered as good has an address that rests.                   *)
RestRespected ==
    forced = NoPeer =>
        \A p \in Peers :
            (current = p \/ lastGood = p \/ (pc \in {"chosen", "saving", "tunnel"} /\ peer = p))
                => resting[IpOf[p]] = 0

(* A gateway named by hand stays, whatever happens to it: the run uses no   *)
(* other, rests none and does not remember it.                              *)
ForcedStays ==
    forced # NoPeer =>
        /\ LeftOut = {}
        /\ pc = "tunnel" => peer = forced
        /\ file.carrier \notin Carriers

(* The ring of the file is sound, whatever restarts, lost writes and        *)
(* changes of carrier came before: at most RecentCap gateways, each of them *)
(* once, the one in use first.                                              *)
RingSound ==
    /\ Len(file.recent) <= RecentCap
    /\ \A i, j \in 1..Len(file.recent) : file.recent[i] = file.recent[j] => i = j
    /\ file.recent # <<>> => file.recent[1] = file.peer

(* A gateway whose tunnels keep ending soon does not hold the run for good: *)
(* a run that starts tunnel after tunnel and stays on one gateway has       *)
(* tunnels that stay up for TUNNEL_STAYED_UP.                               *)
NotHeldForGood ==
    \A p \in Peers :
        forced = NoPeer /\ <>[](current = p) /\ []<>(pc = "tunnel")
            => []<>(pc = "tunnel" /\ lasted = StayedUp)
=============================================================================
