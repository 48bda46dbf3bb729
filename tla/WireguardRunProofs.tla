------------------------- MODULE WireguardRunProofs -------------------------
(***************************************************************************)
(* Proofs about WireguardRun: its types, with the bound on the count of    *)
(* failures, and that it implements PeerPolicy.                            *)
(***************************************************************************)
EXTENDS WireguardRun, TLAPS

(* The count is under its limit except between the end of a tunnel and the *)
(* top of the loop, and there is none without an endpoint.                 *)
CountInv ==
    /\ pc \notin {"top", "sleep"} => fails < MaxFails
    /\ lastGood = NoPeer => fails = 0

(* A deadline still to come is in the map, so the scan under way knows it;  *)
(* what is in use, chosen or remembered has none; a start-up has no         *)
(* deadlines at all.                                                        *)
CoolInv ==
    /\ \A p \in Peers : left[p] > 0 => p \in listed
    /\ pc = "hunting" => forced = NoPeer /\ \A p \in Peers : left[p] > 0 => p \in avoid
    /\ pc = "boot" \/ quick # NoPeer => lastGood = NoPeer /\ left = NotCooling
    /\ quick # NoPeer => pc \in {"top", "choose"}
    /\ lastGood # NoPeer /\ forced = NoPeer => left[lastGood] = 0
    /\ pc \in {"chosen", "tunnel"} =>
          peer \in Peers /\ (forced = NoPeer => left[peer] = 0)
    /\ pc = "tunnel" => lastGood = peer

RunInv == TypeOK /\ CountInv /\ CoolInv

-----------------------------------------------------------------------------
LEMMA RunInit == Init => RunInv
<1>. SUFFICES ASSUME Init PROVE RunInv
  OBVIOUS
<1>1. /\ pc = "boot" /\ quick = NoPeer /\ lastGood = NoPeer /\ peer = NoPeer
      /\ fails = 0 /\ lasted = 0 /\ listed = {} /\ left = NotCooling /\ avoid = {}
      /\ forced \in MaybePeer
  BY WireguardRunAssumption DEF Init, MaybePeer
<1>2. TypeOK
  BY <1>1, WireguardRunAssumption DEF TypeOK, MaybePeer, NotCooling
<1>3. CountInv /\ CoolInv
  BY <1>1, WireguardRunAssumption DEF CountInv, CoolInv, NotCooling
<1>. QED
  BY <1>2, <1>3 DEF RunInv

LEMMA ForcedKept == [Next]_vars => forced' = forced
BY DEF Next, Going, StartUp, Top, ChooseQuick, RetryLastGood, UseForced, StartHunt, HuntEnds,
       StartTunnel, ReconnectDelay, TunnelEnds, Tick, Restart, vars

LEMMA TypeStep == RunInv /\ [Next]_vars => TypeOK'
<1>. SUFFICES ASSUME RunInv, [Next]_vars PROVE TypeOK'
  OBVIOUS
<1>. USE WireguardRunAssumption DEF RunInv, TypeOK, MaybePeer
<1>1. CASE StartUp
  BY <1>1 DEF StartUp, countVars
<1>2. CASE Top
  <2>1. Cooling \subseteq Peers
    BY DEF Cooling
  <2>2. listed' \subseteq Peers /\ left' \in [Peers -> 0..Cooldown] /\ fails' \in 0..MaxFails
        /\ lastGood' \in Peers \cup {NoPeer}
    BY <1>2, <2>1 DEF Top, GiveUp
  <2>. QED
    BY <1>2, <2>2 DEF Top
<1>3. CASE ChooseQuick
  BY <1>3 DEF ChooseQuick, countVars
<1>4. CASE RetryLastGood
  BY <1>4 DEF RetryLastGood, countVars
<1>5. CASE UseForced
  BY <1>5 DEF UseForced, countVars
<1>6. CASE StartHunt
  BY <1>6 DEF StartHunt, countVars
<1>7. CASE HuntEnds
  BY <1>7 DEF HuntEnds, Found, countVars
<1>8. CASE StartTunnel
  BY <1>8 DEF StartTunnel, CarriedOver
<1>9. CASE ReconnectDelay
  BY <1>9 DEF ReconnectDelay, countVars
<1>10. CASE TunnelEnds
  <2>1. fails' \in 0..MaxFails
    BY <1>10 DEF TunnelEnds, CountTunnelEnd, CountInv
  <2>. QED
    BY <1>10, <2>1 DEF TunnelEnds
<1>11. CASE Tick
  <2>1. left' \in [Peers -> 0..Cooldown] /\ lasted' \in 0..StayedUp
    BY <1>11 DEF Tick
  <2>. QED
    BY <1>11, <2>1 DEF Tick
<1>12. CASE Restart
  <2>1. left' \in [Peers -> 0..Cooldown]
    BY <1>12 DEF Restart, NotCooling
  <2>. QED
    BY <1>12, <2>1 DEF Restart
<1>13. CASE UNCHANGED vars
  BY <1>13 DEF vars, countVars
<1>. QED
  BY <1>1, <1>2, <1>3, <1>4, <1>5, <1>6, <1>7, <1>8, <1>9, <1>10, <1>11, <1>12, <1>13
     DEF Next, Going

LEMMA CountStep == RunInv /\ [Next]_vars => CountInv'
<1>. SUFFICES ASSUME RunInv, [Next]_vars PROVE CountInv'
  OBVIOUS
<1>. USE WireguardRunAssumption DEF CountInv
<1>0. /\ fails \in Nat /\ CountInv /\ lasted \in Nat
      /\ pc \in {"chosen", "tunnel"} => peer \in Peers
      /\ pc = "tunnel" => lastGood = peer
  BY DEF RunInv, TypeOK, CoolInv
<1>1. CASE StartUp \/ ChooseQuick \/ RetryLastGood \/ UseForced \/ StartHunt \/ HuntEnds
           \/ ReconnectDelay \/ Tick \/ UNCHANGED vars
  BY <1>0, <1>1 DEF StartUp, ChooseQuick, RetryLastGood, UseForced, StartHunt, HuntEnds,
                    ReconnectDelay, Tick, vars, countVars
<1>2. CASE Top
  BY <1>0, <1>2 DEF Top, Spent, GiveUp
<1>3. CASE StartTunnel
  BY <1>0, <1>3 DEF StartTunnel, CarriedOver
<1>4. CASE TunnelEnds
  BY <1>0, <1>4 DEF TunnelEnds, CountTunnelEnd
<1>5. CASE Restart
  BY <1>5 DEF Restart
<1>. QED
  BY <1>1, <1>2, <1>3, <1>4, <1>5 DEF Next, Going

LEMMA CoolStep == RunInv /\ [Next]_vars => CoolInv'
<1>. SUFFICES ASSUME RunInv, [Next]_vars PROVE CoolInv'
  OBVIOUS
<1>. forced' = forced
  BY ForcedKept
<1>. USE WireguardRunAssumption DEF CoolInv
<1>0. /\ CoolInv /\ left \in [Peers -> 0..Cooldown] /\ listed \subseteq Peers
      /\ quick \in Peers \cup {NoPeer} /\ lastGood \in Peers \cup {NoPeer}
      /\ forced \in Peers \cup {NoPeer}
  BY DEF RunInv, TypeOK, MaybePeer
<1>1. CASE StartUp
  BY <1>0, <1>1 DEF StartUp, MaybePeer, countVars
<1>2. CASE Top
  <2>1. \A p \in Peers : left[p] > 0 => p \in Cooling
    BY <1>0 DEF Cooling
  <2>2. CASE Spent
    <3>1. fails # 0 /\ quick = NoPeer /\ lastGood \in Peers
      BY <1>0, <2>2 DEF Spent, RunInv, CountInv
    <3>2. /\ lastGood' = NoPeer /\ listed' = Cooling \cup {lastGood}
          /\ left' = [left EXCEPT ![lastGood] = Cooldown] /\ pc' = "choose"
          /\ UNCHANGED <<quick, avoid, peer>>
      BY <1>2, <2>2, <3>1 DEF Top, GiveUp
    <3>3. \A p \in Peers : left'[p] > 0 => p \in listed'
      BY <1>0, <2>1, <3>1, <3>2
    <3>. QED
      BY <1>0, <3>1, <3>2, <3>3
  <2>3. CASE ~Spent
    BY <1>0, <1>2, <2>1, <2>3 DEF Top
  <2>. QED
    BY <2>2, <2>3
<1>3. CASE ChooseQuick
  BY <1>0, <1>3 DEF ChooseQuick, countVars, NotCooling
<1>4. CASE RetryLastGood
  BY <1>0, <1>4 DEF RetryLastGood, countVars
<1>5. CASE UseForced
  BY <1>0, <1>5 DEF UseForced, countVars
<1>6. CASE StartHunt
  BY <1>0, <1>6 DEF StartHunt, countVars
<1>7. CASE HuntEnds
  BY <1>0, <1>7 DEF HuntEnds, Found, countVars
<1>8. CASE StartTunnel
  BY <1>0, <1>8 DEF StartTunnel
<1>9. CASE ReconnectDelay
  BY <1>0, <1>9 DEF ReconnectDelay, countVars
<1>10. CASE TunnelEnds
  BY <1>0, <1>10 DEF TunnelEnds
<1>11. CASE Tick
  <2>1. \A p \in Peers : (left'[p] > 0 => left[p] > 0) /\ (left[p] = 0 => left'[p] = 0)
    BY <1>0, <1>11 DEF Tick
  <2>2. left = NotCooling => left' = NotCooling
    BY <1>0, <1>11 DEF Tick, NotCooling
  <2>. QED
    BY <1>0, <1>11, <2>1, <2>2 DEF Tick
<1>12. CASE Restart
  BY <1>0, <1>12 DEF Restart, NotCooling
<1>13. CASE UNCHANGED vars
  BY <1>0, <1>13 DEF vars, countVars
<1>. QED
  BY <1>1, <1>2, <1>3, <1>4, <1>5, <1>6, <1>7, <1>8, <1>9, <1>10, <1>11, <1>12, <1>13
     DEF Next, Going

(* Type correctness of the run, with a count of failures that never passes *)
(* MAX_CONSECUTIVE_FAILS, for every set of endpoints and every limit.       *)
THEOREM TypeCorrect == Spec => []TypeOK
<1>1. RunInv /\ [Next]_vars => RunInv'
  BY TypeStep, CountStep, CoolStep DEF RunInv
<1>2. RunInv => TypeOK
  BY DEF RunInv
<1>. QED
  BY RunInit, <1>1, <1>2, PTL DEF Spec

-----------------------------------------------------------------------------
Excluded == IF forced = NoPeer THEN {p \in Peers : left[p] > 0} ELSE {}

(* A step that changes none of what the policy sees is a stutter of it.     *)
LEMMA PolicyStutter ==
    ASSUME forced' = forced, lastGood' = lastGood, fails' = fails, left' = left,
           (pc' = "boot") <=> (pc = "boot"), (pc' = "tunnel") <=> (pc = "tunnel")
    PROVE  UNCHANGED Policy!pvars
BY DEF Policy!pvars

(* Every step of the run is a step of the policy, or none.                  *)
LEMMA PolicyStep ==
    RunInv /\ [Next]_vars => [Policy!Next]_(Policy!pvars)
<1>. SUFFICES ASSUME RunInv, [Next]_vars PROVE [Policy!Next]_(Policy!pvars)
  OBVIOUS
<1>. USE WireguardRunAssumption
<1>0. /\ forced' = forced /\ fails \in 0..MaxFails /\ lasted \in Nat
      /\ lastGood \in Peers \cup {NoPeer} /\ left \in [Peers -> 0..Cooldown]
      /\ pc \in {"chosen", "tunnel"} =>
            peer \in Peers /\ (forced = NoPeer => left[peer] = 0)
      /\ CountInv
  BY ForcedKept DEF RunInv, TypeOK, MaybePeer, CoolInv
<1>1. CASE StartUp
  <2>1. Policy!Start
    BY <1>0, <1>1 DEF StartUp, countVars, Policy!Start
  <2>. QED
    BY <2>1 DEF Policy!Next
<1>2. CASE ChooseQuick \/ RetryLastGood \/ UseForced \/ StartHunt \/ HuntEnds
           \/ ReconnectDelay \/ UNCHANGED vars
  BY <1>0, <1>2, PolicyStutter
     DEF ChooseQuick, RetryLastGood, UseForced, StartHunt, HuntEnds, ReconnectDelay,
         vars, countVars
<1>3. CASE Top
  <2>1. CASE Spent
    <3>1. lastGood \in Peers /\ fails = MaxFails
      BY <1>0, <2>1 DEF Spent, CountInv
    <3>2. /\ pc = "top" /\ pc' = "choose" /\ lastGood' = NoPeer /\ fails' = 0
          /\ left' = [left EXCEPT ![lastGood] = Cooldown]
      BY <1>3, <2>1, <3>1 DEF Top, GiveUp
    <3>3. Excluded' = IF forced # NoPeer THEN Excluded ELSE Excluded \cup {lastGood}
      BY <1>0, <3>1, <3>2 DEF Excluded
    <3>4. Policy!GiveUp
      BY <1>0, <3>1, <3>2, <3>3 DEF Policy!GiveUp, Excluded
    <3>. QED
      BY <3>4 DEF Policy!Next
  <2>2. CASE ~Spent
    BY <1>0, <1>3, <2>2, PolicyStutter DEF Top
  <2>. QED
    BY <2>1, <2>2
<1>4. CASE StartTunnel
  <2>1. /\ pc = "chosen" /\ pc' = "tunnel" /\ peer \in Peers /\ left' = left
        /\ lastGood' = peer /\ fails < MaxFails
        /\ fails' = IF peer = lastGood THEN fails ELSE 0
    BY <1>0, <1>4 DEF StartTunnel, CarriedOver, CountInv
  <2>2. forced = NoPeer => peer \notin {p \in Peers : left[p] > 0}
    BY <1>0, <2>1
  <2>3. Policy!Begin(peer)
    BY <1>0, <2>1, <2>2 DEF Policy!Begin
  <2>. QED
    BY <2>1, <2>3 DEF Policy!Next
<1>5. CASE TunnelEnds
  <2>1. /\ pc = "tunnel" /\ pc' = "sleep" /\ UNCHANGED <<lastGood, left>>
        /\ fails < MaxFails /\ fails' = IF lasted >= StayedUp THEN 0 ELSE fails + 1
    BY <1>0, <1>5 DEF TunnelEnds, CountTunnelEnd, CountInv
  <2>2. CASE lasted >= StayedUp
    <3>1. Policy!EndLate
      BY <1>0, <2>1, <2>2 DEF Policy!EndLate
    <3>. QED
      BY <3>1 DEF Policy!Next
  <2>3. CASE ~(lasted >= StayedUp)
    <3>1. Policy!EndSoon
      BY <1>0, <2>1, <2>3 DEF Policy!EndSoon
    <3>. QED
      BY <3>1 DEF Policy!Next
  <2>. QED
    BY <2>2, <2>3
<1>6. CASE Tick
  <2>1. \A p \in Peers : left'[p] > 0 => left[p] > 0
    BY <1>0, <1>6 DEF Tick
  <2>2. Policy!Recover
    BY <1>0, <1>6, <2>1 DEF Tick, Policy!Recover
  <2>. QED
    BY <2>2 DEF Policy!Next
<1>7. CASE Restart
  <2>1. \A p \in Peers : ~(left'[p] > 0)
    BY <1>7 DEF Restart, NotCooling
  <2>2. Policy!Restart
    BY <1>0, <1>7, <2>1 DEF Restart, Policy!Restart
  <2>. QED
    BY <2>2 DEF Policy!Next
<1>. QED
  BY <1>1, <1>2, <1>3, <1>4, <1>5, <1>6, <1>7 DEF Next, Going

(* The WireGuard run implements the policy of the MASQUE run, for every set *)
(* of endpoints, every limit and every outcome of verifications and scans.  *)
THEOREM RunKeepsPolicy == Spec => KeepsPolicy
<1>1. Init => Policy!Init
  <2>. SUFFICES ASSUME Init PROVE Policy!Init
    OBVIOUS
  <2>0. left = NotCooling
    BY Zenon DEF Init
  <2>1. {p \in Peers : left[p] > 0} = {}
    BY <2>0 DEF NotCooling
  <2>2. pc = "boot" /\ lastGood = NoPeer /\ fails = 0
    BY DEF Init
  <2>. QED
    BY <2>1, <2>2, WireguardRunAssumption DEF Policy!Init
<1>2. RunInv /\ [Next]_vars => RunInv'
  BY TypeStep, CountStep, CoolStep DEF RunInv
<1>3. RunInv /\ [Next]_vars => [Policy!Next]_(Policy!pvars)
  BY PolicyStep
<1>. QED
  BY RunInit, <1>1, <1>2, <1>3, PTL DEF Spec, KeepsPolicy, Policy!Spec
=============================================================================
