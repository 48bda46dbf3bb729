-------------------------- MODULE GatewayRunProofs --------------------------
(***************************************************************************)
(* Proofs about GatewayRun and GatewayHistory: types, that a resting       *)
(* address is left alone, and that a gateway is left after its strikes.    *)
(***************************************************************************)
EXTENDS GatewayHistory, SequenceTheorems, TLAPS

(* What makes RestRespected inductive: the last known-good gateway is the  *)
(* one in use, a start-up has nothing at rest, and a scan under way leaves *)
(* out every address that rests.                                           *)
RestInv ==
    /\ lastGood = current
    /\ pc \in {"boot", "cache", "ring"} \/ quick # NoPeer =>
          current = NoPeer /\ inARow = 0 /\ LeftOut = {}
    /\ quick # NoPeer => pc \in {"top", "choose"}
    /\ current # NoPeer /\ forced = NoPeer => resting[IpOf[current]] = 0
    /\ pc \in {"chosen", "saving", "tunnel"} =>
          peer \in Peers /\ (forced = NoPeer => resting[IpOf[peer]] = 0)
    /\ pc = "tunnel" => current = peer
    /\ pc = "hunting" => forced = NoPeer /\ LeftOut \subseteq avoid

(* What makes GatewayLeft inductive: the run's count and the history agree, *)
(* or the history is empty, or a tunnel through another gateway has begun.  *)
HistInv ==
    /\ hist \in [last : MaybePeer, row : 0..Strikes]
    /\ forced = NoPeer =>
        /\ inARow <= Strikes
        /\ pc \notin {"top", "sleep"} => inARow < Strikes
        /\ \/ current # NoPeer /\ current = hist.last /\ inARow = hist.row
           \/ current = NoPeer /\ hist.row = 0 /\ inARow = 0
           \/ pc = "tunnel" /\ inARow = 0 /\ current # hist.last

-----------------------------------------------------------------------------
(* The pieces of a sequence of gateways are sequences of gateways.          *)
LEMMA WithoutType ==
    ASSUME NEW s \in Seq(Peers), NEW p
    PROVE  Without(s, p) \in Seq(Peers)
<1>1. CASE \E i \in 1..Len(s) : s[i] = p
  <2>. DEFINE i == CHOOSE j \in 1..Len(s) : s[j] = p
  <2>1. i \in 1..Len(s)
    BY <1>1
  <2>2. SubSeq(s, 1, i - 1) \in Seq(Peers) /\ SubSeq(s, i + 1, Len(s)) \in Seq(Peers)
    <3>. HIDE DEF i
    <3>1. Len(s) \in Nat /\ i \in 1..Len(s)
      BY <2>1, LenProperties
    <3>2. \A j \in 1..(i - 1) : j \in 1..Len(s)
      BY <3>1
    <3>3. \A j \in (i + 1)..Len(s) : j \in 1..Len(s)
      BY <3>1
    <3>. QED
      BY <3>1, <3>2, <3>3, SubSeqProperties
  <2>3. SubSeq(s, 1, i - 1) \o SubSeq(s, i + 1, Len(s)) \in Seq(Peers)
    BY <2>2, ConcatProperties
  <2>. QED
    BY <1>1, <2>3 DEF Without
<1>2. CASE ~ \E i \in 1..Len(s) : s[i] = p
  BY <1>2 DEF Without
<1>. QED
  BY <1>1, <1>2

(* What lastconn::save writes is a record, and what load finds usable is a  *)
(* sequence of gateways.                                                    *)
LEMMA RememberedType ==
    ASSUME TypeOK, NEW p \in Peers
    PROVE  Remembered(p) \in Records
<1>. DEFINE rest == IF SameCarrier THEN Without(file.recent, p) ELSE <<>>
<1>1. file.recent \in Seq(Peers) /\ carrier \in Carriers
  BY DEF TypeOK, Records
<1>2. rest \in Seq(Peers)
  BY <1>1, WithoutType
<1>3. <<p>> \o rest \in Seq(Peers)
  <2>1. <<p>> \in Seq(Peers)
    OBVIOUS
  <2>. QED
    BY <1>2, <2>1, ConcatProperties
<1>4. Capped(<<p>> \o rest) \in Seq(Peers)
  <2>. DEFINE whole == <<p>> \o rest
  <2>1. ASSUME NEW w \in Seq(Peers) PROVE Capped(w) \in Seq(Peers)
    BY SubSeqProperties, GatewayRunAssumption DEF Capped
  <2>. QED
    BY <1>3, <2>1
<1>. QED
  BY <1>1, <1>4 DEF Remembered, Records, MaybePeer

LEMMA UsableType ==
    ASSUME TypeOK
    PROVE  UsablePeers \in Seq(Peers)
<1>1. file.recent \in Seq(Peers) /\ file.peer \in Peers \cup {NoPeer}
  BY DEF TypeOK, Records, MaybePeer
<1>2. CASE SameCarrier /\ file.peer # NoPeer
  <2>1. <<file.peer>> \in Seq(Peers)
    BY <1>1, <1>2
  <2>2. Without(file.recent, file.peer) \in Seq(Peers)
    BY <1>1, WithoutType
  <2>. QED
    BY <1>2, <2>1, <2>2, ConcatProperties DEF UsablePeers
<1>3. CASE ~(SameCarrier /\ file.peer # NoPeer)
  BY <1>3 DEF UsablePeers
<1>. QED
  BY <1>2, <1>3

-----------------------------------------------------------------------------
(* The two inductive invariants are proved together with the types.         *)
RunInv == TypeOK /\ RestInv

LEMMA UnreadableType == Unreadable \in Records
BY DEF Unreadable, Records, MaybePeer

LEMMA RunInit == Init => RunInv
<1>. SUFFICES ASSUME Init PROVE RunInv
  OBVIOUS
<1>2. file \in Records
  <2>1. ASSUME NEW p \in Peers PROVE [carrier |-> "", peer |-> p, recent |-> <<>>] \in Records
    BY DEF Records, MaybePeer
  <2>. QED
    BY UnreadableType, <2>1 DEF Init
<1>1. /\ untried = <<>> /\ avoid = {} /\ resting = NoRest /\ inARow = 0 /\ lasted = 0
      /\ pc = "boot" /\ quick = NoPeer /\ lastGood = NoPeer /\ current = NoPeer
      /\ peer = NoPeer /\ carrier \in Carriers /\ record = Unreadable
  BY Zenon DEF Init
<1>5. forced \in MaybePeer
  BY GatewayRunAssumption DEF Init, MaybePeer
<1>3. TypeOK
  <2>1. resting \in [Ips -> 0..Rest]
    BY <1>1, GatewayRunAssumption DEF NoRest
  <2>2. untried \in Seq(Peers) /\ avoid \subseteq Ips
    BY <1>1
  <2>3. inARow \in 0..MaxCount /\ lasted \in 0..StayedUp
    BY <1>1, GatewayRunAssumption
  <2>. QED
    BY <1>2, <1>5, <2>1, <2>2, <2>3, <1>1, UnreadableType DEF TypeOK, PCs, MaybePeer
<1>4. RestInv
  <2>1. LeftOut = {}
    BY <1>1 DEF NoRest, LeftOut
  <2>. QED
    BY <1>1, <2>1 DEF RestInv
<1>. QED
  BY <1>3, <1>4 DEF RunInv

(* What is named by hand is named for good.                                 *)
LEMMA ForcedKept == [Next]_vars => forced' = forced
BY DEF Next, StartUp, BootForced, BootAssigned, LoadCache, VerifyCached, CacheExhausted,
       Choosing, ChooseQuick, RetryLastGood, NoLastGood, UseForced, StartHunt, HuntFinds,
       HuntFails, Running, SaveTruncate, SaveWrite, ForcedTunnel, ReconnectDelay, Top,
       TunnelEnds, Tick, Restart, vars, diskVars

LEMMA TypeStep == RunInv /\ [Next]_vars => TypeOK'
<1>. SUFFICES ASSUME RunInv, [Next]_vars PROVE TypeOK'
  OBVIOUS
<1>. USE GatewayRunAssumption DEF RunInv
<1>. USE DEF TypeOK, PCs, MaybePeer
<1>1. CASE BootForced
  BY <1>1 DEF BootForced, strikeVars, diskVars
<1>2. CASE BootAssigned
  BY <1>2 DEF BootAssigned, strikeVars, diskVars
<1>3. CASE LoadCache
  BY <1>3, UsableType DEF LoadCache, strikeVars, diskVars
<1>4. CASE VerifyCached
  <2>1. Head(untried) \in Peers /\ Tail(untried) \in Seq(Peers) /\ <<>> \in Seq(Peers)
    BY <1>4, HeadTailProperties DEF VerifyCached
  <2>2. quick' \in MaybePeer /\ untried' \in Seq(Peers) /\ pc' \in PCs
    BY <1>4, <2>1 DEF VerifyCached
  <2>. QED
    BY <1>4, <2>2 DEF VerifyCached, strikeVars, diskVars
<1>5. CASE CacheExhausted
  BY <1>5 DEF CacheExhausted, strikeVars, diskVars
<1>6. CASE Top
  BY <1>6 DEF Top, strikeVars, diskVars
<1>7. CASE ChooseQuick
  BY <1>7 DEF ChooseQuick, strikeVars, diskVars
<1>8. CASE RetryLastGood
  BY <1>8 DEF RetryLastGood, strikeVars, diskVars
<1>9. CASE NoLastGood
  BY <1>9 DEF NoLastGood, strikeVars, diskVars
<1>10. CASE UseForced
  BY <1>10 DEF UseForced, strikeVars, diskVars
<1>11. CASE StartHunt
  BY <1>11 DEF StartHunt, LeftOut, strikeVars, diskVars
<1>12. CASE HuntFinds
  BY <1>12 DEF HuntFinds, strikeVars, diskVars
<1>13. CASE HuntFails
  BY <1>13 DEF HuntFails, strikeVars, diskVars
<1>14. CASE SaveTruncate
  BY <1>14, UnreadableType, RememberedType DEF SaveTruncate, RestInv, strikeVars, diskVars
<1>15. CASE SaveWrite
  BY <1>15, UnreadableType DEF SaveWrite, StartTunnel, Using, RestInv
<1>16. CASE ForcedTunnel
  BY <1>16 DEF ForcedTunnel, StartTunnel, Using, RestInv, diskVars
<1>17. CASE ReconnectDelay
  BY <1>17 DEF ReconnectDelay, strikeVars, diskVars
<1>18. CASE TunnelEnds
  BY <1>18 DEF TunnelEnds, CountTunnelEnd, strikeVars, diskVars
<1>19. CASE Tick
  BY <1>19 DEF Tick, diskVars
<1>20. CASE Restart
  BY <1>20, UnreadableType DEF Restart, NoRest
<1>21. CASE UNCHANGED vars
  BY <1>21 DEF vars, strikeVars, diskVars
<1>. QED
  BY <1>1, <1>2, <1>3, <1>4, <1>5, <1>6, <1>7, <1>8, <1>9, <1>10,
     <1>11, <1>12, <1>13, <1>14, <1>15, <1>16, <1>17, <1>18, <1>19, <1>20, <1>21
     DEF Next, StartUp, Choosing, Running

LEMMA RestStep == RunInv /\ [Next]_vars => RestInv'
<1>. SUFFICES ASSUME RunInv, [Next]_vars PROVE RestInv'
  OBVIOUS
<1>. forced' = forced
  BY ForcedKept
<1>. USE GatewayRunAssumption DEF RunInv
<1>. USE DEF RestInv
<1>0. /\ quick \in Peers \cup {NoPeer} /\ lastGood \in Peers \cup {NoPeer}
      /\ current \in Peers \cup {NoPeer} /\ inARow \in Nat
      /\ resting \in [Ips -> 0..Rest] /\ forced \in Peers \cup {NoPeer}
      /\ LeftOut = {} => \A p \in Peers : resting[IpOf[p]] = 0
  BY DEF TypeOK, MaybePeer, LeftOut
<1>1. CASE BootForced
  BY <1>1, <1>0 DEF BootForced, LeftOut, strikeVars, diskVars
<1>2. CASE BootAssigned
  BY <1>2, <1>0 DEF BootAssigned, LeftOut, strikeVars, diskVars
<1>3. CASE LoadCache
  BY <1>3, <1>0 DEF LoadCache, LeftOut, strikeVars, diskVars
<1>4. CASE VerifyCached
  BY <1>4, <1>0 DEF VerifyCached, LeftOut, strikeVars, diskVars
<1>5. CASE CacheExhausted
  BY <1>5, <1>0 DEF CacheExhausted, LeftOut, strikeVars, diskVars
<1>6. CASE Top
  BY <1>6, <1>0 DEF Top, LeftOut, strikeVars, diskVars
<1>7. CASE ChooseQuick
  BY <1>7, <1>0 DEF ChooseQuick, LeftOut, strikeVars, diskVars
<1>8. CASE RetryLastGood
  BY <1>8, <1>0 DEF RetryLastGood, LeftOut, strikeVars, diskVars
<1>9. CASE NoLastGood
  BY <1>9, <1>0 DEF NoLastGood, LeftOut, strikeVars, diskVars
<1>10. CASE UseForced
  BY <1>10, <1>0 DEF UseForced, LeftOut, strikeVars, diskVars
<1>11. CASE StartHunt
  BY <1>11, <1>0 DEF StartHunt, LeftOut, strikeVars, diskVars
<1>12. CASE HuntFinds
  BY <1>12, <1>0 DEF HuntFinds, LeftOut, strikeVars, diskVars
<1>13. CASE HuntFails
  BY <1>13, <1>0 DEF HuntFails, LeftOut, strikeVars, diskVars
<1>14. CASE SaveTruncate
  BY <1>14, <1>0 DEF SaveTruncate, LeftOut, strikeVars, diskVars
<1>15. CASE SaveWrite
  BY <1>15, <1>0 DEF SaveWrite, StartTunnel, Using, LeftOut
<1>16. CASE ForcedTunnel
  BY <1>16, <1>0 DEF ForcedTunnel, StartTunnel, Using, LeftOut, diskVars
<1>17. CASE ReconnectDelay
  BY <1>17, <1>0 DEF ReconnectDelay, LeftOut, strikeVars, diskVars
<1>18. CASE TunnelEnds
  BY <1>18, <1>0 DEF TunnelEnds, CountTunnelEnd, LeftOut, strikeVars, diskVars
<1>19. CASE Tick
  BY <1>19, <1>0 DEF Tick, LeftOut, strikeVars, diskVars
<1>20. CASE Restart
  BY <1>20, <1>0 DEF Restart, NoRest, LeftOut
<1>21. CASE UNCHANGED vars
  BY <1>21 DEF vars, LeftOut, strikeVars, diskVars
<1>. QED
  BY <1>1, <1>2, <1>3, <1>4, <1>5, <1>6, <1>7, <1>8, <1>9, <1>10,
     <1>11, <1>12, <1>13, <1>14, <1>15, <1>16, <1>17, <1>18, <1>19, <1>20, <1>21
     DEF Next, StartUp, Choosing, Running

(* Type correctness of the run, for every set of gateways, every limit and  *)
(* every outcome of the verifications, scans and tunnels.                   *)
THEOREM TypeCorrect == Spec => []TypeOK
<1>1. RunInv /\ [Next]_vars => RunInv'
  BY TypeStep, RestStep DEF RunInv
<1>2. RunInv => TypeOK
  BY DEF RunInv
<1>. QED
  BY RunInit, <1>1, <1>2, PTL DEF Spec

(* The run leaves a gateway it gave up on alone for as long as its address  *)
(* rests, whatever the order of scans, retries, restarts and time.          *)
THEOREM RestIsRespected == Spec => []RestRespected
<1>1. RunInv /\ [Next]_vars => RunInv'
  BY TypeStep, RestStep DEF RunInv
<1>2. RunInv => RestRespected
  BY GatewayRunAssumption DEF RunInv, RestInv, RestRespected
<1>. QED
  BY RunInit, <1>1, <1>2, PTL DEF Spec

-----------------------------------------------------------------------------
(* What makes ForcedStays inductive: from the start on the gateway named by *)
(* hand is the only one the run has, and it writes no file.                 *)
ForcedInv ==
    forced # NoPeer =>
        /\ LeftOut = {} /\ quick = NoPeer /\ lastGood \in {NoPeer, forced}
        /\ pc \notin {"cache", "ring", "hunting", "saving"}
        /\ pc \in {"chosen", "tunnel"} => peer = forced
        /\ file.carrier \notin Carriers

LEMMA ForcedInit == Init => ForcedInv
<1>. SUFFICES ASSUME Init PROVE ForcedInv
  OBVIOUS
<1>1. file.carrier \notin Carriers
  <2>1. file = Unreadable \/ \E p \in Peers : file = [carrier |-> "", peer |-> p, recent |-> <<>>]
    BY DEF Init
  <2>2. Unreadable.carrier = "none"
    BY DEF Unreadable
  <2>3. ASSUME NEW p \in Peers, file = [carrier |-> "", peer |-> p, recent |-> <<>>]
        PROVE  file.carrier = ""
    BY <2>3
  <2>. QED
    BY <2>1, <2>2, <2>3, CarriersAssumption, Zenon
<1>2. quick = NoPeer /\ lastGood = NoPeer /\ pc = "boot" /\ resting = NoRest
  BY Zenon DEF Init
<1>3. LeftOut = {}
  BY <1>2 DEF LeftOut, NoRest
<1>. QED
  BY <1>1, <1>2, <1>3 DEF ForcedInv

LEMMA ForcedStep == ForcedInv /\ [Next]_vars => ForcedInv'
<1>. SUFFICES ASSUME ForcedInv, [Next]_vars, forced # NoPeer PROVE ForcedInv'
  BY ForcedKept DEF ForcedInv
<1>. forced' = forced
  BY ForcedKept
<1>. USE DEF ForcedInv
<1>1. CASE StartUp
  BY <1>1 DEF StartUp, BootForced, BootAssigned, LoadCache, VerifyCached, CacheExhausted,
              LeftOut, strikeVars, diskVars
<1>2. CASE Top
  BY <1>2 DEF Top, LeftOut, strikeVars, diskVars
<1>3. CASE Choosing
  BY <1>3 DEF Choosing, ChooseQuick, RetryLastGood, NoLastGood, UseForced, StartHunt,
              HuntFinds, HuntFails, LeftOut, strikeVars, diskVars
<1>4. CASE Running
  BY <1>4 DEF Running, SaveTruncate, SaveWrite, ForcedTunnel, ReconnectDelay, StartTunnel,
              LeftOut, strikeVars, diskVars
<1>5. CASE TunnelEnds
  BY <1>5 DEF TunnelEnds, LeftOut, diskVars
<1>6. CASE Tick
  BY <1>6 DEF Tick, LeftOut, diskVars
<1>7. CASE Restart
  BY <1>7 DEF Restart, LeftOut, NoRest
<1>8. CASE UNCHANGED vars
  BY <1>8 DEF vars, LeftOut, strikeVars, diskVars
<1>. QED
  BY <1>1, <1>2, <1>3, <1>4, <1>5, <1>6, <1>7, <1>8 DEF Next

(* A gateway named by hand is the only one the run ever uses; it is never   *)
(* given up, and the file of remembered gateways is not touched.            *)
THEOREM ForcedIsKept == Spec => []ForcedStays
<1>1. ForcedInv => ForcedStays
  BY DEF ForcedInv, ForcedStays
<1>. QED
  BY ForcedInit, ForcedStep, <1>1, PTL DEF Spec

-----------------------------------------------------------------------------
(* No entry of a sequence is there twice.                                   *)
Distinct(s) == \A i, j \in 1..Len(s) : s[i] = s[j] => i = j

(* Taking an entry out of a sequence without repetitions takes out every    *)
(* occurrence of it, and the rest is still without repetitions.             *)
LEMMA WithoutSound ==
    ASSUME NEW s \in Seq(Peers), NEW p, Distinct(s)
    PROVE  /\ Without(s, p) \in Seq(Peers) /\ Distinct(Without(s, p))
           /\ \A k \in 1..Len(Without(s, p)) : Without(s, p)[k] # p
<1>1. CASE \E i \in 1..Len(s) : s[i] = p
  <2>. DEFINE i == CHOOSE j \in 1..Len(s) : s[j] = p
              a == SubSeq(s, 1, i - 1)
              b == SubSeq(s, i + 1, Len(s))
              r == a \o b
  <2>1. i \in 1..Len(s) /\ s[i] = p /\ Without(s, p) = r
    BY <1>1 DEF Without
  <2>. HIDE DEF i
  <2>2. Len(s) \in Nat /\ i \in Nat
    BY <2>1, LenProperties
  <2>3. a \in Seq(Peers) /\ Len(a) = i - 1 /\ \A k \in 1..(i - 1) : a[k] = s[k]
    <3>1. \A j \in 1..(i - 1) : j \in 1..Len(s)
      BY <2>1, <2>2
    <3>. QED
      BY <2>1, <2>2, <3>1, SubSeqProperties
  <2>4. b \in Seq(Peers) /\ Len(b) = Len(s) - i /\ \A k \in 1..(Len(s) - i) : b[k] = s[i + k]
    <3>1. \A j \in (i + 1)..Len(s) : j \in 1..Len(s)
      BY <2>1, <2>2
    <3>. QED
      BY <2>1, <2>2, <3>1, SubSeqProperties
  <2>. HIDE DEF a, b
  <2>5. r \in Seq(Peers) /\ Len(r) = Len(s) - 1
    <3>1. a \o b \in Seq(Peers) /\ Len(a \o b) = Len(a) + Len(b)
      BY <2>3, <2>4, ConcatProperties
    <3>2. Len(a) + Len(b) = Len(s) - 1
      BY <2>2, <2>3, <2>4
    <3>. QED
      BY <3>1, <3>2
  <2>6. \A k \in 1..Len(r) : r[k] = IF k < i THEN s[k] ELSE s[k + 1]
    <3>1. \A k \in 1..Len(a) + Len(b) : r[k] = IF k <= Len(a) THEN a[k] ELSE b[k - Len(a)]
      BY <2>3, <2>4, ConcatProperties
    <3>2. Len(a) + Len(b) = Len(r)
      BY <2>2, <2>3, <2>4, <2>5
    <3>. HIDE DEF r
    <3>3. ASSUME NEW k \in 1..Len(r), k < i PROVE r[k] = s[k]
      <4>1. k \in 1..(i - 1) /\ k <= Len(a)
        BY <2>1, <2>2, <2>3, <3>3
      <4>. QED
        BY <2>3, <3>1, <3>2, <4>1
    <3>4. ASSUME NEW k \in 1..Len(r), ~(k < i) PROVE r[k] = s[k + 1]
      <4>1. ~(k <= Len(a)) /\ k - Len(a) \in 1..(Len(s) - i) /\ i + (k - Len(a)) = k + 1
        BY <2>1, <2>2, <2>3, <2>5, <3>4
      <4>2. r[k] = b[k - Len(a)]
        BY <3>1, <3>2, <4>1
      <4>3. b[k - Len(a)] = s[i + (k - Len(a))]
        BY <2>4, <4>1
      <4>. QED
        BY <4>1, <4>2, <4>3
    <3>. QED
      BY <3>3, <3>4
  <2>. HIDE DEF r
  <2>7. Distinct(r) /\ \A k \in 1..Len(r) : r[k] # p
    <3>. DEFINE at(k) == IF k < i THEN k ELSE k + 1
    <3>1. \A k \in 1..Len(r) : at(k) \in 1..Len(s) /\ at(k) # i /\ r[k] = s[at(k)]
      BY <2>1, <2>2, <2>5, <2>6
    <3>2. \A k, l \in 1..Len(r) : at(k) = at(l) => k = l
      BY <2>1, <2>2, <2>5
    <3>. HIDE DEF at
    <3>3. Distinct(r)
      BY <3>1, <3>2, Zenon DEF Distinct
    <3>4. \A k \in 1..Len(r) : r[k] # p
      <4>1. ASSUME NEW k \in 1..Len(r) PROVE r[k] # p
        <5>1. at(k) \in 1..Len(s) /\ at(k) # i /\ r[k] = s[at(k)]
          BY <3>1
        <5>2. s[at(k)] # s[i]
          BY <2>1, <5>1 DEF Distinct
        <5>. QED
          BY <2>1, <5>1, <5>2
      <4>. QED
        BY <4>1
    <3>. QED
      BY <3>3, <3>4
  <2>. QED
    BY <2>1, <2>5, <2>7
<1>2. CASE ~ \E i \in 1..Len(s) : s[i] = p
  BY <1>2 DEF Without
<1>. QED
  BY <1>1, <1>2

(* A record whose ring is sound, as RingSound says it of the file.          *)
Sound(f) ==
    /\ Len(f.recent) <= RecentCap
    /\ Distinct(f.recent)
    /\ f.recent # <<>> => f.recent[1] = f.peer

RingInv == Sound(file) /\ Sound(record)

LEMMA UnreadableSound ==
    /\ Sound(Unreadable)
    /\ \A p \in Peers : Sound([carrier |-> "", peer |-> p, recent |-> <<>>])
BY GatewayRunAssumption DEF Sound, Unreadable, Distinct

(* What lastconn::save writes is sound if what it read was.                 *)
LEMMA RememberedSound ==
    ASSUME TypeOK, Sound(file), NEW p \in Peers
    PROVE  Sound(Remembered(p))
<1>. DEFINE rest == IF SameCarrier THEN Without(file.recent, p) ELSE <<>>
            w == <<p>> \o rest
            c == Capped(w)
<1>1. file.recent \in Seq(Peers) /\ Distinct(file.recent)
  BY DEF TypeOK, Records, Sound
<1>2. rest \in Seq(Peers) /\ Distinct(rest) /\ \A k \in 1..Len(rest) : rest[k] # p
  <2>1. CASE SameCarrier
    BY <1>1, <2>1, WithoutSound
  <2>2. CASE ~SameCarrier
    BY <2>2 DEF Distinct
  <2>. QED
    BY <2>1, <2>2
<1>. HIDE DEF rest
<1>3. /\ w \in Seq(Peers) /\ Len(w) = Len(rest) + 1 /\ w[1] = p
      /\ \A k \in 2..Len(w) : w[k] = rest[k - 1]
  <2>1. <<p>> \in Seq(Peers) /\ Len(<<p>>) = 1 /\ <<p>>[1] = p
    OBVIOUS
  <2>. QED
    BY <1>2, <2>1, ConcatProperties, LenProperties
<1>4. Distinct(w)
  BY <1>2, <1>3, LenProperties DEF Distinct
<1>. HIDE DEF w
<1>5. /\ c \in Seq(Peers) /\ Len(c) <= RecentCap /\ Len(c) <= Len(w) /\ Len(c) >= 1
      /\ \A k \in 1..Len(c) : c[k] = w[k]
  <2>. DEFINE n == IF Len(w) < RecentCap THEN Len(w) ELSE RecentCap
  <2>1. Len(w) \in Nat /\ Len(w) >= 1 /\ Len(rest) \in Nat
    BY <1>2, <1>3, LenProperties
  <2>2. n \in Nat /\ n >= 1 /\ n <= Len(w) /\ n <= RecentCap
    BY <2>1, GatewayRunAssumption
  <2>3. c = SubSeq(w, 1, n)
    BY DEF Capped
  <2>. HIDE DEF n, c
  <2>4. \A k \in 1..n : k \in 1..Len(w)
    BY <2>1, <2>2
  <2>5. SubSeq(w, 1, n) \in Seq(Peers) /\ Len(SubSeq(w, 1, n)) = n
        /\ \A k \in 1..n : SubSeq(w, 1, n)[k] = w[k]
    BY <1>3, <2>1, <2>2, <2>4, SubSeqProperties
  <2>. QED
    BY <2>2, <2>3, <2>5
<1>. HIDE DEF c
<1>6. Distinct(c) /\ c[1] = p
  BY <1>3, <1>4, <1>5, LenProperties DEF Distinct
<1>7. Remembered(p).recent = c /\ Remembered(p).peer = p
  BY DEF Remembered, c, w, rest
<1>. QED
  BY <1>5, <1>6, <1>7 DEF Sound

LEMMA RingStep == RunInv /\ RingInv /\ [Next]_vars => RingInv'
<1>. SUFFICES ASSUME RunInv, RingInv, [Next]_vars PROVE RingInv'
  OBVIOUS
<1>1. CASE UNCHANGED <<record, file>>
  BY <1>1 DEF RingInv, Sound
<1>2. CASE SaveTruncate
  <2>1. peer \in Peers
    BY <1>2 DEF SaveTruncate, RunInv, RestInv
  <2>2. Sound(Remembered(peer)) /\ Sound(Unreadable)
    BY <2>1, RememberedSound, UnreadableSound DEF RunInv, RingInv
  <2>3. record' = Remembered(peer) /\ file' = Unreadable
    BY <1>2 DEF SaveTruncate
  <2>. QED
    BY <2>2, <2>3 DEF RingInv, Sound
<1>3. CASE SaveWrite
  <2>1. record' = Unreadable /\ file' \in {Unreadable, record}
    BY <1>3 DEF SaveWrite
  <2>. QED
    BY <2>1, UnreadableSound DEF RingInv, Sound
<1>4. CASE Restart
  <2>1. record' = Unreadable /\ file' = file
    BY <1>4 DEF Restart
  <2>. QED
    BY <2>1, UnreadableSound DEF RingInv, Sound
<1>5. CASE ~(SaveTruncate \/ SaveWrite \/ Restart)
  <2>1. UNCHANGED <<record, file>>
    BY <1>5 DEF Next, StartUp, BootForced, BootAssigned, LoadCache, VerifyCached,
                CacheExhausted, Choosing, ChooseQuick, RetryLastGood, NoLastGood, UseForced,
                StartHunt, HuntFinds, HuntFails, Running, ForcedTunnel, ReconnectDelay, Top,
                TunnelEnds, Tick, vars, diskVars
  <2>. QED
    BY <1>1, <2>1
<1>. QED
  BY <1>2, <1>3, <1>4, <1>5

(* The ring of remembered gateways stays sound, for every size of it and    *)
(* every sequence of saves, lost writes, restarts and changes of carrier.   *)
THEOREM RingStaysSound == Spec => []RingSound
<1>1. Init => RunInv /\ RingInv
  <2>. SUFFICES ASSUME Init PROVE RunInv /\ RingInv
    OBVIOUS
  <2>1. record = Unreadable
    BY DEF Init
  <2>2. file = Unreadable \/ \E p \in Peers : file = [carrier |-> "", peer |-> p, recent |-> <<>>]
    BY DEF Init
  <2>3. Sound(file) /\ Sound(record)
    BY <2>1, <2>2, UnreadableSound, Zenon
  <2>. QED
    BY <2>3, RunInit DEF RingInv
<1>2. RunInv /\ RingInv /\ [Next]_vars => (RunInv /\ RingInv)'
  BY TypeStep, RestStep, RingStep DEF RunInv
<1>3. RingInv => RingSound
  BY DEF RingInv, Sound, Distinct, RingSound
<1>. QED
  BY <1>1, <1>2, <1>3, PTL DEF Spec

-----------------------------------------------------------------------------
(* A step of the history is a step of the run.                              *)
LEMMA HistoryStep == [HNext]_hvars => [Next]_vars
BY DEF HNext, hvars, Next

LEMMA HistInit == HInit => HistInv
<1>. SUFFICES ASSUME HInit PROVE HistInv
  OBVIOUS
<1>1. inARow = 0 /\ current = NoPeer /\ hist = NoHistory
  BY Zenon DEF HInit, Init
<1>. QED
  BY <1>1, GatewayRunAssumption DEF HistInv, NoHistory, MaybePeer

LEMMA HistStep == RunInv /\ HistInv /\ [HNext]_hvars => HistInv'
<1>. SUFFICES ASSUME RunInv, HistInv, [HNext]_hvars PROVE HistInv'
  OBVIOUS
<1>. forced' = forced
  BY HistoryStep, ForcedKept
<1>. USE GatewayRunAssumption DEF HistInv, MaybePeer
<1>0. /\ inARow \in Nat /\ lastGood = current /\ current \in MaybePeer /\ peer \in MaybePeer
      /\ pc \in {"chosen", "saving", "tunnel"} => peer \in Peers
      /\ pc = "tunnel" => current = peer
      /\ lasted \in Nat
  BY DEF RunInv, TypeOK, RestInv
<1>1. CASE TunnelEnds /\ hist' = Recorded
  <2>1. hist' \in [last : MaybePeer, row : 0..Strikes]
    BY <1>0, <1>1 DEF Recorded, OneMore
  <2>2. ASSUME forced = NoPeer
        PROVE  /\ inARow' <= Strikes /\ current' # NoPeer /\ current' = hist'.last
               /\ inARow' = hist'.row /\ pc' = "sleep"
    <3>1. pc = "tunnel" /\ current = peer /\ peer \in Peers /\ inARow < Strikes
      BY <1>0, <1>1, <2>2 DEF TunnelEnds
    <3>2. hist'.last = peer /\ current' = current /\ pc' = "sleep"
      BY <1>1 DEF Recorded, TunnelEnds
    <3>3. inARow' = IF lasted >= StayedUp THEN 0 ELSE inARow + 1
      BY <1>0, <1>1, <3>1 DEF TunnelEnds, CountTunnelEnd
    <3>4. hist'.row = IF lasted >= StayedUp THEN 0
                      ELSE IF hist.last = peer THEN OneMore(hist.row) ELSE 1
      BY <1>0, <1>1 DEF Recorded
    <3>5. IF hist.last = peer THEN hist.row = inARow ELSE inARow = 0
      BY <2>2, <3>1
    <3>6. inARow' = hist'.row
      BY <1>0, <3>1, <3>3, <3>4, <3>5 DEF OneMore
    <3>. QED
      BY <1>0, <3>1, <3>2, <3>3, <3>6
  <2>. QED
    BY <2>1, <2>2
<1>2. CASE Restart /\ hist' = NoHistory
  BY <1>2 DEF Restart, NoHistory
<1>3. CASE Top /\ hist' = IF lastGood' # lastGood THEN [hist EXCEPT !.row = 0] ELSE hist
  <2>1. CASE forced = NoPeer /\ inARow >= Strikes
    <3>1. current # NoPeer /\ inARow' = 0 /\ current' = NoPeer /\ lastGood' # lastGood
      BY <1>0, <1>3, <2>1 DEF Top
    <3>2. hist' = [last |-> hist.last, row |-> 0]
      BY <1>3, <3>1
    <3>3. hist' \in [last : MaybePeer, row : 0..Strikes] /\ hist'.row = 0
      BY <3>2
    <3>. QED
      BY <3>1, <3>3
  <2>2. CASE ~(forced = NoPeer /\ inARow >= Strikes)
    <3>1. hist' = hist /\ inARow' = inARow /\ current' = current
      BY <1>3, <2>2 DEF Top, strikeVars
    <3>. QED
      BY <1>0, <1>3, <2>2, <3>1 DEF Top
  <2>. QED
    BY <2>1, <2>2
<1>4. CASE StartUp /\ UNCHANGED hist
  BY <1>4 DEF StartUp, BootForced, BootAssigned, LoadCache, VerifyCached,
              CacheExhausted, strikeVars
<1>5. CASE Choosing /\ UNCHANGED hist
  BY <1>5 DEF Choosing, ChooseQuick, RetryLastGood, NoLastGood, UseForced, StartHunt,
              HuntFinds, HuntFails, strikeVars
<1>6. CASE Running /\ UNCHANGED hist
  <2>1. CASE SaveTruncate
    BY <1>6, <2>1 DEF SaveTruncate, strikeVars
  <2>2. CASE SaveWrite \/ ForcedTunnel
    BY <1>0, <1>6, <2>2 DEF SaveWrite, ForcedTunnel, StartTunnel, Using
  <2>3. CASE ReconnectDelay
    BY <1>6, <2>3 DEF ReconnectDelay, strikeVars
  <2>. QED
    BY <1>6, <2>1, <2>2, <2>3 DEF Running
<1>7. CASE Tick /\ UNCHANGED hist
  BY <1>7 DEF Tick
<1>8. CASE UNCHANGED hvars
  BY <1>8 DEF hvars, vars, strikeVars
<1>. QED
  BY <1>1, <1>2, <1>3, <1>4, <1>5, <1>6, <1>7, <1>8 DEF HNext

(* A gateway whose tunnels ended soon Strikes times in a row is left: the   *)
(* count of GatewayStrikes, which it resets, skips and carries across       *)
(* retries, agrees with the independent history.                            *)
THEOREM GatewayIsLeft == HSpec => []GatewayLeft
<1>1. HInit => RunInv /\ HistInv
  BY RunInit, HistInit DEF HInit
<1>2. RunInv /\ HistInv /\ [HNext]_hvars => (RunInv /\ HistInv)'
  BY HistoryStep, TypeStep, RestStep, HistStep DEF RunInv
<1>3. RunInv /\ HistInv => GatewayLeft
  BY GatewayRunAssumption DEF RunInv, TypeOK, RestInv, HistInv, GatewayLeft, MaybePeer
<1>. QED
  BY <1>1, <1>2, <1>3, PTL DEF HSpec

-----------------------------------------------------------------------------
(* What the policy needs of the run's own count: it is under Strikes        *)
(* whenever a tunnel can start, and there is none without a gateway.        *)
StrikeInv ==
    /\ forced = NoPeer =>
          inARow <= Strikes /\ (pc \notin {"top", "sleep"} => inARow < Strikes)
    /\ current = NoPeer => inARow = 0

LEMMA StrikeStep == RunInv /\ StrikeInv /\ [Next]_vars => StrikeInv'
<1>. SUFFICES ASSUME RunInv, StrikeInv, [Next]_vars PROVE StrikeInv'
  OBVIOUS
<1>. USE GatewayRunAssumption DEF StrikeInv
<1>0. /\ forced' = forced /\ inARow \in Nat /\ lasted \in Nat
      /\ pc \in {"chosen", "saving", "tunnel"} => peer \in Peers
      /\ pc = "tunnel" => current = peer
  BY ForcedKept DEF RunInv, TypeOK, RestInv
<1>1. CASE StartUp
  BY <1>0, <1>1 DEF StartUp, BootForced, BootAssigned, LoadCache, VerifyCached,
                    CacheExhausted, strikeVars
<1>2. CASE Top
  BY <1>0, <1>2 DEF Top, strikeVars
<1>3. CASE Choosing
  BY <1>0, <1>3 DEF Choosing, ChooseQuick, RetryLastGood, NoLastGood, UseForced, StartHunt,
                    HuntFinds, HuntFails, strikeVars
<1>4. CASE SaveTruncate \/ ReconnectDelay
  BY <1>0, <1>4 DEF SaveTruncate, ReconnectDelay, strikeVars
<1>5. CASE SaveWrite \/ ForcedTunnel
  BY <1>0, <1>5 DEF SaveWrite, ForcedTunnel, StartTunnel, Using
<1>6. CASE TunnelEnds
  BY <1>0, <1>6 DEF TunnelEnds, CountTunnelEnd
<1>7. CASE Tick \/ Restart
  BY <1>0, <1>7 DEF Tick, Restart
<1>8. CASE UNCHANGED vars
  BY <1>0, <1>8 DEF vars, strikeVars
<1>. QED
  BY <1>1, <1>2, <1>3, <1>4, <1>5, <1>6, <1>7, <1>8 DEF Next, Running

(* A step that changes none of what the policy sees is a stutter of it.     *)
LEMMA PolicyStutter ==
    ASSUME forced' = forced, current' = current, inARow' = inARow, resting' = resting,
           (pc' = "boot") <=> (pc = "boot"), (pc' = "tunnel") <=> (pc = "tunnel")
    PROVE  UNCHANGED Policy!pvars
<1>1. LeftOut' = LeftOut
  BY DEF LeftOut
<1>. QED
  BY <1>1 DEF Policy!pvars

(* Every step of the run is a step of the policy, or none.                  *)
LEMMA PolicyStep ==
    RunInv /\ StrikeInv /\ [Next]_vars => [Policy!Next]_(Policy!pvars)
<1>. SUFFICES ASSUME RunInv, StrikeInv, [Next]_vars PROVE [Policy!Next]_(Policy!pvars)
  OBVIOUS
<1>. USE GatewayRunAssumption
<1>0. /\ forced' = forced /\ inARow \in Nat /\ lasted \in Nat
      /\ current \in Peers \cup {NoPeer}
      /\ resting \in [Ips -> 0..Rest]
      /\ pc \in {"chosen", "saving", "tunnel"} =>
            peer \in Peers /\ (forced = NoPeer => resting[IpOf[peer]] = 0)
  BY ForcedKept DEF RunInv, TypeOK, MaybePeer, RestInv
<1>1. CASE BootForced \/ BootAssigned
  <2>1. Policy!Start
    BY <1>0, <1>1 DEF BootForced, BootAssigned, strikeVars, LeftOut, Policy!Start
  <2>. QED
    BY <2>1 DEF Policy!Next
<1>2. CASE LoadCache \/ VerifyCached \/ CacheExhausted \/ Choosing \/ SaveTruncate
           \/ ReconnectDelay \/ UNCHANGED vars
  BY <1>0, <1>2, PolicyStutter
     DEF LoadCache, VerifyCached, CacheExhausted, Choosing, ChooseQuick, RetryLastGood,
         NoLastGood, UseForced, StartHunt, HuntFinds, HuntFails, SaveTruncate,
         ReconnectDelay, vars, strikeVars
<1>3. CASE Top
  <2>1. CASE forced = NoPeer /\ inARow >= Strikes
    <3>1. current \in Peers /\ inARow = Strikes
      BY <1>0, <2>1 DEF StrikeInv
    <3>2. LeftOut' = LeftOut \cup {IpOf[current]}
      BY <1>0, <1>3, <2>1, <3>1 DEF Top, LeftOut
    <3>3. Policy!GiveUp
      BY <1>0, <1>3, <2>1, <3>1, <3>2 DEF Top, Policy!GiveUp
    <3>. QED
      BY <3>3 DEF Policy!Next
  <2>2. CASE ~(forced = NoPeer /\ inARow >= Strikes)
    BY <1>0, <1>3, <2>2, PolicyStutter DEF Top, strikeVars
  <2>. QED
    BY <2>1, <2>2
<1>4. CASE SaveWrite \/ ForcedTunnel
  <2>1. /\ pc \in {"saving", "chosen"} /\ pc' = "tunnel" /\ peer \in Peers
        /\ current' = peer /\ resting' = resting
        /\ inARow' = IF current = peer THEN inARow ELSE 0
    BY <1>0, <1>4 DEF SaveWrite, ForcedTunnel, StartTunnel, Using
  <2>2. LeftOut' = LeftOut /\ (forced = NoPeer => IpOf[peer] \notin LeftOut /\ inARow < Strikes)
    BY <1>0, <2>1 DEF LeftOut, StrikeInv
  <2>3. Policy!Begin(peer)
    BY <1>0, <2>1, <2>2 DEF Policy!Begin
  <2>. QED
    BY <2>1, <2>3 DEF Policy!Next
<1>5. CASE TunnelEnds
  <2>1. LeftOut' = LeftOut
    BY <1>5 DEF TunnelEnds, LeftOut
  <2>2. CASE lasted >= StayedUp
    <3>1. Policy!EndLate
      BY <1>0, <1>5, <2>1, <2>2 DEF TunnelEnds, CountTunnelEnd, Policy!EndLate
    <3>. QED
      BY <3>1 DEF Policy!Next
  <2>3. CASE ~(lasted >= StayedUp)
    <3>1. Policy!EndSoon
      BY <1>0, <1>5, <2>1, <2>3 DEF TunnelEnds, CountTunnelEnd, Policy!EndSoon
    <3>. QED
      BY <3>1 DEF Policy!Next
  <2>. QED
    BY <2>2, <2>3
<1>6. CASE Tick
  <2>1. LeftOut' \subseteq LeftOut
    BY <1>0, <1>6 DEF Tick, LeftOut
  <2>2. Policy!Recover
    BY <1>0, <1>6, <2>1 DEF Tick, Policy!Recover
  <2>. QED
    BY <2>2 DEF Policy!Next
<1>7. CASE Restart
  <2>1. LeftOut' = {}
    BY <1>7 DEF Restart, NoRest, LeftOut
  <2>2. Policy!Restart
    BY <1>0, <1>7, <2>1 DEF Restart, Policy!Restart
  <2>. QED
    BY <2>2 DEF Policy!Next
<1>. QED
  BY <1>1, <1>2, <1>3, <1>4, <1>5, <1>6, <1>7 DEF Next, StartUp, Running

(* The run implements the policy, for every set of gateways and addresses,  *)
(* every limit, and every outcome of verifications, scans and tunnels.      *)
THEOREM RunKeepsPolicy == Spec => KeepsPolicy
<1>1. Init => RunInv /\ StrikeInv /\ Policy!Init
  <2>. SUFFICES ASSUME Init PROVE RunInv /\ StrikeInv /\ Policy!Init
    OBVIOUS
  <2>1. pc = "boot" /\ current = NoPeer /\ inARow = 0 /\ resting = NoRest
    BY Zenon DEF Init
  <2>2. LeftOut = {}
    BY <2>1 DEF NoRest, LeftOut
  <2>. QED
    BY <2>1, <2>2, RunInit, GatewayRunAssumption DEF StrikeInv, Policy!Init
<1>2. RunInv /\ StrikeInv /\ [Next]_vars => (RunInv /\ StrikeInv)'
  BY TypeStep, RestStep, StrikeStep DEF RunInv
<1>3. RunInv /\ StrikeInv /\ [Next]_vars => [Policy!Next]_(Policy!pvars)
  BY PolicyStep
<1>. QED
  BY <1>1, <1>2, <1>3, PTL DEF Spec, KeepsPolicy, Policy!Spec

=============================================================================
