---------------------------- MODULE InboundProofs ----------------------------
(***************************************************************************)
(* Proofs about Inbound, for any finite set of clients, any limit and any  *)
(* amounts of data: no place is lost or made, what was read ahead of a     *)
(* client reaches the far end once and in order, the answer reaches the    *)
(* client the same way, and a relay does not cut an answer short.          *)
(***************************************************************************)
EXTENDS Inbound, FiniteSetTheorems, SequenceTheorems, TLAPS

Routing == {"route", "direct", "gateway", "straight"}

(* When the core has ended nobody is served. *)
EndInv == tunnel = "ended" => pc = All("ended")

(* What the far end got is the chunks read from the client, and then maybe  *)
(* Fin; at most one chunk is read before there is a relay to carry it.      *)
Told(s) == \E i \in 1..Len(s) : s[i] = Fin

(* What of it is in hand. *)
Waiting(c) ==
    \/ up[c] = None /\ Len(carried[c]) = taken[c]
    \/ up[c] = taken[c] /\ taken[c] > 0 /\ Len(carried[c]) + 1 = taken[c]
    \/ /\ up[c] = Fin /\ Len(carried[c]) = taken[c]
       /\ shut[c] = "gone" \/ (shut[c] = "half" /\ taken[c] = sent[c])

UpInv(c) ==
    /\ pc[c] \in {"away", "queued", "request", "udp", "sniff"} => taken[c] = 0
    /\ pc[c] \in Routing => taken[c] <= 1
    /\ pc[c] \notin {"greet", "relay", "ended"} => carried[c] = <<>>
    /\ \A i \in 1..Len(carried[c]) :
          \/ carried[c][i] = i
          \/ carried[c][i] = Fin /\ i = Len(carried[c])
    /\ Told(carried[c]) =>
          shut[c] = "gone" \/ (shut[c] = "half" /\ Len(carried[c]) = sent[c] + 1)
    /\ upDone[c] => pc[c] = "relay" /\ up[c] = None
    /\ pc[c] = "greet" => up[c] # Fin
    /\ Joined(c) /\ ~upDone[c] => ~Told(carried[c]) /\ Waiting(c)

(* A stream to the client: p replies, k chunks and, if e is 1, Fin. *)
Stream(s, p, k, e) ==
    /\ e \in {0, 1} /\ Len(s) = p + k + e
    /\ \A i \in 1..p : IsReply(s[i])
    /\ \A i \in 1..k : s[p + i] = i
    /\ e = 1 => s[p + k + 1] = Fin

(* How far the stream to a client may be, by where its handler is. *)
Fits(place, request, s, read, whole, hand, end, p, k, e) ==
    /\ Stream(s, p, k, e)
    /\ place \notin {"greet", "relay", "ended"} =>
          k = 0 /\ e = 0 /\ p <= 1 /\ (p = 1 => s[1] = Ok)
    /\ place \in {"away", "queued", "request"} => p = 0
    /\ place \in {"greet", "relay"} =>
          /\ e = 0 /\ (p > 0 => s[1] = Ok)
          /\ hand = None => read = k
          /\ hand # None => hand = k + 1 /\ read = k + 1
    /\ place = "relay" /\ request # "plain" => p > 0
    /\ k > 0 /\ request # "plain" => p > 0 /\ s[1] = Ok
    /\ e = 1 => end = "lost" \/ k = whole

AnswerState(place, request, s, read, whole, hand, end) ==
    \E p, k, e \in Nat : Fits(place, request, s, read, whole, hand, end, p, k, e)

DownInv(c) ==
    AnswerState(pc[c], ask[c], got[c], fetched[c], farSent[c], down[c], farDone[c])

(* A relay whose upload is over has been silent for no longer than the      *)
(* client has been waiting, and only a relay has an upload.                 *)
ClockInv(c) ==
    /\ pc[c] # "relay" => ~upDone[c]
    /\ upDone[c] => idle[c] <= still[c]

InboundInv ==
    /\ TypeOK /\ EndInv
    /\ \A c \in Clients : UpInv(c) /\ DownInv(c) /\ ClockInv(c)

(* A step of one client's, its handler's or its far end's. *)
Step(c) ==
    \/ Dial(c) \/ ClientSends(c) \/ ClientCloses(c) \/ Accept(c) \/ Handler(c)
    \/ FarSends(c) \/ FarCloses(c) \/ FarLost(c)
    \/ Uploading(c) \/ Downloading(c) \/ LingerEnds(c)

(* Everything of one client is as it was. *)
Same(d) ==
    /\ pc'[d] = pc[d] /\ ask'[d] = ask[d] /\ sent'[d] = sent[d] /\ shut'[d] = shut[d]
    /\ taken'[d] = taken[d] /\ carried'[d] = carried[d]
    /\ farSent'[d] = farSent[d] /\ farDone'[d] = farDone[d]
    /\ fetched'[d] = fetched[d] /\ got'[d] = got[d]
    /\ up'[d] = up[d] /\ down'[d] = down[d]
    /\ upDone'[d] = upDone[d] /\ idle'[d] = idle[d] /\ still'[d] = still[d]

-----------------------------------------------------------------------------
(* Types                                                                    *)

LEMMA Numbers ==
    /\ IsFiniteSet(Clients) /\ MaxClients \in Nat \ {0} /\ Linger \in Nat \ {0}
    /\ \A c \in Clients : MaxSent[c] \in Nat /\ MaxAnswer[c] \in Nat
BY InboundAssumption

LEMMA Functions ==
    ASSUME Typed
    PROVE  /\ pc \in [Clients -> Stages] /\ ask \in [Clients -> Requests]
           /\ shut \in [Clients -> {"open", "half", "gone"}]
           /\ sent \in [Clients -> Nat] /\ taken \in [Clients -> Nat]
           /\ farSent \in [Clients -> Nat] /\ fetched \in [Clients -> Nat]
           /\ carried \in [Clients -> Seq(Int)] /\ got \in [Clients -> Seq(Int)]
           /\ farDone \in [Clients -> {"open", "closed", "lost"}]
           /\ up \in [Clients -> Int] /\ down \in [Clients -> Nat]
           /\ upDone \in [Clients -> BOOLEAN]
           /\ idle \in [Clients -> 0..Linger] /\ still \in [Clients -> 0..Linger]
BY DEF Typed

(* Nobody else is touched by it. *)
LEMMA OthersSame ==
    ASSUME Typed, NEW c \in Clients, Step(c)
    PROVE  \A d \in Clients : d # c => Same(d)
<1>1. /\ pc \in [Clients -> Stages] /\ ask \in [Clients -> Requests]
      /\ shut \in [Clients -> {"open", "half", "gone"}]
      /\ sent \in [Clients -> Nat] /\ taken \in [Clients -> Nat]
      /\ farSent \in [Clients -> Nat] /\ fetched \in [Clients -> Nat]
      /\ carried \in [Clients -> Seq(Int)] /\ got \in [Clients -> Seq(Int)]
      /\ farDone \in [Clients -> {"open", "closed", "lost"}]
      /\ up \in [Clients -> Int] /\ down \in [Clients -> Nat]
      /\ upDone \in [Clients -> BOOLEAN]
      /\ idle \in [Clients -> 0..Linger] /\ still \in [Clients -> 0..Linger]
  BY Functions
<1>2. CASE Dial(c)
  BY <1>2, <1>1 DEF Dial, Same, GoTo, server, upload, far, download, relaying
<1>3. CASE ClientSends(c)
  BY <1>3, <1>1 DEF ClientSends, Same, server, upload, far, download, relaying
<1>4. CASE ClientCloses(c)
  BY <1>4, <1>1 DEF ClientCloses, Same, server, upload, far, download
<1>5. CASE Accept(c)
  BY <1>5, <1>1 DEF Accept, Same, GoTo, client, upload, far, download, relaying
<1>6. CASE HandshakeFails(c)
  BY <1>6, <1>1 DEF HandshakeFails, Same, GoTo, Ends, RelayDropped, client, upload, far, download
<1>7. CASE RefuseRequest(c)
  BY <1>7, <1>1 DEF RefuseRequest, Same, GoTo, Say, Ends, RelayDropped, client, upload, far
<1>8. CASE AssociateUdp(c)
  BY <1>8, <1>1 DEF AssociateUdp, Same, GoTo, Say, server, client, upload, far, relaying
<1>9. CASE UdpEnds(c)
  BY <1>9, <1>1 DEF UdpEnds, Same, GoTo, Ends, RelayDropped, client, upload, far, download
<1>10. CASE ReadRequest(c)
  BY <1>10, <1>1 DEF ReadRequest, Same, GoTo, Say, server, client, far, relaying
<1>11. CASE Sniff(c)
  BY <1>11, <1>1 DEF Sniff, Same, GoTo, Ends, RelayDropped, client, far, download, relaying
<1>12. CASE Block(c)
  BY <1>12, <1>1 DEF Block, Same, GoTo, Say, Ends, RelayDropped, TellIfNot, client, upload, far
<1>13. CASE TakeDirect(c)
  BY <1>13, <1>1 DEF TakeDirect, Same, GoTo, server, client, upload, far, download, relaying
<1>14. CASE TakeTunnel(c)
  BY <1>14, <1>1 DEF TakeTunnel, Same, GoTo, server, client, upload, far, download, relaying
<1>15. CASE ViaGateway(c)
  BY <1>15, <1>1 DEF ViaGateway, Same, GoTo, Connected, client, upload
<1>16. CASE GatewayFails(c)
  BY <1>16, <1>1 DEF GatewayFails, Same, GoTo, RetireGateway, client, upload, far, download,
     relaying
<1>17. CASE Straight(c)
  BY <1>17, <1>1 DEF Straight, Same, GoTo, Connected, client, upload
<1>18. CASE StraightFails(c)
  BY <1>18, <1>1 DEF StraightFails, Same, GoTo, Say, Ends, RelayDropped, client, upload, far
<1>19. CASE DirectFails(c)
  BY <1>19, <1>1 DEF DirectFails, Same, GoTo, Say, Ends, RelayDropped, TellIfNot, client, upload,
     far
<1>20. CASE ClientLost(c)
  BY <1>20, <1>1 DEF ClientLost, Same, GoTo, Ends, RelayDropped, client, upload, far, download
<1>21. CASE FarSends(c)
  BY <1>21, <1>1 DEF FarSends, Same, server, client, upload, download, relaying
<1>22. CASE FarCloses(c)
  BY <1>22, <1>1 DEF FarCloses, Same, server, client, upload, download, relaying
<1>23. CASE UploadRead(c)
  BY <1>23, <1>1 DEF UploadRead, Same, server, client, far, download
<1>24. CASE UploadSent(c)
  BY <1>24, <1>1 DEF UploadSent, Same, Touch, server, client, far, download
<1>25. CASE UploadFails(c)
  BY <1>25, <1>1 DEF UploadFails, Same, Touch, server, client, upload, far, download
<1>26. CASE Fetch(c)
  BY <1>26, <1>1 DEF Fetch, Same, server, client, upload, far, relaying
<1>27. CASE Deliver(c)
  BY <1>27, <1>1 DEF Deliver, Same, Say, Touch, server, client, upload, far
<1>28. CASE DownloadEnds(c)
  BY <1>28, <1>1 DEF DownloadEnds, Same, GoTo, Say, Ends, RelayDropped, client, upload, far
<1>29. CASE LingerEnds(c)
  BY <1>29, <1>1 DEF LingerEnds, Same, GoTo, Ends, RelayDropped, client, upload, far, download
<1>30. CASE FarLost(c)
  BY <1>30, <1>1 DEF FarLost, Same, server, client, upload, download, relaying
<1>31. CASE Greet(c)
  BY <1>31, <1>1 DEF Greet, Same, server, client, upload, far
<1>32. CASE BeginRelay(c)
  BY <1>32, <1>1 DEF BeginRelay, Same, GoTo, server, client, upload, far, download, relaying
<1>33. CASE HeadFails(c)
  BY <1>33, <1>1 DEF HeadFails, Same, GoTo, Ends, RelayDropped, client, upload, far, download
<1>. QED
  BY <1>2, <1>3, <1>4, <1>5, <1>6, <1>7, <1>8, <1>9, <1>10, <1>11, <1>12, <1>13, <1>14, <1>15,
     <1>16, <1>17, <1>18, <1>19, <1>20, <1>21, <1>22, <1>23, <1>24, <1>25, <1>26, <1>27, <1>28,
     <1>29, <1>30, <1>31, <1>32, <1>33 DEF Step, Handler, Uploading, Downloading

-----------------------------------------------------------------------------
(* Places                                                                   *)

PlacesOK ==
    /\ permits \in [Doors -> 0..MaxClients]
    /\ tunnel # "ended" => \A d \in Doors : permits[d] + Cardinality(Inside(d)) = MaxClients

LEMMA InsideFacts ==
    ASSUME NEW d
    PROVE  IsFiniteSet(Inside(d)) /\ Cardinality(Inside(d)) \in Nat
<1>1. Inside(d) \subseteq Clients
  BY DEF Inside
<1>2. IsFiniteSet(Inside(d))
  BY <1>1, Numbers, FS_Subset
<1>. QED
  BY <1>2, FS_CardinalityType

(* A step that neither serves a client nor stops serving one. *)
LEMMA PlacesSame ==
    ASSUME TypeOK, UNCHANGED <<permits, tunnel>>,
           \A d \in Clients : /\ Served(d)' <=> Served(d)
                              /\ Served(d) => Door(d)' = Door(d)
    PROVE  PlacesOK'
<1>1. \A d \in Doors : Inside(d)' = Inside(d)
  BY DEF Inside
<1>. QED
  BY <1>1 DEF TypeOK, Typed, PlacesOK

(* A handler ends. *)
LEMMA PlacesEnd ==
    ASSUME TypeOK, EndInv, NEW c \in Clients, Served(c), Ends(c), UNCHANGED <<ask, tunnel>>
    PROVE  PlacesOK'
<1>1. /\ pc \in [Clients -> Stages] /\ permits \in [Doors -> 0..MaxClients]
      /\ MaxClients \in Nat
  BY Functions, Numbers DEF TypeOK, Typed
<1>2. Door(c) \in Doors
  BY DEF Door, Doors
<1>3. /\ permits'[Door(c)] = permits[Door(c)] + 1
      /\ \A d \in Doors : d # Door(c) => permits'[d] = permits[d]
      /\ DOMAIN permits' = Doors /\ permits' = [d \in Doors |-> permits'[d]]
  BY <1>1, <1>2 DEF Ends, RelayDropped
<1>4. pc'[c] = "ended" /\ \A b \in Clients : b # c => pc'[b] = pc[b]
  BY <1>1 DEF Ends, RelayDropped, GoTo
<1>5. \A b \in Clients : Door(b)' = Door(b)
  BY DEF Door
<1>6. \A b \in Clients : Served(b)' <=> Served(b) /\ b # c
  BY <1>4 DEF Served
<1>7. /\ Inside(Door(c))' = Inside(Door(c)) \ {c} /\ c \in Inside(Door(c))
      /\ \A d \in Doors : d # Door(c) => Inside(d)' = Inside(d)
  <2>1. ASSUME NEW d PROVE \A b : b \in Inside(d)' <=> b \in Inside(d) /\ b # c
    BY <1>5, <1>6 DEF Inside
  <2>2. c \in Inside(Door(c)) /\ \A d : d # Door(c) => c \notin Inside(d)
    BY DEF Inside
  <2>3. Door(c)' = Door(c)
    BY <1>5
  <2>4. {b \in Clients : Served(b)' /\ Door(b)' = Door(c)} = Inside(Door(c)) \ {c}
    BY <1>5, <1>6 DEF Inside
  <2>. QED
    BY <2>1, <2>2, <2>3, <2>4 DEF Inside
<1>8. Cardinality(Inside(Door(c)) \ {c}) = Cardinality(Inside(Door(c))) - 1
  BY <1>7, InsideFacts, FS_RemoveElement
<1>9. tunnel # "ended" /\ tunnel' = tunnel
  BY <1>1 DEF EndInv, Served, All
<1>10. \A d \in Doors : permits[d] + Cardinality(Inside(d)) = MaxClients
  BY <1>9 DEF TypeOK
<1>11. \A d \in Doors : Cardinality(Inside(d)) \in Nat /\ permits[d] \in 0..MaxClients
  BY <1>1, InsideFacts
<1>12. Cardinality(Inside(Door(c))) - 1 \in Nat
  <2>1. IsFiniteSet(Inside(Door(c)) \ {c})
    BY InsideFacts, FS_RemoveElement
  <2>. QED
    BY <1>8, <2>1, FS_CardinalityType
<1>13. ASSUME NEW d \in Doors
       PROVE permits'[d] + Cardinality(Inside(d)') = MaxClients /\ permits'[d] \in 0..MaxClients
  <2>1. CASE d = Door(c)
    <3>. DEFINE n == Cardinality(Inside(Door(c)))
    <3>1. /\ permits[Door(c)] + n = MaxClients /\ n \in Nat /\ n - 1 \in Nat
          /\ permits[Door(c)] \in 0..MaxClients
      BY <1>2, <1>10, <1>11, <1>12
    <3>2. Cardinality(Inside(d)') = n - 1 /\ permits'[d] = permits[Door(c)] + 1
      <4>1. Inside(d)' = Inside(Door(c)) \ {c}
        BY <1>5, <1>6, <2>1 DEF Inside
      <4>. QED
        BY <1>3, <1>8, <2>1, <4>1
    <3>. HIDE DEF n
    <3>. QED
      BY <1>1, <3>1, <3>2
  <2>2. CASE d # Door(c)
    BY <1>3, <1>7, <1>10, <1>11, <2>2
  <2>. QED
    BY <2>1, <2>2
<1>. QED
  BY <1>3, <1>13 DEF PlacesOK

(* A client is accepted. *)
LEMMA PlacesAccept ==
    ASSUME TypeOK, NEW c \in Clients, Accept(c)
    PROVE  PlacesOK'
<1>1. /\ pc \in [Clients -> Stages] /\ permits \in [Doors -> 0..MaxClients]
      /\ MaxClients \in Nat
  BY Functions, Numbers DEF TypeOK, Typed
<1>2. Door(c) \in Doors /\ permits[Door(c)] > 0 /\ tunnel' = tunnel /\ ask' = ask /\ pc[c] = "queued"
  BY DEF Door, Doors, Accept, client
<1>3. /\ permits'[Door(c)] = permits[Door(c)] - 1
      /\ \A d \in Doors : d # Door(c) => permits'[d] = permits[d]
      /\ permits' = [d \in Doors |-> permits'[d]]
  BY <1>1, <1>2 DEF Accept
<1>4. pc'[c] = "request" /\ \A b \in Clients : b # c => pc'[b] = pc[b]
  BY <1>1 DEF Accept, GoTo
<1>5. \A b \in Clients : Door(b)' = Door(b)
  BY <1>2 DEF Door
<1>6. \A b \in Clients : Served(b)' <=> Served(b) \/ b = c
  BY <1>4 DEF Served
<1>7. ~Served(c)
  BY <1>2 DEF Served
<1>8. \A d \in Doors : permits[d] + Cardinality(Inside(d)) = MaxClients
  BY DEF TypeOK, Accept
<1>9. \A d \in Doors : Cardinality(Inside(d)) \in Nat /\ permits[d] \in 0..MaxClients
  BY <1>1, InsideFacts
<1>10. ASSUME NEW d \in Doors
       PROVE permits'[d] + Cardinality(Inside(d)') = MaxClients /\ permits'[d] \in 0..MaxClients
  <2>1. CASE d = Door(c)
    <3>. DEFINE n == Cardinality(Inside(d))
    <3>1. Inside(d)' = Inside(d) \cup {c} /\ c \notin Inside(d)
      BY <1>5, <1>6, <1>7, <2>1 DEF Inside
    <3>2. Cardinality(Inside(d)') = n + 1
      BY <3>1, InsideFacts, FS_AddElement
    <3>3. permits[d] + n = MaxClients /\ n \in Nat /\ permits[d] \in 0..MaxClients
      BY <1>8, <1>9
    <3>4. permits'[d] = permits[d] - 1 /\ permits[d] > 0
      BY <1>2, <1>3, <2>1
    <3>. HIDE DEF n
    <3>. QED
      BY <1>1, <3>2, <3>3, <3>4
  <2>2. CASE d # Door(c)
    <3>1. Inside(d)' = Inside(d)
      BY <1>5, <1>6, <2>2 DEF Inside
    <3>. QED
      BY <1>3, <1>8, <1>9, <2>2, <3>1
  <2>. QED
    BY <2>1, <2>2
<1>. QED
  BY <1>3, <1>10 DEF PlacesOK

LEMMA PlacesKept ==
    ASSUME TypeOK, NEW c \in Clients, Step(c), UNCHANGED <<permits, tunnel>>,
           Served(c)' <=> Served(c), Served(c) => Door(c)' = Door(c)
    PROVE  PlacesOK'
<1>1. \A d \in Clients : d # c => pc'[d] = pc[d] /\ ask'[d] = ask[d]
  BY OthersSame DEF TypeOK, Same
<1>2. \A d \in Clients : d # c => (Served(d)' <=> Served(d)) /\ Door(d)' = Door(d)
  BY <1>1 DEF Served, Door
<1>. QED
  BY <1>2, PlacesSame

(* No place is lost or made by a client's step. *)
LEMMA PlacesStep ==
    ASSUME TypeOK, EndInv, NEW c \in Clients, Step(c)
    PROVE  PlacesOK'
<1>1. pc \in [Clients -> Stages] /\ ask \in [Clients -> Requests]
  BY Functions DEF TypeOK
<1>2. CASE Dial(c)
  <2>1. UNCHANGED <<permits, tunnel>> /\ (Served(c)' <=> Served(c)) /\ (Served(c) => Door(c)' = Door(c))
    BY <1>2, <1>1 DEF Dial, Served, Door, GoTo, server, upload, far, download, relaying
  <2>. QED
    BY <2>1, PlacesKept
<1>3. CASE ClientSends(c)
  <2>1. UNCHANGED <<permits, tunnel>> /\ (Served(c)' <=> Served(c)) /\ (Served(c) => Door(c)' = Door(c))
    BY <1>3, <1>1 DEF ClientSends, Served, Door, server, upload, far, download, relaying
  <2>. QED
    BY <2>1, PlacesKept
<1>4. CASE ClientCloses(c)
  <2>1. UNCHANGED <<permits, tunnel>> /\ (Served(c)' <=> Served(c)) /\ (Served(c) => Door(c)' = Door(c))
    BY <1>4, <1>1 DEF ClientCloses, Served, Door, server, upload, far, download
  <2>. QED
    BY <2>1, PlacesKept
<1>5. CASE Accept(c)
  BY <1>5, PlacesAccept
<1>6. CASE HandshakeFails(c)
  <2>1. Served(c) /\ Ends(c) /\ UNCHANGED <<ask, tunnel>>
    BY <1>6 DEF HandshakeFails, Served, client
  <2>. QED
    BY <2>1, PlacesEnd
<1>7. CASE RefuseRequest(c)
  <2>1. Served(c) /\ Ends(c) /\ UNCHANGED <<ask, tunnel>>
    BY <1>7 DEF RefuseRequest, Served, client
  <2>. QED
    BY <2>1, PlacesEnd
<1>8. CASE AssociateUdp(c)
  <2>1. UNCHANGED <<permits, tunnel>> /\ (Served(c)' <=> Served(c)) /\ (Served(c) => Door(c)' = Door(c))
    BY <1>8, <1>1 DEF AssociateUdp, Served, Door, GoTo, Say, server, client, upload, far,
       relaying
  <2>. QED
    BY <2>1, PlacesKept
<1>9. CASE UdpEnds(c)
  <2>1. Served(c) /\ Ends(c) /\ UNCHANGED <<ask, tunnel>>
    BY <1>9 DEF UdpEnds, Served, client
  <2>. QED
    BY <2>1, PlacesEnd
<1>10. CASE ReadRequest(c)
  <2>1. UNCHANGED <<permits, tunnel>> /\ (Served(c)' <=> Served(c)) /\ (Served(c) => Door(c)' = Door(c))
    BY <1>10, <1>1 DEF ReadRequest, Served, Door, GoTo, Say, server, client, far, relaying
  <2>. QED
    BY <2>1, PlacesKept
<1>11. CASE Sniff(c)
  <2>1. Served(c) /\ UNCHANGED <<ask, tunnel>>
    BY <1>11 DEF Sniff, Served, client
  <2>2. CASE Ends(c)
    BY <2>1, <2>2, PlacesEnd
  <2>3. CASE GoTo(c, "route") /\ UNCHANGED permits
    <3>1. Served(c)' /\ Door(c)' = Door(c)
      BY <1>1, <2>1, <2>3 DEF Served, Served, Door, GoTo
    <3>. QED
      BY <2>1, <2>3, <3>1, PlacesKept
  <2>. QED
    BY <1>11, <2>2, <2>3 DEF Sniff
<1>12. CASE Block(c)
  <2>1. Served(c) /\ Ends(c) /\ UNCHANGED <<ask, tunnel>>
    BY <1>12 DEF Block, Served, client
  <2>. QED
    BY <2>1, PlacesEnd
<1>13. CASE TakeDirect(c)
  <2>1. UNCHANGED <<permits, tunnel>> /\ (Served(c)' <=> Served(c)) /\ (Served(c) => Door(c)' = Door(c))
    BY <1>13, <1>1 DEF TakeDirect, Served, Door, GoTo, server, client, upload, far, download,
       relaying
  <2>. QED
    BY <2>1, PlacesKept
<1>14. CASE TakeTunnel(c)
  <2>1. UNCHANGED <<permits, tunnel>> /\ (Served(c)' <=> Served(c)) /\ (Served(c) => Door(c)' = Door(c))
    BY <1>14, <1>1 DEF TakeTunnel, Served, Door, GoTo, server, client, upload, far, download,
       relaying
  <2>. QED
    BY <2>1, PlacesKept
<1>15. CASE ViaGateway(c)
  <2>1. UNCHANGED <<permits, tunnel>> /\ (Served(c)' <=> Served(c)) /\ (Served(c) => Door(c)' = Door(c))
    BY <1>15, <1>1 DEF ViaGateway, Served, Door, GoTo, Connected, client, relaying
  <2>. QED
    BY <2>1, PlacesKept
<1>16. CASE GatewayFails(c)
  <2>1. UNCHANGED <<permits, tunnel>> /\ (Served(c)' <=> Served(c)) /\ (Served(c) => Door(c)' = Door(c))
    BY <1>16, <1>1 DEF GatewayFails, Served, Door, GoTo, RetireGateway, client, upload, far,
       download, relaying
  <2>. QED
    BY <2>1, PlacesKept
<1>17. CASE Straight(c)
  <2>1. UNCHANGED <<permits, tunnel>> /\ (Served(c)' <=> Served(c)) /\ (Served(c) => Door(c)' = Door(c))
    BY <1>17, <1>1 DEF Straight, Served, Door, GoTo, Connected, client, relaying
  <2>. QED
    BY <2>1, PlacesKept
<1>18. CASE StraightFails(c)
  <2>1. Served(c) /\ Ends(c) /\ UNCHANGED <<ask, tunnel>>
    BY <1>18 DEF StraightFails, Served, client
  <2>. QED
    BY <2>1, PlacesEnd
<1>19. CASE DirectFails(c)
  <2>1. Served(c) /\ Ends(c) /\ UNCHANGED <<ask, tunnel>>
    BY <1>19 DEF DirectFails, Served, client
  <2>. QED
    BY <2>1, PlacesEnd
<1>20. CASE ClientLost(c)
  <2>1. Served(c) /\ Ends(c) /\ UNCHANGED <<ask, tunnel>>
    BY <1>20 DEF ClientLost, Served, client
  <2>. QED
    BY <2>1, PlacesEnd
<1>21. CASE FarSends(c)
  <2>1. UNCHANGED <<permits, tunnel>> /\ (Served(c)' <=> Served(c)) /\ (Served(c) => Door(c)' = Door(c))
    BY <1>21, <1>1 DEF FarSends, Served, Door, server, client, upload, download, relaying
  <2>. QED
    BY <2>1, PlacesKept
<1>22. CASE FarCloses(c)
  <2>1. UNCHANGED <<permits, tunnel>> /\ (Served(c)' <=> Served(c)) /\ (Served(c) => Door(c)' = Door(c))
    BY <1>22, <1>1 DEF FarCloses, Served, Door, server, client, upload, download, relaying
  <2>. QED
    BY <2>1, PlacesKept
<1>23. CASE UploadRead(c)
  <2>1. UNCHANGED <<permits, tunnel>> /\ (Served(c)' <=> Served(c)) /\ (Served(c) => Door(c)' = Door(c))
    BY <1>23, <1>1 DEF UploadRead, Served, Door, server, client
  <2>. QED
    BY <2>1, PlacesKept
<1>24. CASE UploadSent(c)
  <2>1. UNCHANGED <<permits, tunnel>> /\ (Served(c)' <=> Served(c)) /\ (Served(c) => Door(c)' = Door(c))
    BY <1>24, <1>1 DEF UploadSent, Served, Door, server, client
  <2>. QED
    BY <2>1, PlacesKept
<1>25. CASE UploadFails(c)
  <2>1. UNCHANGED <<permits, tunnel>> /\ (Served(c)' <=> Served(c)) /\ (Served(c) => Door(c)' = Door(c))
    BY <1>25, <1>1 DEF UploadFails, Served, Door, Touch, server, client, upload, far, download
  <2>. QED
    BY <2>1, PlacesKept
<1>26. CASE Fetch(c)
  <2>1. UNCHANGED <<permits, tunnel>> /\ (Served(c)' <=> Served(c)) /\ (Served(c) => Door(c)' = Door(c))
    BY <1>26, <1>1 DEF Fetch, Served, Door, server, client, upload, far, relaying
  <2>. QED
    BY <2>1, PlacesKept
<1>27. CASE Deliver(c)
  <2>1. UNCHANGED <<permits, tunnel>> /\ (Served(c)' <=> Served(c)) /\ (Served(c) => Door(c)' = Door(c))
    BY <1>27, <1>1 DEF Deliver, Served, Door, Say, Touch, server, client, upload, far
  <2>. QED
    BY <2>1, PlacesKept
<1>28. CASE DownloadEnds(c)
  <2>1. Served(c) /\ Ends(c) /\ UNCHANGED <<ask, tunnel>>
    BY <1>28 DEF DownloadEnds, Served, client
  <2>. QED
    BY <2>1, PlacesEnd
<1>29. CASE LingerEnds(c)
  <2>1. Served(c) /\ Ends(c) /\ UNCHANGED <<ask, tunnel>>
    BY <1>29 DEF LingerEnds, Served, client
  <2>. QED
    BY <2>1, PlacesEnd
<1>30. CASE FarLost(c)
  <2>1. UNCHANGED <<permits, tunnel>> /\ (Served(c)' <=> Served(c)) /\ (Served(c) => Door(c)' = Door(c))
    BY <1>30, <1>1 DEF FarLost, Served, Door, server, client
  <2>. QED
    BY <2>1, PlacesKept
<1>31. CASE Greet(c)
  <2>1. UNCHANGED <<permits, tunnel>> /\ (Served(c)' <=> Served(c)) /\ (Served(c) => Door(c)' = Door(c))
    BY <1>31, <1>1 DEF Greet, Served, Door, server, client
  <2>. QED
    BY <2>1, PlacesKept
<1>32. CASE BeginRelay(c)
  <2>1. UNCHANGED <<permits, tunnel>> /\ (Served(c)' <=> Served(c)) /\ (Served(c) => Door(c)' = Door(c))
    BY <1>32, <1>1 DEF BeginRelay, Served, Door, GoTo, server, client
  <2>. QED
    BY <2>1, PlacesKept
<1>33. CASE HeadFails(c)
  <2>1. Served(c) /\ Ends(c) /\ UNCHANGED <<ask, tunnel>>
    BY <1>33 DEF HeadFails, Served, client
  <2>. QED
    BY <2>1, PlacesEnd
<1>. QED
  BY <1>2, <1>3, <1>4, <1>5, <1>6, <1>7, <1>8, <1>9, <1>10, <1>11, <1>12, <1>13, <1>14, <1>15,
     <1>16, <1>17, <1>18, <1>19, <1>20, <1>21, <1>22, <1>23, <1>24, <1>25, <1>26, <1>27, <1>28,
     <1>29, <1>30, <1>31, <1>32, <1>33 DEF Step, Handler, Uploading, Downloading

-----------------------------------------------------------------------------
(* Types, of a step                                                         *)

(* All of Typed but the places. *)
Shaped ==
    /\ tunnel \in {"up", "down", "ended"} /\ healthy \in BOOLEAN
    /\ pc \in [Clients -> Stages] /\ ask \in [Clients -> Requests]
    /\ shut \in [Clients -> {"open", "half", "gone"}]
    /\ carried \in [Clients -> Seq(Int)] /\ got \in [Clients -> Seq(Int)]
    /\ sent \in [Clients -> Nat] /\ taken \in [Clients -> Nat]
    /\ farSent \in [Clients -> Nat] /\ fetched \in [Clients -> Nat]
    /\ farDone \in [Clients -> {"open", "closed", "lost"}]
    /\ up \in [Clients -> Int] /\ down \in [Clients -> Nat]
    /\ upDone \in [Clients -> BOOLEAN]
    /\ \A c \in Clients :
          /\ taken[c] <= sent[c] /\ sent[c] <= MaxSent[c]
          /\ fetched[c] <= farSent[c] /\ farSent[c] <= MaxAnswer[c]
    /\ idle \in [Clients -> 0..Linger] /\ still \in [Clients -> 0..Linger]

LEMMA ShapedTyped == Typed <=> Shaped /\ permits \in [Doors -> 0..MaxClients]
<1>1. Typed => Shaped /\ permits \in [Doors -> 0..MaxClients]
  BY Numbers DEF Typed, Shaped
<1>2. Shaped /\ permits \in [Doors -> 0..MaxClients] => Typed
  <2>. SUFFICES ASSUME Shaped, permits \in [Doors -> 0..MaxClients]
                PROVE  Typed
    OBVIOUS
  <2>1. \A c \in Clients :
          /\ taken[c] \in 0..sent[c] /\ sent[c] \in 0..MaxSent[c]
          /\ fetched[c] \in 0..farSent[c] /\ farSent[c] \in 0..MaxAnswer[c]
    BY Numbers DEF Shaped
  <2>. QED
    BY <2>1 DEF Shaped, Typed
<1>. QED
  BY <1>1, <1>2

LEMMA TypedNext ==
    ASSUME Shaped', permits' \in [Doors -> 0..MaxClients]
    PROVE  Typed'
<1>1. \A c \in Clients :
        /\ taken'[c] \in 0..sent'[c] /\ sent'[c] \in 0..MaxSent[c]
        /\ fetched'[c] \in 0..farSent'[c] /\ farSent'[c] \in 0..MaxAnswer[c]
  BY Numbers DEF Shaped
<1>. QED
  BY <1>1 DEF Shaped, Typed

LEMMA Appended ==
    ASSUME NEW s \in Seq(Int), NEW x \in Int
    PROVE  Append(s, x) \in Seq(Int)
OBVIOUS

LEMMA Spoken ==
    ASSUME got \in [Clients -> Seq(Int)], NEW c \in Clients, NEW x \in Int, Say(c, x)
    PROVE  got' \in [Clients -> Seq(Int)] /\ got'[c] = Append(got[c], x)
BY DEF Say

LEMMA ShapedEnds ==
    ASSUME Shaped, NEW c \in Clients, Ends(c), got' \in [Clients -> Seq(Int)],
           UNCHANGED <<tunnel, healthy, client, upload, far, fetched>>
    PROVE  Shaped'
<1>1. pc' \in [Clients -> Stages] /\ upDone' \in [Clients -> BOOLEAN]
  BY DEF Shaped, Ends, RelayDropped, GoTo, Stages
<1>2. idle' \in [Clients -> 0..Linger] /\ still' \in [Clients -> 0..Linger]
  BY Numbers DEF Shaped, Ends, RelayDropped
<1>3. up' \in [Clients -> Int] /\ down' \in [Clients -> Nat]
  BY DEF Shaped, Ends, RelayDropped, None
<1>. QED
  BY <1>1, <1>2, <1>3 DEF Shaped, client, upload, far

LEMMA ShapedConnected ==
    ASSUME Shaped, NEW c \in Clients, NEW ahead \in {0, 1}, ahead <= MaxAnswer[c],
           Connected(c, ahead), healthy' = healthy
    PROVE  Shaped'
<1>1. up' \in [Clients -> Int] /\ down' \in [Clients -> Nat] /\ pc' \in [Clients -> Stages]
  BY DEF Connected, Shaped, GoTo, Stages, PassedOn
<1>2. /\ farSent' \in [Clients -> Nat] /\ fetched' \in [Clients -> Nat]
      /\ \A b \in Clients : fetched'[b] <= farSent'[b] /\ farSent'[b] <= MaxAnswer[b]
  <2>1. /\ farSent' = [farSent EXCEPT ![c] = ahead] /\ fetched' = [fetched EXCEPT ![c] = ahead]
        /\ farSent \in [Clients -> Nat] /\ fetched \in [Clients -> Nat] /\ ahead \in Nat
        /\ \A b \in Clients : fetched[b] <= farSent[b] /\ farSent[b] <= MaxAnswer[b]
    BY DEF Connected, Shaped
  <2>2. /\ farSent' \in [Clients -> Nat] /\ fetched' \in [Clients -> Nat]
        /\ \A b \in Clients : /\ farSent'[b] = IF b = c THEN ahead ELSE farSent[b]
                             /\ fetched'[b] = IF b = c THEN ahead ELSE fetched[b]
    BY <2>1
  <2>. QED
    BY <2>1, <2>2
<1>. QED
  BY <1>1, <1>2 DEF Connected, Shaped, client, upload

LEMMA ShapedStep ==
    ASSUME Typed, NEW c \in Clients, Step(c)
    PROVE  Shaped'
<1>1. Shaped
  BY ShapedTyped
<1>2. /\ Linger \in Nat \ {0} /\ \A b \in Clients : Asks[b] \subseteq Requests
      /\ \A b \in Clients : MaxSent[b] \in Nat /\ MaxAnswer[b] \in Nat
  BY InboundAssumption
<1>3. Ok \in Int /\ No \in Int /\ Fin \in Int
  BY DEF Ok, No, Fin
<1>4. /\ \A x \in Int : Say(c, x) => got' \in [Clients -> Seq(Int)]
      /\ \A x \in Int : Append(carried[c], x) \in Seq(Int)
  BY <1>1, Spoken, Appended DEF Shaped
<1>5. CASE Dial(c)
  <2>1. pc' \in [Clients -> Stages] /\ ask' \in [Clients -> Requests]
    BY <1>5, <1>1, <1>2 DEF Dial, Shaped, GoTo, Stages
  <2>. QED
    BY <1>5, <1>1, <2>1 DEF Dial, Shaped, server, upload, far, download, relaying
<1>6. CASE ClientSends(c)
  <2>1. \A b \in Clients : sent'[b] = IF b = c THEN sent[c] + 1 ELSE sent[b]
    BY <1>6, <1>1 DEF ClientSends, Shaped
  <2>2. sent' \in [Clients -> Nat]
    BY <1>6, <1>1 DEF ClientSends, Shaped
  <2>3. \A b \in Clients : taken[b] <= sent'[b] /\ sent'[b] <= MaxSent[b]
    <3>1. ASSUME NEW b \in Clients
          PROVE  /\ taken[b] \in Nat /\ sent[b] \in Nat /\ MaxSent[b] \in Nat
                 /\ taken[b] <= sent[b] /\ sent[b] <= MaxSent[b] /\ sent[c] < MaxSent[c]
      BY <1>6, <1>1, <1>2 DEF ClientSends, Shaped
    <3>. QED
      BY <2>1, <3>1
  <2>. QED
    BY <1>6, <1>1, <1>2, <2>2, <2>3 DEF ClientSends, Shaped, Stages, server, upload, far,
       download, relaying
<1>7. CASE ClientCloses(c)
  <2>1. shut' \in [Clients -> {"open", "half", "gone"}]
    BY <1>7, <1>1 DEF ClientCloses, Shaped
  <2>2. still' \in [Clients -> 0..Linger]
    BY <1>7, <1>1, <1>2 DEF ClientCloses, Shaped
  <2>. QED
    BY <1>7, <1>1, <1>2, <2>1, <2>2 DEF ClientCloses, Shaped, Stages, server, upload, far,
       download
<1>8. CASE Accept(c)
  <2>1. pc' \in [Clients -> Stages]
    BY <1>8, <1>1 DEF Accept, Shaped, GoTo, Stages
  <2>. QED
    BY <1>8, <1>1, <2>1 DEF Accept, Shaped, client, upload, far, download, relaying
<1>9. CASE HandshakeFails(c)
  <2>1. got' \in [Clients -> Seq(Int)]
    BY <1>9, <1>1, <1>3, <1>4 DEF HandshakeFails, Shaped, download
  <2>2. Ends(c) /\ UNCHANGED <<tunnel, healthy, client, upload, far, fetched>>
    BY <1>9 DEF HandshakeFails, download
  <2>. QED
    BY <1>1, <2>1, <2>2, ShapedEnds
<1>10. CASE RefuseRequest(c)
  <2>1. got' \in [Clients -> Seq(Int)]
    BY <1>10, <1>1, <1>3, <1>4 DEF RefuseRequest, Shaped, download
  <2>2. Ends(c) /\ UNCHANGED <<tunnel, healthy, client, upload, far, fetched>>
    BY <1>10 DEF RefuseRequest, download
  <2>. QED
    BY <1>1, <2>1, <2>2, ShapedEnds
<1>11. CASE AssociateUdp(c)
  <2>1. pc' \in [Clients -> Stages] /\ got' \in [Clients -> Seq(Int)]
    BY <1>11, <1>1, <1>3, <1>4 DEF AssociateUdp, Shaped, GoTo, Stages
  <2>. QED
    BY <1>11, <1>1, <2>1 DEF AssociateUdp, Shaped, server, client, upload, far, relaying
<1>12. CASE UdpEnds(c)
  <2>1. got' \in [Clients -> Seq(Int)]
    BY <1>12, <1>1, <1>3, <1>4 DEF UdpEnds, Shaped, download
  <2>2. Ends(c) /\ UNCHANGED <<tunnel, healthy, client, upload, far, fetched>>
    BY <1>12 DEF UdpEnds, download
  <2>. QED
    BY <1>1, <2>1, <2>2, ShapedEnds
<1>13. CASE ReadRequest(c)
  <2>1. got' \in [Clients -> Seq(Int)] /\ pc' \in [Clients -> Stages]
    BY <1>13, <1>1, <1>3, <1>4 DEF ReadRequest, Shaped, GoTo, Stages
  <2>2. taken' \in [Clients -> Nat] /\ \A b \in Clients : taken'[b] <= sent[b]
    <3>1. \/ taken' = taken
          \/ taken' = [taken EXCEPT ![c] = 1] /\ sent[c] > 0
      BY <1>13 DEF ReadRequest
    <3>2. /\ taken \in [Clients -> Nat] /\ sent \in [Clients -> Nat]
          /\ \A b \in Clients : taken[b] <= sent[b]
      BY <1>1 DEF Shaped
    <3>3. CASE taken' = [taken EXCEPT ![c] = 1] /\ sent[c] > 0
      <4>1. taken' \in [Clients -> Nat] /\ \A b \in Clients : taken'[b] = IF b = c THEN 1 ELSE taken[b]
        BY <3>2, <3>3
      <4>. QED
        BY <3>2, <3>3, <4>1
    <3>. QED
      BY <3>1, <3>2, <3>3
  <2>. QED
    BY <1>13, <1>1, <2>1, <2>2 DEF ReadRequest, Shaped, server, client, far, relaying
<1>14. CASE Sniff(c)
  <2>1. pc' \in [Clients -> Stages]
    BY <1>14, <1>1 DEF Sniff, Shaped, GoTo, Ends, RelayDropped, Stages
  <2>2. taken' \in [Clients -> Nat] /\ \A b \in Clients : taken'[b] <= sent[b]
    <3>1. \/ taken' = taken
          \/ taken' = [taken EXCEPT ![c] = 1] /\ sent[c] > 0
      BY <1>14 DEF Sniff
    <3>2. /\ taken \in [Clients -> Nat] /\ sent \in [Clients -> Nat]
          /\ \A b \in Clients : taken[b] <= sent[b]
      BY <1>1 DEF Shaped
    <3>3. CASE taken' = [taken EXCEPT ![c] = 1] /\ sent[c] > 0
      <4>1. taken' \in [Clients -> Nat] /\ \A b \in Clients : taken'[b] = IF b = c THEN 1 ELSE taken[b]
        BY <3>2, <3>3
      <4>. QED
        BY <3>2, <3>3, <4>1
    <3>. QED
      BY <3>1, <3>2, <3>3
  <2>3. /\ upDone' \in [Clients -> BOOLEAN]
        /\ up' \in [Clients -> Int] /\ down' \in [Clients -> Nat]
        /\ idle' \in [Clients -> 0..Linger] /\ still' \in [Clients -> 0..Linger]
    <3>1. \/ UNCHANGED relaying
          \/ /\ upDone' = [upDone EXCEPT ![c] = FALSE]
             /\ up' = [up EXCEPT ![c] = None] /\ down' = [down EXCEPT ![c] = None]
             /\ idle' = [idle EXCEPT ![c] = 0] /\ still' = [still EXCEPT ![c] = 0]
      BY <1>14 DEF Sniff, Ends, RelayDropped
    <3>2. /\ upDone \in [Clients -> BOOLEAN] /\ 0 \in 0..Linger
          /\ up \in [Clients -> Int] /\ down \in [Clients -> Nat] /\ None \in Nat
          /\ idle \in [Clients -> 0..Linger] /\ still \in [Clients -> 0..Linger]
      BY <1>1, <1>2 DEF Shaped, None
    <3>3. CASE UNCHANGED relaying
      BY <3>2, <3>3 DEF relaying
    <3>4. CASE /\ upDone' = [upDone EXCEPT ![c] = FALSE]
               /\ up' = [up EXCEPT ![c] = None] /\ down' = [down EXCEPT ![c] = None]
               /\ idle' = [idle EXCEPT ![c] = 0] /\ still' = [still EXCEPT ![c] = 0]
      BY <3>2, <3>4 DEF None
    <3>. QED
      BY <3>1, <3>3, <3>4
  <2>. QED
    BY <1>14, <1>1, <2>1, <2>2, <2>3 DEF Sniff, Shaped, client, far, download
<1>15. CASE Block(c)
  <2>1. got' \in [Clients -> Seq(Int)]
    BY <1>15, <1>1, <1>3, <1>4 DEF Block, TellIfNot, Shaped, download
  <2>2. Ends(c) /\ UNCHANGED <<tunnel, healthy, client, upload, far, fetched>>
    BY <1>15 DEF Block, download
  <2>. QED
    BY <1>1, <2>1, <2>2, ShapedEnds
<1>16. CASE TakeDirect(c)
  <2>1. pc' \in [Clients -> Stages]
    BY <1>16, <1>1 DEF TakeDirect, Shaped, GoTo, Stages
  <2>. QED
    BY <1>16, <1>1, <2>1 DEF TakeDirect, Shaped, server, client, upload, far, download, relaying
<1>17. CASE TakeTunnel(c)
  <2>1. pc' \in [Clients -> Stages]
    BY <1>17, <1>1 DEF TakeTunnel, Shaped, GoTo, Stages
  <2>. QED
    BY <1>17, <1>1, <2>1 DEF TakeTunnel, Shaped, server, client, upload, far, download, relaying
<1>18. CASE ViaGateway(c)
  <2>1. PICK ahead \in {0, 1} : ahead <= MaxAnswer[c] /\ Connected(c, ahead)
    BY <1>18 DEF ViaGateway
  <2>. QED
    BY <1>18, <1>1, <2>1, ShapedConnected DEF ViaGateway
<1>19. CASE GatewayFails(c)
  <2>1. pc' \in [Clients -> Stages] /\ healthy' \in BOOLEAN
    BY <1>19, <1>1 DEF GatewayFails, Shaped, GoTo, Stages, RetireGateway
  <2>. QED
    BY <1>19, <1>1, <2>1 DEF GatewayFails, Shaped, client, upload, far, download, relaying
<1>20. CASE Straight(c)
  <2>1. 0 <= MaxAnswer[c] /\ Connected(c, 0) /\ healthy' = healthy
    BY <1>20, <1>2 DEF Straight
  <2>. QED
    BY <1>1, <2>1, ShapedConnected
<1>21. CASE StraightFails(c)
  <2>1. got' \in [Clients -> Seq(Int)]
    BY <1>21, <1>1, <1>3, <1>4 DEF StraightFails, Shaped, download
  <2>2. Ends(c) /\ UNCHANGED <<tunnel, healthy, client, upload, far, fetched>>
    BY <1>21 DEF StraightFails, download
  <2>. QED
    BY <1>1, <2>1, <2>2, ShapedEnds
<1>22. CASE DirectFails(c)
  <2>1. got' \in [Clients -> Seq(Int)]
    BY <1>22, <1>1, <1>3, <1>4 DEF DirectFails, TellIfNot, Shaped, download
  <2>2. Ends(c) /\ UNCHANGED <<tunnel, healthy, client, upload, far, fetched>>
    BY <1>22 DEF DirectFails, download
  <2>. QED
    BY <1>1, <2>1, <2>2, ShapedEnds
<1>23. CASE ClientLost(c)
  <2>1. got' \in [Clients -> Seq(Int)]
    BY <1>23, <1>1, <1>3, <1>4 DEF ClientLost, Shaped, download
  <2>2. Ends(c) /\ UNCHANGED <<tunnel, healthy, client, upload, far, fetched>>
    BY <1>23 DEF ClientLost, download
  <2>. QED
    BY <1>1, <2>1, <2>2, ShapedEnds
<1>24. CASE FarSends(c)
  <2>1. \A b \in Clients : farSent'[b] = IF b = c THEN farSent[c] + 1 ELSE farSent[b]
    BY <1>24, <1>1 DEF FarSends, Shaped
  <2>2. farSent' \in [Clients -> Nat]
    BY <1>24, <1>1 DEF FarSends, Shaped
  <2>3. \A b \in Clients : fetched[b] <= farSent'[b] /\ farSent'[b] <= MaxAnswer[b]
    <3>1. ASSUME NEW b \in Clients
          PROVE  /\ fetched[b] \in Nat /\ farSent[b] \in Nat /\ MaxAnswer[b] \in Nat
                 /\ fetched[b] <= farSent[b] /\ farSent[b] <= MaxAnswer[b]
                 /\ farSent[c] < MaxAnswer[c]
      BY <1>24, <1>1, <1>2 DEF FarSends, Shaped
    <3>. QED
      BY <2>1, <3>1
  <2>. QED
    BY <1>24, <1>1, <1>2, <2>2, <2>3 DEF FarSends, Shaped, Stages, server, client, upload,
       download, relaying
<1>25. CASE FarCloses(c)
  <2>1. farDone' \in [Clients -> {"open", "closed", "lost"}]
    BY <1>25, <1>1 DEF FarCloses, Shaped
  <2>. QED
    BY <1>25, <1>1, <2>1 DEF FarCloses, Shaped, server, client, upload, download, relaying
<1>26. CASE UploadRead(c)
  <2>. DEFINE t == taken[c] + 1
  <2>0. /\ up \in [Clients -> Int] /\ taken \in [Clients -> Nat] /\ sent \in [Clients -> Nat]
        /\ \A b \in Clients : taken[b] <= sent[b]
        /\ taken[c] \in Nat /\ t \in Nat /\ Fin \in Int
    BY <1>1 DEF Shaped, Fin
  <2>5. \/ t <= sent[c] /\ taken' = [taken EXCEPT ![c] = t] /\ up' = [up EXCEPT ![c] = t]
        \/ taken' = taken /\ up' = [up EXCEPT ![c] = Fin]
    BY <1>26, <2>0 DEF UploadRead
  <2>. HIDE DEF t
  <2>1. up' \in [Clients -> Int]
    BY <2>0, <2>5
  <2>2. taken' \in [Clients -> Nat] /\ \A b \in Clients : taken'[b] <= sent[b]
    <3>1. CASE t <= sent[c] /\ taken' = [taken EXCEPT ![c] = t]
      <4>1. /\ taken' \in [Clients -> Nat]
            /\ \A b \in Clients : taken'[b] = IF b = c THEN t ELSE taken[b]
        BY <2>0, <3>1
      <4>. QED
        BY <2>0, <3>1, <4>1
    <3>. QED
      BY <2>0, <2>5, <3>1
  <2>3. UNCHANGED <<server, pc, client, carried, far, download, down, upDone, idle, still>>
    BY <1>26 DEF UploadRead
  <2>. QED
    BY <1>1, <2>1, <2>2, <2>3 DEF Shaped, server, client, far, download
<1>27. CASE UploadSent(c)
  <2>1. /\ idle' \in [Clients -> 0..Linger] /\ upDone' \in [Clients -> BOOLEAN]
        /\ up' \in [Clients -> Int]
    BY <1>27, <1>1, <1>2 DEF UploadSent, Shaped, Touch, None
  <2>2. up[c] \in Int
    BY <1>1 DEF Shaped
  <2>3. carried' \in [Clients -> Seq(Int)]
    BY <1>27, <1>1, <1>4, <2>2 DEF UploadSent, Shaped
  <2>4. UNCHANGED <<server, pc, client, taken, far, download, down, still>>
    BY <1>27 DEF UploadSent
  <2>. QED
    BY <1>1, <2>1, <2>3, <2>4 DEF Shaped, server, client, far, download
<1>28. CASE UploadFails(c)
  <2>1. /\ idle' \in [Clients -> 0..Linger] /\ upDone' \in [Clients -> BOOLEAN]
        /\ up' \in [Clients -> Int]
    BY <1>28, <1>1, <1>2 DEF UploadFails, Shaped, Touch, None
  <2>2. UNCHANGED <<server, pc, client, upload, far, download, down, still>>
    BY <1>28 DEF UploadFails
  <2>. QED
    BY <1>1, <2>1, <2>2 DEF Shaped, server, client, upload, far, download
<1>29. CASE Fetch(c)
  <2>1. fetched' \in [Clients -> Nat] /\ \A b \in Clients : fetched'[b] <= farSent[b]
    BY <1>29, <1>1 DEF Fetch, Shaped
  <2>2. down' \in [Clients -> Nat]
    BY <1>29, <1>1 DEF Fetch, Shaped
  <2>3. UNCHANGED <<server, pc, client, upload, far, got, up, upDone, idle, still>>
    BY <1>29 DEF Fetch
  <2>. QED
    BY <1>1, <2>1, <2>2, <2>3 DEF Shaped, server, client, upload, far
<1>30. CASE Deliver(c)
  <2>1. down[c] \in Int
    BY <1>1 DEF Shaped
  <2>2. got' \in [Clients -> Seq(Int)]
    BY <1>30, <1>4, <2>1 DEF Deliver
  <2>3. /\ idle' \in [Clients -> 0..Linger] /\ still' \in [Clients -> 0..Linger]
        /\ down' \in [Clients -> Nat]
    BY <1>30, <1>1, <1>2 DEF Deliver, Shaped, Touch, None
  <2>4. UNCHANGED <<server, pc, client, upload, far, fetched, up, upDone>>
    BY <1>30 DEF Deliver
  <2>. QED
    BY <1>1, <2>2, <2>3, <2>4 DEF Shaped, server, client, upload, far
<1>31. CASE DownloadEnds(c)
  <2>1. got' \in [Clients -> Seq(Int)]
    BY <1>31, <1>1, <1>3, <1>4 DEF DownloadEnds, Shaped
  <2>2. Ends(c) /\ UNCHANGED <<tunnel, healthy, client, upload, far, fetched>>
    BY <1>31 DEF DownloadEnds
  <2>. QED
    BY <1>1, <2>1, <2>2, ShapedEnds
<1>32. CASE LingerEnds(c)
  <2>1. got' \in [Clients -> Seq(Int)]
    BY <1>32, <1>1, <1>3, <1>4 DEF LingerEnds, Shaped, download
  <2>2. Ends(c) /\ UNCHANGED <<tunnel, healthy, client, upload, far, fetched>>
    BY <1>32 DEF LingerEnds, download
  <2>. QED
    BY <1>1, <2>1, <2>2, ShapedEnds
<1>33. CASE FarLost(c)
  <2>1. farDone' \in [Clients -> {"open", "closed", "lost"}]
    BY <1>33, <1>1 DEF FarLost, Shaped
  <2>. QED
    BY <1>33, <1>1, <2>1 DEF FarLost, Shaped, server, client, upload, download, relaying
<1>34. CASE Greet(c)
  <2>. DEFINE r == IF ReplyDue(c) THEN Append(got[c], Ok) ELSE got[c]
  <2>1. r \in Seq(Int) /\ down[c] \in Int
    BY <1>1, <1>3, Appended DEF Shaped
  <2>2. got' = [got EXCEPT ![c] = IF down[c] = None THEN r ELSE Append(r, down[c])]
    BY <1>34 DEF Greet
  <2>. HIDE DEF r
  <2>3. got' \in [Clients -> Seq(Int)]
    BY <1>1, <2>1, <2>2, Appended DEF Shaped
  <2>4. down' \in [Clients -> Nat]
    BY <1>34, <1>1 DEF Greet, Shaped, None
  <2>5. UNCHANGED <<server, pc, client, upload, far, fetched, up, upDone, idle, still>>
    BY <1>34 DEF Greet
  <2>. QED
    BY <1>1, <2>3, <2>4, <2>5 DEF Shaped, server, client, upload, far
<1>35. CASE BeginRelay(c)
  <2>1. pc' \in [Clients -> Stages]
    BY <1>35, <1>1 DEF BeginRelay, Shaped, GoTo, Stages
  <2>. QED
    BY <1>35, <1>1, <2>1 DEF BeginRelay, Shaped, server, client, upload, far, download, relaying
<1>36. CASE HeadFails(c)
  <2>1. got' \in [Clients -> Seq(Int)]
    BY <1>36, <1>1 DEF HeadFails, Shaped, download
  <2>2. Ends(c) /\ UNCHANGED <<tunnel, healthy, client, upload, far, fetched>>
    BY <1>36 DEF HeadFails, download
  <2>. QED
    BY <1>1, <2>1, <2>2, ShapedEnds
<1>. QED
  BY <1>5, <1>6, <1>7, <1>8, <1>9, <1>10, <1>11, <1>12, <1>13, <1>14, <1>15, <1>16, <1>17, <1>18,
     <1>19, <1>20, <1>21, <1>22, <1>23, <1>24, <1>25, <1>26, <1>27, <1>28, <1>29, <1>30, <1>31,
     <1>32, <1>33, <1>34, <1>35, <1>36 DEF Step, Handler, Uploading, Downloading

-----------------------------------------------------------------------------
(* Streams                                                                  *)

LEMMA Interval ==
    ASSUME NEW a \in Nat, NEW b \in Nat, a <= b
    PROVE  Cardinality((a + 1)..b) = b - a
<1>1. Cardinality((a + 1)..b) = IF a + 1 > b THEN 0 ELSE b - (a + 1) + 1
  BY FS_Interval
<1>. QED
  BY <1>1

(* The far end has got the chunks up to the last one it got. *)
LEMMA CarriedCount ==
    ASSUME NEW s \in Seq(Int), NEW i \in 1..Len(s), IsChunk(s[i]),
           \A j \in 1..Len(s) : s[j] = j \/ (s[j] = Fin /\ j = Len(s))
    PROVE  s[i] = i /\ Count(s, i) = i
<1>1. i \in Nat /\ Len(s) \in Nat /\ i <= Len(s) /\ 1 <= i
  OBVIOUS
<1>2. s[i] = i
  BY DEF IsChunk, Fin
<1>3. \A j \in 1..i : IsChunk(s[j])
  <2>. SUFFICES ASSUME NEW j \in 1..i PROVE IsChunk(s[j])
    OBVIOUS
  <2>1. j \in 1..Len(s) /\ (j = Len(s) => j = i)
    BY <1>1
  <2>2. CASE j = i
    BY <2>2
  <2>3. CASE j # i
    <3>1. s[j] = j /\ j > 0
      BY <2>1, <2>3
    <3>. QED
      BY <3>1 DEF IsChunk
  <2>. QED
    BY <2>2, <2>3
<1>4. {j \in 1..i : IsChunk(s[j])} = (0 + 1)..i
  BY <1>3
<1>5. Cardinality((0 + 1)..i) = i
  BY <1>1, Interval
<1>. QED
  BY <1>2, <1>4, <1>5 DEF Count

(* What each place of a stream to the client holds. *)
LEMMA StreamItems ==
    ASSUME NEW s, NEW p \in Nat, NEW k \in Nat, NEW e \in Nat, Stream(s, p, k, e)
    PROVE  /\ Len(s) = p + k + e /\ e \in {0, 1}
           /\ \A i \in 1..Len(s) : i <= p => IsReply(s[i])
           /\ \A i \in 1..Len(s) : i > p /\ i <= p + k => s[i] = i - p
           /\ \A i \in 1..Len(s) : i > p + k => s[i] = Fin /\ i = Len(s) /\ e = 1
<1>1. Len(s) = p + k + e /\ e \in {0, 1}
  BY DEF Stream
<1>2. \A i \in 1..Len(s) : i <= p => IsReply(s[i])
  BY DEF Stream
<1>3. ASSUME NEW i \in 1..Len(s), i > p, i <= p + k
      PROVE  s[i] = i - p
  <2>1. i - p \in 1..k /\ p + (i - p) = i
    BY <1>1, <1>3
  <2>2. \A j \in 1..k : s[p + j] = j
    BY DEF Stream
  <2>3. s[p + (i - p)] = i - p
    BY <2>1, <2>2
  <2>. QED
    BY <2>1, <2>3
<1>4. ASSUME NEW i \in 1..Len(s), i > p + k
      PROVE  s[i] = Fin /\ i = Len(s) /\ e = 1
  <2>1. i = p + k + 1 /\ e = 1
    BY <1>1, <1>4
  <2>. QED
    BY <1>1, <2>1 DEF Stream
<1>. QED
  BY <1>1, <1>2, <1>3, <1>4

(* Its chunks are those between the replies and Fin. *)
LEMMA StreamChunks ==
    ASSUME NEW s, NEW p \in Nat, NEW k \in Nat, NEW e \in Nat, Stream(s, p, k, e)
    PROVE  \A i \in 1..Len(s) : IsChunk(s[i]) <=> i > p /\ i <= p + k
<1>. SUFFICES ASSUME NEW i \in 1..Len(s)
              PROVE  IsChunk(s[i]) <=> i > p /\ i <= p + k
  OBVIOUS
<1>1. Len(s) \in Nat /\ i \in Nat /\ i >= 1
  BY StreamItems
<1>2. CASE i <= p
  <2>1. IsReply(s[i])
    BY <1>2, StreamItems
  <2>. QED
    BY <1>1, <1>2, <2>1 DEF IsReply, IsChunk, Ok, No
<1>3. CASE i > p /\ i <= p + k
  <2>1. s[i] = i - p
    BY <1>3, StreamItems
  <2>. QED
    BY <1>1, <1>3, <2>1 DEF IsChunk
<1>4. CASE i > p + k
  <2>1. s[i] = Fin
    BY <1>4, StreamItems
  <2>. QED
    BY <1>1, <1>4, <2>1 DEF IsChunk, Fin
<1>. QED
  BY <1>1, <1>2, <1>3, <1>4

LEMMA StreamCount ==
    ASSUME NEW s, NEW p \in Nat, NEW k \in Nat, NEW e \in Nat, Stream(s, p, k, e)
    PROVE  /\ Count(s, Len(s)) = k
           /\ \A i \in 1..Len(s) : IsChunk(s[i]) => s[i] = Count(s, i)
<1>1. Len(s) = p + k + e /\ Len(s) \in Nat
  BY StreamItems
<1>2. Count(s, Len(s)) = k
  <2>1. {i \in 1..Len(s) : IsChunk(s[i])} = {i \in 1..Len(s) : i > p /\ i <= p + k}
    BY StreamChunks
  <2>2. {i \in 1..Len(s) : i > p /\ i <= p + k} = (p + 1)..(p + k)
    BY <1>1
  <2>3. Cardinality((p + 1)..(p + k)) = (p + k) - p
    BY Interval
  <2>4. (p + k) - p = k
    OBVIOUS
  <2>5. Count(s, Len(s)) = Cardinality({i \in 1..Len(s) : IsChunk(s[i])})
    BY DEF Count
  <2>. QED
    BY <2>1, <2>2, <2>3, <2>4, <2>5
<1>3. ASSUME NEW i \in 1..Len(s), IsChunk(s[i])
      PROVE  s[i] = Count(s, i)
  <2>1. i > p /\ i <= p + k /\ i \in Nat
    BY <1>1, <1>3, StreamChunks
  <2>2. s[i] = i - p
    BY <2>1, StreamItems
  <2>3. {j \in 1..i : IsChunk(s[j])} = {j \in 1..i : j > p /\ j <= p + k}
    <3>1. \A j \in 1..i : j \in 1..Len(s)
      BY <1>1
    <3>. QED
      BY <3>1, StreamChunks
  <2>4. {j \in 1..i : j > p /\ j <= p + k} = (p + 1)..i
    BY <2>1
  <2>5. Cardinality((p + 1)..i) = i - p
    BY <2>1, Interval
  <2>. QED
    BY <2>2, <2>3, <2>4, <2>5 DEF Count
<1>. QED
  BY <1>2, <1>3

(* A reply, a chunk and Fin behind what there is. *)
LEMMA StreamReply ==
    ASSUME NEW s \in Seq(Int), NEW p \in Nat, Stream(s, p, 0, 0), NEW x \in Int, IsReply(x)
    PROVE  Stream(Append(s, x), p + 1, 0, 0)
<1>1. Len(s) = p /\ Len(Append(s, x)) = p + 1
  BY DEF Stream
<1>2. Append(s, x)[p + 1] = x /\ \A i \in 1..p : Append(s, x)[i] = s[i]
  BY <1>1
<1>3. \A i \in 1..p : IsReply(s[i])
  BY DEF Stream
<1>4. \A i \in 1..(p + 1) : IsReply(Append(s, x)[i])
  <2>1. \A i \in 1..(p + 1) : i \in 1..p \/ i = p + 1
    OBVIOUS
  <2>. QED
    BY <1>2, <1>3, <2>1
<1>. QED
  BY <1>1, <1>4 DEF Stream

LEMMA StreamChunk ==
    ASSUME NEW s \in Seq(Int), NEW p \in Nat, NEW k \in Nat, Stream(s, p, k, 0)
    PROVE  Stream(Append(s, k + 1), p, k + 1, 0)
<1>1. Len(s) = p + k /\ Len(Append(s, k + 1)) = p + (k + 1)
  BY DEF Stream
<1>2. Append(s, k + 1)[p + (k + 1)] = k + 1 /\ \A i \in 1..(p + k) : Append(s, k + 1)[i] = s[i]
  BY <1>1
<1>3. \A i \in 1..p : IsReply(Append(s, k + 1)[i])
  <2>1. \A i \in 1..p : i \in 1..(p + k) /\ IsReply(s[i])
    BY DEF Stream
  <2>. QED
    BY <1>2, <2>1
<1>4. \A i \in 1..(k + 1) : Append(s, k + 1)[p + i] = i
  <2>1. \A i \in 1..k : p + i \in 1..(p + k) /\ s[p + i] = i
    BY DEF Stream
  <2>2. \A i \in 1..(k + 1) : i \in 1..k \/ i = k + 1
    OBVIOUS
  <2>. QED
    BY <1>2, <2>1, <2>2
<1>. QED
  BY <1>1, <1>3, <1>4 DEF Stream

LEMMA StreamFin ==
    ASSUME NEW s \in Seq(Int), NEW p \in Nat, NEW k \in Nat, Stream(s, p, k, 0)
    PROVE  Stream(Append(s, Fin), p, k, 1)
<1>1. Fin \in Int
  BY DEF Fin
<1>2. Len(s) = p + k /\ Len(Append(s, Fin)) = p + k + 1
  BY <1>1 DEF Stream
<1>3. Append(s, Fin)[p + k + 1] = Fin /\ \A i \in 1..(p + k) : Append(s, Fin)[i] = s[i]
  BY <1>1, <1>2
<1>4. \A i \in 1..p : IsReply(Append(s, Fin)[i])
  <2>1. \A i \in 1..p : i \in 1..(p + k) /\ IsReply(s[i])
    BY DEF Stream
  <2>. QED
    BY <1>3, <2>1
<1>5. \A i \in 1..k : Append(s, Fin)[p + i] = i
  <2>1. \A i \in 1..k : p + i \in 1..(p + k) /\ s[p + i] = i
    BY DEF Stream
  <2>. QED
    BY <1>3, <2>1
<1>. QED
  BY <1>2, <1>3, <1>4, <1>5 DEF Stream

-----------------------------------------------------------------------------
(* The upload                                                               *)

LEMMA UpConnected ==
    ASSUME Typed, NEW c \in Clients, UpInv(c), pc[c] \in Routing, NEW ahead, Connected(c, ahead)
    PROVE  UpInv(c)'
<1>1. /\ pc'[c] = "greet" /\ taken'[c] = taken[c] /\ carried'[c] = carried[c]
      /\ up'[c] = taken[c] /\ upDone'[c] = upDone[c] /\ taken[c] \in {0, 1}
  <2>1. /\ pc \in [Clients -> Stages] /\ up \in [Clients -> Int] /\ taken[c] \in Nat
    BY Functions
  <2>2. taken[c] <= 1
    BY DEF UpInv
  <2>3. /\ pc' = [pc EXCEPT ![c] = "greet"] /\ up' = [up EXCEPT ![c] = taken[c]]
        /\ taken' = taken /\ carried' = carried /\ upDone' = upDone
    BY DEF Connected, GoTo, upload, PassedOn
  <2>. QED
    BY <2>1, <2>2, <2>3
<1>2. carried[c] = <<>> /\ ~upDone[c]
  BY DEF UpInv, Routing
<1>3. Waiting(c)'
  BY <1>1, <1>2 DEF Waiting, None
<1>. QED
  BY <1>1, <1>2, <1>3 DEF UpInv, Routing, Told, Fin

LEMMA UpStep ==
    ASSUME Typed, NEW c \in Clients, UpInv(c), Step(c)
    PROVE  UpInv(c)'
<1>1. /\ pc \in [Clients -> Stages] /\ ask \in [Clients -> Requests]
      /\ shut \in [Clients -> {"open", "half", "gone"}]
      /\ sent \in [Clients -> Nat] /\ taken \in [Clients -> Nat]
      /\ carried \in [Clients -> Seq(Int)] /\ upDone \in [Clients -> BOOLEAN]
      /\ up \in [Clients -> Int]
  BY Functions
<1>2. UpInv(c)
  OBVIOUS
<1>3. CASE Dial(c)
  BY <1>3, <1>1, <1>2 DEF Dial, UpInv, Routing, Joined, Waiting, GoTo, server, upload, far,
     download, relaying
<1>4. CASE ClientSends(c)
  <2>1. /\ pc'[c] = pc[c] /\ carried'[c] = carried[c] /\ taken'[c] = taken[c]
        /\ shut'[c] = shut[c] /\ shut[c] = "open" /\ upDone'[c] = upDone[c] /\ up'[c] = up[c]
    BY <1>4 DEF ClientSends, upload, relaying
  <2>. QED
    BY <2>1, <1>2 DEF UpInv, Waiting, Joined
<1>5. CASE ClientCloses(c)
  <2>1. /\ pc'[c] = pc[c] /\ carried'[c] = carried[c] /\ taken'[c] = taken[c]
        /\ sent'[c] = sent[c] /\ upDone'[c] = upDone[c] /\ up'[c] = up[c]
        /\ shut'[c] = "gone" \/ shut[c] = "open"
    BY <1>5, <1>1 DEF ClientCloses, upload
  <2>. QED
    BY <2>1, <1>2 DEF UpInv, Waiting, Joined
<1>6. CASE Accept(c)
  BY <1>6, <1>1, <1>2 DEF Accept, UpInv, Routing, Joined, Waiting, GoTo, client, upload, far,
     download, relaying
<1>7. CASE HandshakeFails(c)
  <2>1. /\ pc'[c] = "ended" /\ carried'[c] = carried[c] /\ ~upDone'[c]
        /\ sent'[c] = sent[c] /\ shut'[c] = shut[c]
    BY <1>7, <1>1 DEF HandshakeFails, Ends, RelayDropped, GoTo, client, upload
  <2>. QED
    BY <2>1, <1>2 DEF UpInv, Routing, Joined, Waiting
<1>8. CASE RefuseRequest(c)
  <2>1. /\ pc'[c] = "ended" /\ carried'[c] = carried[c] /\ ~upDone'[c]
        /\ sent'[c] = sent[c] /\ shut'[c] = shut[c]
    BY <1>8, <1>1 DEF RefuseRequest, Ends, RelayDropped, GoTo, client, upload
  <2>. QED
    BY <2>1, <1>2 DEF UpInv, Routing, Joined, Waiting
<1>9. CASE AssociateUdp(c)
  BY <1>9, <1>1, <1>2 DEF AssociateUdp, UpInv, Routing, Joined, Waiting, GoTo, Say, server,
     client, upload, far, relaying
<1>10. CASE UdpEnds(c)
  <2>1. /\ pc'[c] = "ended" /\ carried'[c] = carried[c] /\ ~upDone'[c]
        /\ sent'[c] = sent[c] /\ shut'[c] = shut[c]
    BY <1>10, <1>1 DEF UdpEnds, Ends, RelayDropped, GoTo, client, upload
  <2>. QED
    BY <2>1, <1>2 DEF UpInv, Routing, Joined, Waiting
<1>11. CASE ReadRequest(c)
  <2>1. /\ pc[c] = "request" /\ taken[c] = 0 /\ upDone'[c] = upDone[c]
        /\ pc'[c] = IF ask[c] = "address" THEN "sniff" ELSE "route"
        /\ carried'[c] = carried[c] /\ sent'[c] = sent[c] /\ shut'[c] = shut[c]
    BY <1>11, <1>1, <1>2 DEF ReadRequest, GoTo, client, UpInv, relaying
  <2>2. taken'[c] \in {0, 1} /\ (ask[c] = "address" => taken'[c] = 0)
    BY <1>11, <1>1, <2>1 DEF ReadRequest
  <2>. QED
    BY <2>1, <2>2, <1>2 DEF UpInv, Routing, Joined, Waiting
<1>12. CASE Sniff(c)
  <2>1. /\ pc[c] = "sniff" /\ pc'[c] \in {"route", "ended"} /\ taken'[c] \in {0, 1}
        /\ carried'[c] = carried[c] /\ sent'[c] = sent[c] /\ shut'[c] = shut[c]
    BY <1>12, <1>1, <1>2 DEF Sniff, Ends, GoTo, client, UpInv
  <2>2. upDone'[c] = upDone[c] \/ ~upDone'[c]
    BY <1>12, <1>1 DEF Sniff, Ends, RelayDropped, relaying
  <2>. QED
    BY <2>1, <2>2, <1>2 DEF UpInv, Routing, Joined, Waiting
<1>13. CASE Block(c)
  <2>1. /\ pc'[c] = "ended" /\ carried'[c] = carried[c] /\ ~upDone'[c]
        /\ sent'[c] = sent[c] /\ shut'[c] = shut[c]
    BY <1>13, <1>1 DEF Block, Ends, RelayDropped, GoTo, client, upload
  <2>. QED
    BY <2>1, <1>2 DEF UpInv, Routing, Joined, Waiting
<1>14. CASE TakeDirect(c)
  BY <1>14, <1>1, <1>2 DEF TakeDirect, UpInv, Routing, Joined, Waiting, GoTo, server, client,
     upload, far, download, relaying
<1>15. CASE TakeTunnel(c)
  BY <1>15, <1>1, <1>2 DEF TakeTunnel, UpInv, Routing, Joined, Waiting, GoTo, server, client,
     upload, far, download, relaying
<1>16. CASE ViaGateway(c)
  <2>1. pc[c] \in Routing /\ \E ahead \in {0, 1} : Connected(c, ahead)
    BY <1>16 DEF ViaGateway, Routing
  <2>. QED
    BY <2>1, UpConnected
<1>17. CASE GatewayFails(c)
  BY <1>17, <1>1, <1>2 DEF GatewayFails, UpInv, Routing, Joined, Waiting, GoTo, RetireGateway,
     client, upload, far, download, relaying
<1>18. CASE Straight(c)
  <2>1. pc[c] \in Routing /\ \E ahead \in {0, 1} : Connected(c, ahead)
    BY <1>18 DEF Straight, Routing
  <2>. QED
    BY <2>1, UpConnected
<1>19. CASE StraightFails(c)
  <2>1. /\ pc'[c] = "ended" /\ carried'[c] = carried[c] /\ ~upDone'[c]
        /\ sent'[c] = sent[c] /\ shut'[c] = shut[c]
    BY <1>19, <1>1 DEF StraightFails, Ends, RelayDropped, GoTo, client, upload
  <2>. QED
    BY <2>1, <1>2 DEF UpInv, Routing, Joined, Waiting
<1>20. CASE DirectFails(c)
  <2>1. /\ pc'[c] = "ended" /\ carried'[c] = carried[c] /\ ~upDone'[c]
        /\ sent'[c] = sent[c] /\ shut'[c] = shut[c]
    BY <1>20, <1>1 DEF DirectFails, Ends, RelayDropped, GoTo, client, upload
  <2>. QED
    BY <2>1, <1>2 DEF UpInv, Routing, Joined, Waiting
<1>21. CASE ClientLost(c)
  <2>1. /\ pc'[c] = "ended" /\ carried'[c] = carried[c] /\ ~upDone'[c]
        /\ sent'[c] = sent[c] /\ shut'[c] = shut[c]
    BY <1>21, <1>1 DEF ClientLost, Ends, RelayDropped, GoTo, client, upload
  <2>. QED
    BY <2>1, <1>2 DEF UpInv, Routing, Joined, Waiting
<1>22. CASE FarSends(c)
  BY <1>22, <1>1, <1>2 DEF FarSends, UpInv, Routing, Joined, Waiting, server, client, upload,
     download, relaying
<1>23. CASE FarCloses(c)
  BY <1>23, <1>1, <1>2 DEF FarCloses, UpInv, Routing, Joined, Waiting, server, client, upload,
     download, relaying
<1>24. CASE UploadRead(c)
  <2>1. /\ pc[c] = "relay" /\ pc'[c] = "relay" /\ ~upDone[c] /\ ~upDone'[c]
        /\ up[c] = None /\ carried'[c] = carried[c]
        /\ sent'[c] = sent[c] /\ shut'[c] = shut[c] /\ shut[c] \in {"open", "half", "gone"}
        /\ taken[c] \in Nat /\ Len(carried[c]) \in Nat
    BY <1>24, <1>1 DEF UploadRead, client
  <2>2. Len(carried[c]) = taken[c] /\ ~Told(carried[c])
    BY <2>1, <1>2 DEF UpInv, Waiting, Joined, None, Fin
  <2>3. Waiting(c)'
    <3>1. CASE taken'[c] = taken[c] + 1 /\ up'[c] = taken[c] + 1
      BY <2>1, <2>2, <3>1 DEF Waiting
    <3>2. CASE /\ shut[c] # "open" /\ (taken[c] = sent[c] \/ shut[c] = "gone")
               /\ up'[c] = Fin /\ taken'[c] = taken[c]
      BY <2>1, <2>2, <3>2 DEF Waiting
    <3>. QED
      BY <1>24, <1>1, <3>1, <3>2 DEF UploadRead
  <2>. QED
    BY <2>1, <2>2, <2>3, <1>2 DEF UpInv, Routing, Joined, Waiting
<1>25. CASE UploadSent(c)
  <2>1. /\ Joined(c) /\ pc'[c] = pc[c] /\ up[c] # None /\ up'[c] = None
        /\ taken'[c] = taken[c] /\ carried'[c] = Append(carried[c], up[c])
        /\ sent'[c] = sent[c] /\ shut'[c] = shut[c] /\ upDone'[c] = (up[c] = Fin)
        /\ taken[c] \in Nat /\ carried[c] \in Seq(Int) /\ up[c] \in Int
    BY <1>25, <1>1 DEF UploadSent, client
  <2>2. ~upDone[c] /\ ~Told(carried[c]) /\ Waiting(c)
    BY <2>1, <1>2 DEF UpInv
  <2>. DEFINE n == Len(carried[c])
  <2>3. /\ n \in Nat /\ Len(carried'[c]) = n + 1 /\ carried'[c][n + 1] = up[c]
        /\ \A i \in 1..n : carried'[c][i] = carried[c][i]
    BY <2>1
  <2>4. \A i \in 1..n : carried[c][i] = i
    BY <1>2, <2>2 DEF UpInv, Told
  <2>5. \/ up[c] = n + 1 /\ n + 1 = taken[c]
        \/ up[c] = Fin /\ n = taken[c] /\ (shut[c] = "gone" \/ (shut[c] = "half" /\ n = sent[c]))
    BY <2>1, <2>2, <2>3 DEF Waiting
  <2>. HIDE DEF n
  <2>6. \A i \in 1..Len(carried'[c]) : (i \in 1..n /\ carried'[c][i] = i) \/ i = n + 1
    BY <2>3, <2>4
  <2>7. \A i \in 1..Len(carried'[c]) :
          carried'[c][i] = i \/ (carried'[c][i] = Fin /\ i = Len(carried'[c]))
    BY <2>3, <2>5, <2>6
  <2>8. up[c] # Fin => ~Told(carried'[c])
    BY <2>3, <2>6 DEF Told, Fin
  <2>9. Told(carried'[c]) =>
          shut'[c] = "gone" \/ (shut'[c] = "half" /\ Len(carried'[c]) = sent'[c] + 1)
    BY <2>1, <2>3, <2>5, <2>8 DEF Fin
  <2>10. up[c] # Fin => Waiting(c)'
    BY <2>1, <2>3, <2>5 DEF Waiting
  <2>11. upDone'[c] => pc'[c] = "relay"
    <3>1. pc[c] = "greet" => up[c] # Fin
      BY <1>2 DEF UpInv
    <3>. QED
      BY <2>1, <3>1 DEF Joined
  <2>12. Joined(c)' /\ pc'[c] \in {"greet", "relay"} /\ up'[c] # Fin
    <3>1. up'[c] # Fin
      BY <2>1 DEF None, Fin
    <3>. QED
      BY <2>1, <3>1 DEF Joined
  <2>13. ~upDone'[c] => up[c] # Fin
    BY <2>1
  <2>. QED
    BY <2>1, <2>7, <2>8, <2>9, <2>10, <2>11, <2>12, <2>13 DEF UpInv, Routing
<1>26. CASE UploadFails(c)
  BY <1>26, <1>1, <1>2 DEF UploadFails, UpInv, Routing, Joined, Waiting, Touch, server, client,
     upload, far, download
<1>27. CASE Fetch(c)
  BY <1>27, <1>1, <1>2 DEF Fetch, UpInv, Routing, Joined, Waiting, server, client, upload, far,
     relaying
<1>28. CASE Deliver(c)
  BY <1>28, <1>1, <1>2 DEF Deliver, UpInv, Routing, Joined, Waiting, Say, Touch, server, client,
     upload, far
<1>29. CASE DownloadEnds(c)
  <2>1. /\ pc'[c] = "ended" /\ carried'[c] = carried[c] /\ ~upDone'[c]
        /\ sent'[c] = sent[c] /\ shut'[c] = shut[c]
    BY <1>29, <1>1 DEF DownloadEnds, Ends, RelayDropped, GoTo, client, upload
  <2>. QED
    BY <2>1, <1>2 DEF UpInv, Routing, Joined, Waiting
<1>30. CASE LingerEnds(c)
  <2>1. /\ pc'[c] = "ended" /\ carried'[c] = carried[c] /\ ~upDone'[c]
        /\ sent'[c] = sent[c] /\ shut'[c] = shut[c]
    BY <1>30, <1>1 DEF LingerEnds, Ends, RelayDropped, GoTo, client, upload
  <2>. QED
    BY <2>1, <1>2 DEF UpInv, Routing, Joined, Waiting
<1>31. CASE FarLost(c)
  BY <1>31, <1>1, <1>2 DEF FarLost, UpInv, Routing, Joined, Waiting, server, client, upload,
     download, relaying
<1>32. CASE Greet(c)
  BY <1>32, <1>1, <1>2 DEF Greet, UpInv, Routing, Joined, Waiting, server, client, upload, far
<1>33. CASE BeginRelay(c)
  BY <1>33, <1>1, <1>2 DEF BeginRelay, UpInv, Routing, Joined, Waiting, GoTo, server, client,
     upload, far, download, relaying
<1>34. CASE HeadFails(c)
  <2>1. /\ pc'[c] = "ended" /\ carried'[c] = carried[c] /\ ~upDone'[c]
        /\ sent'[c] = sent[c] /\ shut'[c] = shut[c]
    BY <1>34, <1>1 DEF HeadFails, Ends, RelayDropped, GoTo, client, upload
  <2>. QED
    BY <2>1, <1>2 DEF UpInv, Routing, Joined, Waiting
<1>. QED
  BY <1>3, <1>4, <1>5, <1>6, <1>7, <1>8, <1>9, <1>10, <1>11, <1>12, <1>13, <1>14, <1>15, <1>16,
     <1>17, <1>18, <1>19, <1>20, <1>21, <1>22, <1>23, <1>24, <1>25, <1>26, <1>27, <1>28, <1>29,
     <1>30, <1>31, <1>32, <1>33, <1>34 DEF Step, Handler, Uploading, Downloading

-----------------------------------------------------------------------------
(* The answer                                                               *)

(* A client has had a reply if its stream begins with one. *)
LEMMA RepliedStream ==
    ASSUME NEW c, NEW p \in Nat, NEW k \in Nat, Stream(got[c], p, k, 0)
    PROVE  Replied(c) <=> p > 0
<1>1. Len(got[c]) = p + k
  BY DEF Stream
<1>2. p > 0 => Replied(c)
  <2>1. p > 0 => 1 \in 1..p /\ 1 \in 1..Len(got[c])
    BY <1>1
  <2>. QED
    BY <2>1 DEF Stream, Replied
<1>3. ASSUME NEW i \in 1..Len(got[c]), IsReply(got[c][i])
      PROVE  p > 0
  <2>1. ~IsChunk(got[c][i])
    BY <1>3 DEF IsReply, IsChunk, Ok, No
  <2>2. ~(i > p /\ i <= p + k)
    BY <2>1, StreamChunks
  <2>. QED
    BY <1>1, <2>2
<1>. QED
  BY <1>2, <1>3 DEF Replied

LEMMA DownConnected ==
    ASSUME Typed, NEW c \in Clients, DownInv(c), pc[c] \in Routing,
           NEW ahead \in {0, 1}, Connected(c, ahead)
    PROVE  DownInv(c)'
<1>1. PICK p, k, e \in Nat :
        Fits(pc[c], ask[c], got[c], fetched[c], farSent[c], down[c], farDone[c], p, k, e)
  BY DEF DownInv, AnswerState
<1>2. /\ k = 0 /\ e = 0 /\ (p > 0 => got[c][1] = Ok) /\ Stream(got[c], p, 0, 0)
  BY <1>1 DEF Fits, Routing
<1>3. /\ pc'[c] = "greet" /\ ask'[c] = ask[c] /\ fetched'[c] = ahead /\ down'[c] = ahead
      /\ got'[c] = got[c]
  BY Functions DEF Connected, GoTo, client
<1>4. Fits(pc'[c], ask'[c], got'[c], fetched'[c], farSent'[c], down'[c], farDone'[c], p, 0, 0)
  BY <1>2, <1>3 DEF Fits, None
<1>. QED
  BY <1>4 DEF DownInv, AnswerState

(* The reply if it is due, and what came ahead of the relay. *)
LEMMA DownGreet ==
    ASSUME Typed, NEW c \in Clients, DownInv(c), Greet(c)
    PROVE  DownInv(c)'
<1>1. PICK p, k, e \in Nat :
        Fits(pc[c], ask[c], got[c], fetched[c], farSent[c], down[c], farDone[c], p, k, e)
  BY DEF DownInv, AnswerState
<1>2. /\ pc[c] = "greet" /\ e = 0 /\ Stream(got[c], p, k, 0)
      /\ p > 0 => got[c][1] = Ok
      /\ down[c] = None => fetched[c] = k
      /\ down[c] # None => down[c] = k + 1 /\ fetched[c] = k + 1
      /\ k > 0 /\ ask[c] # "plain" => p > 0
  BY <1>1 DEF Fits, Greet
<1>. DEFINE r == IF ReplyDue(c) THEN Append(got[c], Ok) ELSE got[c]
<1>3. /\ pc'[c] = "greet" /\ ask'[c] = ask[c] /\ fetched'[c] = fetched[c] /\ down'[c] = None
      /\ got'[c] = IF down[c] = None THEN r ELSE Append(r, down[c])
      /\ got[c] \in Seq(Int) /\ Ok \in Int
  BY <1>2, Functions DEF Greet, client, Ok
<1>4. ReplyDue(c) <=> p = 0 /\ ask[c] # "plain"
  <2>1. Replied(c) <=> p > 0
    BY <1>2, RepliedStream
  <2>2. p > 0 <=> ~(p = 0)
    BY <1>1
  <2>. QED
    BY <2>1, <2>2 DEF ReplyDue
<1>5. PICK q \in Nat : /\ r \in Seq(Int) /\ Stream(r, q, k, 0)
                       /\ q > 0 => r[1] = Ok
                       /\ ask[c] # "plain" => q > 0
  <2>1. CASE ReplyDue(c)
    <3>1. r = Append(got[c], Ok) /\ r \in Seq(Int)
      BY <1>3, <2>1
    <3>2. p = 0 /\ k = 0 /\ Len(got[c]) = 0
      BY <1>2, <1>4, <2>1 DEF Stream
    <3>3. Stream(got[c], 0, 0, 0)
      BY <1>2, <3>2
    <3>4. Stream(r, 0 + 1, 0, 0)
      BY <1>3, <3>1, <3>3, StreamReply DEF IsReply
    <3>5. r[1] = Ok
      <4>1. Append(got[c], Ok)[Len(got[c]) + 1] = Ok
        BY <1>3, AppendProperties
      <4>. HIDE DEF r
      <4>. QED
        BY <3>1, <3>2, <4>1
    <3>6. Stream(r, 1, k, 0)
      BY <3>2, <3>4
    <3>. HIDE DEF r
    <3>. QED
      BY <3>1, <3>5, <3>6
  <2>2. CASE ~ReplyDue(c)
    <3>1. r = got[c] /\ r \in Seq(Int)
      BY <1>3, <2>2
    <3>. HIDE DEF r
    <3>. QED
      BY <1>2, <1>4, <2>2, <3>1
  <2>. QED
    BY <2>1, <2>2
<1>. HIDE DEF r
<1>6. CASE down[c] = None
  <2>1. got'[c] = r /\ fetched'[c] = k
    BY <1>2, <1>3, <1>6
  <2>2. Stream(got'[c], q, k, 0) /\ (q > 0 => got'[c][1] = Ok) /\ (ask'[c] # "plain" => q > 0)
    BY <1>3, <1>5, <2>1
  <2>3. pc'[c] = "greet" /\ down'[c] = None /\ fetched'[c] = k
    BY <1>3, <2>1
  <2>4. Fits(pc'[c], ask'[c], got'[c], fetched'[c], farSent'[c], down'[c], farDone'[c], q, k, 0)
    BY <2>2, <2>3 DEF Fits
  <2>. QED
    BY <2>4, <1>1, <1>5 DEF DownInv, AnswerState
<1>7. CASE down[c] # None
  <2>1. got'[c] = Append(r, k + 1) /\ fetched'[c] = k + 1
    BY <1>2, <1>3, <1>7
  <2>2. Stream(got'[c], q, k + 1, 0)
    BY <1>5, <2>1, StreamChunk
  <2>3. q > 0 => got'[c][1] = Ok
    <3>1. q > 0 => 1 \in 1..Len(r)
      BY <1>5 DEF Stream
    <3>. QED
      BY <1>5, <2>1, <3>1
  <2>. DEFINE n == k + 1
  <2>4. n \in Nat /\ Stream(got'[c], q, n, 0) /\ fetched'[c] = n
    BY <1>1, <2>1, <2>2
  <2>. HIDE DEF n
  <2>5. Fits(pc'[c], ask'[c], got'[c], fetched'[c], farSent'[c], down'[c], farDone'[c], q, n, 0)
    BY <1>3, <1>5, <2>3, <2>4 DEF Fits
  <2>. QED
    BY <2>4, <2>5, <1>5 DEF DownInv, AnswerState
<1>. QED
  BY <1>6, <1>7

LEMMA DownStep ==
    ASSUME Typed, NEW c \in Clients, DownInv(c), Step(c)
    PROVE  DownInv(c)'
<1>1. /\ pc \in [Clients -> Stages] /\ ask \in [Clients -> Requests]
      /\ farSent \in [Clients -> Nat] /\ fetched \in [Clients -> Nat]
      /\ got \in [Clients -> Seq(Int)] /\ down \in [Clients -> Nat]
  BY Functions
<1>2. PICK p, k, e \in Nat : Fits(pc[c], ask[c], got[c], fetched[c], farSent[c], down[c], farDone[c], p, k, e)
  BY DEF DownInv, AnswerState
<1>3. ASSUME NEW q \in Nat, NEW n \in Nat, NEW f \in Nat,
             Fits(pc'[c], ask'[c], got'[c], fetched'[c], farSent'[c], down'[c], farDone'[c], q, n, f)
      PROVE  DownInv(c)'
  BY <1>3 DEF DownInv, AnswerState
<1>4. CASE Dial(c)
  <2>1. Fits(pc'[c], ask'[c], got'[c], fetched'[c], farSent'[c], down'[c], farDone'[c], p, k, e)
    BY <1>4, <1>1, <1>2 DEF Dial, Fits, GoTo, server, upload, far, download, relaying
  <2>. QED
    BY <2>1, <1>3
<1>5. CASE ClientSends(c)
  <2>1. Fits(pc'[c], ask'[c], got'[c], fetched'[c], farSent'[c], down'[c], farDone'[c], p, k, e)
    BY <1>5, <1>1, <1>2 DEF ClientSends, Fits, Served, server, upload, far, download, relaying
  <2>. QED
    BY <2>1, <1>3
<1>6. CASE ClientCloses(c)
  <2>1. Fits(pc'[c], ask'[c], got'[c], fetched'[c], farSent'[c], down'[c], farDone'[c], p, k, e)
    BY <1>6, <1>1, <1>2 DEF ClientCloses, Fits, Served, server, upload, far, download
  <2>. QED
    BY <2>1, <1>3
<1>7. CASE Accept(c)
  <2>1. Fits(pc'[c], ask'[c], got'[c], fetched'[c], farSent'[c], down'[c], farDone'[c], p, k, e)
    BY <1>7, <1>1, <1>2 DEF Accept, Fits, GoTo, client, upload, far, download, relaying
  <2>. QED
    BY <2>1, <1>3
<1>8. CASE HandshakeFails(c)
  <2>1. Fits(pc'[c], ask'[c], got'[c], fetched'[c], farSent'[c], down'[c], farDone'[c], p, k, e)
    BY <1>8, <1>1, <1>2 DEF HandshakeFails, Fits, GoTo, Ends, RelayDropped, client, upload, far,
       download
  <2>. QED
    BY <2>1, <1>3
<1>9. CASE RefuseRequest(c)
  <2>1. /\ pc[c] \notin {"greet", "relay", "ended"} /\ pc'[c] = "ended"
        /\ ask'[c] = ask[c] /\ fetched'[c] = fetched[c] /\ farSent'[c] = farSent[c]
    BY <1>9, <1>1 DEF RefuseRequest, Ends, RelayDropped, GoTo, client, far
  <2>2. got' = got \/ Say(c, No)
    BY <1>9 DEF RefuseRequest, TellIfNot
  <2>3. Stream(got[c], p, 0, 0) /\ k = 0 /\ e = 0
    BY <1>2, <2>1 DEF Fits
  <2>4. CASE got' = got
    <3>1. Fits(pc'[c], ask'[c], got'[c], fetched'[c], farSent'[c], down'[c], farDone'[c], p, k, e)
      BY <1>2, <2>1, <2>4 DEF Fits
    <3>. QED
      BY <3>1, <1>3
  <2>5. CASE Say(c, No)
    <3>1. got'[c] = Append(got[c], No)
      BY <1>1, <2>5 DEF Say
    <3>2. Stream(got'[c], p + 1, 0, 0)
      BY <1>1, <2>3, <3>1, StreamReply DEF IsReply, No
    <3>3. Fits(pc'[c], ask'[c], got'[c], fetched'[c], farSent'[c], down'[c], farDone'[c], p + 1, 0, 0)
      BY <2>1, <3>2 DEF Fits
    <3>. QED
      BY <3>3, <1>3
  <2>. QED
    BY <2>2, <2>4, <2>5
<1>10. CASE AssociateUdp(c)
  <2>2. Stream(got[c], 0, 0, 0) /\ pc[c] = "request"
    BY <1>10, <1>2 DEF AssociateUdp, Fits
  <2>3. got'[c] = Append(got[c], Ok) /\ Len(got[c]) = 0
    BY <1>10, <1>1, <2>2 DEF AssociateUdp, Say, Stream
  <2>4. Stream(Append(got[c], Ok), 0 + 1, 0, 0)
    BY <1>1, <2>2, StreamReply DEF IsReply, Ok
  <2>5. Stream(got'[c], 1, 0, 0) /\ got'[c][1] = Ok
    <3>1. Append(got[c], Ok)[1] = Ok
      BY <1>1, <2>3 DEF Ok
    <3>. QED
      BY <2>3, <2>4, <3>1
  <2>6. Fits(pc'[c], ask'[c], got'[c], fetched'[c], farSent'[c], down'[c], farDone'[c], 1, 0, 0)
    BY <1>10, <1>1, <2>5 DEF AssociateUdp, Fits, GoTo, server, client, upload, far, download,
       relaying
  <2>. QED
    BY <2>6, <1>3
<1>11. CASE UdpEnds(c)
  <2>1. Fits(pc'[c], ask'[c], got'[c], fetched'[c], farSent'[c], down'[c], farDone'[c], p, k, e)
    BY <1>11, <1>1, <1>2 DEF UdpEnds, Fits, GoTo, Ends, RelayDropped, client, upload, far,
       download
  <2>. QED
    BY <2>1, <1>3
<1>12. CASE ReadRequest(c)
  <2>1. CASE ask[c] = "address"
    <3>2. Stream(got[c], 0, 0, 0) /\ pc[c] = "request"
      BY <1>12, <1>2 DEF ReadRequest, Fits
    <3>3. got'[c] = Append(got[c], Ok) /\ Len(got[c]) = 0
      BY <1>12, <1>1, <2>1, <3>2 DEF ReadRequest, Say, Stream
    <3>4. Stream(Append(got[c], Ok), 0 + 1, 0, 0)
      BY <1>1, <3>2, StreamReply DEF IsReply, Ok
    <3>5. Stream(got'[c], 1, 0, 0) /\ got'[c][1] = Ok
      <4>1. Append(got[c], Ok)[1] = Ok
        BY <1>1, <3>3 DEF Ok
      <4>. QED
        BY <3>3, <3>4, <4>1
    <3>6. Fits(pc'[c], ask'[c], got'[c], fetched'[c], farSent'[c], down'[c], farDone'[c], 1, 0, 0)
      BY <1>12, <1>1, <2>1, <3>5 DEF ReadRequest, Fits, GoTo, server, client, upload, far,
         download, relaying
    <3>. QED
      BY <3>6, <1>3
  <2>2. CASE ask[c] # "address"
    <3>1. Fits(pc'[c], ask'[c], got'[c], fetched'[c], farSent'[c], down'[c], farDone'[c], p, k, e)
      BY <1>12, <1>1, <1>2, <2>2 DEF ReadRequest, Fits, GoTo, client, far
    <3>. QED
      BY <3>1, <1>3
  <2>. QED
    BY <2>1, <2>2
<1>13. CASE Sniff(c)
  <2>1. /\ pc[c] = "sniff" /\ pc'[c] \in {"route", "ended"} /\ ask'[c] = ask[c]
        /\ got'[c] = got[c] /\ fetched'[c] = fetched[c] /\ farSent'[c] = farSent[c]
    BY <1>13, <1>1 DEF Sniff, Ends, RelayDropped, GoTo, client, download, far
  <2>2. Fits(pc'[c], ask'[c], got'[c], fetched'[c], farSent'[c], down'[c], farDone'[c], p, k, e)
    BY <1>2, <2>1 DEF Fits
  <2>. QED
    BY <2>2, <1>3
<1>14. CASE Block(c)
  <2>1. /\ pc[c] \notin {"greet", "relay", "ended"} /\ pc'[c] = "ended"
        /\ ask'[c] = ask[c] /\ fetched'[c] = fetched[c] /\ farSent'[c] = farSent[c]
    BY <1>14, <1>1 DEF Block, Ends, RelayDropped, GoTo, client, far
  <2>2. got' = got \/ Say(c, No)
    BY <1>14 DEF Block, TellIfNot
  <2>3. Stream(got[c], p, 0, 0) /\ k = 0 /\ e = 0
    BY <1>2, <2>1 DEF Fits
  <2>4. CASE got' = got
    <3>1. Fits(pc'[c], ask'[c], got'[c], fetched'[c], farSent'[c], down'[c], farDone'[c], p, k, e)
      BY <1>2, <2>1, <2>4 DEF Fits
    <3>. QED
      BY <3>1, <1>3
  <2>5. CASE Say(c, No)
    <3>1. got'[c] = Append(got[c], No)
      BY <1>1, <2>5 DEF Say
    <3>2. Stream(got'[c], p + 1, 0, 0)
      BY <1>1, <2>3, <3>1, StreamReply DEF IsReply, No
    <3>3. Fits(pc'[c], ask'[c], got'[c], fetched'[c], farSent'[c], down'[c], farDone'[c], p + 1, 0, 0)
      BY <2>1, <3>2 DEF Fits
    <3>. QED
      BY <3>3, <1>3
  <2>. QED
    BY <2>2, <2>4, <2>5
<1>15. CASE TakeDirect(c)
  <2>1. Fits(pc'[c], ask'[c], got'[c], fetched'[c], farSent'[c], down'[c], farDone'[c], p, k, e)
    BY <1>15, <1>1, <1>2 DEF TakeDirect, Fits, GoTo, server, client, upload, far, download,
       relaying
  <2>. QED
    BY <2>1, <1>3
<1>16. CASE TakeTunnel(c)
  <2>1. Fits(pc'[c], ask'[c], got'[c], fetched'[c], farSent'[c], down'[c], farDone'[c], p, k, e)
    BY <1>16, <1>1, <1>2 DEF TakeTunnel, Fits, GoTo, server, client, upload, far, download,
       relaying
  <2>. QED
    BY <2>1, <1>3
<1>17. CASE ViaGateway(c)
  <2>1. pc[c] \in Routing /\ \E ahead \in {0, 1} : Connected(c, ahead)
    BY <1>17 DEF ViaGateway, Routing
  <2>. QED
    BY <2>1, DownConnected
<1>18. CASE GatewayFails(c)
  <2>1. Fits(pc'[c], ask'[c], got'[c], fetched'[c], farSent'[c], down'[c], farDone'[c], p, k, e)
    BY <1>18, <1>1, <1>2 DEF GatewayFails, Fits, GoTo, RetireGateway, client, upload, far,
       download, relaying
  <2>. QED
    BY <2>1, <1>3
<1>19. CASE Straight(c)
  <2>1. pc[c] \in Routing /\ \E ahead \in {0, 1} : Connected(c, ahead)
    BY <1>19 DEF Straight, Routing
  <2>. QED
    BY <2>1, DownConnected
<1>20. CASE StraightFails(c)
  <2>1. /\ pc[c] \notin {"greet", "relay", "ended"} /\ pc'[c] = "ended"
        /\ ask'[c] = ask[c] /\ fetched'[c] = fetched[c] /\ farSent'[c] = farSent[c]
    BY <1>20, <1>1 DEF StraightFails, Ends, RelayDropped, GoTo, client, far
  <2>2. got' = got \/ Say(c, No)
    BY <1>20 DEF StraightFails, TellIfNot
  <2>3. Stream(got[c], p, 0, 0) /\ k = 0 /\ e = 0
    BY <1>2, <2>1 DEF Fits
  <2>4. CASE got' = got
    <3>1. Fits(pc'[c], ask'[c], got'[c], fetched'[c], farSent'[c], down'[c], farDone'[c], p, k, e)
      BY <1>2, <2>1, <2>4 DEF Fits
    <3>. QED
      BY <3>1, <1>3
  <2>5. CASE Say(c, No)
    <3>1. got'[c] = Append(got[c], No)
      BY <1>1, <2>5 DEF Say
    <3>2. Stream(got'[c], p + 1, 0, 0)
      BY <1>1, <2>3, <3>1, StreamReply DEF IsReply, No
    <3>3. Fits(pc'[c], ask'[c], got'[c], fetched'[c], farSent'[c], down'[c], farDone'[c], p + 1, 0, 0)
      BY <2>1, <3>2 DEF Fits
    <3>. QED
      BY <3>3, <1>3
  <2>. QED
    BY <2>2, <2>4, <2>5
<1>21. CASE DirectFails(c)
  <2>1. /\ pc[c] \notin {"greet", "relay", "ended"} /\ pc'[c] = "ended"
        /\ ask'[c] = ask[c] /\ fetched'[c] = fetched[c] /\ farSent'[c] = farSent[c]
    BY <1>21, <1>1 DEF DirectFails, Ends, RelayDropped, GoTo, client, far
  <2>2. got' = got \/ Say(c, No)
    BY <1>21 DEF DirectFails, TellIfNot
  <2>3. Stream(got[c], p, 0, 0) /\ k = 0 /\ e = 0
    BY <1>2, <2>1 DEF Fits
  <2>4. CASE got' = got
    <3>1. Fits(pc'[c], ask'[c], got'[c], fetched'[c], farSent'[c], down'[c], farDone'[c], p, k, e)
      BY <1>2, <2>1, <2>4 DEF Fits
    <3>. QED
      BY <3>1, <1>3
  <2>5. CASE Say(c, No)
    <3>1. got'[c] = Append(got[c], No)
      BY <1>1, <2>5 DEF Say
    <3>2. Stream(got'[c], p + 1, 0, 0)
      BY <1>1, <2>3, <3>1, StreamReply DEF IsReply, No
    <3>3. Fits(pc'[c], ask'[c], got'[c], fetched'[c], farSent'[c], down'[c], farDone'[c], p + 1, 0, 0)
      BY <2>1, <3>2 DEF Fits
    <3>. QED
      BY <3>3, <1>3
  <2>. QED
    BY <2>2, <2>4, <2>5
<1>22. CASE ClientLost(c)
  <2>1. Fits(pc'[c], ask'[c], got'[c], fetched'[c], farSent'[c], down'[c], farDone'[c], p, k, e)
    BY <1>22, <1>1, <1>2 DEF ClientLost, Fits, GoTo, Ends, RelayDropped, client, upload, far,
       download
  <2>. QED
    BY <2>1, <1>3
<1>23. CASE FarSends(c)
  <2>1. Fits(pc'[c], ask'[c], got'[c], fetched'[c], farSent'[c], down'[c], farDone'[c], p, k, e)
    BY <1>23, <1>1, <1>2 DEF FarSends, Fits, Joined, server, client, upload, download, relaying
  <2>. QED
    BY <2>1, <1>3
<1>24. CASE FarCloses(c)
  <2>1. Fits(pc'[c], ask'[c], got'[c], fetched'[c], farSent'[c], down'[c], farDone'[c], p, k, e)
    BY <1>24, <1>1, <1>2 DEF FarCloses, Fits, Joined, server, client, upload, download, relaying
  <2>. QED
    BY <2>1, <1>3
<1>25. CASE UploadRead(c)
  <2>1. Fits(pc'[c], ask'[c], got'[c], fetched'[c], farSent'[c], down'[c], farDone'[c], p, k, e)
    BY <1>25, <1>1, <1>2 DEF UploadRead, Fits, server, client, far, download
  <2>. QED
    BY <2>1, <1>3
<1>26. CASE UploadSent(c)
  <2>1. Fits(pc'[c], ask'[c], got'[c], fetched'[c], farSent'[c], down'[c], farDone'[c], p, k, e)
    BY <1>26, <1>1, <1>2 DEF UploadSent, Fits, Touch, server, client, far, download
  <2>. QED
    BY <2>1, <1>3
<1>27. CASE UploadFails(c)
  <2>1. Fits(pc'[c], ask'[c], got'[c], fetched'[c], farSent'[c], down'[c], farDone'[c], p, k, e)
    BY <1>27, <1>1, <1>2 DEF UploadFails, Fits, Touch, server, client, upload, far, download
  <2>. QED
    BY <2>1, <1>3
<1>28. CASE Fetch(c)
  <2>1. /\ pc[c] = "relay" /\ pc'[c] = pc[c] /\ ask'[c] = ask[c] /\ got'[c] = got[c]
        /\ down[c] = None /\ down'[c] = fetched[c] + 1 /\ fetched'[c] = fetched[c] + 1
    BY <1>28, <1>1 DEF Fetch, server, client, far
  <2>2. fetched[c] = k /\ e = 0
    BY <1>2, <2>1 DEF Fits
  <2>3. Fits(pc'[c], ask'[c], got'[c], fetched'[c], farSent'[c], down'[c], farDone'[c], p, k, e)
    BY <1>2, <2>1, <2>2 DEF Fits, None
  <2>. QED
    BY <2>3, <1>3
<1>29. CASE Deliver(c)
  <2>1. /\ pc[c] = "relay" /\ down[c] # None
        /\ pc'[c] = pc[c] /\ ask'[c] = ask[c] /\ down'[c] = None
        /\ got'[c] = Append(got[c], down[c]) /\ fetched'[c] = fetched[c]
    BY <1>29, <1>1 DEF Deliver, Say, server, client, far
  <2>2. /\ e = 0 /\ down[c] = k + 1 /\ fetched[c] = k + 1 /\ Stream(got[c], p, k, 0)
        /\ ask[c] # "plain" => p > 0
        /\ p > 0 => got[c][1] = Ok
    BY <1>2, <2>1 DEF Fits
  <2>3. Stream(got'[c], p, k + 1, 0)
    BY <1>1, <2>1, <2>2, StreamChunk
  <2>4. p > 0 => got'[c][1] = got[c][1]
    <3>1. p > 0 => 1 \in 1..Len(got[c])
      BY <2>2 DEF Stream
    <3>2. got[c] \in Seq(Int) /\ k + 1 \in Int
      BY <1>1
    <3>. QED
      BY <2>1, <2>2, <3>1, <3>2
  <2>5. Fits(pc'[c], ask'[c], got'[c], fetched'[c], farSent'[c], down'[c], farDone'[c],
             p, k + 1, 0)
    BY <2>1, <2>2, <2>3, <2>4 DEF Fits
  <2>. QED
    BY <2>5, <1>3
<1>30. CASE DownloadEnds(c)
  <2>1. e = 0 /\ Stream(got[c], p, k, 0)
    BY <1>30, <1>2 DEF DownloadEnds, Fits
  <2>2. /\ pc[c] = "relay" /\ pc'[c] = "ended" /\ ask'[c] = ask[c]
        /\ fetched'[c] = fetched[c] /\ farSent'[c] = farSent[c] /\ farDone'[c] = farDone[c]
    BY <1>30, <1>1 DEF DownloadEnds, Ends, GoTo, client, far
  <2>3. CASE got' = got
    <3>1. Fits(pc'[c], ask'[c], got'[c], fetched'[c], farSent'[c], down'[c], farDone'[c], p, k, e)
      BY <1>2, <2>2, <2>3 DEF Fits
    <3>. QED
      BY <3>1, <1>3
  <2>4. CASE AnswerOver(c) /\ Say(c, Fin)
    <3>1. got'[c] = Append(got[c], Fin) /\ (farDone[c] = "lost" \/ k = farSent[c])
      <4>1. fetched[c] = k
        BY <1>2, <2>2, <2>4 DEF AnswerOver, Fits
      <4>. QED
        BY <1>1, <2>4, <4>1 DEF Say, AnswerOver
    <3>2. Stream(got'[c], p, k, 1)
      BY <1>1, <2>1, <3>1, StreamFin
    <3>3. k > 0 /\ ask[c] # "plain" => p > 0 /\ got'[c][1] = got[c][1] /\ got[c][1] = Ok
      <4>1. k > 0 /\ ask[c] # "plain" => p > 0 /\ got[c][1] = Ok
        BY <1>2 DEF Fits
      <4>2. p > 0 => 1 \in 1..Len(got[c])
        BY <2>1 DEF Stream
      <4>3. got[c] \in Seq(Int) /\ Fin \in Int
        BY <1>1 DEF Fin
      <4>. QED
        BY <3>1, <4>1, <4>2, <4>3
    <3>4. Fits(pc'[c], ask'[c], got'[c], fetched'[c], farSent'[c], down'[c], farDone'[c], p, k, 1)
      BY <2>2, <3>1, <3>2, <3>3 DEF Fits
    <3>. QED
      BY <3>4, <1>3
  <2>. QED
    BY <1>30, <2>3, <2>4 DEF DownloadEnds
<1>31. CASE LingerEnds(c)
  <2>1. Fits(pc'[c], ask'[c], got'[c], fetched'[c], farSent'[c], down'[c], farDone'[c], p, k, e)
    BY <1>31, <1>1, <1>2 DEF LingerEnds, Fits, GoTo, Ends, RelayDropped, client, upload, far,
       download
  <2>. QED
    BY <2>1, <1>3
<1>32. CASE FarLost(c)
  <2>1. Fits(pc'[c], ask'[c], got'[c], fetched'[c], farSent'[c], down'[c], farDone'[c], p, k, e)
    BY <1>32, <1>1, <1>2 DEF FarLost, Fits, Joined, server, client, upload, download, relaying
  <2>. QED
    BY <2>1, <1>3
<1>33. CASE Greet(c)
  BY <1>33, DownGreet
<1>34. CASE BeginRelay(c)
  <2>1. /\ pc[c] = "greet" /\ pc'[c] = "relay" /\ down[c] = None /\ ~ReplyDue(c)
        /\ UNCHANGED <<client, far, download, relaying>>
    BY <1>34, <1>1 DEF BeginRelay, GoTo, GreetingDue
  <2>2. e = 0 /\ Stream(got[c], p, k, 0)
    BY <1>2, <2>1 DEF Fits
  <2>3. ask[c] # "plain" => p > 0
    <3>1. Replied(c) <=> p > 0
      BY <2>2, RepliedStream
    <3>. QED
      BY <2>1, <3>1 DEF ReplyDue
  <2>4. Fits(pc'[c], ask'[c], got'[c], fetched'[c], farSent'[c], down'[c], farDone'[c], p, k, e)
    BY <1>2, <2>1, <2>3 DEF Fits, client, far, download, relaying
  <2>. QED
    BY <2>4, <1>3
<1>35. CASE HeadFails(c)
  <2>1. Fits(pc'[c], ask'[c], got'[c], fetched'[c], farSent'[c], down'[c], farDone'[c], p, k, e)
    BY <1>35, <1>1, <1>2 DEF HeadFails, Fits, GoTo, Ends, client, upload, far, download
  <2>. QED
    BY <2>1, <1>3
<1>. QED
  BY <1>4, <1>5, <1>6, <1>7, <1>8, <1>9, <1>10, <1>11, <1>12, <1>13, <1>14, <1>15, <1>16, <1>17,
     <1>18, <1>19, <1>20, <1>21, <1>22, <1>23, <1>24, <1>25, <1>26, <1>27, <1>28, <1>29, <1>30,
     <1>31, <1>32, <1>33, <1>34, <1>35 DEF Step, Handler, Uploading, Downloading

-----------------------------------------------------------------------------
(* The clocks                                                               *)

LEMMA ClockStep ==
    ASSUME Typed, NEW c \in Clients, ClockInv(c), UpInv(c), Step(c)
    PROVE  ClockInv(c)'
<1>1. /\ pc \in [Clients -> Stages] /\ upDone \in [Clients -> BOOLEAN]
      /\ idle \in [Clients -> 0..Linger] /\ still \in [Clients -> 0..Linger]
  BY Functions
<1>2. Linger \in Nat /\ ClockInv(c)
  BY Numbers
<1>3. CASE Dial(c)
  BY <1>3, <1>1, <1>2 DEF Dial, ClockInv, GoTo, server, upload, far, download, relaying
<1>4. CASE ClientSends(c)
  BY <1>4, <1>1, <1>2 DEF ClientSends, ClockInv, Served, server, upload, far, download, relaying
<1>5. CASE ClientCloses(c)
  BY <1>5, <1>1, <1>2 DEF ClientCloses, ClockInv, Served, server, upload, far, download
<1>6. CASE Accept(c)
  BY <1>6, <1>1, <1>2 DEF Accept, ClockInv, GoTo, client, upload, far, download, relaying
<1>7. CASE HandshakeFails(c)
  BY <1>7, <1>1, <1>2 DEF HandshakeFails, ClockInv, GoTo, Ends, RelayDropped, client, upload,
     far, download
<1>8. CASE RefuseRequest(c)
  BY <1>8, <1>1, <1>2 DEF RefuseRequest, ClockInv, GoTo, Ends, RelayDropped, client, upload, far
<1>9. CASE AssociateUdp(c)
  BY <1>9, <1>1, <1>2 DEF AssociateUdp, ClockInv, GoTo, server, client, upload, far, relaying
<1>10. CASE UdpEnds(c)
  BY <1>10, <1>1, <1>2 DEF UdpEnds, ClockInv, GoTo, Ends, RelayDropped, client, upload, far,
     download
<1>11. CASE ReadRequest(c)
  BY <1>11, <1>1, <1>2 DEF ReadRequest, ClockInv, GoTo, server, client, far, relaying
<1>12. CASE Sniff(c)
  BY <1>12, <1>1, <1>2 DEF Sniff, ClockInv, GoTo, Ends, RelayDropped, client, far, download,
     relaying
<1>13. CASE Block(c)
  BY <1>13, <1>1, <1>2 DEF Block, ClockInv, GoTo, Ends, RelayDropped, client, upload, far
<1>14. CASE TakeDirect(c)
  BY <1>14, <1>1, <1>2 DEF TakeDirect, ClockInv, GoTo, server, client, upload, far, download,
     relaying
<1>15. CASE TakeTunnel(c)
  BY <1>15, <1>1, <1>2 DEF TakeTunnel, ClockInv, GoTo, server, client, upload, far, download,
     relaying
<1>16. CASE ViaGateway(c)
  BY <1>16, <1>1, <1>2 DEF ViaGateway, ClockInv, GoTo, Connected, client, relaying
<1>17. CASE GatewayFails(c)
  BY <1>17, <1>1, <1>2 DEF GatewayFails, ClockInv, GoTo, RetireGateway, client, upload, far,
     download, relaying
<1>18. CASE Straight(c)
  BY <1>18, <1>1, <1>2 DEF Straight, ClockInv, GoTo, Connected, client, relaying
<1>19. CASE StraightFails(c)
  BY <1>19, <1>1, <1>2 DEF StraightFails, ClockInv, GoTo, Ends, RelayDropped, client, upload, far
<1>20. CASE DirectFails(c)
  BY <1>20, <1>1, <1>2 DEF DirectFails, ClockInv, GoTo, Ends, RelayDropped, client, upload, far
<1>21. CASE ClientLost(c)
  BY <1>21, <1>1, <1>2 DEF ClientLost, ClockInv, GoTo, Ends, RelayDropped, client, upload, far,
     download
<1>22. CASE FarSends(c)
  BY <1>22, <1>1, <1>2 DEF FarSends, ClockInv, server, client, upload, download, relaying
<1>23. CASE FarCloses(c)
  BY <1>23, <1>1, <1>2 DEF FarCloses, ClockInv, server, client, upload, download, relaying
<1>24. CASE UploadRead(c)
  BY <1>24, <1>1, <1>2 DEF UploadRead, ClockInv, server, client, far, download
<1>25. CASE UploadSent(c)
  <2>1. pc'[c] = pc[c] /\ idle'[c] = 0 /\ upDone'[c] = (up[c] = Fin) /\ still'[c] = still[c]
    BY <1>25, <1>1 DEF UploadSent, Touch
  <2>2. pc[c] \in {"greet", "relay"} /\ (pc[c] = "greet" => up[c] # Fin)
    BY <1>25 DEF UploadSent, Joined, UpInv
  <2>. QED
    BY <1>1, <1>2, <2>1, <2>2 DEF ClockInv
<1>26. CASE UploadFails(c)
  BY <1>26, <1>1, <1>2 DEF UploadFails, ClockInv, Touch, server, client, upload, far, download
<1>27. CASE Fetch(c)
  BY <1>27, <1>1, <1>2 DEF Fetch, ClockInv, server, client, upload, far, relaying
<1>28. CASE Deliver(c)
  BY <1>28, <1>1, <1>2 DEF Deliver, ClockInv, Touch, server, client, upload, far
<1>29. CASE DownloadEnds(c)
  BY <1>29, <1>1, <1>2 DEF DownloadEnds, ClockInv, GoTo, Ends, RelayDropped, client, upload, far
<1>30. CASE LingerEnds(c)
  BY <1>30, <1>1, <1>2 DEF LingerEnds, ClockInv, GoTo, Ends, RelayDropped, client, upload, far,
     download
<1>31. CASE FarLost(c)
  BY <1>31, <1>1, <1>2 DEF FarLost, ClockInv, server, client, upload, download, relaying
<1>32. CASE Greet(c)
  BY <1>32, <1>1, <1>2 DEF Greet, ClockInv, server, client, upload, far
<1>33. CASE BeginRelay(c)
  BY <1>33, <1>1, <1>2 DEF BeginRelay, ClockInv, GoTo, server, client, upload, far, download,
     relaying
<1>34. CASE HeadFails(c)
  BY <1>34, <1>1, <1>2 DEF HeadFails, ClockInv, GoTo, Ends, RelayDropped, client, upload, far,
     download
<1>. QED
  BY <1>3, <1>4, <1>5, <1>6, <1>7, <1>8, <1>9, <1>10, <1>11, <1>12, <1>13, <1>14, <1>15, <1>16,
     <1>17, <1>18, <1>19, <1>20, <1>21, <1>22, <1>23, <1>24, <1>25, <1>26, <1>27, <1>28, <1>29,
     <1>30, <1>31, <1>32, <1>33, <1>34 DEF Step, Handler, Uploading, Downloading

-----------------------------------------------------------------------------
(* Init and the steps that are nobody's own                                 *)

LEMMA InitInv == Init => InboundInv
<1>. SUFFICES ASSUME Init PROVE InboundInv
  OBVIOUS
<1>1. /\ pc = All("away") /\ ask = All("mute") /\ sent = All(0) /\ shut = All("open")
      /\ taken = All(0) /\ carried = All(<<>>) /\ farSent = All(0) /\ farDone = All("open")
      /\ fetched = All(0) /\ got = All(<<>>) /\ up = All(0) /\ down = All(0)
      /\ upDone = All(FALSE) /\ idle = All(0) /\ still = All(0)
      /\ tunnel = "down" /\ healthy = TRUE
  BY DEF Init, None
<1>2. <<>> \in Seq(Int) /\ 0 \in 0..Linger
  BY Numbers
<1>3. Shaped
  BY <1>1, <1>2, Numbers DEF Shaped, All, Stages, Requests
<1>4. permits \in [Doors -> 0..MaxClients] /\ \A d \in Doors : permits[d] = MaxClients
  BY Numbers DEF Init
<1>5. \A d \in Doors : Inside(d) = {}
  BY <1>1 DEF Inside, Served, All
<1>6. TypeOK
  <2>1. \A d \in Doors : permits[d] + Cardinality(Inside(d)) = MaxClients
    BY <1>4, <1>5, FS_EmptySet, Numbers
  <2>. QED
    BY <1>3, <1>4, <2>1, ShapedTyped DEF TypeOK
<1>7. EndInv
  BY <1>1 DEF EndInv
<1>8. ASSUME NEW c \in Clients
      PROVE  UpInv(c) /\ DownInv(c) /\ ClockInv(c)
  <2>1. /\ pc[c] = "away" /\ taken[c] = 0 /\ carried[c] = <<>> /\ got[c] = <<>>
        /\ upDone[c] = FALSE /\ idle[c] = 0 /\ still[c] = 0
    BY <1>1 DEF All
  <2>2. UpInv(c)
    BY <2>1 DEF UpInv, Told, Routing, Joined
  <2>3. Stream(got[c], 0, 0, 0)
    BY <2>1 DEF Stream
  <2>4. Fits(pc[c], ask[c], got[c], fetched[c], farSent[c], down[c], farDone[c], 0, 0, 0)
    BY <2>1, <2>3 DEF Fits
  <2>5. DownInv(c)
    BY <2>4 DEF DownInv, AnswerState
  <2>. QED
    BY <2>1, <2>2, <2>5 DEF ClockInv
<1>. QED
  BY <1>6, <1>7, <1>8 DEF InboundInv

(* What the invariant says of a client, by what of it does not change. *)
LEMMA ClientKept ==
    ASSUME NEW c \in Clients, UpInv(c), DownInv(c), Typed,
           pc'[c] = pc[c] \/ (pc'[c] = "ended" /\ ~upDone'[c]),
           pc'[c] = pc[c] =>
              \/ upDone'[c] = upDone[c] /\ up'[c] = up[c] /\ down'[c] = down[c]
              \/ ~upDone'[c] /\ pc[c] \notin {"greet", "relay"},
           ask'[c] = ask[c], sent'[c] = sent[c], shut'[c] = shut[c], taken'[c] = taken[c],
           carried'[c] = carried[c], farSent'[c] = farSent[c], fetched'[c] = fetched[c],
           got'[c] = got[c], farDone'[c] = farDone[c]
    PROVE  UpInv(c)' /\ DownInv(c)'
<1>1. UpInv(c)'
  BY DEF UpInv, Routing, Joined, Waiting
<1>2. PICK p, k, e \in Nat : Fits(pc[c], ask[c], got[c], fetched[c], farSent[c], down[c], farDone[c], p, k, e)
  BY DEF DownInv, AnswerState
<1>3. Fits(pc'[c], ask'[c], got'[c], fetched'[c], farSent'[c], down'[c], farDone'[c], p, k, e)
  BY <1>2 DEF Fits
<1>. QED
  BY <1>1, <1>3 DEF DownInv, AnswerState

(* The tunnel ends: every place is free again. *)
LEMMA TunnelEndsInv ==
    ASSUME InboundInv, TunnelEnds
    PROVE  InboundInv'
<1>1. Shaped
  BY ShapedTyped DEF InboundInv, TypeOK
<1>2. /\ \A c \in Clients : pc'[c] = IF Served(c) THEN "ended" ELSE pc[c]
      /\ pc' \in [Clients -> Stages]
  BY <1>1 DEF TunnelEnds, Shaped, Stages
<1>3. /\ AllDropped /\ tunnel' = "down"
      /\ permits' = [d \in Doors |-> MaxClients]
      /\ UNCHANGED <<healthy, client, upload, far, download>>
  BY DEF TunnelEnds
<1>4. Shaped'
  <2>1. /\ upDone' \in [Clients -> BOOLEAN]
        /\ up' \in [Clients -> Int] /\ down' \in [Clients -> Nat]
        /\ idle' \in [Clients -> 0..Linger] /\ still' \in [Clients -> 0..Linger]
    BY <1>3, Numbers DEF All, AllDropped, None
  <2>. QED
    BY <1>1, <1>2, <1>3, <2>1 DEF Shaped, client, upload, far, download
<1>5. TypeOK'
  <2>1. \A d \in Doors : Inside(d)' = {}
    BY <1>2 DEF Inside, Served
  <2>2. permits' \in [Doors -> 0..MaxClients] /\ \A d \in Doors : permits'[d] = MaxClients
    BY <1>3, Numbers
  <2>3. \A d \in Doors : permits'[d] + Cardinality(Inside(d)') = MaxClients
    BY <2>1, <2>2, FS_EmptySet, Numbers
  <2>4. Typed'
    BY <1>4, <2>2, TypedNext
  <2>. QED
    BY <2>3, <2>4 DEF TypeOK
<1>6. EndInv'
  BY <1>3 DEF EndInv
<1>7. ASSUME NEW c \in Clients
      PROVE  UpInv(c)' /\ DownInv(c)' /\ ClockInv(c)'
  <2>1. UpInv(c) /\ DownInv(c) /\ ClockInv(c) /\ Typed
    BY DEF InboundInv, TypeOK
  <2>2. /\ ~upDone'[c] /\ idle'[c] = 0 /\ still'[c] = 0
        /\ pc'[c] = pc[c] \/ pc'[c] = "ended"
        /\ pc'[c] = pc[c] => pc[c] \notin {"greet", "relay"}
    BY <1>2, <1>3 DEF AllDropped, All, Served
  <2>3. /\ ask'[c] = ask[c] /\ sent'[c] = sent[c] /\ shut'[c] = shut[c] /\ taken'[c] = taken[c]
        /\ carried'[c] = carried[c] /\ farSent'[c] = farSent[c] /\ fetched'[c] = fetched[c]
        /\ got'[c] = got[c] /\ farDone'[c] = farDone[c]
    BY <1>3 DEF client, upload, far, download
  <2>4. UpInv(c)' /\ DownInv(c)'
    BY <2>1, <2>2, <2>3, ClientKept
  <2>. QED
    BY <2>2, <2>4 DEF ClockInv
<1>. QED
  BY <1>5, <1>6, <1>7 DEF InboundInv

(* The core ends: no place is asked about any more. *)
LEMMA ListenerBreaksInv ==
    ASSUME InboundInv, ListenerBreaks
    PROVE  InboundInv'
<1>1. Shaped /\ permits \in [Doors -> 0..MaxClients]
  BY ShapedTyped DEF InboundInv, TypeOK
<1>2. /\ AllDropped /\ tunnel' = "ended"
      /\ pc' = All("ended") /\ UNCHANGED <<permits, healthy, client, upload, far, download>>
  BY DEF ListenerBreaks
<1>3. Shaped'
  <2>1. /\ upDone' \in [Clients -> BOOLEAN] /\ pc' \in [Clients -> Stages]
        /\ up' \in [Clients -> Int] /\ down' \in [Clients -> Nat]
        /\ idle' \in [Clients -> 0..Linger] /\ still' \in [Clients -> 0..Linger]
    BY <1>2, Numbers DEF All, AllDropped, None, Stages
  <2>. QED
    BY <1>1, <1>2, <2>1 DEF Shaped, client, upload, far, download
<1>4. TypeOK'
  BY <1>1, <1>2, <1>3, TypedNext DEF TypeOK
<1>5. EndInv'
  BY <1>2 DEF EndInv, All
<1>6. ASSUME NEW c \in Clients
      PROVE  UpInv(c)' /\ DownInv(c)' /\ ClockInv(c)'
  <2>1. UpInv(c) /\ DownInv(c) /\ ClockInv(c) /\ Typed
    BY DEF InboundInv, TypeOK
  <2>2. ~upDone'[c] /\ idle'[c] = 0 /\ still'[c] = 0 /\ pc'[c] = "ended"
    BY <1>2 DEF AllDropped, All
  <2>3. /\ ask'[c] = ask[c] /\ sent'[c] = sent[c] /\ shut'[c] = shut[c] /\ taken'[c] = taken[c]
        /\ carried'[c] = carried[c] /\ farSent'[c] = farSent[c] /\ fetched'[c] = fetched[c]
        /\ got'[c] = got[c] /\ farDone'[c] = farDone[c]
    BY <1>2 DEF client, upload, far, download
  <2>4. UpInv(c)' /\ DownInv(c)'
    BY <2>1, <2>2, <2>3, ClientKept
  <2>. QED
    BY <2>2, <2>4 DEF ClockInv
<1>. QED
  BY <1>4, <1>5, <1>6 DEF InboundInv

(* Time passes: the client has waited at least as long as the relay. *)
LEMMA TickInv ==
    ASSUME InboundInv, Tick
    PROVE  InboundInv'
<1>1. Shaped /\ TypeOK /\ EndInv /\ permits \in [Doors -> 0..MaxClients]
  BY ShapedTyped DEF InboundInv, TypeOK
<1>2. UNCHANGED <<server, pc, client, upload, far, download, up, down, upDone>>
  BY DEF Tick
<1>3. ASSUME NEW c \in Clients
      PROVE  /\ idle[c] \in 0..Linger /\ still[c] \in 0..Linger /\ Linger \in Nat
             /\ idle'[c] = Later(idle, c)
             /\ still'[c] = IF shut[c] # "open" \/ upDone[c] THEN Later(still, c) ELSE still[c]
  BY <1>1, Numbers DEF Tick, Shaped
<1>4. \A c \in Clients : Later(idle, c) \in 0..Linger /\ Later(still, c) \in 0..Linger
  BY <1>3 DEF Later
<1>5. idle' \in [Clients -> 0..Linger] /\ still' \in [Clients -> 0..Linger]
  BY <1>1, <1>3, <1>4 DEF Tick, Shaped
<1>6. TypeOK' /\ EndInv'
  <2>1. Shaped'
    BY <1>1, <1>2, <1>5 DEF Shaped, server, client, upload, far, download
  <2>2. Typed'
    BY <1>1, <1>2, <2>1, TypedNext DEF server
  <2>3. \A d \in Doors : Inside(d)' = Inside(d)
    BY <1>2 DEF Inside, Served, Door, client
  <2>. QED
    BY <1>1, <1>2, <2>2, <2>3 DEF TypeOK, EndInv, server
<1>7. ASSUME NEW c \in Clients
      PROVE  UpInv(c)' /\ DownInv(c)' /\ ClockInv(c)'
  <2>1. UpInv(c) /\ DownInv(c) /\ ClockInv(c) /\ Typed
    BY DEF InboundInv, TypeOK
  <2>2. /\ pc'[c] = pc[c] /\ upDone'[c] = upDone[c] /\ up'[c] = up[c] /\ down'[c] = down[c]
        /\ ask'[c] = ask[c] /\ sent'[c] = sent[c] /\ shut'[c] = shut[c] /\ taken'[c] = taken[c]
        /\ carried'[c] = carried[c] /\ farSent'[c] = farSent[c] /\ fetched'[c] = fetched[c]
        /\ got'[c] = got[c] /\ farDone'[c] = farDone[c]
    BY <1>2 DEF client, upload, far, download
  <2>3. UpInv(c)' /\ DownInv(c)'
    BY <2>1, <2>2, ClientKept
  <2>4. upDone[c] => idle'[c] <= still'[c]
    <3>. SUFFICES ASSUME upDone[c] PROVE idle'[c] <= still'[c]
      OBVIOUS
    <3>1. idle[c] <= still[c]
      BY <2>1 DEF ClockInv
    <3>2. idle'[c] = Later(idle, c) /\ still'[c] = Later(still, c)
      BY <1>3
    <3>. QED
      BY <1>3, <3>1, <3>2 DEF Later
  <2>. QED
    BY <2>1, <2>2, <2>3, <2>4 DEF ClockInv
<1>. QED
  BY <1>6, <1>7 DEF InboundInv

-----------------------------------------------------------------------------
(* The invariant                                                            *)


(* The core has not ended while a client has a step to take. *)
LEMMA StepLive ==
    ASSUME Typed, EndInv, NEW c \in Clients, Step(c)
    PROVE  tunnel # "ended" /\ tunnel' = tunnel
<1>1. pc \in [Clients -> Stages] /\ (tunnel = "ended" => pc[c] = "ended")
  BY Functions DEF EndInv, All
<1>2. CASE Dial(c)
  BY <1>2, <1>1 DEF Dial, Served, Connected, server
<1>3. CASE ClientSends(c)
  BY <1>3, <1>1 DEF ClientSends, Served, Connected, server
<1>4. CASE ClientCloses(c)
  BY <1>4, <1>1 DEF ClientCloses, Served, Connected, server
<1>5. CASE Accept(c)
  BY <1>5, <1>1 DEF Accept, Served, Connected, server
<1>6. CASE HandshakeFails(c)
  BY <1>6, <1>1 DEF HandshakeFails, Served, Connected, server
<1>7. CASE RefuseRequest(c)
  BY <1>7, <1>1 DEF RefuseRequest, Served, Connected, server
<1>8. CASE AssociateUdp(c)
  BY <1>8, <1>1 DEF AssociateUdp, Served, Connected, server
<1>9. CASE UdpEnds(c)
  BY <1>9, <1>1 DEF UdpEnds, Served, Connected, server
<1>10. CASE ReadRequest(c)
  BY <1>10, <1>1 DEF ReadRequest, Served, Connected, server
<1>11. CASE Sniff(c)
  BY <1>11, <1>1 DEF Sniff, Served, Connected, server
<1>12. CASE Block(c)
  BY <1>12, <1>1 DEF Block, Served, Connected, server
<1>13. CASE TakeDirect(c)
  BY <1>13, <1>1 DEF TakeDirect, Served, Connected, server
<1>14. CASE TakeTunnel(c)
  BY <1>14, <1>1 DEF TakeTunnel, Served, Connected, server
<1>15. CASE ViaGateway(c)
  BY <1>15, <1>1 DEF ViaGateway, Served, Connected, server
<1>16. CASE GatewayFails(c)
  BY <1>16, <1>1 DEF GatewayFails, Served, Connected, server
<1>17. CASE Straight(c)
  BY <1>17, <1>1 DEF Straight, Served, Connected, server
<1>18. CASE StraightFails(c)
  BY <1>18, <1>1 DEF StraightFails, Served, Connected, server
<1>19. CASE DirectFails(c)
  BY <1>19, <1>1 DEF DirectFails, Served, Connected, server
<1>20. CASE ClientLost(c)
  BY <1>20, <1>1 DEF ClientLost, Served, Connected, server
<1>21. CASE FarSends(c)
  BY <1>21, <1>1 DEF FarSends, Joined, server
<1>22. CASE FarCloses(c)
  BY <1>22, <1>1 DEF FarCloses, Joined, server
<1>23. CASE UploadRead(c)
  BY <1>23, <1>1 DEF UploadRead, Joined, server
<1>24. CASE UploadSent(c)
  BY <1>24, <1>1 DEF UploadSent, Joined, server
<1>25. CASE UploadFails(c)
  BY <1>25, <1>1 DEF UploadFails, Served, Connected, server
<1>26. CASE Fetch(c)
  BY <1>26, <1>1 DEF Fetch, Served, Connected, server
<1>27. CASE Deliver(c)
  BY <1>27, <1>1 DEF Deliver, Served, Connected, server
<1>28. CASE DownloadEnds(c)
  BY <1>28, <1>1 DEF DownloadEnds, Served, Connected, server
<1>29. CASE LingerEnds(c)
  BY <1>29, <1>1 DEF LingerEnds, Served, Connected, server
<1>30. CASE FarLost(c)
  BY <1>30, <1>1 DEF FarLost, Joined, server
<1>31. CASE Greet(c)
  BY <1>31, <1>1 DEF Greet, Joined, server
<1>32. CASE BeginRelay(c)
  BY <1>32, <1>1 DEF BeginRelay, Joined, server
<1>33. CASE HeadFails(c)
  BY <1>33, <1>1 DEF HeadFails, Joined, server
<1>. QED
  BY <1>2, <1>3, <1>4, <1>5, <1>6, <1>7, <1>8, <1>9, <1>10, <1>11, <1>12, <1>13, <1>14, <1>15,
     <1>16, <1>17, <1>18, <1>19, <1>20, <1>21, <1>22, <1>23, <1>24, <1>25, <1>26, <1>27, <1>28,
     <1>29, <1>30, <1>31, <1>32, <1>33 DEF Step, Handler, Uploading, Downloading

LEMMA StepInv ==
    ASSUME InboundInv, NEW c \in Clients, Step(c)
    PROVE  InboundInv'
<1>1. Typed /\ TypeOK /\ EndInv /\ UpInv(c) /\ DownInv(c) /\ ClockInv(c)
  BY DEF InboundInv, TypeOK
<1>2. Shaped' /\ PlacesOK'
  BY <1>1, ShapedStep, PlacesStep
<1>3. TypeOK'
  BY <1>2, TypedNext DEF TypeOK, PlacesOK
<1>4. EndInv'
  BY <1>1, StepLive DEF EndInv
<1>5. UpInv(c)' /\ DownInv(c)' /\ ClockInv(c)'
  BY <1>1, UpStep, DownStep, ClockStep
<1>6. ASSUME NEW d \in Clients, d # c
      PROVE  UpInv(d)' /\ DownInv(d)' /\ ClockInv(d)'
  <2>1. UpInv(d) /\ DownInv(d) /\ ClockInv(d)
    BY DEF InboundInv
  <2>2. Same(d)
    BY <1>1, <1>6, OthersSame
  <2>3. UpInv(d)' /\ DownInv(d)'
    BY <1>1, <2>1, <2>2, ClientKept DEF Same
  <2>. QED
    BY <2>1, <2>2, <2>3 DEF Same, ClockInv
<1>. QED
  BY <1>3, <1>4, <1>5, <1>6 DEF InboundInv

LEMMA NextInv ==
    ASSUME InboundInv, [Next]_vars
    PROVE  InboundInv'
<1>1. CASE \E c \in Clients : Step(c)
  BY <1>1, StepInv
<1>2. CASE TunnelEnds
  BY <1>2, TunnelEndsInv
<1>3. CASE TunnelBegins
  <2>1. /\ tunnel = "down" /\ tunnel' = "up"
        /\ UNCHANGED <<permits, healthy, pc, client, upload, far, download, relaying>>
    BY <1>3 DEF TunnelBegins
  <2>2. Typed' /\ \A d \in Doors : Inside(d)' = Inside(d)
    BY <2>1 DEF InboundInv, TypeOK, Typed, Inside, Served, Door, client, upload, far, download,
       relaying
  <2>3. TypeOK' /\ EndInv'
    BY <2>1, <2>2 DEF InboundInv, TypeOK, EndInv
  <2>4. ASSUME NEW c \in Clients
        PROVE  UpInv(c)' /\ DownInv(c)' /\ ClockInv(c)'
    BY <2>1 DEF InboundInv, UpInv, Waiting, Joined, DownInv, ClockInv, client, upload, far,
       download, relaying
  <2>. QED
    BY <2>3, <2>4 DEF InboundInv
<1>4. CASE ListenerBreaks
  BY <1>4, ListenerBreaksInv
<1>5. CASE Tick
  BY <1>5, TickInv
<1>6. CASE UNCHANGED vars
  <2>1. UNCHANGED <<tunnel, permits, healthy, pc, client, upload, far, download, relaying>>
    BY <1>6 DEF vars, server
  <2>2. Typed' /\ \A d \in Doors : Inside(d)' = Inside(d)
    BY <2>1 DEF InboundInv, TypeOK, Typed, Inside, Served, Door, client, upload, far, download,
       relaying
  <2>3. TypeOK' /\ EndInv'
    BY <2>1, <2>2 DEF InboundInv, TypeOK, EndInv
  <2>4. ASSUME NEW c \in Clients
        PROVE  UpInv(c)' /\ DownInv(c)' /\ ClockInv(c)'
    BY <2>1 DEF InboundInv, UpInv, Waiting, Joined, DownInv, ClockInv, client, upload, far,
       download, relaying
  <2>. QED
    BY <2>3, <2>4 DEF InboundInv
<1>. QED
  BY <1>1, <1>2, <1>3, <1>4, <1>5, <1>6 DEF Next, Step

(* The inductive invariant: places, streams and clocks of every client are  *)
(* what the accept loop and the handlers of socks.rs make of them.          *)
THEOREM InboundCorrect == Spec => []InboundInv
<1>1. Init => InboundInv
  BY InitInv
<1>2. InboundInv /\ [Next]_vars => InboundInv'
  BY NextInv
<1>. QED
  BY <1>1, <1>2, PTL DEF Spec

(* For any number of clients and any limit, accept_clients hands out and    *)
(* takes back each permit exactly once: those free and the clients served   *)
(* at a listener add up to client_limit, whichever way a handler ends.      *)
THEOREM TypeCorrect == Spec => []TypeOK
<1>1. InboundInv => TypeOK
  BY DEF InboundInv
<1>. QED
  BY <1>1, InboundCorrect, PTL

LEMMA UploadInOrder ==
    ASSUME InboundInv
    PROVE  UploadFaithful
<1>. SUFFICES ASSUME NEW c \in Clients
              PROVE  /\ InOrder(carried[c])
                     /\ \A i \in 1..Len(carried[c]) : carried[c][i] = Fin =>
                           /\ i = Len(carried[c])
                           /\ shut[c] = "gone" \/ Len(carried[c]) = sent[c] + 1
  BY DEF UploadFaithful
<1>1. UpInv(c) /\ carried[c] \in Seq(Int)
  BY Functions DEF InboundInv, TypeOK
<1>. DEFINE s == carried[c]
<1>2. \A j \in 1..Len(s) : s[j] = j \/ (s[j] = Fin /\ j = Len(s))
  BY <1>1 DEF UpInv
<1>3. Told(s) => shut[c] = "gone" \/ Len(s) = sent[c] + 1
  BY <1>1 DEF UpInv
<1>. HIDE DEF s
<1>4. s \in Seq(Int)
  BY <1>1 DEF s
<1>5. InOrder(s)
  BY <1>2, <1>4, CarriedCount DEF InOrder
<1>6. ASSUME NEW i \in 1..Len(s), s[i] = Fin
      PROVE  i = Len(s) /\ (shut[c] = "gone" \/ Len(s) = sent[c] + 1)
  <2>1. i = Len(s)
    BY <1>2, <1>6 DEF Fin
  <2>2. Told(s)
    BY <1>6 DEF Told
  <2>. QED
    BY <1>3, <2>1, <2>2
<1>. QED
  BY <1>5, <1>6 DEF s

(* Whatever the client sends, however it closes and by whichever route it   *)
(* goes, what handle_connect and the relay carry to the far end is each     *)
(* chunk once and in order, with the end of the stream only behind all of   *)
(* it: what follows an HTTP head and what read_sniff_head reads too.        *)
THEOREM UploadCorrect == Spec => []UploadFaithful
<1>1. InboundInv => UploadFaithful
  BY UploadInOrder
<1>. QED
  BY <1>1, InboundCorrect, PTL

LEMMA AnswerInOrder ==
    ASSUME InboundInv
    PROVE  AnswerFaithful
<1>. SUFFICES ASSUME NEW c \in Clients
              PROVE  /\ InOrder(got[c])
                     /\ \A i \in 1..Len(got[c]) :
                           IsChunk(got[c][i]) /\ ask[c] # "plain" => got[c][1] = Ok
                     /\ \A i \in 1..Len(got[c]) : got[c][i] = Fin =>
                           /\ i = Len(got[c])
                           /\ farDone[c] = "lost" \/ Delivered(c) = farSent[c]
  BY DEF AnswerFaithful
<1>1. PICK p, k, e \in Nat : Fits(pc[c], ask[c], got[c], fetched[c], farSent[c], down[c], farDone[c], p, k, e)
  BY DEF InboundInv, DownInv, AnswerState
<1>2. /\ Stream(got[c], p, k, e) /\ (e = 1 => farDone[c] = "lost" \/ k = farSent[c])
      /\ k > 0 /\ ask[c] # "plain" => got[c][1] = Ok
  BY <1>1 DEF Fits
<1>3. Delivered(c) = k /\ InOrder(got[c])
  BY <1>2, StreamCount DEF Delivered, InOrder
<1>4. ASSUME NEW i \in 1..Len(got[c]), IsChunk(got[c][i])
      PROVE  k > 0
  <2>1. i > p /\ i <= p + k /\ i \in Int
    BY <1>2, <1>4, StreamChunks
  <2>. QED
    BY <2>1
<1>5. ASSUME NEW i \in 1..Len(got[c]), got[c][i] = Fin
      PROVE  i = Len(got[c]) /\ e = 1
  <2>1. ~(i <= p)
    <3>1. i <= p => IsReply(got[c][i])
      BY <1>2, StreamItems
    <3>. QED
      BY <1>5, <3>1 DEF IsReply, Ok, No, Fin
  <2>2. ~(i > p /\ i <= p + k)
    <3>1. ~IsChunk(got[c][i])
      BY <1>5 DEF IsChunk, Fin
    <3>. QED
      BY <1>2, <3>1, StreamChunks
  <2>3. i > p + k => i = Len(got[c]) /\ e = 1
    <3>1. \A j \in 1..Len(got[c]) : j > p + k => got[c][j] = Fin /\ j = Len(got[c]) /\ e = 1
      <4>1. Stream(got[c], p, k, e)
        BY <1>2
      <4>. QED
        BY ONLY <4>1, p \in Nat, k \in Nat, e \in Nat, StreamItems
    <3>. QED
      BY <3>1
  <2>4. i \in Int
    OBVIOUS
  <2>. QED
    BY <2>1, <2>2, <2>3, <2>4
<1>. QED
  BY <1>2, <1>3, <1>4, <1>5

(* Whichever way the handler connects, what relay_halves writes to the      *)
(* client is the far end's chunks once and in order, the one that came with *)
(* the gateway's own answer included, behind the reply that its protocol    *)
(* has; and it ends the client's stream behind the whole answer only, or    *)
(* when the connection to the far end was lost.                             *)
THEOREM AnswerCorrect == Spec => []AnswerFaithful
<1>1. InboundInv => AnswerFaithful
  BY AnswerInOrder
<1>. QED
  BY <1>1, InboundCorrect, PTL

(* A relay ends. *)
Cut(c) == pc[c] = "relay" /\ pc'[c] = "ended"

(* What a relay may end for. *)
May(c) ==
    \/ Delivered(c) = farSent[c] /\ farDone[c] = "closed"
    \/ farDone[c] = "lost"
    \/ shut[c] = "gone"
    \/ tunnel' # "up"
    \/ upDone[c] /\ still[c] >= Linger

LEMMA StepCuts ==
    ASSUME Typed, NEW c \in Clients, ClockInv(c), DownInv(c), Cut(c), Step(c)
    PROVE  May(c)
<1>1. /\ pc \in [Clients -> Stages] /\ Linger \in Nat
      /\ idle[c] \in 0..Linger /\ still[c] \in 0..Linger
  BY Functions, Numbers
<1>2. ClockInv(c)
  OBVIOUS
<1>3. CASE Dial(c)
  BY <1>3, <1>1 DEF Dial, Cut, Served, GoTo, Connected, server
<1>4. CASE ClientSends(c)
  BY <1>4, <1>1 DEF ClientSends, Cut, Served, GoTo, Connected, server
<1>5. CASE ClientCloses(c)
  BY <1>5, <1>1 DEF ClientCloses, Cut, Served, GoTo, Connected, server
<1>6. CASE Accept(c)
  BY <1>6, <1>1 DEF Accept, Cut, Served, GoTo, Connected, server
<1>7. CASE HandshakeFails(c)
  BY <1>7, <1>1 DEF HandshakeFails, Cut, Served, GoTo, Connected, server
<1>8. CASE RefuseRequest(c)
  BY <1>8, <1>1 DEF RefuseRequest, Cut, Served, GoTo, Connected, server
<1>9. CASE AssociateUdp(c)
  BY <1>9, <1>1 DEF AssociateUdp, Cut, Served, GoTo, Connected, server
<1>10. CASE UdpEnds(c)
  BY <1>10, <1>1 DEF UdpEnds, Cut, Served, GoTo, Connected, server
<1>11. CASE ReadRequest(c)
  BY <1>11, <1>1 DEF ReadRequest, Cut, Served, GoTo, Connected, server
<1>12. CASE Sniff(c)
  BY <1>12, <1>1 DEF Sniff, Cut, Served, GoTo, Connected, server
<1>13. CASE Block(c)
  BY <1>13, <1>1 DEF Block, Cut, Served, GoTo, Connected, server
<1>14. CASE TakeDirect(c)
  BY <1>14, <1>1 DEF TakeDirect, Cut, Served, GoTo, Connected, server
<1>15. CASE TakeTunnel(c)
  BY <1>15, <1>1 DEF TakeTunnel, Cut, Served, GoTo, Connected, server
<1>16. CASE ViaGateway(c)
  BY <1>16, <1>1 DEF ViaGateway, Cut, Served, GoTo, Connected, server
<1>17. CASE GatewayFails(c)
  BY <1>17, <1>1 DEF GatewayFails, Cut, Served, GoTo, Connected, server
<1>18. CASE Straight(c)
  BY <1>18, <1>1 DEF Straight, Cut, Served, GoTo, Connected, server
<1>19. CASE StraightFails(c)
  BY <1>19, <1>1 DEF StraightFails, Cut, Served, GoTo, Connected, server
<1>20. CASE DirectFails(c)
  BY <1>20, <1>1 DEF DirectFails, Cut, Served, GoTo, Connected, server
<1>21. CASE ClientLost(c)
  BY <1>21, <1>1 DEF ClientLost, Cut, Served, GoTo, Connected, server
<1>22. CASE FarSends(c)
  BY <1>22, <1>1 DEF FarSends, Cut, Served, GoTo, Connected, server
<1>23. CASE FarCloses(c)
  BY <1>23, <1>1 DEF FarCloses, Cut, Served, GoTo, Connected, server
<1>24. CASE UploadRead(c)
  BY <1>24, <1>1 DEF UploadRead, Cut, server
<1>25. CASE UploadSent(c)
  BY <1>25, <1>1 DEF UploadSent, Cut, server
<1>26. CASE UploadFails(c)
  BY <1>26, <1>1 DEF UploadFails, Cut, Served, GoTo, Connected, server
<1>27. CASE Fetch(c)
  BY <1>27, <1>1 DEF Fetch, Cut, Served, GoTo, Connected, server
<1>28. CASE Deliver(c)
  BY <1>28, <1>1 DEF Deliver, Cut, Served, GoTo, Connected, server
<1>29. CASE DownloadEnds(c)
  <2>1. ASSUME AnswerOver(c)
        PROVE  farDone[c] = "lost" \/ (Delivered(c) = farSent[c] /\ farDone[c] = "closed")
    <3>1. PICK p, k, e \in Nat :
            Fits(pc[c], ask[c], got[c], fetched[c], farSent[c], down[c], farDone[c], p, k, e)
      BY DEF DownInv, AnswerState
    <3>2. Stream(got[c], p, k, e) /\ fetched[c] = k
      BY <2>1, <3>1 DEF AnswerOver, Fits, Cut
    <3>3. Delivered(c) = k
      BY <3>2, StreamCount DEF Delivered
    <3>. QED
      BY <2>1, <3>2, <3>3 DEF AnswerOver
  <2>2. Open(c) \/ shut[c] = "gone"
    BY DEF Open
  <2>. QED
    BY <1>29, <2>1, <2>2 DEF DownloadEnds, May
<1>30. CASE LingerEnds(c)
  <2>1. upDone[c] /\ idle[c] >= Linger
    BY <1>30 DEF LingerEnds, LingerOver
  <2>2. idle[c] <= still[c]
    BY <1>2, <2>1 DEF ClockInv
  <2>. QED
    BY <1>1, <2>1, <2>2 DEF May
<1>31. CASE FarLost(c)
  BY <1>31, <1>1 DEF FarLost, Cut, server
<1>32. CASE Greet(c)
  BY <1>32, <1>1 DEF Greet, Cut, server
<1>33. CASE BeginRelay(c)
  BY <1>33, <1>1 DEF BeginRelay, Cut, server
<1>34. CASE HeadFails(c)
  BY <1>34, <1>1 DEF HeadFails, Cut, server
<1>. QED
  BY <1>3, <1>4, <1>5, <1>6, <1>7, <1>8, <1>9, <1>10, <1>11, <1>12, <1>13, <1>14, <1>15, <1>16,
     <1>17, <1>18, <1>19, <1>20, <1>21, <1>22, <1>23, <1>24, <1>25, <1>26, <1>27, <1>28, <1>29,
     <1>30, <1>31, <1>32, <1>33, <1>34 DEF Step, Handler, Uploading, Downloading

(* relay_halves returns only when the far end is done and all it sent has   *)
(* been written, the far end is lost, the client is gone, its task is       *)
(* aborted with the tunnel, or the upload is over and nothing has reached   *)
(* the client for half_close_linger: an answer on its way is never cut,     *)
(* whatever the upload and the clock do.                                    *)
THEOREM CutCorrect == Spec => AnswerNotCut
<1>1. ASSUME InboundInv, [Next]_vars, NEW c \in Clients, Cut(c)
      PROVE  May(c)
  <2>1. Typed /\ ClockInv(c) /\ DownInv(c)
    BY <1>1 DEF InboundInv, TypeOK
  <2>2. CASE Step(c)
    BY <1>1, <2>1, <2>2, StepCuts
  <2>3. ASSUME NEW d \in Clients, d # c, Step(d)
        PROVE  FALSE
    BY <1>1, <2>1, <2>3, OthersSame DEF Same, Cut
  <2>4. CASE TunnelEnds \/ ListenerBreaks
    BY <2>4 DEF TunnelEnds, ListenerBreaks, May
  <2>5. CASE TunnelBegins \/ Tick
    BY <1>1, <2>5 DEF TunnelBegins, Tick, Cut
  <2>6. CASE UNCHANGED vars
    BY <1>1, <2>6 DEF vars, Cut
  <2>. QED
    BY <1>1, <2>2, <2>3, <2>4, <2>5, <2>6 DEF Next, Step
<1>2. InboundInv /\ [Next]_vars =>
        [\A c \in Clients : pc[c] = "relay" /\ pc'[c] = "ended" =>
          \/ Delivered(c) = farSent[c] /\ farDone[c] = "closed"
          \/ farDone[c] = "lost"
          \/ shut[c] = "gone"
          \/ tunnel' # "up"
          \/ upDone[c] /\ still[c] >= Linger]_vars
  BY <1>1 DEF Cut, May
<1>. QED
  BY <1>2, InboundCorrect, PTL DEF Spec, AnswerNotCut
=============================================================================
