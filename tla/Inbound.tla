------------------------------- MODULE Inbound -------------------------------
(***************************************************************************)
(* The listeners the user dials and what becomes of a client: the accept   *)
(* loop with its limit, the SOCKS5 and HTTP handlers, the choice of route, *)
(* the gateway proxy and the relay, of aether/src/socks.rs, served by one  *)
(* tunnel after another as Listeners::serve of lib.rs does.                *)
(*                                                                         *)
(* A stream is a sequence of items: chunks numbered from 1, the replies Ok *)
(* and No of the proxy, and Fin, the end that the relay writes itself (not *)
(* what the kernel sends for a socket that is dropped).  A client may send *)
(* and close at any time, the far end answer, close, be lost or stop       *)
(* reading at any time once it is connected; opening a connection has      *)
(* every outcome within its timeout.  Time passes in ticks while a relay   *)
(* runs.  UDP associations are in the model only as holders of a place.    *)
(***************************************************************************)
EXTENDS Integers, Sequences, FiniteSets

CONSTANTS
    Clients,
    Asks,       \* what each client may ask for, see Requests
    MaxClients, \* client_limit(), of each listener
    MaxSent,    \* bound: chunks each client sends
    MaxAnswer,  \* bound: chunks its far end sends
    Linger      \* half_close_linger(), in ticks

(* "mute" never finishes its handshake, "odd" asks for what is not served, *)
(* "name" is a SOCKS5 CONNECT to a name, "address" one to an address while *)
(* there are name rules, "connect" an HTTP CONNECT, "plain" an absolute    *)
(* HTTP request.                                                           *)
Requests == {"mute", "odd", "udp", "name", "address", "connect", "plain"}
Doors == {"socks", "http"}
Stages == {"away", "queued", "request", "udp", "sniff", "route", "direct", "gateway",
           "straight", "greet", "relay", "ended"}

ASSUME InboundAssumption ==
    /\ IsFiniteSet(Clients) /\ Asks \in [Clients -> SUBSET Requests]
    /\ MaxClients \in Nat \ {0} /\ Linger \in Nat \ {0}
    /\ MaxSent \in [Clients -> Nat] /\ MaxAnswer \in [Clients -> Nat]

VARIABLES
    tunnel,     \* "up", "down" between two tunnels, "ended" with the core
    permits,    \* free places of each accept loop
    healthy,    \* GATEWAY_HEALTHY
    pc,         \* where each client's handler is
    ask, sent, shut,        \* the client: its request, chunks sent, and how far it has closed
    taken, carried,         \* chunks read from the client; what the far end got
    farSent, farDone,       \* the far end: chunks sent; "open", "closed" or "lost"
    fetched, got,           \* chunks read from the far end; what the client got
    up, down,   \* what the handler has read and not yet handed on, either way
    upDone, idle,           \* relay_halves: upload is over; ticks since Activity.last_ms
    still       \* history: ticks since the upload was to end, or the client last got a chunk

server == <<tunnel, permits, healthy>>
client == <<ask, sent, shut>>
upload == <<taken, carried>>
far == <<farSent, farDone>>
download == <<fetched, got>>
relaying == <<up, down, upDone, idle, still>>
vars == <<server, pc, client, upload, far, download, relaying>>

Ok == 0
No == -1
Fin == -2
None == 0   \* in a hand: it is empty
IsChunk(i) == i > 0
IsReply(i) == i \in {Ok, No}

All(x) == [c \in Clients |-> x]

Init ==
    /\ tunnel = "down" /\ permits = [d \in Doors |-> MaxClients] /\ healthy = TRUE
    /\ pc = All("away")
    /\ ask = All("mute") /\ sent = All(0) /\ shut = All("open")
    /\ taken = All(0) /\ carried = All(<<>>)
    /\ farSent = All(0) /\ farDone = All("open")
    /\ fetched = All(0) /\ got = All(<<>>)
    /\ up = All(None) /\ down = All(None)
    /\ upDone = All(FALSE) /\ idle = All(0) /\ still = All(0)

Door(c) == IF ask[c] \in {"connect", "plain"} THEN "http" ELSE "socks"
Served(c) == pc[c] \notin {"away", "queued", "ended"}
Open(c) == shut[c] # "gone"
GoTo(c, place) == pc' = [pc EXCEPT ![c] = place]
Say(c, item) == got' = [got EXCEPT ![c] = Append(@, item)]

-----------------------------------------------------------------------------
(* The client                                                              *)

Dial(c) ==
    /\ pc[c] = "away" /\ tunnel # "ended"
    /\ \E a \in Asks[c] : ask' = [ask EXCEPT ![c] = a]
    /\ GoTo(c, "queued")
    /\ UNCHANGED <<server, sent, shut, upload, far, download, relaying>>

(* What a client does while it waits is seen once it is accepted.          *)
ClientSends(c) ==
    /\ Served(c) /\ shut[c] = "open" /\ sent[c] < MaxSent[c]
    /\ sent' = [sent EXCEPT ![c] = @ + 1]
    /\ UNCHANGED <<server, pc, ask, shut, upload, far, download, relaying>>

(* The client has finished sending, or is gone altogether.                 *)
ClientCloses(c) ==
    /\ Served(c)
    /\ \/ shut[c] = "open" /\ shut' = [shut EXCEPT ![c] = "half"]
       \/ shut[c] # "gone" /\ shut' = [shut EXCEPT ![c] = "gone"]
    /\ still' = IF upDone[c] THEN still ELSE [still EXCEPT ![c] = 0]
    /\ UNCHANGED <<server, pc, ask, sent, upload, far, download, up, down, upDone, idle>>

-----------------------------------------------------------------------------
(* The accept loop                                                         *)

(* What goes with a relay: its buffers, its Activity. *)
RelayDropped(c) ==
    /\ up' = [up EXCEPT ![c] = None] /\ down' = [down EXCEPT ![c] = None]
    /\ upDone' = [upDone EXCEPT ![c] = FALSE]
    /\ idle' = [idle EXCEPT ![c] = 0] /\ still' = [still EXCEPT ![c] = 0]

AllDropped ==
    /\ up' = All(None) /\ down' = All(None)
    /\ upDone' = All(FALSE) /\ idle' = All(0) /\ still' = All(0)

(* Variant: a handler keeps its place when it ends. *)
EndsKept(c) == GoTo(c, "ended") /\ UNCHANGED permits /\ RelayDropped(c)

(* The handler returns: the task drops its sockets, its permit and what it *)
(* has in hand.                                                            *)
Ends(c) ==
    /\ GoTo(c, "ended") /\ permits' = [permits EXCEPT ![Door(c)] = @ + 1]
    /\ RelayDropped(c)

(* A place is taken before accept, so a client past the limit waits in the *)
(* listener's queue.  An accept that fails is retried (accept_backoff).    *)
Accept(c) ==
    /\ tunnel = "up" /\ pc[c] = "queued" /\ permits[Door(c)] > 0
    /\ permits' = [permits EXCEPT ![Door(c)] = @ - 1]
    /\ GoTo(c, "request")
    /\ UNCHANGED <<tunnel, healthy, client, upload, far, download, relaying>>

(* The future of serve is dropped with the tunnel: its JoinSet aborts the  *)
(* handlers.  The listener is held, and those queued stay queued.          *)
TunnelEnds ==
    /\ tunnel = "up" /\ tunnel' = "down"
    /\ pc' = [c \in Clients |-> IF Served(c) THEN "ended" ELSE pc[c]]
    /\ permits' = [d \in Doors |-> MaxClients]
    /\ AllDropped
    /\ UNCHANGED <<healthy, client, upload, far, download>>

TunnelBegins ==
    /\ tunnel = "down" /\ tunnel' = "up"
    /\ UNCHANGED <<permits, healthy, pc, client, upload, far, download, relaying>>

(* A listener that is broken is reported and ends the core.                *)
ListenerBreaks ==
    /\ tunnel = "up" /\ tunnel' = "ended"
    /\ pc' = All("ended")
    /\ AllDropped
    /\ UNCHANGED <<permits, healthy, client, upload, far, download>>

-----------------------------------------------------------------------------
(* The request                                                             *)

HandshakeFails(c) ==
    /\ pc[c] = "request"
    /\ Ends(c)
    /\ UNCHANGED <<tunnel, healthy, client, upload, far, download>>

RefuseRequest(c) ==
    /\ pc[c] = "request" /\ ask[c] = "odd" /\ Open(c)
    /\ Say(c, No)
    /\ Ends(c)
    /\ UNCHANGED <<tunnel, healthy, client, upload, far, fetched>>

AssociateUdp(c) ==
    /\ pc[c] = "request" /\ ask[c] = "udp" /\ Open(c)
    /\ Say(c, Ok)
    /\ GoTo(c, "udp")
    /\ UNCHANGED <<server, client, upload, far, fetched, relaying>>

(* The association lasts as long as its control connection.                *)
UdpEnds(c) ==
    /\ pc[c] = "udp" /\ shut[c] # "open"
    /\ Ends(c)
    /\ UNCHANGED <<tunnel, healthy, client, upload, far, download>>

(* An HTTP head may bring the first chunk with it (early); a SOCKS request *)
(* to an address is answered first, to read a name from what comes then.   *)
ReadRequest(c) ==
    /\ pc[c] = "request" /\ ask[c] \in {"name", "address", "connect", "plain"} /\ Open(c)
    /\ IF ask[c] = "address" THEN Say(c, Ok) /\ GoTo(c, "sniff")
       ELSE UNCHANGED got /\ GoTo(c, "route")
    /\ \/ UNCHANGED taken
       \/ /\ ask[c] \in {"connect", "plain"} /\ sent[c] > 0
          /\ taken' = [taken EXCEPT ![c] = 1]
    /\ UNCHANGED <<server, client, carried, far, fetched, relaying>>

(* read_sniff_head: the first chunk, the client's end, or nothing within   *)
(* sniff_window.                                                           *)
Sniff(c) ==
    /\ pc[c] = "sniff"
    /\ \/ /\ sent[c] > 0 /\ taken' = [taken EXCEPT ![c] = 1]
          /\ GoTo(c, "route") /\ UNCHANGED <<permits, relaying>>
       \/ sent[c] = 0 /\ shut[c] # "open" /\ Ends(c) /\ UNCHANGED taken
       \/ /\ sent[c] = 0 /\ shut[c] = "open"
          /\ GoTo(c, "route") /\ UNCHANGED <<taken, permits, relaying>>
    /\ UNCHANGED <<tunnel, healthy, client, carried, far, download>>

-----------------------------------------------------------------------------
(* The route                                                               *)

Replied(c) == \E i \in 1..Len(got[c]) : IsReply(got[c][i])

(* Refused before a connection is there: told only if nothing was yet.     *)
TellIfNot(c) == IF Replied(c) \/ ~Open(c) THEN UNCHANGED got ELSE Say(c, No)

(* decide_route by the rules, which may say anything of a name or address. *)
Block(c) ==
    /\ pc[c] = "route"
    /\ TellIfNot(c)
    /\ Ends(c)
    /\ UNCHANGED <<tunnel, healthy, client, upload, far, fetched>>

TakeDirect(c) ==
    /\ pc[c] = "route"
    /\ GoTo(c, "direct")
    /\ UNCHANGED <<server, client, upload, far, download, relaying>>

(* Port 80 and 443 go through the gateway proxy while it is healthy.       *)
TakeTunnel(c) ==
    /\ pc[c] = "route"
    /\ GoTo(c, "straight") \/ (healthy /\ GoTo(c, "gateway"))
    /\ UNCHANGED <<server, client, upload, far, download, relaying>>

(* Variant: the chunk read for its name is not passed on. *)
PassedOnLate(c) == None

(* What was read ahead goes to the far end before anything else.           *)
PassedOn(c) == taken[c]

ReplyDue(c) == ~Replied(c) /\ ask[c] # "plain"

(* Connected; what was read ahead of either side is in hand, and ahead is  *)
(* what came behind the gateway's answer.                                  *)
Connected(c, ahead) ==
    /\ up' = [up EXCEPT ![c] = PassedOn(c)] /\ down' = [down EXCEPT ![c] = ahead]
    /\ farSent' = [farSent EXCEPT ![c] = ahead] /\ fetched' = [fetched EXCEPT ![c] = ahead]
    /\ GoTo(c, "greet")
    /\ UNCHANGED <<tunnel, permits, client, upload, farDone, got, upDone, idle, still>>

ViaGateway(c) ==
    /\ pc[c] = "gateway"
    /\ \E ahead \in {0, 1} : ahead <= MaxAnswer[c] /\ Connected(c, ahead)
    /\ UNCHANGED healthy

(* retire_gateway *)
RetireGateway == healthy' = FALSE

GatewayFails(c) ==
    /\ pc[c] = "gateway"
    /\ RetireGateway
    /\ GoTo(c, "straight")
    /\ UNCHANGED <<tunnel, permits, client, upload, far, download, relaying>>

Straight(c) ==
    /\ pc[c] \in {"straight", "direct"}
    /\ Connected(c, 0)
    /\ UNCHANGED healthy

(* The name does not resolve or the stack cannot connect: No is written    *)
(* whether or not the client has had its reply.                            *)
StraightFails(c) ==
    /\ pc[c] = "straight"
    /\ IF Open(c) THEN Say(c, No) ELSE UNCHANGED got
    /\ Ends(c)
    /\ UNCHANGED <<tunnel, healthy, client, upload, far, fetched>>

DirectFails(c) ==
    /\ pc[c] = "direct"
    /\ TellIfNot(c)
    /\ Ends(c)
    /\ UNCHANGED <<tunnel, healthy, client, upload, far, fetched>>

(* What the client is still to be given before the relay. *)
GreetingDue(c) == ReplyDue(c) \/ down[c] # None

(* Variant: what came behind the gateway's answer is forgotten. *)
GreetShort(c) ==
    /\ pc[c] = "greet" /\ GreetingDue(c) /\ Open(c)
    /\ got' = [got EXCEPT ![c] = IF ReplyDue(c) THEN Append(@, Ok) ELSE @]
    /\ down' = [down EXCEPT ![c] = None]
    /\ UNCHANGED <<server, pc, client, upload, far, fetched, up, upDone, idle, still>>

(* The reply if one is still due, and then what the gateway sent ahead.    *)
(* The routes differ in whether this comes before or behind the first      *)
(* chunk to the far end: both orders are possible.                         *)
Greet(c) ==
    /\ pc[c] = "greet" /\ GreetingDue(c) /\ Open(c)
    /\ LET replied == IF ReplyDue(c) THEN Append(got[c], Ok) ELSE got[c] IN
       got' = [got EXCEPT ![c] = IF down[c] = None THEN replied ELSE Append(replied, down[c])]
    /\ down' = [down EXCEPT ![c] = None]
    /\ UNCHANGED <<server, pc, client, upload, far, fetched, up, upDone, idle, still>>

(* The client is gone and cannot be greeted.                               *)
ClientLost(c) ==
    /\ pc[c] = "greet" /\ GreetingDue(c) /\ ~Open(c)
    /\ Ends(c)
    /\ UNCHANGED <<tunnel, healthy, client, upload, far, download>>

BeginRelay(c) ==
    /\ pc[c] = "greet" /\ ~GreetingDue(c) /\ up[c] = None
    /\ GoTo(c, "relay")
    /\ UNCHANGED <<server, client, upload, far, download, relaying>>

(* The first chunk cannot be sent: the handler returns without a word.     *)
HeadFails(c) ==
    /\ pc[c] = "greet" /\ up[c] # None /\ farDone[c] # "open"
    /\ Ends(c)
    /\ UNCHANGED <<tunnel, healthy, client, upload, far, download>>

-----------------------------------------------------------------------------
(* The far end                                                             *)

Joined(c) == pc[c] \in {"greet", "relay"}

FarSends(c) ==
    /\ Joined(c) /\ farDone[c] = "open" /\ farSent[c] < MaxAnswer[c]
    /\ farSent' = [farSent EXCEPT ![c] = @ + 1]
    /\ UNCHANGED <<server, pc, client, upload, farDone, download, relaying>>

(* It closes behind its answer; or the connection to it is lost, by a      *)
(* reset or because the stack removes it, with or without data left.       *)
FarCloses(c) ==
    /\ Joined(c) /\ farDone[c] = "open"
    /\ farDone' = [farDone EXCEPT ![c] = "closed"]
    /\ UNCHANGED <<server, pc, client, upload, farSent, download, relaying>>

FarLost(c) ==
    /\ Joined(c) /\ farDone[c] # "lost"
    /\ farDone' = [farDone EXCEPT ![c] = "lost"]
    /\ UNCHANGED <<server, pc, client, upload, farSent, download, relaying>>

-----------------------------------------------------------------------------
(* The relay                                                               *)

Touch(c) == idle' = [idle EXCEPT ![c] = 0]

(* A chunk, or the end when the client has no more or its reads fail.      *)
UploadRead(c) ==
    /\ pc[c] = "relay" /\ ~upDone[c] /\ up[c] = None
    /\ \/ /\ taken[c] < sent[c]
          /\ taken' = [taken EXCEPT ![c] = @ + 1]
          /\ up' = [up EXCEPT ![c] = taken[c] + 1]
       \/ /\ shut[c] # "open" /\ (taken[c] = sent[c] \/ shut[c] = "gone")
          /\ up' = [up EXCEPT ![c] = Fin] /\ UNCHANGED taken
    /\ UNCHANGED <<server, pc, client, carried, far, download, down, upDone, idle, still>>

(* Variant: the end of the upload does not count as a sign of life. *)
UploadSentUntouched(c) ==
    /\ Joined(c) /\ up[c] # None
    /\ carried' = [carried EXCEPT ![c] = Append(@, up[c])]
    /\ up' = [up EXCEPT ![c] = None]
    /\ upDone' = [upDone EXCEPT ![c] = up[c] = Fin]
    /\ IF up[c] = Fin THEN UNCHANGED idle ELSE Touch(c)
    /\ UNCHANGED <<server, pc, client, taken, far, download, down, still>>

(* The way to the far end has room for it.  Neither send, close nor        *)
(* write_all has a timeout: a far end that does not read may never let     *)
(* this happen.                                                            *)
UploadSent(c) ==
    /\ Joined(c) /\ up[c] # None
    /\ carried' = [carried EXCEPT ![c] = Append(@, up[c])]
    /\ up' = [up EXCEPT ![c] = None]
    /\ upDone' = [upDone EXCEPT ![c] = up[c] = Fin]
    /\ Touch(c)
    /\ UNCHANGED <<server, pc, client, taken, far, download, down, still>>

(* Sending fails: the far end no longer takes it.                          *)
UploadFails(c) ==
    /\ pc[c] = "relay" /\ up[c] # None /\ farDone[c] # "open"
    /\ up' = [up EXCEPT ![c] = None]
    /\ upDone' = [upDone EXCEPT ![c] = TRUE]
    /\ Touch(c)
    /\ UNCHANGED <<server, pc, client, upload, far, download, down, still>>

(* The chunks among the first n items of a stream. *)
Count(s, n) == Cardinality({i \in 1..n : IsChunk(s[i])})
Delivered(c) == Count(got[c], Len(got[c]))

Fetch(c) ==
    /\ pc[c] = "relay" /\ down[c] = None /\ fetched[c] < farSent[c]
    /\ fetched' = [fetched EXCEPT ![c] = @ + 1]
    /\ down' = [down EXCEPT ![c] = fetched[c] + 1]
    /\ UNCHANGED <<server, pc, client, upload, far, got, up, upDone, idle, still>>

Deliver(c) ==
    /\ pc[c] = "relay" /\ down[c] # None /\ Open(c)
    /\ Say(c, down[c])
    /\ down' = [down EXCEPT ![c] = None]
    /\ Touch(c)
    /\ still' = [still EXCEPT ![c] = 0]
    /\ UNCHANGED <<server, pc, client, upload, far, fetched, up, upDone>>

(* There is no more to read: the far end has closed behind what was read,  *)
(* or is lost, and what was not handed over with it.                       *)
AnswerOver(c) ==
    /\ down[c] = None
    /\ (farDone[c] = "closed" /\ fetched[c] = farSent[c]) \/ farDone[c] = "lost"

(* The client is told of the end, also when the connection through the     *)
(* tunnel is lost; not when a read of a direct one failed.  Or the client  *)
(* is gone and a write to it fails.  Either way the relay returns at once, *)
(* and what the client still sends is cut.                                 *)
DownloadEnds(c) ==
    /\ pc[c] = "relay"
    /\ \/ AnswerOver(c) /\ Open(c) /\ Say(c, Fin)
       \/ AnswerOver(c) /\ (~Open(c) \/ farDone[c] = "lost") /\ UNCHANGED got
       \/ ~Open(c) /\ down[c] # None /\ UNCHANGED got
    /\ Ends(c)
    /\ UNCHANGED <<tunnel, healthy, client, upload, far, fetched>>

(* Variant: the relay waits for the far end however long it is silent. *)
LingerOverNever(c) == FALSE

LingerOver(c) == upDone[c] /\ idle[c] >= Linger

LingerEnds(c) ==
    /\ pc[c] = "relay" /\ LingerOver(c)
    /\ Ends(c)
    /\ UNCHANGED <<tunnel, healthy, client, upload, far, download>>

(* Time, which matters only to relays.  Bound: clocks stop at Linger.      *)
Later(f, c) == IF pc[c] = "relay" /\ f[c] < Linger THEN f[c] + 1 ELSE f[c]

Tick ==
    /\ idle' = [c \in Clients |-> Later(idle, c)]
    /\ still' = [c \in Clients |->
                  IF shut[c] # "open" \/ upDone[c] THEN Later(still, c) ELSE still[c]]
    /\ UNCHANGED <<server, pc, client, upload, far, download, up, down, upDone>>

-----------------------------------------------------------------------------
Handler(c) ==
    \/ HandshakeFails(c) \/ RefuseRequest(c) \/ AssociateUdp(c) \/ UdpEnds(c)
    \/ ReadRequest(c) \/ Sniff(c) \/ Block(c) \/ TakeDirect(c) \/ TakeTunnel(c)
    \/ ViaGateway(c) \/ GatewayFails(c) \/ Straight(c) \/ StraightFails(c)
    \/ DirectFails(c) \/ Greet(c) \/ ClientLost(c) \/ BeginRelay(c)

Uploading(c) == UploadRead(c) \/ UploadSent(c) \/ UploadFails(c) \/ HeadFails(c)
Downloading(c) == Fetch(c) \/ Deliver(c) \/ DownloadEnds(c)

Next ==
    \/ \E c \in Clients :
        \/ Dial(c) \/ ClientSends(c) \/ ClientCloses(c)
        \/ Accept(c) \/ Handler(c)
        \/ FarSends(c) \/ FarCloses(c) \/ FarLost(c)
        \/ Uploading(c) \/ Downloading(c) \/ LingerEnds(c)
    \/ TunnelEnds \/ TunnelBegins \/ ListenerBreaks
    \/ Tick

(* Every task is polled and every wait before the connection has a         *)
(* timeout; a first reply finds room in the client's socket.  Nothing is   *)
(* assumed of the far end, not even that it takes what is sent to it, nor  *)
(* that the client reads.                                                  *)
Fairness ==
    /\ \A c \in Clients :
        /\ WF_vars(Accept(c)) /\ WF_vars(Handler(c)) /\ WF_vars(UploadRead(c))
        /\ WF_vars(Fetch(c)) /\ WF_vars(DownloadEnds(c)) /\ WF_vars(LingerEnds(c))
    /\ WF_vars(Tick)

Spec == Init /\ [][Next]_vars /\ Fairness

-----------------------------------------------------------------------------
Typed ==
    /\ tunnel \in {"up", "down", "ended"} /\ permits \in [Doors -> 0..MaxClients]
    /\ healthy \in BOOLEAN
    /\ pc \in [Clients -> Stages]
    /\ ask \in [Clients -> Requests]
    /\ shut \in [Clients -> {"open", "half", "gone"}]
    /\ carried \in [Clients -> Seq(Int)] /\ got \in [Clients -> Seq(Int)]
    /\ {sent, taken, farSent, fetched} \subseteq [Clients -> Nat]
    /\ farDone \in [Clients -> {"open", "closed", "lost"}]
    /\ up \in [Clients -> Int] /\ down \in [Clients -> Nat]
    /\ \A c \in Clients :
          /\ taken[c] \in 0..sent[c] /\ sent[c] \in 0..MaxSent[c]
          /\ fetched[c] \in 0..farSent[c] /\ farSent[c] \in 0..MaxAnswer[c]
    /\ upDone \in [Clients -> BOOLEAN]
    /\ idle \in [Clients -> 0..Linger] /\ still \in [Clients -> 0..Linger]

Inside(d) == {c \in Clients : Served(c) /\ Door(c) = d}

(* Every variable has its type, and places are neither lost nor made: the  *)
(* free ones and the clients served add up to the limit at each listener.  *)
TypeOK ==
    /\ Typed
    /\ tunnel # "ended" =>
          \A d \in Doors : permits[d] + Cardinality(Inside(d)) = MaxClients

(* The n-th chunk of a stream is chunk n. *)
InOrder(s) == \A i \in 1..Len(s) : IsChunk(s[i]) => s[i] = Count(s, i)

(* What the far end gets is what the client sent, each chunk once and in   *)
(* order, also the chunk that was read ahead for its name or with an HTTP  *)
(* head, and it is told of the client's end only behind all of it.         *)
UploadFaithful ==
    \A c \in Clients :
        LET s == carried[c] IN
        /\ InOrder(s)
        /\ \A i \in 1..Len(s) : s[i] = Fin =>
              i = Len(s) /\ (shut[c] = "gone" \/ Len(s) = sent[c] + 1)

(* What the client gets from the far end is in order and once, what came   *)
(* behind the gateway's answer included, and behind the reply that its     *)
(* request has; and an end comes last and, unless the connection to the    *)
(* far end was lost, behind the whole answer.                              *)
AnswerFaithful ==
    \A c \in Clients :
        LET s == got[c] IN
        /\ InOrder(s)
        /\ \A i \in 1..Len(s) : IsChunk(s[i]) /\ ask[c] # "plain" => s[1] = Ok
        /\ \A i \in 1..Len(s) : s[i] = Fin =>
              i = Len(s) /\ (farDone[c] = "lost" \/ Delivered(c) = farSent[c])

(* An answer that is still coming is not cut: a relay ends only when the   *)
(* answer is whole, the far end lost, the client gone, the tunnel or the   *)
(* core at its end, or the upload over and nothing got for Linger.         *)
AnswerNotCut ==
    [][\A c \in Clients : pc[c] = "relay" /\ pc'[c] = "ended" =>
          \/ Delivered(c) = farSent[c] /\ farDone[c] = "closed"
          \/ farDone[c] = "lost"
          \/ shut[c] = "gone"
          \/ tunnel' # "up"
          \/ upDone[c] /\ still[c] >= Linger]_vars

(* The far end leaves nothing that is sent to it waiting for good: it      *)
(* takes it or its connection fails.                                       *)
FarTakes(c) == []<>(up[c] = None)

(* A client that waits in the queue, past the limit or between two tunnels,*)
(* is taken, if a tunnel comes to stay, the clients before it finish and   *)
(* their far ends take what is sent to them.  The last is needed: a send   *)
(* to a far end that stops reading has no timeout, and the linger starts   *)
(* only behind it, so that such a client keeps its place for good.         *)
WaitersServed ==
    (/\ <>[](tunnel = "up")
     /\ \A d \in Clients : FarTakes(d) /\ []<>(~Served(d) \/ shut[d] # "open"))
        => \A c \in Clients : pc[c] = "queued" ~> Served(c)

(* A client has one reply to its request: the handlers look at replied     *)
(* before they refuse.                                                     *)
OneReply ==
    \A c \in Clients : Cardinality({i \in 1..Len(got[c]) : IsReply(got[c][i])}) <= 1
=============================================================================
