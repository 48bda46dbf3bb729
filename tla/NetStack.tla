------------------------------ MODULE NetStack ------------------------------
(***************************************************************************)
(* The user-space TCP/UDP stack of the tunnel: aether/src/netstack.rs.     *)
(*                                                                         *)
(* One task runs the loop of `run`: poll smoltcp, service every            *)
(* connection, retry the deferred upload, then wait for a packet, a        *)
(* command, upload data or a timer.  The other actors are the tasks that   *)
(* hold a TcpConn (the app), the far end, and time.  The stack's task is   *)
(* cut where another task can observe it: at each connection it services,  *)
(* at each datum it takes from a queue.                                    *)
(*                                                                         *)
(* A unit of data is a number: the n-th unit the app or the far end sends. *)
(* A unit stands for one contiguous run of bytes, so a chunk handed to the *)
(* app is one unit.  smoltcp is external: its sockets are modelled from    *)
(* the calls netstack.rs makes on them.                                    *)
(***************************************************************************)
EXTENDS Integers, Sequences, FiniteSets

CONSTANTS
    Conns,          \* the TCP connections the apps open, one identifier each
    Up,             \* bound: units an app sends on one connection
    Down,           \* bound: units the far end sends on one connection
    SendMax,        \* bound: units in one TcpConn::send
    MaxPending,     \* max_tcp_pending()
    TxBuf,          \* tcp_tx_buf(), in units
    RxBuf,          \* tcp_rx_buf(), in units
    AppQueue,       \* app_queue(): capacity of data_in and of each to_app
    MaxRecvChunks   \* MAX_RECV_CHUNKS

ASSUME NetStackAssumption ==
    /\ IsFiniteSet(Conns)
    /\ Up \in Nat /\ Down \in Nat
    /\ {SendMax, MaxPending, TxBuf, RxBuf, AppQueue, MaxRecvChunks} \subseteq Nat \ {0}

VARIABLES
    phase,     \* where the stack's task is in its loop
    todo,      \* connections this pass of service_tcp has still to visit
    cmds,      \* cmd_rx: connections whose OpenTcp waits to be handled
    dataIn,    \* data_in_rx: uploads and closes sent by the apps
    deferred,  \* the uploads pushed back because pending was full
    conn,      \* tcp_conns: the TcpState of each connection
    pending,   \* TcpState.pending
    sock,      \* the state of the smoltcp socket, and what it still owes
    rxbuf,     \* units received and not yet handed to the app
    txbuf,     \* units accepted by the socket and not yet acknowledged
    toApp,     \* TcpState.to_app: chunks the app has not read
    answer,    \* what the oneshot of OpenTcp was given
    app,       \* the task that holds the connection
    far        \* the far end

stackVars == <<phase, todo, cmds, dataIn, deferred>>
tableVars == <<conn, pending>>
sockVars == <<sock, rxbuf, txbuf>>
vars == <<stackVars, tableVars, sockVars, toApp, answer, app, far>>

-----------------------------------------------------------------------------
TcpStates == {"SynSent", "Established", "CloseWait", "FinWait1", "FinWait2",
              "Closing", "TimeWait", "LastAck", "Closed"}

DataMsg == [id : Conns, close : BOOLEAN, data : Seq(1..Up)]

TcpState == [st : {"free", "live", "gone"}, est : BOOLEAN, half : BOOLEAN,
             late : BOOLEAN, orphan : {"no", "set", "elapsed"}, aborted : BOOLEAN]
Socket == [state : TcpStates, rst : BOOLEAN]
AppTask == [st : {"idle", "opening", "open", "failed", "abandoned"}, tx : BOOLEAN,
            rx : BOOLEAN, closed : BOOLEAN, sent : 0..Up, got : Seq(1..Down)]
FarEnd == [sent : 0..Down, fin : BOOLEAN, reset : BOOLEAN, got : Seq(1..Up)]
Answers == {"none", "ok", "refused", "timed out", "connect error", "dropped"}

TcpData(c, data) == [id |-> c, close |-> FALSE, data |-> data]
TcpClose(c) == [id |-> c, close |-> TRUE, data |-> <<>>]

NewConn == [st |-> "live", est |-> FALSE, half |-> FALSE, late |-> FALSE,
            orphan |-> "no", aborted |-> FALSE]
NoConn == [NewConn EXCEPT !.st = "free"]

Live == {c \in Conns : conn[c].st = "live"}

(* The units first..last, in order. *)
Units(first, last) == [i \in 1..(last - first + 1) |-> first + i - 1]

Least(a, b) == IF a <= b THEN a ELSE b

-----------------------------------------------------------------------------
Init ==
    /\ phase = "poll"
    /\ todo = {}
    /\ cmds = <<>>
    /\ dataIn = <<>>
    /\ deferred = <<>>
    /\ conn = [c \in Conns |-> NoConn]
    /\ pending = [c \in Conns |-> <<>>]
    /\ sock = [c \in Conns |-> [state |-> "Closed", rst |-> FALSE]]
    /\ rxbuf = [c \in Conns |-> <<>>]
    /\ txbuf = [c \in Conns |-> <<>>]
    /\ toApp = [c \in Conns |-> <<>>]
    /\ answer = [c \in Conns |-> "none"]
    /\ app = [c \in Conns |-> [st |-> "idle", tx |-> TRUE, rx |-> TRUE,
                               closed |-> FALSE, sent |-> 0, got |-> <<>>]]
    /\ far = [c \in Conns |-> [sent |-> 0, fin |-> FALSE, reset |-> FALSE, got |-> <<>>]]

-----------------------------------------------------------------------------
(* smoltcp (external): what a call or a segment does to a socket.          *)

CloseState(s) ==
    CASE s = "SynSent" -> "Closed"
      [] s = "Established" -> "FinWait1"
      [] s = "CloseWait" -> "LastAck"
      [] OTHER -> s

MaySend(s) == s \in {"Established", "CloseWait"}
Receiving(s) == s \in {"Established", "FinWait1", "FinWait2"}
Connected(s) == s \in {"Established", "CloseWait"}
Ended(s) == s \in {"Closed", "TimeWait"}

(* Segments a poll processes; a segment that never comes is a lost one.    *)

SynAck(c) ==
    /\ phase = "poll" /\ c \in Live
    /\ sock[c].state = "SynSent"
    /\ sock' = [sock EXCEPT ![c].state = "Established"]
    /\ UNCHANGED <<stackVars, tableVars, rxbuf, txbuf, toApp, answer, app, far>>

FarData(c) ==
    /\ phase = "poll" /\ c \in Live
    /\ Receiving(sock[c].state) /\ ~far[c].fin
    /\ Len(rxbuf[c]) < RxBuf /\ far[c].sent < Down
    /\ rxbuf' = [rxbuf EXCEPT ![c] = Append(@, far[c].sent + 1)]
    /\ far' = [far EXCEPT ![c].sent = @ + 1]
    /\ UNCHANGED <<stackVars, tableVars, sock, txbuf, toApp, answer, app>>

FarFin(c) ==
    /\ phase = "poll" /\ c \in Live
    /\ Receiving(sock[c].state) /\ ~far[c].fin
    /\ sock' = [sock EXCEPT ![c].state = CASE @ = "Established" -> "CloseWait"
                                           [] @ = "FinWait1" -> "Closing"
                                           [] @ = "FinWait2" -> "TimeWait"]
    /\ far' = [far EXCEPT ![c].fin = TRUE]
    /\ UNCHANGED <<stackVars, tableVars, rxbuf, txbuf, toApp, answer, app>>

FarAck(c) ==
    /\ phase = "poll" /\ c \in Live
    /\ sock[c].state # "Closed" /\ txbuf[c] # <<>>
    /\ txbuf' = [txbuf EXCEPT ![c] = Tail(@)]
    /\ far' = [far EXCEPT ![c].got = Append(@, Head(txbuf[c]))]
    /\ UNCHANGED <<stackVars, tableVars, sock, rxbuf, toApp, answer, app>>

FarAckFin(c) ==
    /\ phase = "poll" /\ c \in Live
    /\ sock[c].state \in {"FinWait1", "Closing", "LastAck"} /\ txbuf[c] = <<>>
    /\ sock' = [sock EXCEPT ![c].state = CASE @ = "FinWait1" -> "FinWait2"
                                           [] @ = "Closing" -> "TimeWait"
                                           [] @ = "LastAck" -> "Closed"]
    /\ UNCHANGED <<stackVars, tableVars, rxbuf, txbuf, toApp, answer, app, far>>

(* A reset from the far end, or the timeout of three keepalives.           *)
SocketDies(c) ==
    /\ phase = "poll" /\ c \in Live
    /\ sock[c].state # "Closed"
    /\ sock' = [sock EXCEPT ![c].state = "Closed"]
    /\ far' = [far EXCEPT ![c].reset = TRUE]
    /\ UNCHANGED <<stackVars, tableVars, rxbuf, txbuf, toApp, answer, app>>

(* The end of iface.poll: it sends what the sockets owe, resets included.  *)
PollDone ==
    /\ phase = "poll"
    /\ phase' = "service"
    /\ todo' = Live
    /\ sock' = [c \in Conns |-> [sock[c] EXCEPT !.rst = FALSE]]
    /\ UNCHANGED <<cmds, dataIn, deferred, tableVars, rxbuf, txbuf, toApp, answer, app, far>>

-----------------------------------------------------------------------------
(* service_tcp: one step for each connection, in the map's arbitrary order *)

ServiceAborted(c) ==
    /\ phase = "service" /\ c \in todo
    /\ conn[c].aborted
    /\ todo' = todo \ {c}
    /\ conn' = [conn EXCEPT ![c].st = "gone"]
    /\ UNCHANGED <<phase, cmds, dataIn, deferred, pending, sockVars, toApp, answer, app, far>>

Abandoned(c) == app[c].st = "abandoned"
(* Variant: the connect deadline is forgotten. *)
GivenUpNoDeadline(c) == Abandoned(c)
GivenUp(c) == Abandoned(c) \/ conn[c].late

(* Variant: a connection that timed out leaves the table with its oneshot unused. *)
ServiceConnectingSilent(c) ==
    /\ phase = "service" /\ c \in todo
    /\ ~conn[c].aborted /\ ~conn[c].est /\ ~Connected(sock[c].state)
    /\ todo' = todo \ {c}
    /\ conn' = [conn EXCEPT ![c].st = IF GivenUp(c) \/ Ended(sock[c].state) THEN "gone" ELSE @]
    /\ UNCHANGED <<phase, cmds, dataIn, deferred, pending, sockVars, toApp, answer, app, far>>

(* Still connecting: refused, given up by deadline or by the app, or kept. *)
ServiceConnecting(c) ==
    /\ phase = "service" /\ c \in todo
    /\ ~conn[c].aborted /\ ~conn[c].est /\ ~Connected(sock[c].state)
    /\ todo' = todo \ {c}
    /\ LET refused == Ended(sock[c].state)
       IN  IF refused \/ GivenUp(c)
           THEN /\ conn' = [conn EXCEPT ![c].st = "gone"]
                /\ answer' = [answer EXCEPT ![c] = IF refused THEN "refused" ELSE "timed out"]
           ELSE UNCHANGED <<conn, answer>>
    /\ UNCHANGED <<phase, cmds, dataIn, deferred, pending, sockVars, toApp, app, far>>

(* Dropping a TcpConn or a TcpSender: try_send loses the close when full.  *)
TrySendClose(c) == IF Len(dataIn) < AppQueue THEN Append(dataIn, TcpClose(c)) ELSE dataIn

(* The parts of one pass over an established connection. *)
Sendable(c) == IF MaySend(sock[c].state)
               THEN Least(TxBuf - Len(txbuf[c]), Len(pending[c])) ELSE 0
(* Variant: the half-close does not wait for pending. *)
HalfCloseAtOnce(c, pend, s) == IF conn[c].half THEN CloseState(s) ELSE s
HalfClose(c, pend, s) == IF conn[c].half /\ pend = <<>> THEN CloseState(s) ELSE s
Deliverable(c) == Least(Least(AppQueue - Len(toApp[c]), Len(rxbuf[c])), MaxRecvChunks)
(* Variant: the chunk is taken from the socket before a permit is reserved. *)
RxLeftUnreserved(c, n) == SubSeq(rxbuf[c], Least(Len(rxbuf[c]), MaxRecvChunks) + 1, Len(rxbuf[c]))
RxLeft(c, n) == SubSeq(rxbuf[c], n + 1, Len(rxbuf[c]))
(* Variant: an orphan whose far end is silent lingers for ever. *)
AbortsOrphanOnData(c) == rxbuf[c] # <<>>
AbortsOrphan(c) == rxbuf[c] # <<>> \/ conn[c].orphan = "elapsed"
(* Variant: an aborted socket is removed in the same pass. *)
RemovedAtOnce(abort, s) == abort \/ Ended(s)
Removed(abort, s) == ~abort /\ Ended(s)

(* The connection answers its open (a TcpConn nobody waits for is dropped  *)
(* at once), uploads, half-closes, delivers, and ends when the socket has. *)
ServiceEstablished(c) ==
    /\ phase = "service" /\ c \in todo
    /\ ~conn[c].aborted /\ (conn[c].est \/ Connected(sock[c].state))
    /\ todo' = todo \ {c}
    /\ LET unwanted == ~conn[c].est /\ Abandoned(c)
           n == Sendable(c)
           pend == SubSeq(pending[c], n + 1, Len(pending[c]))
           state1 == HalfClose(c, pend, sock[c].state)
           appGone == unwanted \/ ~app[c].rx
           k == IF appGone THEN 0 ELSE Deliverable(c)
           abort == appGone /\ AbortsOrphan(c)
           state2 == IF appGone THEN CloseState(state1) ELSE state1
           state3 == IF state2 = "CloseWait" THEN CloseState(state2) ELSE state2
       IN  /\ answer' = [answer EXCEPT ![c] = IF conn[c].est THEN @ ELSE "ok"]
           /\ app' = [app EXCEPT ![c].rx = @ /\ ~unwanted, ![c].tx = @ /\ ~unwanted]
           /\ dataIn' = IF unwanted THEN TrySendClose(c) ELSE dataIn
           /\ txbuf' = [txbuf EXCEPT ![c] = @ \o SubSeq(pending[c], 1, n)]
           /\ pending' = [pending EXCEPT ![c] =
                             IF ~abort /\ state2 = "TimeWait" THEN <<>> ELSE pend]
           /\ toApp' = [toApp EXCEPT ![c] = @ \o SubSeq(rxbuf[c], 1, k)]
           /\ rxbuf' = [rxbuf EXCEPT ![c] = RxLeft(c, k)]
           /\ sock' = [sock EXCEPT ![c] =
                          [state |-> IF abort THEN "Closed" ELSE state3,
                           rst |-> @.rst \/ (abort /\ state1 # "Closed")]]
           /\ conn' = [conn EXCEPT ![c].est = TRUE,
                                   ![c].orphan = IF appGone /\ @ = "no" THEN "set" ELSE @,
                                   ![c].aborted = abort,
                                   ![c].st = IF Removed(abort, state2) THEN "gone" ELSE @]
    /\ UNCHANGED <<phase, cmds, deferred, far>>

(* service_udp and flush_tx follow; a packet flush_tx drops is a lost one. *)
ServiceDone ==
    /\ phase = "service" /\ todo = {}
    /\ phase' = "deferred"
    /\ UNCHANGED <<todo, cmds, dataIn, deferred, tableVars, sockVars, toApp, answer, app, far>>

-----------------------------------------------------------------------------
(* try_handle_data: units taken into pending, and what is pushed back.     *)

Space(c) == MaxPending - Len(pending[c])
(* Variant: pending has no limit. *)
TakenAll(m) == IF m.id \in Live /\ ~m.close THEN Len(m.data) ELSE 0
Taken(m) == IF m.id \in Live /\ ~m.close THEN Least(Space(m.id), Len(m.data)) ELSE 0
(* Variant: what is pushed back includes the units already taken. *)
PushedBackWhole(m) == IF m.id \in Live /\ Taken(m) < Len(m.data) THEN <<m>> ELSE <<>>
(* Variant: an upload for a connection that is gone is pushed back too. *)
PushedBackGone(m) == IF Taken(m) < Len(m.data)
                     THEN <<TcpData(m.id, SubSeq(m.data, Taken(m) + 1, Len(m.data)))>>
                     ELSE <<>>
PushedBack(m) == IF m.id \in Live /\ Taken(m) < Len(m.data)
                 THEN <<TcpData(m.id, SubSeq(m.data, Taken(m) + 1, Len(m.data)))>>
                 ELSE <<>>

TryHandleData(m) ==
    /\ pending' = [pending EXCEPT ![m.id] = @ \o SubSeq(m.data, 1, Taken(m))]
    /\ conn' = [conn EXCEPT ![m.id].half = @ \/ (m.close /\ m.id \in Live)]

(* The loop over deferred: it stops at the first datum pushed back.        *)
RetryDeferred ==
    /\ phase = "deferred"
    /\ IF deferred = <<>>
       THEN phase' = "select" /\ UNCHANGED <<deferred, tableVars>>
       ELSE LET back == PushedBack(Head(deferred))
            IN  /\ TryHandleData(Head(deferred))
                /\ deferred' = back \o Tail(deferred)
                /\ phase' = IF back # <<>> THEN "select" ELSE phase
    /\ UNCHANGED <<todo, cmds, dataIn, sockVars, toApp, answer, app, far>>

(* select!: upload data, read only while nothing is deferred, then drained *)
(* with try_recv until the queue is empty or something is deferred.        *)
TakeData ==
    /\ phase \in {"select", "drain"} /\ deferred = <<>>
    /\ dataIn # <<>>
    /\ TryHandleData(Head(dataIn))
    /\ deferred' = PushedBack(Head(dataIn))
    /\ dataIn' = Tail(dataIn)
    /\ phase' = IF PushedBack(Head(dataIn)) = <<>> THEN "drain" ELSE "poll"
    /\ UNCHANGED <<todo, cmds, sockVars, toApp, answer, app, far>>

DrainDone ==
    /\ phase = "drain" /\ dataIn = <<>>
    /\ phase' = "poll"
    /\ UNCHANGED <<todo, cmds, dataIn, deferred, tableVars, sockVars, toApp, answer, app, far>>

(* select!: a command.  smoltcp may refuse the connect itself.             *)
HandleOpenTcp ==
    /\ phase = "select" /\ cmds # <<>>
    /\ LET c == Head(cmds) IN
         \/ /\ conn' = [conn EXCEPT ![c] = NewConn]
            /\ sock' = [sock EXCEPT ![c].state = "SynSent"]
            /\ UNCHANGED answer
         \/ /\ answer' = [answer EXCEPT ![c] = "connect error"]
            /\ UNCHANGED <<conn, sock>>
    /\ cmds' = Tail(cmds)
    /\ phase' = "poll"
    /\ UNCHANGED <<todo, dataIn, deferred, pending, rxbuf, txbuf, toApp, app, far>>

(* select!: a packet from the tunnel.                                      *)
Ingest ==
    /\ phase = "select"
    /\ phase' = "poll"
    /\ UNCHANGED <<todo, cmds, dataIn, deferred, tableVars, sockVars, toApp, answer, app, far>>

(* select!: sleep_opt; with a connection in the table the delay is finite. *)
Tick ==
    /\ phase = "select" /\ Live # {}
    /\ phase' = "poll"
    /\ UNCHANGED <<todo, cmds, dataIn, deferred, tableVars, sockVars, toApp, answer, app, far>>

(* select!: the tunnel or the last handle is gone; run returns and drops   *)
(* everything it holds, the unanswered oneshots included.                  *)
Stop ==
    /\ phase = "select"
    /\ phase' = "stopped"
    /\ conn' = [c \in Conns |-> IF c \in Live THEN [conn[c] EXCEPT !.st = "gone"] ELSE conn[c]]
    /\ answer' = [c \in Conns |->
                    IF app[c].st # "idle" /\ answer[c] = "none" THEN "dropped" ELSE answer[c]]
    /\ cmds' = <<>> /\ dataIn' = <<>> /\ deferred' = <<>>
    /\ UNCHANGED <<todo, pending, sockVars, toApp, app, far>>

-----------------------------------------------------------------------------
(* Time                                                                    *)

ConnectDeadline(c) ==
    /\ c \in Live /\ ~conn[c].est /\ ~conn[c].late
    /\ conn' = [conn EXCEPT ![c].late = TRUE]
    /\ UNCHANGED <<stackVars, pending, sockVars, toApp, answer, app, far>>

LingerElapses(c) ==
    /\ c \in Live /\ conn[c].orphan = "set"
    /\ conn' = [conn EXCEPT ![c].orphan = "elapsed"]
    /\ UNCHANGED <<stackVars, pending, sockVars, toApp, answer, app, far>>

-----------------------------------------------------------------------------
(* The app: StackHandle::open_tcp, TcpConn, TcpSender, the receiver.       *)

AppOpen(c) ==
    /\ app[c].st = "idle" /\ phase # "stopped"
    /\ app' = [app EXCEPT ![c].st = "opening"]
    /\ cmds' = Append(cmds, c)
    /\ UNCHANGED <<phase, todo, dataIn, deferred, tableVars, sockVars, toApp, answer, far>>

AppOpened(c) ==
    /\ app[c].st = "opening" /\ answer[c] # "none"
    /\ app' = [app EXCEPT ![c].st = IF answer[c] = "ok" THEN "open" ELSE "failed"]
    /\ UNCHANGED <<stackVars, tableVars, sockVars, toApp, answer, far>>

(* The future of open_tcp is dropped; a TcpConn already answered goes too. *)
AppAbandon(c) ==
    /\ app[c].st = "opening"
    /\ LET held == answer[c] = "ok"
       IN  /\ app' = [app EXCEPT ![c].st = "abandoned", ![c].tx = ~held, ![c].rx = ~held]
           /\ dataIn' = IF held /\ phase # "stopped" THEN TrySendClose(c) ELSE dataIn
    /\ UNCHANGED <<phase, todo, cmds, deferred, tableVars, sockVars, toApp, answer, far>>

Sending(c) == phase # "stopped" /\ app[c].st = "open" /\ app[c].tx /\ ~app[c].closed

AppSend(c) ==
    /\ Sending(c) /\ Len(dataIn) < AppQueue
    /\ \E n \in 1..SendMax :
         /\ app[c].sent + n <= Up
         /\ dataIn' = Append(dataIn, TcpData(c, Units(app[c].sent + 1, app[c].sent + n)))
         /\ app' = [app EXCEPT ![c].sent = @ + n]
    /\ UNCHANGED <<phase, todo, cmds, deferred, tableVars, sockVars, toApp, answer, far>>

AppClose(c) ==
    /\ Sending(c) /\ Len(dataIn) < AppQueue
    /\ dataIn' = Append(dataIn, TcpClose(c))
    /\ app' = [app EXCEPT ![c].closed = TRUE]
    /\ UNCHANGED <<phase, todo, cmds, deferred, tableVars, sockVars, toApp, answer, far>>

AppDropSender(c) ==
    /\ app[c].st = "open" /\ app[c].tx
    /\ dataIn' = IF phase # "stopped" THEN TrySendClose(c) ELSE dataIn
    /\ app' = [app EXCEPT ![c].tx = FALSE]
    /\ UNCHANGED <<phase, todo, cmds, deferred, tableVars, sockVars, toApp, answer, far>>

AppDropReceiver(c) ==
    /\ app[c].st = "open" /\ app[c].rx
    /\ app' = [app EXCEPT ![c].rx = FALSE]
    /\ toApp' = [toApp EXCEPT ![c] = <<>>]
    /\ UNCHANGED <<stackVars, tableVars, sockVars, answer, far>>

AppRecv(c) ==
    /\ app[c].st = "open" /\ app[c].rx /\ toApp[c] # <<>>
    /\ app' = [app EXCEPT ![c].got = Append(@, Head(toApp[c]))]
    /\ toApp' = [toApp EXCEPT ![c] = Tail(@)]
    /\ UNCHANGED <<stackVars, tableVars, sockVars, answer, far>>

-----------------------------------------------------------------------------
Service(c) == ServiceAborted(c) \/ ServiceConnecting(c) \/ ServiceEstablished(c)

Far(c) == SynAck(c) \/ FarData(c) \/ FarFin(c) \/ FarAck(c) \/ FarAckFin(c) \/ SocketDies(c)

App(c) == \/ AppOpen(c) \/ AppOpened(c) \/ AppAbandon(c)
          \/ AppSend(c) \/ AppClose(c) \/ AppDropSender(c)
          \/ AppDropReceiver(c) \/ AppRecv(c)

Loop == \/ PollDone \/ ServiceDone \/ RetryDeferred \/ DrainDone
        \/ TakeData \/ HandleOpenTcp \/ Ingest \/ Tick \/ Stop

Next == \/ Loop
        \/ \E c \in Conns : \/ Service(c) \/ Far(c) \/ App(c)
                            \/ ConnectDeadline(c) \/ LingerElapses(c)

(* The stack's task is scheduled again and again: tokio polls it, and with *)
(* a connection in the table its sleep is at most MAX_IDLE_TICK.           *)
TaskStep == \/ PollDone \/ ServiceDone \/ RetryDeferred \/ DrainDone
            \/ TakeData \/ Tick \/ \E c \in Conns : Service(c)

Fairness ==
    /\ WF_vars(TaskStep)
    /\ \A c \in Conns : /\ WF_vars(ConnectDeadline(c))
                        /\ WF_vars(LingerElapses(c))

Spec == Init /\ [][Next]_vars /\ Fairness

-----------------------------------------------------------------------------
(* Every variable has its type, and the bounded queues keep their bounds:  *)
(* data_in and to_app their capacity, pending max_tcp_pending, and the     *)
(* deferred queue one datum.                                               *)
TypeOK ==
    /\ phase \in {"poll", "service", "deferred", "select", "drain", "stopped"}
    /\ todo \subseteq Conns
    /\ cmds \in Seq(Conns)
    /\ dataIn \in Seq(DataMsg) /\ Len(dataIn) <= AppQueue
    /\ deferred \in Seq(DataMsg) /\ Len(deferred) <= 1
    /\ conn \in [Conns -> TcpState] /\ pending \in [Conns -> Seq(1..Up)]
    /\ sock \in [Conns -> Socket]
    /\ rxbuf \in [Conns -> Seq(1..Down)] /\ txbuf \in [Conns -> Seq(1..Up)]
    /\ toApp \in [Conns -> Seq(1..Down)]
    /\ \A c \in Conns : /\ Len(pending[c]) <= MaxPending
                        /\ Len(rxbuf[c]) <= RxBuf /\ Len(txbuf[c]) <= TxBuf
                        /\ Len(toApp[c]) <= AppQueue
    /\ answer \in [Conns -> Answers] /\ app \in [Conns -> AppTask] /\ far \in [Conns -> FarEnd]

(* The uploads of c that wait in a queue of messages, by their places. *)
Parts(c, q) == {i \in 1..Len(q) : q[i].id = c /\ q[i].data # <<>>}
First(m) == m.data[1]
Last(m) == m.data[Len(m.data)]

(* The units of c that wait in q are those after n and up to sent, each    *)
(* once and in order.                                                      *)
InLine(c, q, n, sent) ==
    /\ n <= sent
    /\ \A i \in Parts(c, q) : q[i].data = Units(First(q[i]), Last(q[i]))
    /\ \A i, j \in Parts(c, q) : i < j => Last(q[i]) < First(q[j])
    /\ UNION {First(q[i])..Last(q[i]) : i \in Parts(c, q)} = (n + 1)..sent

Queued == deferred \o dataIn
Passed(c) == far[c].got \o txbuf[c] \o pending[c]

(* The upload of a connection is never lost, repeated or reordered while   *)
(* the connection lives: what the far end got, what the socket and pending *)
(* hold is what the app sent first, and the deferred queue and data_in     *)
(* hold the rest.                                                          *)
UploadIntact ==
    \A c \in Live :
        /\ Passed(c) = Units(1, Len(Passed(c)))
        /\ InLine(c, Queued, Len(Passed(c)), app[c].sent)

(* The download of a connection is in order and whole while the connection *)
(* lives and the app reads it.                                             *)
DownloadIntact ==
    \A c \in Live : app[c].rx =>
        app[c].got \o toApp[c] \o rxbuf[c] = Units(1, far[c].sent)

(* A half-close does not overtake the upload: as long as the app reads, the *)
(* stack closes first (before the far end does) only when everything the    *)
(* app sent before its close has left pending and the queues.               *)
NoEarlyFin ==
    \A c \in Live :
        app[c].rx /\ sock[c].state \in {"FinWait1", "FinWait2", "Closing", "TimeWait"} =>
            pending[c] = <<>> /\ Parts(c, Queued) = {}

(* The stack holds back the uploads of every app only while the connection *)
(* it holds back for is alive and has no room left in pending.             *)
DeferredOnlyWhenFull ==
    phase \in {"select", "poll"} /\ deferred # <<>> =>
        /\ Head(deferred).id \in Live
        /\ Space(Head(deferred).id) = 0

(* An open is answered exactly when the table says so: a connection still   *)
(* connecting has no answer, an established one was answered with itself,   *)
(* and none leaves the table unanswered.                                    *)
AnswerMatchesTable ==
    \A c \in Conns :
        /\ conn[c].st = "live" => answer[c] = (IF conn[c].est THEN "ok" ELSE "none")
        /\ conn[c].st = "gone" => answer[c] # "none"

(* An orphan is removed only after a poll in which smoltcp could send the   *)
(* reset that abort() asked for: the socket never goes with it still owed.  *)
ResetLeavesFirst ==
    [][\A c \in Conns : c \in Live /\ c \notin Live' /\ phase' # "stopped" => ~sock'[c].rst]_vars

(* When the far end has closed and nothing was reset, the app that read to  *)
(* the end of the stream has read all of it.                                *)
DownloadWhole ==
    \A c \in Conns :
        /\ conn[c].st = "gone" /\ phase # "stopped"
        /\ app[c].st = "open" /\ app[c].rx /\ toApp[c] = <<>>
        /\ far[c].fin /\ ~far[c].reset
        => app[c].got = Units(1, far[c].sent)

(* A connect nobody answers fails instead of hanging: every connection that *)
(* is being opened is answered.                                             *)
ConnectAnswered ==
    \A c \in Conns : c \in Live /\ answer[c] = "none" ~> answer[c] # "none"

(* A connection whose app has gone is torn down, whatever the far end does. *)
OrphanRemoved ==
    \A c \in Conns : c \in Live /\ ~app[c].rx ~> c \notin Live

(* One full connection does not hold back the uploads of the others for     *)
(* ever, as long as every far end goes on reading: what is deferred is      *)
(* accepted, or dropped with its connection.                                *)
DeferredDrains == deferred # <<>> ~> deferred = <<>>
=============================================================================
