----------------------------- MODULE MCNetStack -----------------------------
(***************************************************************************)
(* Model-checking instances of NetStack.  OpenSpec starts where two opens  *)
(* have succeeded, so that two connections with data fit in a run: the     *)
(* questions it asks are about the queues the connections share.           *)
(***************************************************************************)
EXTENDS NetStack

OpenInit ==
    /\ phase = "poll" /\ todo = {} /\ cmds = <<>> /\ dataIn = <<>> /\ deferred = <<>>
    /\ conn = [c \in Conns |-> [NewConn EXCEPT !.est = TRUE]]
    /\ pending = [c \in Conns |-> <<>>]
    /\ sock = [c \in Conns |-> [state |-> "Established", rst |-> FALSE]]
    /\ rxbuf = [c \in Conns |-> <<>>]
    /\ txbuf = [c \in Conns |-> <<>>]
    /\ toApp = [c \in Conns |-> <<>>]
    /\ answer = [c \in Conns |-> "ok"]
    /\ app = [c \in Conns |-> [st |-> "open", tx |-> TRUE, rx |-> TRUE,
                               closed |-> FALSE, sent |-> 0, got |-> <<>>]]
    /\ far = [c \in Conns |-> [sent |-> 0, fin |-> FALSE, reset |-> FALSE, got |-> <<>>]]

(* The apps upload and half-close, the far ends acknowledge or die; no     *)
(* connection is opened or dropped, nothing is downloaded.                 *)
OpenNext ==
    \/ PollDone \/ ServiceDone \/ RetryDeferred \/ DrainDone \/ TakeData \/ Tick
    \/ \E c \in Conns : \/ Service(c) \/ FarAck(c) \/ FarAckFin(c) \/ FarFin(c) \/ SocketDies(c)
                        \/ AppSend(c) \/ AppClose(c)

(* The far ends go on reading: what the socket sent is acknowledged, or the *)
(* socket's timeout (three keepalives) closes it.  A far end that answers   *)
(* keepalives and never opens its window again is left out.                 *)
Acknowledged(c) ==
    /\ txbuf[c] # <<>> \/ sock[c].state \in {"FinWait1", "Closing", "LastAck"}
    /\ FarAck(c) \/ FarAckFin(c) \/ SocketDies(c)

OpenSpec == OpenInit /\ [][OpenNext]_vars /\ Fairness
            /\ \A c \in Conns : SF_vars(Acknowledged(c))
=============================================================================
