--------------------------- MODULE NetStackProofs ---------------------------
(***************************************************************************)
(* Proofs about NetStack, for any number of connections, any sizes of      *)
(* queues and buffers and any amount of data: the types and bounds, that   *)
(* neither direction loses, repeats or reorders anything, that a half-     *)
(* close does not overtake the upload, that every open is answered as the  *)
(* table says, that uploads are held back only for a full connection, and  *)
(* that a reset leaves before its socket goes.                             *)
(***************************************************************************)
EXTENDS NetStack, SequenceTheorems, TLAPS

(* Where the loop is: connections are still to be visited only while it    *)
(* services them, and what it visits is in the table, with no reset owed.  *)
LoopInv ==
    /\ todo \subseteq Live
    /\ phase # "service" => todo = {}
    /\ phase = "drain" => deferred = <<>>
    /\ \A c \in todo : ~sock[c].rst

(* What makes AnswerMatchesTable inductive: an app that has not been        *)
(* answered has done nothing, and one that is open was answered.            *)
OpenInv ==
    /\ AnswerMatchesTable
    /\ \A c \in Conns :
        /\ conn[c].st = "free" => answer[c] # "ok"
        /\ conn[c].aborted => conn[c].est
        /\ app[c].st = "idle" => conn[c].st = "free" /\ answer[c] = "none"
        /\ app[c].st = "open" => answer[c] = "ok"
        /\ app[c].st \in {"idle", "opening"} => app[c].tx /\ app[c].rx /\ ~app[c].closed

(* A command waits once, for a connection that is not there yet.            *)
CmdInv ==
    /\ \A i, j \in 1..Len(cmds) : cmds[i] = cmds[j] => i = j
    /\ \A i \in 1..Len(cmds) : /\ conn[cmds[i]].st = "free" /\ answer[cmds[i]] = "none"
                               /\ app[cmds[i]].st # "idle"

NoMessages(c, q) == \A i \in 1..Len(q) : q[i].id # c

(* Nothing has been sent either way on a connection that is not there yet.  *)
Untouched(c) ==
    /\ conn[c] = NoConn
    /\ pending[c] = <<>> /\ txbuf[c] = <<>> /\ rxbuf[c] = <<>> /\ toApp[c] = <<>>
    /\ app[c].got = <<>> /\ app[c].sent = 0 /\ far[c].got = <<>> /\ far[c].sent = 0
    /\ NoMessages(c, Queued)

FreshInv == \A c \in Conns : conn[c].st = "free" => Untouched(c)

(* Nothing of c follows its close: an app that has sent one sends no more,  *)
(* and a connection that is to be half-closed has nothing in the queues.    *)
Finished(c) == app[c].closed \/ ~app[c].tx

Closing(q) ==
    \A i \in 1..Len(q) : q[i].close => q[i].data = <<>> /\ \A j \in Parts(q[i].id, q) : j < i
HasClose(c, q) == \E i \in 1..Len(q) : q[i].id = c /\ q[i].close

CloseInv ==
    /\ Closing(Queued)
    /\ \A c \in Conns : /\ HasClose(c, Queued) => Finished(c)
                        /\ conn[c].half => Finished(c) /\ Parts(c, Queued) = {}

FinStates == {"FinWait1", "FinWait2", "Closing", "TimeWait"}

(* What makes NoEarlyFin inductive. *)
FinInv ==
    \A c \in Live :
        app[c].rx /\ sock[c].state \in FinStates => conn[c].half /\ pending[c] = <<>>

StackInv ==
    /\ TypeOK /\ LoopInv /\ OpenInv /\ CmdInv /\ FreshInv /\ CloseInv /\ FinInv
    /\ DeferredOnlyWhenFull /\ UploadIntact /\ DownloadIntact

-----------------------------------------------------------------------------
(* Sequences                                                                *)

(* What Append, Tail, SubSeq and \o do, in the form the proofs below use.   *)
LEMMA AppendFacts ==
    ASSUME NEW S, NEW s \in Seq(S), NEW e \in S
    PROVE  /\ Append(s, e) \in Seq(S) /\ Len(Append(s, e)) = Len(s) + 1
           /\ \A i \in 1..(Len(s) + 1) : Append(s, e)[i] = IF i <= Len(s) THEN s[i] ELSE e
BY AppendProperties, LenProperties

LEMMA TailFacts ==
    ASSUME NEW S, NEW s \in Seq(S), s # <<>>
    PROVE  /\ Head(s) \in S /\ Head(s) = s[1] /\ Tail(s) \in Seq(S)
           /\ Len(s) \in Nat \ {0} /\ Len(Tail(s)) = Len(s) - 1
           /\ \A i \in 1..(Len(s) - 1) : Tail(s)[i] = s[i + 1]
BY HeadTailProperties, EmptySeq, LenProperties

LEMMA TailFits ==
    ASSUME NEW S, NEW s \in Seq(S), s # <<>>, NEW b \in Nat, Len(s) <= b
    PROVE  Head(s) \in S /\ Tail(s) \in Seq(S) /\ Len(Tail(s)) <= b
<1>1. /\ Head(s) \in S /\ Tail(s) \in Seq(S) /\ Len(s) \in Nat \ {0}
      /\ Len(Tail(s)) = Len(s) - 1
  BY TailFacts
<1>. QED
  BY <1>1

LEMMA PieceFacts ==
    ASSUME NEW S, NEW s \in Seq(S), NEW a \in Nat, NEW b \in Nat, a <= b, b <= Len(s)
    PROVE  /\ SubSeq(s, a + 1, b) \in Seq(S) /\ Len(SubSeq(s, a + 1, b)) = b - a
           /\ \A i \in 1..(b - a) : SubSeq(s, a + 1, b)[i] = s[a + i]
<1>1. Len(s) \in Nat /\ \A i \in 1..Len(s) : s[i] \in S
  BY LenProperties, ElementOfSeq
<1>2. \A i \in (a + 1)..b : s[i] \in S
  BY <1>1
<1>3. /\ SubSeq(s, a + 1, b) \in Seq(S)
      /\ Len(SubSeq(s, a + 1, b)) = IF a + 1 <= b THEN b - (a + 1) + 1 ELSE 0
      /\ \A i \in 1..(b - (a + 1) + 1) : SubSeq(s, a + 1, b)[i] = s[(a + 1) + i - 1]
  BY <1>2, SubSeqProperties
<1>4. b - (a + 1) + 1 = b - a /\ \A i \in 1..(b - a) : (a + 1) + i - 1 = a + i
  OBVIOUS
<1>. QED
  BY <1>3, <1>4

LEMMA UnitsFacts ==
    ASSUME NEW a \in Nat, NEW b \in Nat, 1 <= a, a <= b + 1
    PROVE  /\ Units(a, b) \in Seq(a..b) /\ Len(Units(a, b)) = b - a + 1
           /\ \A i \in 1..(b - a + 1) : Units(a, b)[i] = a + i - 1
BY DEF Units

(* A sequence of numbers is a run of units when each is one more than the   *)
(* one before.                                                              *)
LEMMA IsUnits ==
    ASSUME NEW S, NEW s \in Seq(S), NEW a \in Nat, NEW b \in Nat, 1 <= a, a <= b + 1,
           Len(s) = b - a + 1, \A i \in 1..Len(s) : s[i] = a + i - 1
    PROVE  s = Units(a, b)
<1>1. s \in [1..Len(s) -> S]
  BY LenProperties
<1>. QED
  BY <1>1 DEF Units

-----------------------------------------------------------------------------
(* A stream in three places: what was received, what is on its way, what    *)
(* has still to leave.                                                      *)
Joined(s, t, u, n) ==
    /\ Len(s) + Len(t) + Len(u) = n
    /\ \A i \in 1..Len(s) : s[i] = i
    /\ \A i \in 1..Len(t) : t[i] = Len(s) + i
    /\ \A i \in 1..Len(u) : u[i] = Len(s) + Len(t) + i

LEMMA ThreeFacts ==
    ASSUME NEW S, NEW s \in Seq(S), NEW t \in Seq(S), NEW u \in Seq(S)
    PROVE  /\ s \o t \o u \in Seq(S)
           /\ Len(s) \in Nat /\ Len(t) \in Nat /\ Len(u) \in Nat
           /\ Len(s \o t \o u) = Len(s) + Len(t) + Len(u)
           /\ \A i \in 1..Len(s) : (s \o t \o u)[i] = s[i]
           /\ \A i \in 1..Len(t) : (s \o t \o u)[Len(s) + i] = t[i]
           /\ \A i \in 1..Len(u) : (s \o t \o u)[Len(s) + Len(t) + i] = u[i]
<1>1. Len(s) \in Nat /\ Len(t) \in Nat /\ Len(u) \in Nat
  BY LenProperties
<1>. DEFINE st == s \o t
<1>2. /\ st \in Seq(S) /\ Len(st) = Len(s) + Len(t)
      /\ \A i \in 1..(Len(s) + Len(t)) : st[i] = IF i <= Len(s) THEN s[i] ELSE t[i - Len(s)]
  BY ConcatProperties
<1>. HIDE DEF st
<1>3. /\ st \o u \in Seq(S) /\ Len(st \o u) = Len(st) + Len(u)
      /\ \A i \in 1..(Len(st) + Len(u)) :
            (st \o u)[i] = IF i <= Len(st) THEN st[i] ELSE u[i - Len(st)]
  <2>1. st \in Seq(S)
    BY <1>2
  <2>. QED
    BY <2>1, ConcatProperties
<1>4. \A i \in 1..Len(s) : (st \o u)[i] = s[i]
  BY <1>1, <1>2, <1>3
<1>5. \A i \in 1..Len(t) : (st \o u)[Len(s) + i] = t[i]
  <2>. TAKE i \in 1..Len(t)
  <2>1. Len(s) + i \in 1..(Len(s) + Len(t)) /\ ~(Len(s) + i <= Len(s)) /\ Len(s) + i - Len(s) = i
    BY <1>1
  <2>. QED
    BY <1>1, <1>2, <1>3, <2>1
<1>6. \A i \in 1..Len(u) : (st \o u)[Len(s) + Len(t) + i] = u[i]
  <2>. TAKE i \in 1..Len(u)
  <2>1. /\ Len(s) + Len(t) + i \in 1..(Len(st) + Len(u)) /\ ~(Len(s) + Len(t) + i <= Len(st))
        /\ Len(s) + Len(t) + i - Len(st) = i
    BY <1>1, <1>2
  <2>. QED
    BY <1>3, <2>1
<1>. QED
  BY <1>1, <1>2, <1>3, <1>4, <1>5, <1>6 DEF st

LEMMA JoinedIff ==
    ASSUME NEW S, NEW s \in Seq(S), NEW t \in Seq(S), NEW u \in Seq(S), NEW n \in Nat
    PROVE  s \o t \o u = Units(1, n) <=> Joined(s, t, u, n)
<1>. DEFINE w == s \o t \o u
<1>1. /\ w \in Seq(S)
      /\ Len(s) \in Nat /\ Len(t) \in Nat /\ Len(u) \in Nat
      /\ Len(w) = Len(s) + Len(t) + Len(u)
      /\ \A i \in 1..Len(s) : w[i] = s[i]
      /\ \A i \in 1..Len(t) : w[Len(s) + i] = t[i]
      /\ \A i \in 1..Len(u) : w[Len(s) + Len(t) + i] = u[i]
  BY ThreeFacts
<1>2. /\ Len(Units(1, n)) = n /\ \A i \in 1..n : Units(1, n)[i] = i
  <2>1. 1 <= n + 1 /\ n - 1 + 1 = n /\ \A i \in 1..n : 1 + i - 1 = i
    OBVIOUS
  <2>2. /\ Len(Units(1, n)) = n - 1 + 1
        /\ \A i \in 1..(n - 1 + 1) : Units(1, n)[i] = 1 + i - 1
    BY <2>1 DEF Units
  <2>. QED
    BY <2>1, <2>2
<1>. HIDE DEF w
<1>3. ASSUME w = Units(1, n) PROVE Joined(s, t, u, n)
  <2>1. Len(w) = n /\ \A i \in 1..n : w[i] = i
    BY <1>2, <1>3
  <2>2. \A i \in 1..Len(s) : s[i] = i
    BY <1>1, <2>1
  <2>3. \A i \in 1..Len(t) : t[i] = Len(s) + i
    <3>. TAKE i \in 1..Len(t)
    <3>1. Len(s) + i \in 1..n
      BY <1>1, <2>1
    <3>. QED
      BY <1>1, <2>1, <3>1
  <2>4. \A i \in 1..Len(u) : u[i] = Len(s) + Len(t) + i
    <3>. TAKE i \in 1..Len(u)
    <3>1. Len(s) + Len(t) + i \in 1..n
      BY <1>1, <2>1
    <3>. QED
      BY <1>1, <2>1, <3>1
  <2>. QED
    BY <1>1, <2>1, <2>2, <2>3, <2>4 DEF Joined
<1>4. ASSUME Joined(s, t, u, n) PROVE w = Units(1, n)
  <2>1. Len(w) = n - 1 + 1
    BY <1>1, <1>4 DEF Joined
  <2>2. \A i \in 1..Len(w) : w[i] = i
    <3>. TAKE i \in 1..Len(w)
    <3>1. CASE i <= Len(s)
      BY <1>1, <1>4, <3>1 DEF Joined
    <3>2. CASE i > Len(s) /\ i <= Len(s) + Len(t)
      <4>1. i - Len(s) \in 1..Len(t) /\ Len(s) + (i - Len(s)) = i
        BY <1>1, <3>2
      <4>. QED
        BY <1>1, <1>4, <4>1 DEF Joined
    <3>3. CASE i > Len(s) + Len(t)
      <4>1. /\ i - Len(s) - Len(t) \in 1..Len(u)
            /\ Len(s) + Len(t) + (i - Len(s) - Len(t)) = i
        BY <1>1, <3>3
      <4>. QED
        BY <1>1, <1>4, <4>1 DEF Joined
    <3>. QED
      BY <1>1, <3>1, <3>2, <3>3
  <2>. QED
    BY <1>1, <2>1, <2>2, IsUnits
<1>. QED
  BY <1>3, <1>4 DEF w

(* A unit arrives: the first on its way is received. *)
LEMMA JoinedArrive ==
    ASSUME NEW S, NEW s \in Seq(S), NEW t \in Seq(S), NEW u \in Seq(S), NEW n \in Nat,
           Joined(s, t, u, n), t # <<>>
    PROVE  Joined(Append(s, Head(t)), Tail(t), u, n)
<1>1. /\ Head(t) = t[1] /\ Head(t) \in S /\ Len(t) \in Nat \ {0} /\ Len(Tail(t)) = Len(t) - 1
      /\ \A i \in 1..(Len(t) - 1) : Tail(t)[i] = t[i + 1]
  BY TailFacts
<1>. DEFINE a == Append(s, Head(t))
<1>2. /\ Len(s) \in Nat /\ Len(u) \in Nat
      /\ Len(a) = Len(s) + 1
      /\ \A i \in 1..(Len(s) + 1) : a[i] = IF i <= Len(s) THEN s[i] ELSE Head(t)
  BY <1>1, AppendFacts, LenProperties
<1>. HIDE DEF a
<1>3. \A i \in 1..Len(a) : a[i] = i
  <2>. TAKE i \in 1..Len(a)
  <2>1. Head(t) = Len(s) + 1
    <3>1. 1 \in 1..Len(t)
      BY <1>1
    <3>. QED
      BY <1>1, <3>1 DEF Joined
  <2>2. CASE i <= Len(s)
    <3>1. a[i] = s[i] /\ i \in 1..Len(s)
      BY <1>2, <2>2
    <3>. QED
      BY <3>1 DEF Joined
  <2>3. CASE i = Len(s) + 1
    <3>1. a[i] = Head(t)
      BY <1>2, <2>3
    <3>. QED
      BY <2>1, <2>3, <3>1
  <2>. QED
    BY <1>2, <2>2, <2>3
<1>4. \A i \in 1..Len(Tail(t)) : Tail(t)[i] = Len(a) + i
  <2>. TAKE i \in 1..Len(Tail(t))
  <2>1. i + 1 \in 1..Len(t) /\ Tail(t)[i] = t[i + 1]
    BY <1>1
  <2>2. t[i + 1] = Len(s) + (i + 1)
    BY <2>1 DEF Joined
  <2>. QED
    BY <1>1, <1>2, <2>1, <2>2
<1>5. \A i \in 1..Len(u) : u[i] = Len(a) + Len(Tail(t)) + i
  BY <1>1, <1>2 DEF Joined
<1>6. Len(a) + Len(Tail(t)) + Len(u) = n
  <2>1. Len(s) + Len(t) + Len(u) = n
    BY DEF Joined
  <2>. QED
    BY <1>1, <1>2, <2>1
<1>7. Joined(a, Tail(t), u, n)
  BY <1>3, <1>4, <1>5, <1>6 DEF Joined
<1>. QED
  BY <1>7 DEF a

(* The first k units that have still to leave set out. *)
LEMMA JoinedLeave ==
    ASSUME NEW S, NEW s \in Seq(S), NEW t \in Seq(S), NEW u \in Seq(S), NEW n \in Nat,
           Joined(s, t, u, n), NEW k \in Nat, k <= Len(u)
    PROVE  /\ t \o SubSeq(u, 1, k) \in Seq(S) /\ Len(t \o SubSeq(u, 1, k)) = Len(t) + k
           /\ SubSeq(u, k + 1, Len(u)) \in Seq(S)
           /\ Len(SubSeq(u, k + 1, Len(u))) = Len(u) - k
           /\ Joined(s, t \o SubSeq(u, 1, k), SubSeq(u, k + 1, Len(u)), n)
<1>1. Len(s) \in Nat /\ Len(t) \in Nat /\ Len(u) \in Nat
  BY LenProperties
<1>. DEFINE a == SubSeq(u, 1, k)
            b == SubSeq(u, k + 1, Len(u))
<1>2. a \in Seq(S) /\ Len(a) = k /\ \A i \in 1..k : a[i] = u[i]
  <2>1. /\ SubSeq(u, 0 + 1, k) \in Seq(S) /\ Len(SubSeq(u, 0 + 1, k)) = k - 0
        /\ \A i \in 1..(k - 0) : SubSeq(u, 0 + 1, k)[i] = u[0 + i]
    BY <1>1, PieceFacts
  <2>. QED
    BY <2>1
<1>3. b \in Seq(S) /\ Len(b) = Len(u) - k /\ \A i \in 1..(Len(u) - k) : b[i] = u[k + i]
  BY <1>1, PieceFacts
<1>. HIDE DEF a, b
<1>. DEFINE ta == t \o a
<1>4. /\ ta \in Seq(S) /\ Len(ta) = Len(t) + Len(a)
      /\ \A i \in 1..(Len(t) + Len(a)) : ta[i] = IF i <= Len(t) THEN t[i] ELSE a[i - Len(t)]
  BY <1>2, ConcatProperties
<1>. HIDE DEF ta
<1>5. \A i \in 1..Len(ta) : ta[i] = Len(s) + i
  <2>. TAKE i \in 1..Len(ta)
  <2>1. CASE i <= Len(t)
    <3>1. ta[i] = t[i] /\ i \in 1..Len(t)
      BY <1>1, <1>2, <1>4, <2>1
    <3>. QED
      BY <3>1 DEF Joined
  <2>2. CASE i > Len(t)
    <3>1. i - Len(t) \in 1..k /\ i - Len(t) \in 1..Len(u)
      BY <1>1, <1>2, <1>4, <2>2
    <3>2. ta[i] = u[i - Len(t)]
      BY <1>1, <1>2, <1>4, <2>2, <3>1
    <3>. QED
      BY <1>1, <3>1, <3>2 DEF Joined
  <2>. QED
    BY <1>1, <1>2, <1>4, <2>1, <2>2
<1>6. \A i \in 1..Len(b) : b[i] = Len(s) + Len(ta) + i
  BY <1>1, <1>2, <1>3, <1>4 DEF Joined
<1>7. Joined(s, ta, b, n)
  BY <1>1, <1>2, <1>3, <1>4, <1>5, <1>6 DEF Joined
<1>. QED
  BY <1>2, <1>3, <1>4, <1>7 DEF ta, a, b

(* The units of v come right after the first n. *)
Follows(v, n) == \A i \in 1..Len(v) : v[i] = n + i

LEMMA JoinedGrow ==
    ASSUME NEW S, NEW s \in Seq(S), NEW t \in Seq(S), NEW u \in Seq(S), NEW n \in Nat,
           Joined(s, t, u, n), NEW v \in Seq(S), Follows(v, n)
    PROVE  /\ u \o v \in Seq(S) /\ Len(u \o v) = Len(u) + Len(v)
           /\ Joined(s, t, u \o v, n + Len(v))
<1>1. Len(s) \in Nat /\ Len(t) \in Nat /\ Len(u) \in Nat /\ Len(v) \in Nat
  BY LenProperties
<1>. DEFINE uv == u \o v
<1>2. /\ uv \in Seq(S) /\ Len(uv) = Len(u) + Len(v)
      /\ \A i \in 1..(Len(u) + Len(v)) : uv[i] = IF i <= Len(u) THEN u[i] ELSE v[i - Len(u)]
  BY ConcatProperties
<1>. HIDE DEF uv
<1>3. \A i \in 1..Len(uv) : uv[i] = Len(s) + Len(t) + i
  <2>. TAKE i \in 1..Len(uv)
  <2>1. CASE i <= Len(u)
    BY <1>1, <1>2, <2>1 DEF Joined
  <2>2. CASE i > Len(u)
    <3>1. i - Len(u) \in 1..Len(v)
      BY <1>1, <1>2, <2>2
    <3>2. uv[i] = v[i - Len(u)]
      BY <1>1, <1>2, <2>2, <3>1
    <3>3. v[i - Len(u)] = n + (i - Len(u))
      BY <3>1 DEF Follows
    <3>4. Len(s) + Len(t) + Len(u) = n
      BY DEF Joined
    <3>5. i \in Int
      OBVIOUS
    <3>6. n + (i - Len(u)) = Len(s) + Len(t) + i
      BY <1>1, <3>4, <3>5
    <3>. QED
      BY <3>2, <3>3, <3>6
  <2>. QED
    BY <1>1, <1>2, <2>1, <2>2
<1>. QED
  BY <1>1, <1>2, <1>3 DEF Joined, uv

-----------------------------------------------------------------------------
(* Uploads in the queues                                                    *)

(* The numbers of a message with data. *)
LEMMA PartFacts ==
    ASSUME NEW c, NEW q \in Seq(DataMsg), NEW i \in Parts(c, q)
    PROVE  /\ i \in 1..Len(q) /\ q[i] \in DataMsg /\ q[i].id = c
           /\ q[i].data \in Seq(1..Up) /\ Len(q[i].data) \in Nat \ {0}
           /\ First(q[i]) \in 1..Up /\ Last(q[i]) \in 1..Up
<1>1. i \in 1..Len(q) /\ q[i].id = c /\ q[i].data # <<>>
  BY DEF Parts
<1>2. q[i] \in DataMsg
  BY <1>1, ElementOfSeq
<1>3. q[i].data \in Seq(1..Up)
  BY <1>2 DEF DataMsg
<1>4. Len(q[i].data) \in Nat \ {0}
  BY <1>1, <1>3, EmptySeq
<1>5. 1 \in 1..Len(q[i].data) /\ Len(q[i].data) \in 1..Len(q[i].data)
  BY <1>4
<1>6. First(q[i]) \in 1..Up /\ Last(q[i]) \in 1..Up
  BY <1>3, <1>5, ElementOfSeq DEF First, Last
<1>. QED
  BY <1>1, <1>2, <1>3, <1>4, <1>6

(* InLine, one number at a time. *)
Runs(c, q) == \A i \in Parts(c, q) : q[i].data = Units(First(q[i]), Last(q[i]))
Ascend(c, q) == \A i, j \in Parts(c, q) : i < j => Last(q[i]) < First(q[j])
Cover(c, q, n, sent) ==
    \A x \in Int : n < x /\ x <= sent <=>
                   \E i \in Parts(c, q) : First(q[i]) <= x /\ x <= Last(q[i])

LEMMA InLineIff ==
    ASSUME NEW c, NEW q \in Seq(DataMsg), NEW n \in Nat, NEW sent \in Nat
    PROVE  InLine(c, q, n, sent) <=>
              n <= sent /\ Runs(c, q) /\ Ascend(c, q) /\ Cover(c, q, n, sent)
<1>. DEFINE U == UNION {First(q[i])..Last(q[i]) : i \in Parts(c, q)}
<1>1. \A i \in Parts(c, q) : First(q[i]) \in Int /\ Last(q[i]) \in Int
  <2>. TAKE i \in Parts(c, q)
  <2>1. First(q[i]) \in 1..Up /\ Last(q[i]) \in 1..Up
    BY PartFacts
  <2>. QED
    BY <2>1
<1>2. \A x : x \in U <=> x \in Int /\ \E i \in Parts(c, q) : First(q[i]) <= x /\ x <= Last(q[i])
  BY <1>1
<1>3. \A x : x \in (n + 1)..sent <=> x \in Int /\ n < x /\ x <= sent
  OBVIOUS
<1>4. U = (n + 1)..sent <=> Cover(c, q, n, sent)
  <2>. HIDE DEF U
  <2>1. ASSUME U = (n + 1)..sent PROVE Cover(c, q, n, sent)
    BY <1>2, <1>3, <2>1 DEF Cover
  <2>2. ASSUME Cover(c, q, n, sent) PROVE U = (n + 1)..sent
    <3>1. \A x : x \in U <=> x \in (n + 1)..sent
      BY <1>2, <1>3, <2>2 DEF Cover
    <3>. QED
      BY <3>1, Zenon
  <2>. QED
    BY <2>1, <2>2
<1>. QED
  BY <1>4 DEF InLine, Runs, Ascend

(* A queue with the parts of another, moved by d places and otherwise the   *)
(* same.                                                                    *)
SameParts(c, q, r, d) ==
    /\ \A i \in Int : i \in Parts(c, r) <=> i + d \in Parts(c, q)
    /\ \A i \in Parts(c, r) : r[i].data = q[i + d].data

LEMMA Moved ==
    ASSUME NEW c, NEW q \in Seq(DataMsg), NEW r \in Seq(DataMsg), NEW d \in Int,
           NEW n \in Nat, NEW sent \in Nat,
           SameParts(c, q, r, d), InLine(c, q, n, sent)
    PROVE  InLine(c, r, n, sent)
<1>1. n <= sent /\ Runs(c, q) /\ Ascend(c, q) /\ Cover(c, q, n, sent)
  BY InLineIff
<1>2. \A i \in Parts(c, q) : i \in Int
  BY DEF Parts
<1>3. \A i \in Parts(c, r) : /\ i \in Int /\ i + d \in Parts(c, q)
                             /\ First(r[i]) = First(q[i + d]) /\ Last(r[i]) = Last(q[i + d])
  <2>1. \A i \in Parts(c, r) : i \in Int
    BY DEF Parts
  <2>. QED
    BY <2>1 DEF SameParts, First, Last
<1>4. Runs(c, r)
  BY <1>1, <1>3 DEF Runs, SameParts
<1>5. Ascend(c, r)
  <2>. SUFFICES ASSUME NEW i \in Parts(c, r), NEW j \in Parts(c, r), i < j
                PROVE  Last(r[i]) < First(r[j])
    BY DEF Ascend
  <2>1. i + d < j + d
    BY <1>3
  <2>. QED
    BY <1>1, <1>3, <2>1 DEF Ascend
<1>6. Cover(c, r, n, sent)
  <2>. SUFFICES ASSUME NEW x \in Int
                PROVE  n < x /\ x <= sent <=>
                          \E i \in Parts(c, r) : First(r[i]) <= x /\ x <= Last(r[i])
    BY DEF Cover
  <2>1. ASSUME n < x, x <= sent
        PROVE  \E i \in Parts(c, r) : First(r[i]) <= x /\ x <= Last(r[i])
    <3>1. PICK k \in Parts(c, q) : First(q[k]) <= x /\ x <= Last(q[k])
      BY <1>1, <2>1 DEF Cover
    <3>2. k \in Int
      BY <1>2
    <3>3. k - d \in Int /\ (k - d) + d = k
      BY <3>2
    <3>4. k - d \in Parts(c, r)
      BY <3>3 DEF SameParts
    <3>. QED
      BY <1>3, <3>1, <3>3, <3>4
  <2>2. ASSUME NEW i \in Parts(c, r), First(r[i]) <= x, x <= Last(r[i])
        PROVE  n < x /\ x <= sent
    BY <1>1, <1>3, <2>2 DEF Cover
  <2>. QED
    BY <2>1, <2>2
<1>. QED
  BY <1>1, <1>4, <1>5, <1>6, InLineIff

(* A run of units has as many as its ends say. *)
LEMMA RunLength ==
    ASSUME NEW c, NEW q \in Seq(DataMsg), Runs(c, q), NEW i \in Parts(c, q)
    PROVE  /\ First(q[i]) <= Last(q[i])
           /\ Len(q[i].data) = Last(q[i]) - First(q[i]) + 1
<1>. DEFINE f == First(q[i])
            l == Last(q[i])
            m == Len(q[i].data)
<1>1. q[i].data \in Seq(1..Up) /\ m \in Nat \ {0} /\ f \in 1..Up /\ l \in 1..Up
  BY PartFacts
<1>2. q[i].data = Units(f, l)
  BY DEF Runs
<1>3. DOMAIN q[i].data = 1..m
  BY <1>1, LenProperties
<1>4. DOMAIN q[i].data = 1..(l - f + 1)
  BY <1>2 DEF Units
<1>. HIDE DEF f, l, m
<1>5. m \in 1..(l - f + 1)
  BY <1>1, <1>3, <1>4
<1>6. l - f + 1 \in 1..m
  BY <1>1, <1>3, <1>4, <1>5
<1>7. f <= l /\ m = l - f + 1
  BY <1>1, <1>5, <1>6
<1>. QED
  BY <1>7 DEF f, l, m

(* The first in line are the units right after n. *)
LEMMA FirstPart ==
    ASSUME NEW c, NEW q \in Seq(DataMsg), NEW n \in Nat, NEW sent \in Nat,
           InLine(c, q, n, sent), 1 \in Parts(c, q)
    PROVE  /\ First(q[1]) = n + 1 /\ Last(q[1]) = n + Len(q[1].data)
           /\ Len(q[1].data) \in Nat \ {0}
           /\ n + Len(q[1].data) <= sent
<1>1. n <= sent /\ Runs(c, q) /\ Ascend(c, q) /\ Cover(c, q, n, sent)
  BY InLineIff
<1>. DEFINE f == First(q[1])
            l == Last(q[1])
            m == Len(q[1].data)
<1>2. f \in 1..Up /\ l \in 1..Up /\ m \in Nat \ {0}
  BY PartFacts
<1>3. f <= l /\ m = l - f + 1
  BY <1>1, RunLength
<1>4. f \in Int /\ l \in Int
  BY <1>2
<1>5. n < f /\ f <= sent
  BY <1>1, <1>3, <1>4 DEF Cover
<1>6. l <= sent
  BY <1>1, <1>3, <1>4 DEF Cover
<1>7. f <= n + 1
  <2>1. n + 1 \in Int /\ n < n + 1 /\ n + 1 <= sent
    BY <1>4, <1>5
  <2>2. PICK i \in Parts(c, q) : First(q[i]) <= n + 1 /\ n + 1 <= Last(q[i])
    BY <1>1, <2>1 DEF Cover
  <2>3. i \in 1..Len(q) /\ First(q[i]) \in 1..Up /\ Last(q[i]) \in 1..Up
    BY PartFacts
  <2>4. CASE i = 1
    BY <2>2, <2>4
  <2>5. CASE 1 < i
    <3>1. l < First(q[i])
      BY <1>1, <2>5 DEF Ascend
    <3>. QED
      BY <1>3, <1>4, <1>5, <2>2, <2>3, <3>1
  <2>. QED
    BY <2>3, <2>4, <2>5
<1>. HIDE DEF f, l, m
<1>8. f = n + 1 /\ l = n + m /\ n + m <= sent
  BY <1>2, <1>3, <1>4, <1>5, <1>6, <1>7
<1>. QED
  BY <1>2, <1>8 DEF f, l, m

(* A message leaves the head of the queue: *)
LEMMA TailParts ==
    ASSUME NEW c, NEW q \in Seq(DataMsg), q # <<>>
    PROVE  /\ Tail(q) \in Seq(DataMsg)
           /\ \A i \in Parts(c, Tail(q)) : i \in Int /\ i >= 1 /\ Tail(q)[i] = q[i + 1]
           /\ \A i \in Int : i \in Parts(c, Tail(q)) <=> i >= 1 /\ i + 1 \in Parts(c, q)
<1>1. /\ Tail(q) \in Seq(DataMsg) /\ Len(q) \in Nat \ {0} /\ Len(Tail(q)) = Len(q) - 1
      /\ \A i \in 1..(Len(q) - 1) : Tail(q)[i] = q[i + 1]
  BY TailFacts
<1>. DEFINE r == Tail(q)
<1>2. \A i \in Int : i \in 1..Len(r) <=> i >= 1 /\ i + 1 \in 1..Len(q)
  BY <1>1
<1>3. \A i \in 1..Len(r) : r[i] = q[i + 1]
  BY <1>1
<1>. HIDE DEF r
<1>4. \A i \in Parts(c, r) : i \in Int /\ i >= 1 /\ r[i] = q[i + 1]
  BY <1>3 DEF Parts
<1>5. \A i \in Int : i \in Parts(c, r) <=> i >= 1 /\ i + 1 \in Parts(c, q)
  BY <1>2, <1>3 DEF Parts
<1>. QED
  BY <1>1, <1>4, <1>5 DEF r

(* one that is not an upload of c, *)
LEMMA LeavesOther ==
    ASSUME NEW c, NEW q \in Seq(DataMsg), NEW n \in Nat, NEW sent \in Nat,
           q # <<>>, InLine(c, q, n, sent), 1 \notin Parts(c, q)
    PROVE  InLine(c, Tail(q), n, sent)
<1>1. \A i \in Parts(c, q) : i \in Int /\ i >= 1
  BY DEF Parts
<1>2. \A i \in Int : i \in Parts(c, Tail(q)) <=> i + 1 \in Parts(c, q)
  BY <1>1, TailParts
<1>3. SameParts(c, q, Tail(q), 1)
  BY <1>2, TailParts DEF SameParts
<1>4. Tail(q) \in Seq(DataMsg) /\ 1 \in Int
  BY TailParts
<1>. QED
  BY <1>3, <1>4, Moved, Zenon

(* one that is, *)
LEMMA LeavesPart ==
    ASSUME NEW c, NEW q \in Seq(DataMsg), NEW n \in Nat, NEW sent \in Nat,
           q # <<>>, InLine(c, q, n, sent), 1 \in Parts(c, q)
    PROVE  InLine(c, Tail(q), n + Len(q[1].data), sent)
<1>. DEFINE r == Tail(q)
            m == Len(q[1].data)
<1>1. Runs(c, q) /\ Ascend(c, q) /\ Cover(c, q, n, sent)
  BY InLineIff
<1>2. Last(q[1]) = n + m /\ m \in Nat \ {0} /\ n + m <= sent
  BY FirstPart
<1>3. /\ r \in Seq(DataMsg)
      /\ \A i \in Parts(c, r) : i \in Int /\ i >= 1 /\ r[i] = q[i + 1]
      /\ \A i \in Int : i \in Parts(c, r) <=> i >= 1 /\ i + 1 \in Parts(c, q)
  BY TailParts
<1>. HIDE DEF r, m
<1>4. \A i \in Parts(c, r) : i \in Int /\ i >= 1 /\ r[i] = q[i + 1] /\ i + 1 \in Parts(c, q)
  BY <1>3
<1>5. Runs(c, r)
  BY <1>1, <1>4 DEF Runs
<1>6. Ascend(c, r)
  <2>. SUFFICES ASSUME NEW i \in Parts(c, r), NEW j \in Parts(c, r), i < j
                PROVE  Last(r[i]) < First(r[j])
    BY DEF Ascend
  <2>1. i + 1 < j + 1
    BY <1>4
  <2>. QED
    BY <1>1, <1>4, <2>1 DEF Ascend
<1>7. Cover(c, r, n + m, sent)
  <2>. SUFFICES ASSUME NEW x \in Int
                PROVE  n + m < x /\ x <= sent <=>
                          \E i \in Parts(c, r) : First(r[i]) <= x /\ x <= Last(r[i])
    BY DEF Cover
  <2>1. ASSUME n + m < x, x <= sent
        PROVE  \E i \in Parts(c, r) : First(r[i]) <= x /\ x <= Last(r[i])
    <3>0. n < x
      BY <1>2, <2>1
    <3>1. PICK k \in Parts(c, q) : First(q[k]) <= x /\ x <= Last(q[k])
      BY <1>1, <2>1, <3>0 DEF Cover
    <3>2. k \in Int /\ k >= 1
      BY DEF Parts
    <3>3. k # 1
      BY <1>2, <2>1, <3>1
    <3>4. k - 1 \in Int /\ k - 1 >= 1 /\ (k - 1) + 1 = k
      BY <3>2, <3>3
    <3>5. k - 1 \in Parts(c, r)
      BY <1>3, <3>4
    <3>6. r[k - 1] = q[k]
      BY <1>4, <3>4, <3>5
    <3>. QED
      BY <3>1, <3>5, <3>6
  <2>2. ASSUME NEW i \in Parts(c, r), First(r[i]) <= x, x <= Last(r[i])
        PROVE  n + m < x /\ x <= sent
    <3>1. i + 1 \in Parts(c, q) /\ r[i] = q[i + 1] /\ 1 < i + 1
      BY <1>4
    <3>2. x <= sent
      BY <1>1, <2>2, <3>1 DEF Cover
    <3>3. n + m < First(r[i])
      BY <1>1, <1>2, <3>1 DEF Ascend
    <3>4. First(q[i + 1]) \in 1..Up
      BY <3>1, PartFacts
    <3>5. First(r[i]) \in Int
      BY <3>1, <3>4
    <3>. QED
      BY <1>2, <2>2, <3>2, <3>3, <3>5
  <2>. QED
    BY <2>1, <2>2
<1>8. n + m \in Nat
  BY <1>2
<1>9. InLine(c, r, n + m, sent)
  BY <1>2, <1>3, <1>5, <1>6, <1>7, <1>8, InLineIff
<1>. QED
  BY <1>9 DEF r, m

(* What remains of a run of units when its first k have gone. *)
LEMMA UnitsRest ==
    ASSUME NEW n \in Nat, NEW m \in Nat, NEW k \in Nat, k < m
    PROVE  /\ SubSeq(Units(n + 1, n + m), k + 1, m) = Units(n + k + 1, n + m)
           /\ Len(SubSeq(Units(n + 1, n + m), k + 1, m)) = m - k
           /\ \A i \in 1..(m - k) : SubSeq(Units(n + 1, n + m), k + 1, m)[i] = n + k + i
<1>. DEFINE d == Units(n + 1, n + m)
            rest == SubSeq(d, k + 1, m)
<1>1. d \in Seq(Int) /\ Len(d) = m /\ \A i \in 1..m : d[i] = n + i
  <2>1. n + m - (n + 1) + 1 = m /\ \A i \in 1..m : (n + 1) + i - 1 = n + i
    OBVIOUS
  <2>2. \A i \in 1..m : Units(n + 1, n + m)[i] = n + i
    BY <2>1 DEF Units
  <2>3. d \in Seq(Int) /\ Len(d) = m
    BY <2>1 DEF Units
  <2>. QED
    BY <2>2, <2>3
<1>. HIDE DEF d
<1>2. rest \in Seq(Int) /\ Len(rest) = m - k /\ \A i \in 1..(m - k) : rest[i] = d[k + i]
  <2>1. k <= m /\ m <= Len(d)
    BY <1>1
  <2>. QED
    BY <1>1, <2>1, PieceFacts
<1>. HIDE DEF rest
<1>3. \A i \in 1..(m - k) : rest[i] = n + k + i
  <2>. TAKE i \in 1..(m - k)
  <2>1. k + i \in 1..m
    OBVIOUS
  <2>. QED
    BY <1>1, <1>2, <2>1
<1>4. rest = Units(n + k + 1, n + m)
  <2>. DEFINE a == n + k + 1
              b == n + m
  <2>1. a \in Nat /\ b \in Nat /\ 1 <= a /\ a <= b + 1 /\ m - k = b - a + 1
    OBVIOUS
  <2>2. \A i \in 1..(m - k) : n + k + i = a + i - 1
    OBVIOUS
  <2>. HIDE DEF a, b
  <2>3. \A i \in 1..Len(rest) : rest[i] = a + i - 1
    BY <1>2, <1>3, <2>2
  <2>4. Len(rest) = b - a + 1
    BY <1>2, <2>1
  <2>5. rest = Units(a, b)
    BY <1>2, <2>1, <2>3, <2>4, IsUnits
  <2>. QED
    BY <2>5 DEF a, b
<1>. QED
  BY <1>2, <1>3, <1>4 DEF rest, d

(* Two queues that differ in their first message only. *)
SameBehind(q, r) == Len(r) = Len(q) /\ \A i \in 2..Len(q) : r[i] = q[i]

(* or the first k units of one that is;                                     *)
LEMMA LeavesSome ==
    ASSUME NEW c, NEW q \in Seq(DataMsg), NEW r \in Seq(DataMsg), NEW n \in Nat,
           NEW sent \in Nat, NEW k \in Nat,
           InLine(c, q, n, sent), 1 \in Parts(c, q), k < Len(q[1].data),
           SameBehind(q, r),
           r[1].id = c, r[1].data = SubSeq(q[1].data, k + 1, Len(q[1].data))
    PROVE  InLine(c, r, n + k, sent)
<1>. DEFINE m == Len(q[1].data)
            d == q[1].data
            rest == SubSeq(d, k + 1, m)
<1>1. n <= sent /\ Runs(c, q) /\ Ascend(c, q) /\ Cover(c, q, n, sent)
  BY InLineIff
<1>2. /\ First(q[1]) = n + 1 /\ Last(q[1]) = n + m /\ m \in Nat \ {0} /\ n + m <= sent
  BY FirstPart
<1>3. 1 \in 1..Len(q) /\ d \in Seq(1..Up)
  BY PartFacts
<1>7. k < m
  OBVIOUS
<1>8. /\ rest = Units(n + k + 1, n + m) /\ Len(rest) = m - k
      /\ \A i \in 1..(m - k) : rest[i] = n + k + i
  <2>1. d = Units(n + 1, n + m)
    BY <1>1, <1>2 DEF Runs
  <2>. HIDE DEF d, m
  <2>2. m \in Nat
    BY <1>2
  <2>3. /\ SubSeq(Units(n + 1, n + m), k + 1, m) = Units(n + k + 1, n + m)
        /\ Len(SubSeq(Units(n + 1, n + m), k + 1, m)) = m - k
        /\ \A i \in 1..(m - k) : SubSeq(Units(n + 1, n + m), k + 1, m)[i] = n + k + i
    BY <1>7, <2>2, UnitsRest
  <2>. QED
    BY <2>1, <2>3 DEF rest
<1>9. r[1].data = rest
  OBVIOUS
<1>10. First(r[1]) = n + k + 1 /\ Last(r[1]) = n + m
  <2>. HIDE DEF rest, m, d
  <2>1. 1 \in 1..(m - k) /\ m - k \in 1..(m - k)
    BY <1>2, <1>7
  <2>2. rest[1] = n + k + 1 /\ rest[m - k] = n + k + (m - k)
    BY <1>8, <2>1
  <2>3. First(r[1]) = rest[1] /\ Last(r[1]) = rest[m - k]
    BY <1>8, <1>9 DEF First, Last
  <2>. QED
    BY <1>2, <2>2, <2>3
<1>11. rest # <<>>
  <2>. HIDE DEF rest, m, d
  <2>1. Len(rest) # 0
    BY <1>2, <1>7, <1>8
  <2>. QED
    BY <2>1
<1>12. \A i \in Int : i \in Parts(c, r) <=> i \in Parts(c, q)
  <2>. HIDE DEF rest
  <2>1. 1 \in Parts(c, r)
    BY <1>3, <1>9, <1>11 DEF Parts, SameBehind
  <2>2. ASSUME NEW i \in Int, i # 1 PROVE i \in Parts(c, r) <=> i \in Parts(c, q)
    <3>1. i \in 1..Len(q) => i \in 2..Len(q)
      BY <2>2
    <3>. QED
      BY <3>1 DEF Parts, SameBehind
  <2>. QED
    BY <2>1, <2>2
<1>13. \A i \in Parts(c, q) : i \in 1..Len(q) /\ (i # 1 => i > 1 /\ r[i] = q[i])
  BY DEF Parts, SameBehind
<1>14. \A i \in Parts(c, r) : i \in Parts(c, q)
  BY <1>12 DEF Parts
<1>. HIDE DEF rest, m, d
<1>15. Runs(c, r)
  <2>. SUFFICES ASSUME NEW i \in Parts(c, r) PROVE r[i].data = Units(First(r[i]), Last(r[i]))
    BY DEF Runs
  <2>1. CASE i = 1
    BY <1>8, <1>9, <1>10, <2>1
  <2>2. CASE i # 1
    BY <1>1, <1>13, <1>14, <2>2 DEF Runs
  <2>. QED
    BY <2>1, <2>2
<1>16. Ascend(c, r)
  <2>. SUFFICES ASSUME NEW i \in Parts(c, r), NEW j \in Parts(c, r), i < j
                PROVE  Last(r[i]) < First(r[j])
    BY DEF Ascend
  <2>1. i \in Parts(c, q) /\ j \in Parts(c, q) /\ i \in 1..Len(q) /\ j \in 1..Len(q) /\ j # 1
    BY <1>13, <1>14
  <2>2. Last(q[i]) < First(q[j]) /\ r[j] = q[j]
    BY <1>1, <1>13, <2>1 DEF Ascend
  <2>3. Last(r[i]) = Last(q[i])
    BY <1>2, <1>10, <1>13, <2>1
  <2>. QED
    BY <2>2, <2>3
<1>17. Cover(c, r, n + k, sent)
  <2>. SUFFICES ASSUME NEW x \in Int
                PROVE  n + k < x /\ x <= sent <=>
                          \E i \in Parts(c, r) : First(r[i]) <= x /\ x <= Last(r[i])
    BY DEF Cover
  <2>1. ASSUME n + k < x, x <= sent
        PROVE  \E i \in Parts(c, r) : First(r[i]) <= x /\ x <= Last(r[i])
    <3>1. n < x
      BY <2>1
    <3>2. PICK i \in Parts(c, q) : First(q[i]) <= x /\ x <= Last(q[i])
      BY <1>1, <2>1, <3>1 DEF Cover
    <3>3. i \in Parts(c, r)
      BY <1>12, <1>13
    <3>4. CASE i = 1
      <4>1. n + k + 1 <= x
        BY <2>1
      <4>. QED
        BY <1>2, <1>10, <3>2, <3>3, <3>4, <4>1
    <3>5. CASE i # 1
      BY <1>13, <3>2, <3>3, <3>5
    <3>. QED
      BY <3>4, <3>5
  <2>2. ASSUME NEW i \in Parts(c, r), First(r[i]) <= x, x <= Last(r[i])
        PROVE  n + k < x /\ x <= sent
    <3>1. CASE i = 1
      BY <1>2, <1>10, <2>2, <3>1
    <3>2. CASE i # 1
      <4>1. i \in Parts(c, q) /\ r[i] = q[i] /\ 1 < i
        BY <1>13, <1>14, <3>2
      <4>2. x <= sent
        BY <1>1, <2>2, <4>1 DEF Cover
      <4>3. n + m < First(q[i])
        BY <1>1, <1>2, <4>1 DEF Ascend
      <4>4. First(q[i]) \in 1..Up
        BY <4>1, PartFacts
      <4>. QED
        BY <1>2, <1>7, <2>2, <4>1, <4>2, <4>3, <4>4
    <3>. QED
      BY <3>1, <3>2
  <2>. QED
    BY <2>1, <2>2
<1>18. n + k \in Nat /\ n + k <= sent
  BY <1>2, <1>7
<1>. QED
  BY <1>15, <1>16, <1>17, <1>18, InLineIff

(* a message that is not an upload of c is replaced by another;             *)
LEMMA ReplacesOther ==
    ASSUME NEW c, NEW q \in Seq(DataMsg), NEW r \in Seq(DataMsg), NEW n \in Nat,
           NEW sent \in Nat, InLine(c, q, n, sent), SameBehind(q, r),
           1 \notin Parts(c, q), 1 \notin Parts(c, r)
    PROVE  InLine(c, r, n, sent)
<1>1. ASSUME NEW i \in Int PROVE i \in Parts(c, r) <=> i + 0 \in Parts(c, q)
  <2>1. CASE i = 1
    BY <2>1
  <2>2. CASE i # 1
    <3>1. i \in 1..Len(q) => i \in 2..Len(q)
      BY <2>2
    <3>. QED
      BY <3>1 DEF Parts, SameBehind
  <2>. QED
    BY <2>1, <2>2
<1>2. \A i \in Parts(c, r) : r[i].data = q[i + 0].data
  <2>. TAKE i \in Parts(c, r)
  <2>1. i \in 2..Len(q)
    BY DEF Parts, SameBehind
  <2>. QED
    BY <2>1 DEF SameBehind
<1>3. SameParts(c, q, r, 0) /\ 0 \in Int
  BY <1>1, <1>2 DEF SameParts
<1>. QED
  BY <1>3, Moved, Zenon

(* A message joins the end of the queue: one that is not an upload of c,    *)
LEMMA AddsOther ==
    ASSUME NEW c, NEW q \in Seq(DataMsg), NEW m \in DataMsg, m.id # c \/ m.data = <<>>
    PROVE  /\ Append(q, m) \in Seq(DataMsg)
           /\ SameParts(c, q, Append(q, m), 0)
           /\ Parts(c, Append(q, m)) = Parts(c, q)
<1>. DEFINE r == Append(q, m)
<1>1. /\ r \in Seq(DataMsg) /\ Len(r) = Len(q) + 1 /\ Len(q) \in Nat
      /\ \A i \in 1..(Len(q) + 1) : r[i] = IF i <= Len(q) THEN q[i] ELSE m
  BY AppendFacts, LenProperties
<1>. HIDE DEF r
<1>2. r[Len(q) + 1] = m
  BY <1>1
<1>3. \A i \in 1..Len(q) : i \in 1..Len(r) /\ r[i] = q[i]
  BY <1>1
<1>4. \A i \in Parts(c, r) : i \in 1..Len(q)
  BY <1>1, <1>2 DEF Parts
<1>5. Parts(c, r) = Parts(c, q)
  BY <1>3, <1>4 DEF Parts
<1>6. \A i \in Int : i \in Parts(c, r) <=> i + 0 \in Parts(c, q)
  BY <1>5
<1>7. \A i \in Parts(c, r) : r[i].data = q[i + 0].data
  BY <1>3, <1>4
<1>8. SameParts(c, q, r, 0)
  BY <1>6, <1>7 DEF SameParts
<1>. QED
  BY <1>1, <1>5, <1>8 DEF r

(* or the next units of c.                                                  *)
LEMMA AddsPart ==
    ASSUME NEW c \in Conns, NEW q \in Seq(DataMsg), NEW n \in Nat, NEW sent \in Nat,
           NEW k \in Nat \ {0}, sent + k <= Up, InLine(c, q, n, sent)
    PROVE  InLine(c, Append(q, TcpData(c, Units(sent + 1, sent + k))), n, sent + k)
<1>. DEFINE m == TcpData(c, Units(sent + 1, sent + k))
            r == Append(q, m)
            z == Len(q) + 1
<1>1. n <= sent /\ Runs(c, q) /\ Ascend(c, q) /\ Cover(c, q, n, sent)
  BY InLineIff
<1>2. /\ Units(sent + 1, sent + k) \in Seq(1..Up) /\ Len(Units(sent + 1, sent + k)) = k
      /\ Units(sent + 1, sent + k)[1] = sent + 1 /\ Units(sent + 1, sent + k)[k] = sent + k
  <2>1. sent + k - (sent + 1) + 1 = k /\ 1 \in 1..k /\ k \in 1..k
    OBVIOUS
  <2>2. \A i \in 1..k : (sent + 1) + i - 1 \in 1..Up
    BY NetStackAssumption
  <2>. QED
    BY <2>1, <2>2 DEF Units
<1>3. /\ m \in DataMsg /\ m.id = c /\ m.data # <<>> /\ First(m) = sent + 1
      /\ Last(m) = sent + k /\ m.data = Units(sent + 1, sent + k)
  <2>1. m.data = Units(sent + 1, sent + k) /\ m.id = c /\ m \in DataMsg
    BY <1>2 DEF TcpData, DataMsg
  <2>2. m.data # <<>>
    <3>1. Len(m.data) = k /\ Len(<<>>) = 0
      BY <1>2, <2>1
    <3>. QED
      BY <3>1
  <2>. QED
    BY <1>2, <2>1, <2>2 DEF First, Last
<1>. HIDE DEF m
<1>4. /\ r \in Seq(DataMsg) /\ Len(r) = z /\ Len(q) \in Nat /\ z \in Nat
      /\ \A i \in 1..z : r[i] = IF i <= Len(q) THEN q[i] ELSE m
  BY <1>3, AppendFacts, LenProperties
<1>5. r[z] = m /\ z > Len(q) /\ z \in 1..Len(r)
  BY <1>4
<1>6. \A i \in 1..Len(q) : i \in 1..Len(r) /\ r[i] = q[i]
  BY <1>4
<1>7. \A i \in 1..Len(r) : i \in 1..Len(q) \/ i = z
  BY <1>4
<1>. HIDE DEF r, z
<1>8. z \in Parts(c, r)
  BY <1>3, <1>5 DEF Parts
<1>9. \A i \in Parts(c, q) : i \in Parts(c, r) /\ r[i] = q[i] /\ i \in 1..Len(q)
  BY <1>6 DEF Parts
<1>10. \A i \in Parts(c, r) : i = z \/ i \in Parts(c, q)
  BY <1>6, <1>7 DEF Parts
<1>11. \A i \in Parts(c, q) : /\ First(q[i]) \in Int /\ Last(q[i]) \in Int
                              /\ First(q[i]) <= Last(q[i]) /\ Last(q[i]) <= sent
  <2>. TAKE i \in Parts(c, q)
  <2>1. First(q[i]) \in 1..Up /\ Last(q[i]) \in 1..Up
    BY PartFacts
  <2>2. First(q[i]) <= Last(q[i])
    BY <1>1, RunLength
  <2>3. Last(q[i]) \in Int /\ First(q[i]) \in Int /\ Last(q[i]) <= Last(q[i])
    BY <2>1
  <2>. QED
    BY <1>1, <2>2, <2>3 DEF Cover
<1>12. Runs(c, r)
  BY <1>1, <1>3, <1>5, <1>9, <1>10 DEF Runs
<1>13. Ascend(c, r)
  <2>. SUFFICES ASSUME NEW i \in Parts(c, r), NEW j \in Parts(c, r), i < j
                PROVE  Last(r[i]) < First(r[j])
    BY DEF Ascend
  <2>1. i # z
    <3>1. j \in Nat /\ j <= Len(r)
      BY <1>4 DEF Parts
    <3>. QED
      BY <1>4, <3>1
  <2>2. i \in Parts(c, q) /\ r[i] = q[i]
    BY <1>9, <1>10, <2>1
  <2>3. CASE j = z
    <3>1. Last(q[i]) \in Int /\ Last(q[i]) <= sent
      BY <1>11, <2>2
    <3>. QED
      BY <1>3, <1>5, <2>2, <2>3, <3>1
  <2>4. CASE j # z
    <3>1. j \in Parts(c, q) /\ r[j] = q[j]
      BY <1>9, <1>10, <2>4
    <3>. QED
      BY <1>1, <2>2, <3>1 DEF Ascend
  <2>. QED
    BY <2>3, <2>4
<1>14. Cover(c, r, n, sent + k)
  <2>. SUFFICES ASSUME NEW x \in Int
                PROVE  n < x /\ x <= sent + k <=>
                          \E i \in Parts(c, r) : First(r[i]) <= x /\ x <= Last(r[i])
    BY DEF Cover
  <2>1. CASE x <= sent
    <3>1. ASSUME n < x PROVE \E i \in Parts(c, r) : First(r[i]) <= x /\ x <= Last(r[i])
      <4>1. PICK i \in Parts(c, q) : First(q[i]) <= x /\ x <= Last(q[i])
        BY <1>1, <2>1, <3>1 DEF Cover
      <4>. QED
        BY <1>9, <4>1
    <3>2. ASSUME NEW i \in Parts(c, r), First(r[i]) <= x, x <= Last(r[i]) PROVE n < x
      <4>1. i # z
        BY <1>3, <1>5, <2>1, <3>2
      <4>2. i \in Parts(c, q) /\ r[i] = q[i]
        BY <1>9, <1>10, <4>1
      <4>. QED
        BY <1>1, <3>2, <4>2 DEF Cover
    <3>. QED
      BY <2>1, <3>1, <3>2
  <2>2. CASE x > sent
    <3>1. ASSUME x <= sent + k PROVE \E i \in Parts(c, r) : First(r[i]) <= x /\ x <= Last(r[i])
      <4>1. First(r[z]) <= x /\ x <= Last(r[z])
        BY <1>3, <1>5, <2>2, <3>1
      <4>. QED
        BY <1>8, <4>1
    <3>2. ASSUME NEW i \in Parts(c, r), First(r[i]) <= x, x <= Last(r[i]) PROVE x <= sent + k
      <4>1. CASE i = z
        BY <1>3, <1>5, <3>2, <4>1
      <4>2. CASE i # z
        <5>1. i \in Parts(c, q) /\ r[i] = q[i]
          BY <1>9, <1>10, <4>2
        <5>2. Last(q[i]) \in Int /\ Last(q[i]) <= sent
          BY <1>11, <5>1
        <5>. QED
          BY <3>2, <5>1, <5>2
      <4>. QED
        BY <4>1, <4>2
    <3>3. n < x
      BY <1>1, <2>2
    <3>. QED
      BY <3>1, <3>2, <3>3
  <2>. QED
    BY <2>1, <2>2
<1>15. n <= sent + k /\ sent + k \in Nat
  BY <1>1
<1>16. InLine(c, r, n, sent + k)
  BY <1>4, <1>12, <1>13, <1>14, <1>15, InLineIff
<1>. QED
  BY <1>16 DEF r, m

(* A connection with nothing in the queue. *)
LEMMA NoneInLine ==
    ASSUME NEW c, NEW q \in Seq(DataMsg), NEW n \in Nat, Parts(c, q) = {}
    PROVE  InLine(c, q, n, n)
<1>1. Runs(c, q) /\ Ascend(c, q)
  BY DEF Runs, Ascend
<1>2. Cover(c, q, n, n)
  BY DEF Cover
<1>. QED
  BY <1>1, <1>2, InLineIff

-----------------------------------------------------------------------------
(* The parts of the state                                                   *)

LEMMA Sizes ==
    /\ Up \in Nat /\ Down \in Nat /\ SendMax \in Nat \ {0} /\ MaxPending \in Nat \ {0}
    /\ TxBuf \in Nat \ {0} /\ RxBuf \in Nat \ {0} /\ AppQueue \in Nat \ {0}
    /\ MaxRecvChunks \in Nat \ {0}
BY NetStackAssumption

LEMMA Messages ==
    ASSUME NEW c \in Conns
    PROVE  /\ TcpClose(c) \in DataMsg /\ TcpClose(c).id = c /\ TcpClose(c).close
           /\ TcpClose(c).data = <<>>
           /\ \A sent \in Nat, k \in Nat \ {0} : sent + k <= Up =>
                 /\ TcpData(c, Units(sent + 1, sent + k)) \in DataMsg
                 /\ TcpData(c, Units(sent + 1, sent + k)).id = c
                 /\ ~TcpData(c, Units(sent + 1, sent + k)).close
<1>1. TcpClose(c) \in DataMsg /\ TcpClose(c).id = c /\ TcpClose(c).close /\ TcpClose(c).data = <<>>
  BY DEF TcpClose, DataMsg
<1>2. ASSUME NEW sent \in Nat, NEW k \in Nat \ {0}, sent + k <= Up
      PROVE  Units(sent + 1, sent + k) \in Seq(1..Up)
  <2>1. sent + k - (sent + 1) + 1 = k
    OBVIOUS
  <2>2. \A i \in 1..k : (sent + 1) + i - 1 \in 1..Up
    BY <1>2, Sizes
  <2>. QED
    BY <2>1, <2>2 DEF Units
<1>3. \A data \in Seq(1..Up) : /\ TcpData(c, data) \in DataMsg /\ TcpData(c, data).id = c
                               /\ ~TcpData(c, data).close
  BY DEF TcpData, DataMsg
<1>. QED
  BY <1>1, <1>2, <1>3

(* The records of one connection, and their updates. *)
LEMMA Records ==
    ASSUME TypeOK, NEW c \in Conns
    PROVE  conn[c] \in TcpState /\ sock[c] \in Socket /\ app[c] \in AppTask /\ far[c] \in FarEnd
BY DEF TypeOK

LEMMA RecordUpdates ==
    ASSUME TypeOK, NEW c \in Conns
    PROVE  /\ \A s \in TcpStates : [sock[c] EXCEPT !.state = s] \in Socket
           /\ \A x \in 0..Down : [far[c] EXCEPT !.sent = x] \in FarEnd
           /\ [far[c] EXCEPT !.fin = TRUE] \in FarEnd /\ [far[c] EXCEPT !.reset = TRUE] \in FarEnd
           /\ \A g \in Seq(1..Up) : [far[c] EXCEPT !.got = g] \in FarEnd
           /\ [app[c] EXCEPT !.st = "opening"] \in AppTask
           /\ [app[c] EXCEPT !.st = "open"] \in AppTask
           /\ [app[c] EXCEPT !.st = "failed"] \in AppTask
           /\ \A b, d \in BOOLEAN : [app[c] EXCEPT !.st = "abandoned", !.tx = b, !.rx = d] \in AppTask
           /\ \A b, d \in BOOLEAN : [app[c] EXCEPT !.rx = b, !.tx = d] \in AppTask
           /\ \A x \in 0..Up : [app[c] EXCEPT !.sent = x] \in AppTask
           /\ [app[c] EXCEPT !.closed = TRUE] \in AppTask
           /\ [app[c] EXCEPT !.tx = FALSE] \in AppTask /\ [app[c] EXCEPT !.rx = FALSE] \in AppTask
           /\ \A g \in Seq(1..Down) : [app[c] EXCEPT !.got = g] \in AppTask
           /\ [conn[c] EXCEPT !.st = "gone"] \in TcpState /\ [conn[c] EXCEPT !.late = TRUE] \in TcpState
           /\ [conn[c] EXCEPT !.orphan = "elapsed"] \in TcpState
           /\ \A b \in BOOLEAN : [conn[c] EXCEPT !.half = b] \in TcpState
<1>1. sock[c] \in Socket /\ far[c] \in FarEnd
  BY Records
<1>2. app[c] \in AppTask
  BY Records
<1>3. conn[c] \in TcpState
  BY Records
<1>4. /\ \A s \in TcpStates : [sock[c] EXCEPT !.state = s] \in Socket
      /\ \A x \in 0..Down : [far[c] EXCEPT !.sent = x] \in FarEnd
      /\ [far[c] EXCEPT !.fin = TRUE] \in FarEnd /\ [far[c] EXCEPT !.reset = TRUE] \in FarEnd
      /\ \A g \in Seq(1..Up) : [far[c] EXCEPT !.got = g] \in FarEnd
  BY <1>1 DEF Socket, FarEnd
<1>5. /\ [app[c] EXCEPT !.st = "opening"] \in AppTask
      /\ [app[c] EXCEPT !.st = "open"] \in AppTask
      /\ [app[c] EXCEPT !.st = "failed"] \in AppTask
      /\ \A x \in 0..Up : [app[c] EXCEPT !.sent = x] \in AppTask
      /\ [app[c] EXCEPT !.closed = TRUE] \in AppTask
      /\ [app[c] EXCEPT !.tx = FALSE] \in AppTask /\ [app[c] EXCEPT !.rx = FALSE] \in AppTask
      /\ \A g \in Seq(1..Down) : [app[c] EXCEPT !.got = g] \in AppTask
  BY <1>2 DEF AppTask
<1>6. \A b, d \in BOOLEAN : [app[c] EXCEPT !.st = "abandoned", !.tx = b, !.rx = d] \in AppTask
  BY <1>2 DEF AppTask
<1>7. \A b, d \in BOOLEAN : [app[c] EXCEPT !.rx = b, !.tx = d] \in AppTask
  BY <1>2 DEF AppTask
<1>8. /\ [conn[c] EXCEPT !.st = "gone"] \in TcpState /\ [conn[c] EXCEPT !.late = TRUE] \in TcpState
      /\ [conn[c] EXCEPT !.orphan = "elapsed"] \in TcpState
      /\ \A b \in BOOLEAN : [conn[c] EXCEPT !.half = b] \in TcpState
  BY <1>3 DEF TcpState
<1>. QED
  BY <1>4, <1>5, <1>6, <1>7, <1>8

(* The sequences of one connection. *)
LEMMA Typed ==
    ASSUME TypeOK, NEW c \in Conns
    PROVE  /\ pending[c] \in Seq(1..Up) /\ Len(pending[c]) \in Nat /\ Len(pending[c]) <= MaxPending
           /\ txbuf[c] \in Seq(1..Up) /\ Len(txbuf[c]) \in Nat /\ Len(txbuf[c]) <= TxBuf
           /\ rxbuf[c] \in Seq(1..Down) /\ Len(rxbuf[c]) \in Nat /\ Len(rxbuf[c]) <= RxBuf
           /\ toApp[c] \in Seq(1..Down) /\ Len(toApp[c]) \in Nat /\ Len(toApp[c]) <= AppQueue
           /\ app[c].got \in Seq(1..Down) /\ app[c].sent \in 0..Up /\ app[c].sent \in Nat
           /\ far[c].got \in Seq(1..Up) /\ far[c].sent \in 0..Down /\ far[c].sent \in Nat
<1>0. /\ app[c].got \in Seq(1..Down) /\ app[c].sent \in 0..Up
      /\ far[c].got \in Seq(1..Up) /\ far[c].sent \in 0..Down
  BY Records DEF AppTask, FarEnd
<1>1. /\ pending[c] \in Seq(1..Up) /\ txbuf[c] \in Seq(1..Up)
      /\ rxbuf[c] \in Seq(1..Down) /\ toApp[c] \in Seq(1..Down)
      /\ Len(pending[c]) <= MaxPending /\ Len(txbuf[c]) <= TxBuf
      /\ Len(rxbuf[c]) <= RxBuf /\ Len(toApp[c]) <= AppQueue
  BY DEF TypeOK
<1>2. /\ Len(pending[c]) \in Nat /\ Len(txbuf[c]) \in Nat
      /\ Len(rxbuf[c]) \in Nat /\ Len(toApp[c]) \in Nat
  BY <1>1, LenProperties
<1>3. \A n \in Nat : \A x \in 0..n : x \in Nat
  OBVIOUS
<1>4. app[c].sent \in Nat /\ far[c].sent \in Nat
  BY <1>0, <1>3, Sizes
<1>. QED
  BY <1>0, <1>1, <1>2, <1>4

LEMMA LeastFacts ==
    ASSUME NEW a \in Nat, NEW b \in Nat
    PROVE  /\ Least(a, b) \in Nat /\ Least(a, b) <= a /\ Least(a, b) <= b
           /\ Least(a, b) < b => Least(a, b) = a
BY DEF Least

(* What try_handle_data takes and what it pushes back. *)
LEMMA TakenFacts ==
    ASSUME TypeOK, NEW m \in DataMsg
    PROVE  /\ m.id \in Conns /\ m.data \in Seq(1..Up)
           /\ Taken(m) \in Nat /\ Taken(m) <= Len(m.data)
           /\ SubSeq(m.data, 1, Taken(m)) \in Seq(1..Up)
           /\ Len(SubSeq(m.data, 1, Taken(m))) = Taken(m)
           /\ \A i \in 1..Taken(m) : SubSeq(m.data, 1, Taken(m))[i] = m.data[i]
           /\ Len(pending[m.id]) + Taken(m) <= MaxPending
<1>1. m.id \in Conns /\ m.data \in Seq(1..Up) /\ Len(m.data) \in Nat
  BY LenProperties DEF DataMsg
<1>2. Len(pending[m.id]) \in Nat /\ Len(pending[m.id]) <= MaxPending /\ MaxPending \in Nat
  BY <1>1, Sizes, Typed
<1>3. Taken(m) \in Nat /\ Taken(m) <= Len(m.data) /\ Len(pending[m.id]) + Taken(m) <= MaxPending
  <2>1. Space(m.id) \in Nat /\ Len(pending[m.id]) + Space(m.id) = MaxPending
    BY <1>2 DEF Space
  <2>2. CASE m.id \in Live /\ ~m.close
    <3>1. Taken(m) = Least(Space(m.id), Len(m.data))
      BY <2>2 DEF Taken
    <3>2. /\ Taken(m) \in Nat /\ Taken(m) <= Len(m.data) /\ Taken(m) <= Space(m.id)
      BY <1>1, <2>1, <3>1, LeastFacts
    <3>. QED
      BY <1>2, <2>1, <3>2
  <2>3. CASE ~(m.id \in Live /\ ~m.close)
    <3>1. Taken(m) = 0
      BY <2>3 DEF Taken
    <3>. QED
      BY <1>1, <1>2, <3>1
  <2>. QED
    BY <2>2, <2>3
<1>. DEFINE t == Taken(m)
<1>. HIDE DEF t
<1>4. t \in Nat /\ t <= Len(m.data) /\ 0 \in Nat /\ 0 <= t
  BY <1>3 DEF t
<1>5. /\ SubSeq(m.data, 0 + 1, t) \in Seq(1..Up) /\ Len(SubSeq(m.data, 0 + 1, t)) = t - 0
      /\ \A i \in 1..(t - 0) : SubSeq(m.data, 0 + 1, t)[i] = m.data[0 + i]
  BY <1>1, <1>4, PieceFacts
<1>6. /\ SubSeq(m.data, 1, t) \in Seq(1..Up) /\ Len(SubSeq(m.data, 1, t)) = t
      /\ \A i \in 1..t : SubSeq(m.data, 1, t)[i] = m.data[i]
  BY <1>4, <1>5
<1>. QED
  BY <1>1, <1>3, <1>6 DEF t

Rest(m) == TcpData(m.id, SubSeq(m.data, Taken(m) + 1, Len(m.data)))

LEMMA PushedBackFacts ==
    ASSUME TypeOK, NEW m \in DataMsg
    PROVE  /\ PushedBack(m) = IF m.id \in Live /\ Taken(m) < Len(m.data) THEN <<Rest(m)>> ELSE <<>>
           /\ Rest(m) \in DataMsg /\ Rest(m).id = m.id /\ ~Rest(m).close
           /\ Rest(m).data = SubSeq(m.data, Taken(m) + 1, Len(m.data))
           /\ PushedBack(m) \in Seq(DataMsg) /\ Len(PushedBack(m)) <= 1
           /\ m.id \in Live /\ Taken(m) < Len(m.data) /\ ~m.close =>
                 Taken(m) = Space(m.id)
<1>1. /\ m.id \in Conns /\ m.data \in Seq(1..Up) /\ Len(m.data) \in Nat
      /\ Taken(m) \in Nat /\ Taken(m) <= Len(m.data)
  BY TakenFacts, LenProperties
<1>2. SubSeq(m.data, Taken(m) + 1, Len(m.data)) \in Seq(1..Up)
  <2>1. Len(m.data) <= Len(m.data)
    BY <1>1
  <2>. QED
    BY <1>1, <2>1, PieceFacts
<1>3. /\ Rest(m) \in DataMsg /\ Rest(m).id = m.id /\ ~Rest(m).close
      /\ Rest(m).data = SubSeq(m.data, Taken(m) + 1, Len(m.data))
  BY <1>1, <1>2 DEF Rest, TcpData, DataMsg
<1>4. PushedBack(m) = IF m.id \in Live /\ Taken(m) < Len(m.data) THEN <<Rest(m)>> ELSE <<>>
  BY DEF PushedBack, Rest
<1>5. /\ <<Rest(m)>> \in Seq(DataMsg) /\ Len(<<Rest(m)>>) = 1
      /\ <<>> \in Seq(DataMsg) /\ Len(<<>>) = 0
  BY <1>3, EmptySeq
<1>6. PushedBack(m) \in Seq(DataMsg) /\ Len(PushedBack(m)) <= 1
  BY <1>4, <1>5
<1>7. m.id \in Live /\ Taken(m) < Len(m.data) /\ ~m.close => Taken(m) = Space(m.id)
  <2>1. Space(m.id) \in Nat
    BY <1>1, Sizes, Typed DEF Space
  <2>. QED
    BY <1>1, <2>1, LeastFacts DEF Taken
<1>. QED
  BY <1>3, <1>4, <1>6, <1>7

(* The deferred queue and data_in, as one queue: a message joins it at the  *)
(* end,                                                                     *)
LEMMA QueueAdds ==
    ASSUME NEW d \in Seq(DataMsg), NEW e \in Seq(DataMsg), NEW m \in DataMsg
    PROVE  /\ d \o Append(e, m) = Append(d \o e, m) /\ d \o e \in Seq(DataMsg)
<1>1. Append(e, m) = e \o <<m>> /\ <<m>> \in Seq(DataMsg)
  BY AppendIsConcat
<1>2. d \o e \in Seq(DataMsg)
  BY ConcatProperties
<1>3. Append(d \o e, m) = (d \o e) \o <<m>>
  BY <1>2, AppendIsConcat
<1>4. (d \o e) \o <<m>> = d \o (e \o <<m>>)
  BY <1>1, ConcatAssociative
<1>. QED
  BY <1>1, <1>2, <1>3, <1>4

(* and leaves it, or is replaced, at its head.                              *)
LEMMA QueueTakes ==
    ASSUME NEW d \in Seq(DataMsg), NEW e \in Seq(DataMsg), d # <<>>,
           NEW b \in Seq(DataMsg)
    PROVE  /\ d \o e # <<>> /\ Head(d \o e) = Head(d)
           /\ (b \o Tail(d)) \o e = b \o Tail(d \o e)
<1>1. Head(d) \in DataMsg /\ Tail(d) \in Seq(DataMsg) /\ d = <<Head(d)>> \o Tail(d)
  <2>1. d = Append(<<>>, Head(d)) \o Tail(d)
    BY HeadTailProperties
  <2>2. Append(<<>>, Head(d)) = <<Head(d)>>
    OBVIOUS
  <2>. QED
    BY <2>1, <2>2, HeadTailProperties
<1>. DEFINE h == <<Head(d)>>
            t == Tail(d)
<1>2. h \in Seq(DataMsg) /\ t \in Seq(DataMsg)
  BY <1>1
<1>3. d \o e = h \o (t \o e)
  BY <1>1, <1>2, ConcatAssociative
<1>4. t \o e \in Seq(DataMsg)
  BY <1>2, ConcatProperties
<1>5. Head(h \o (t \o e)) = Head(d) /\ Tail(h \o (t \o e)) = t \o e /\ h \o (t \o e) # <<>>
  <2>. HIDE DEF t
  <2>. DEFINE u == t \o e
  <2>1. u \in Seq(DataMsg)
    BY <1>4
  <2>. HIDE DEF u
  <2>2. Head(<<Head(d)>> \o u) = Head(d) /\ Tail(<<Head(d)>> \o u) = u /\ <<Head(d)>> \o u # <<>>
    BY <1>1, <2>1
  <2>. QED
    BY <2>2 DEF h, u
<1>6. (b \o t) \o e = b \o (t \o e)
  BY <1>2, ConcatAssociative
<1>. QED
  BY <1>3, <1>5, <1>6

-----------------------------------------------------------------------------
(* Types                                                                    *)

LEMMA TypeInit == Init => TypeOK
<1>. SUFFICES ASSUME Init PROVE TypeOK
  OBVIOUS
<1>1. <<>> \in Seq(Conns) /\ <<>> \in Seq(DataMsg) /\ <<>> \in Seq(1..Up) /\ <<>> \in Seq(1..Down)
  BY EmptySeq
<1>2. Len(<<>>) = 0 /\ "Closed" \in TcpStates
  BY DEF TcpStates
<1>. QED
  <2>1. /\ NoConn \in TcpState /\ [state |-> "Closed", rst |-> FALSE] \in Socket
        /\ [sent |-> 0, fin |-> FALSE, reset |-> FALSE, got |-> <<>>] \in FarEnd
    <3>1. NoConn \in TcpState
      BY DEF NoConn, NewConn, TcpState
    <3>2. [state |-> "Closed", rst |-> FALSE] \in Socket
      BY <1>2 DEF Socket
    <3>3. [sent |-> 0, fin |-> FALSE, reset |-> FALSE, got |-> <<>>] \in FarEnd
      BY <1>1, Sizes DEF FarEnd
    <3>. QED
      BY <3>1, <3>2, <3>3
  <2>2. [st |-> "idle", tx |-> TRUE, rx |-> TRUE, closed |-> FALSE, sent |-> 0, got |-> <<>>]
            \in AppTask
    BY <1>1, Sizes DEF AppTask
  <2>. QED
    BY <1>1, <1>2, <2>1, <2>2, Sizes DEF Init, TypeOK, Answers

LEMMA TypeFar ==
    ASSUME TypeOK, NEW c \in Conns, Far(c)
    PROVE  TypeOK'
<1>0. Len(rxbuf[c]) \in Nat /\ far[c].sent \in Nat /\ Down \in Nat
  BY Typed, Sizes
<1>1. CASE SynAck(c)
  BY <1>1, RecordUpdates DEF SynAck, TypeOK, TcpStates, stackVars, tableVars
<1>2. CASE FarData(c)
  <2>1. far[c].sent + 1 \in 1..Down /\ rxbuf[c] \in Seq(1..Down)
    BY <1>0, <1>2, Typed DEF FarData
  <2>2. /\ Append(rxbuf[c], far[c].sent + 1) \in Seq(1..Down)
        /\ Len(Append(rxbuf[c], far[c].sent + 1)) <= RxBuf
    <3>1. /\ Append(rxbuf[c], far[c].sent + 1) \in Seq(1..Down)
          /\ Len(Append(rxbuf[c], far[c].sent + 1)) = Len(rxbuf[c]) + 1
      BY <2>1, AppendFacts
    <3>. QED
      BY <1>0, <1>2, <3>1, Sizes DEF FarData
  <2>3. far[c].sent + 1 \in 0..Down
    BY <2>1
  <2>. QED
    BY <1>2, <2>2, <2>3, RecordUpdates DEF FarData, TypeOK, stackVars, tableVars
<1>3. CASE FarFin(c)
  BY <1>3, RecordUpdates DEF FarFin, TypeOK, TcpStates, stackVars, tableVars, Receiving
<1>4. CASE FarAck(c)
  <2>1. txbuf[c] \in Seq(1..Up) /\ txbuf[c] # <<>> /\ far[c].got \in Seq(1..Up)
    BY <1>4, Typed DEF FarAck
  <2>2. /\ Tail(txbuf[c]) \in Seq(1..Up) /\ Len(Tail(txbuf[c])) <= TxBuf
        /\ Head(txbuf[c]) \in 1..Up
    <3>1. Len(txbuf[c]) <= TxBuf /\ TxBuf \in Nat
      BY Typed, Sizes
    <3>. QED
      BY <2>1, <3>1, TailFits
  <2>3. Append(far[c].got, Head(txbuf[c])) \in Seq(1..Up)
    BY <2>1, <2>2, AppendFacts
  <2>. QED
    BY <1>4, <2>2, <2>3, RecordUpdates DEF FarAck, TypeOK, stackVars, tableVars
<1>5. CASE FarAckFin(c)
  BY <1>5, RecordUpdates DEF FarAckFin, TypeOK, TcpStates, stackVars, tableVars
<1>6. CASE SocketDies(c)
  <2>1. "Closed" \in TcpStates
    BY DEF TcpStates
  <2>. QED
    BY <1>6, <2>1, RecordUpdates DEF SocketDies, TypeOK, stackVars, tableVars
<1>. QED
  BY <1>1, <1>2, <1>3, <1>4, <1>5, <1>6 DEF Far

LEMMA TrySendCloseFacts ==
    ASSUME TypeOK, NEW c \in Conns
    PROVE  /\ TrySendClose(c) \in Seq(DataMsg) /\ Len(TrySendClose(c)) <= AppQueue
           /\ TrySendClose(c) \in {dataIn, Append(dataIn, TcpClose(c))}
<1>1. dataIn \in Seq(DataMsg) /\ Len(dataIn) <= AppQueue /\ TcpClose(c) \in DataMsg
  BY Messages DEF TypeOK
<1>2. /\ Append(dataIn, TcpClose(c)) \in Seq(DataMsg)
      /\ Len(Append(dataIn, TcpClose(c))) = Len(dataIn) + 1 /\ Len(dataIn) \in Nat
  BY <1>1, AppendFacts, LenProperties
<1>. QED
  BY <1>1, <1>2, Sizes DEF TrySendClose

LEMMA TypeApp ==
    ASSUME TypeOK, NEW c \in Conns, App(c)
    PROVE  TypeOK'
<1>0. app[c].sent \in Nat /\ Up \in Nat /\ SendMax \in Nat
  BY Typed, Sizes
<1>1. CASE AppOpen(c)
  <2>1. cmds' \in Seq(Conns)
    BY <1>1, AppendFacts DEF AppOpen, TypeOK
  <2>. QED
    BY <1>1, <2>1, RecordUpdates DEF AppOpen, TypeOK, tableVars, sockVars
<1>2. CASE AppOpened(c)
  BY <1>2, RecordUpdates DEF AppOpened, TypeOK, stackVars, tableVars, sockVars
<1>3. CASE AppAbandon(c)
  BY <1>3, TrySendCloseFacts, RecordUpdates DEF AppAbandon, TypeOK, tableVars, sockVars
<1>4. CASE AppSend(c)
  <2>1. PICK n \in 1..SendMax :
           /\ app[c].sent + n <= Up
           /\ dataIn' = Append(dataIn, TcpData(c, Units(app[c].sent + 1, app[c].sent + n)))
           /\ app' = [app EXCEPT ![c].sent = @ + n]
    BY <1>4 DEF AppSend
  <2>2. n \in Nat \ {0} /\ app[c].sent + n \in 0..Up
    BY <1>0, <2>1
  <2>3. TcpData(c, Units(app[c].sent + 1, app[c].sent + n)) \in DataMsg
    BY <1>0, <2>1, <2>2, Messages
  <2>4. dataIn \in Seq(DataMsg) /\ Len(dataIn) < AppQueue /\ Len(dataIn) \in Nat
    BY <1>4, LenProperties DEF AppSend, TypeOK
  <2>5. dataIn' \in Seq(DataMsg) /\ Len(dataIn') <= AppQueue
    <3>1. dataIn' \in Seq(DataMsg) /\ Len(dataIn') = Len(dataIn) + 1
      BY <2>1, <2>3, <2>4, AppendFacts
    <3>. QED
      BY <2>4, <3>1, Sizes
  <2>. QED
    BY <1>4, <2>1, <2>2, <2>5, RecordUpdates DEF AppSend, TypeOK, tableVars, sockVars
<1>5. CASE AppClose(c)
  <2>1. dataIn' = TrySendClose(c)
    BY <1>5 DEF AppClose, TrySendClose
  <2>. QED
    BY <1>5, <2>1, TrySendCloseFacts, RecordUpdates DEF AppClose, TypeOK, tableVars, sockVars
<1>6. CASE AppDropSender(c)
  BY <1>6, TrySendCloseFacts, RecordUpdates DEF AppDropSender, TypeOK, tableVars, sockVars
<1>7. CASE AppDropReceiver(c)
  <2>1. <<>> \in Seq(1..Down) /\ Len(<<>>) <= AppQueue
    BY EmptySeq, Sizes
  <2>. QED
    BY <1>7, <2>1, RecordUpdates DEF AppDropReceiver, TypeOK, stackVars, tableVars, sockVars
<1>8. CASE AppRecv(c)
  <2>1. toApp[c] \in Seq(1..Down) /\ toApp[c] # <<>> /\ app[c].got \in Seq(1..Down)
    BY <1>8, Typed DEF AppRecv
  <2>2. /\ Tail(toApp[c]) \in Seq(1..Down) /\ Len(Tail(toApp[c])) <= AppQueue
        /\ Head(toApp[c]) \in 1..Down
    <3>1. Len(toApp[c]) <= AppQueue /\ AppQueue \in Nat
      BY Typed, Sizes
    <3>. QED
      BY <2>1, <3>1, TailFits
  <2>3. Append(app[c].got, Head(toApp[c])) \in Seq(1..Down)
    BY <2>1, <2>2, AppendFacts
  <2>. QED
    BY <1>8, <2>2, <2>3, RecordUpdates DEF AppRecv, TypeOK, stackVars, tableVars, sockVars
<1>. QED
  BY <1>1, <1>2, <1>3, <1>4, <1>5, <1>6, <1>7, <1>8 DEF App

(* The parts of ServiceEstablished, by name. *)
Unwanted(c) == ~conn[c].est /\ Abandoned(c)
AppGone(c) == Unwanted(c) \/ ~app[c].rx
PendLeft(c) == SubSeq(pending[c], Sendable(c) + 1, Len(pending[c]))
Handed(c) == IF AppGone(c) THEN 0 ELSE Deliverable(c)
Aborts(c) == AppGone(c) /\ AbortsOrphan(c)
State1(c) == HalfClose(c, PendLeft(c), sock[c].state)
State2(c) == IF AppGone(c) THEN CloseState(State1(c)) ELSE State1(c)
State3(c) == IF State2(c) = "CloseWait" THEN CloseState(State2(c)) ELSE State2(c)

SockAfter(c) == [state |-> IF Aborts(c) THEN "Closed" ELSE State3(c),
                 rst |-> sock[c].rst \/ (Aborts(c) /\ State1(c) # "Closed")]
ConnAfter(c) == [conn[c] EXCEPT !.est = TRUE,
                                !.orphan = IF AppGone(c) /\ @ = "no" THEN "set" ELSE @,
                                !.aborted = Aborts(c),
                                !.st = IF Removed(Aborts(c), State2(c)) THEN "gone" ELSE @]
AppAfter(c) == [app[c] EXCEPT !.rx = @ /\ ~Unwanted(c), !.tx = @ /\ ~Unwanted(c)]

LEMMA EstablishedParts ==
    ASSUME TypeOK, NEW c \in Conns, ServiceEstablished(c)
    PROVE  /\ phase = "service" /\ c \in todo /\ todo' = todo \ {c}
           /\ ~conn[c].aborted /\ (conn[c].est \/ Connected(sock[c].state))
           /\ answer' = [answer EXCEPT ![c] = IF conn[c].est THEN @ ELSE "ok"]
           /\ app' = [app EXCEPT ![c] = AppAfter(c)]
           /\ dataIn' = IF Unwanted(c) THEN TrySendClose(c) ELSE dataIn
           /\ txbuf' = [txbuf EXCEPT ![c] = @ \o SubSeq(pending[c], 1, Sendable(c))]
           /\ pending' = [pending EXCEPT ![c] =
                             IF ~Aborts(c) /\ State2(c) = "TimeWait" THEN <<>> ELSE PendLeft(c)]
           /\ toApp' = [toApp EXCEPT ![c] = @ \o SubSeq(rxbuf[c], 1, Handed(c))]
           /\ rxbuf' = [rxbuf EXCEPT ![c] = RxLeft(c, Handed(c))]
           /\ sock' = [sock EXCEPT ![c] = SockAfter(c)]
           /\ conn' = [conn EXCEPT ![c] = ConnAfter(c)]
           /\ UNCHANGED <<phase, cmds, deferred, far>>
<1>1. /\ phase = "service" /\ c \in todo /\ todo' = todo \ {c}
      /\ ~conn[c].aborted /\ (conn[c].est \/ Connected(sock[c].state))
      /\ answer' = [answer EXCEPT ![c] = IF conn[c].est THEN @ ELSE "ok"]
      /\ UNCHANGED <<phase, cmds, deferred, far>>
  BY DEF ServiceEstablished
<1>2. /\ dataIn' = IF Unwanted(c) THEN TrySendClose(c) ELSE dataIn
      /\ txbuf' = [txbuf EXCEPT ![c] = @ \o SubSeq(pending[c], 1, Sendable(c))]
  BY DEF ServiceEstablished, Unwanted
<1>3. app' = [app EXCEPT ![c].rx = @ /\ ~Unwanted(c), ![c].tx = @ /\ ~Unwanted(c)]
  BY DEF ServiceEstablished, Unwanted
<1>4. app' = [app EXCEPT ![c] = AppAfter(c)]
  <2>1. app \in [Conns -> AppTask] /\ app[c] \in AppTask
    BY DEF TypeOK
  <2>. QED
    BY <1>3, <2>1 DEF AppAfter, AppTask
<1>5. pending' = [pending EXCEPT ![c] =
                     IF ~Aborts(c) /\ State2(c) = "TimeWait" THEN <<>> ELSE PendLeft(c)]
  BY DEF ServiceEstablished, Unwanted, AppGone, PendLeft, Aborts, State1, State2
<1>6. toApp' = [toApp EXCEPT ![c] = @ \o SubSeq(rxbuf[c], 1, Handed(c))]
  BY DEF ServiceEstablished, Unwanted, AppGone, Handed
<1>7. rxbuf' = [rxbuf EXCEPT ![c] = RxLeft(c, Handed(c))]
  BY DEF ServiceEstablished, Unwanted, AppGone, Handed
<1>8. sock' = [sock EXCEPT ![c] = SockAfter(c)]
  BY DEF ServiceEstablished, Unwanted, AppGone, PendLeft, Aborts, State1, State2, State3, SockAfter
<1>9. conn' = [conn EXCEPT ![c] = ConnAfter(c)]
  <2>1. conn' = [conn EXCEPT ![c].est = TRUE,
                            ![c].orphan = IF AppGone(c) /\ @ = "no" THEN "set" ELSE @,
                            ![c].aborted = Aborts(c),
                            ![c].st = IF Removed(Aborts(c), State2(c)) THEN "gone" ELSE @]
    BY DEF ServiceEstablished, Unwanted, AppGone, PendLeft, Aborts, State1, State2
  <2>2. conn \in [Conns -> TcpState] /\ conn[c] \in TcpState
    BY DEF TypeOK
  <2>. QED
    BY <2>1, <2>2 DEF ConnAfter, TcpState
<1>. QED
  BY <1>1, <1>2, <1>4, <1>5, <1>6, <1>7, <1>8, <1>9

(* What moves in one pass fits where it goes. *)
LEMMA EstablishedFits ==
    ASSUME TypeOK, NEW c \in Conns
    PROVE  /\ Sendable(c) \in Nat /\ Sendable(c) <= Len(pending[c])
           /\ Len(txbuf[c]) + Sendable(c) <= TxBuf
           /\ Handed(c) \in Nat /\ Handed(c) <= Len(rxbuf[c])
           /\ Len(toApp[c]) + Handed(c) <= AppQueue
<1>1. /\ Len(txbuf[c]) \in Nat /\ Len(txbuf[c]) <= TxBuf /\ Len(pending[c]) \in Nat
      /\ Len(toApp[c]) \in Nat /\ Len(toApp[c]) <= AppQueue /\ Len(rxbuf[c]) \in Nat
  BY Typed
<1>2. TxBuf \in Nat /\ AppQueue \in Nat /\ MaxRecvChunks \in Nat
  BY Sizes
<1>3. TxBuf - Len(txbuf[c]) \in Nat /\ AppQueue - Len(toApp[c]) \in Nat
  BY <1>1, <1>2
<1>4. /\ Sendable(c) \in Nat /\ Sendable(c) <= Len(pending[c])
      /\ Len(txbuf[c]) + Sendable(c) <= TxBuf
  <2>1. CASE MaySend(sock[c].state)
    <3>1. Sendable(c) = Least(TxBuf - Len(txbuf[c]), Len(pending[c]))
      BY <2>1 DEF Sendable
    <3>2. /\ Sendable(c) \in Nat /\ Sendable(c) <= Len(pending[c])
          /\ Sendable(c) <= TxBuf - Len(txbuf[c])
      BY <1>1, <1>3, <3>1, LeastFacts
    <3>. QED
      BY <1>1, <1>2, <3>2
  <2>2. CASE ~MaySend(sock[c].state)
    <3>1. Sendable(c) = 0
      BY <2>2 DEF Sendable
    <3>. QED
      BY <1>1, <1>2, <3>1
  <2>. QED
    BY <2>1, <2>2
<1>5. /\ Handed(c) \in Nat /\ Handed(c) <= Len(rxbuf[c])
      /\ Len(toApp[c]) + Handed(c) <= AppQueue
  <2>1. CASE AppGone(c)
    <3>1. Handed(c) = 0
      BY <2>1 DEF Handed
    <3>. QED
      BY <1>1, <1>2, <3>1
  <2>2. CASE ~AppGone(c)
    <3>. DEFINE l == Least(AppQueue - Len(toApp[c]), Len(rxbuf[c]))
    <3>1. l \in Nat /\ l <= Len(rxbuf[c]) /\ l <= AppQueue - Len(toApp[c])
      BY <1>1, <1>3, LeastFacts
    <3>2. Handed(c) = Least(l, MaxRecvChunks)
      BY <2>2 DEF Handed, Deliverable
    <3>. HIDE DEF l
    <3>3. Handed(c) \in Nat /\ Handed(c) <= l
      BY <1>2, <3>1, <3>2, LeastFacts
    <3>. QED
      BY <1>1, <1>2, <3>1, <3>3
  <2>. QED
    BY <2>1, <2>2
<1>. QED
  BY <1>4, <1>5

LEMMA StatesTyped ==
    ASSUME TypeOK, NEW c \in Conns
    PROVE  /\ State1(c) \in TcpStates /\ State2(c) \in TcpStates /\ State3(c) \in TcpStates
           /\ SockAfter(c) \in Socket /\ ConnAfter(c) \in TcpState /\ AppAfter(c) \in AppTask
<1>1. \A s \in TcpStates : CloseState(s) \in TcpStates
  BY DEF TcpStates, CloseState
<1>2. sock[c].state \in TcpStates /\ sock[c].rst \in BOOLEAN
  BY Records DEF Socket
<1>3. State1(c) \in TcpStates /\ State2(c) \in TcpStates /\ State3(c) \in TcpStates
  BY <1>1, <1>2 DEF State1, State2, State3, HalfClose
<1>4. SockAfter(c) \in Socket
  BY <1>2, <1>3 DEF SockAfter, Socket, TcpStates
<1>5. Aborts(c) \in BOOLEAN /\ Removed(Aborts(c), State2(c)) \in BOOLEAN /\ Unwanted(c) \in BOOLEAN
  BY DEF Aborts, Removed, Unwanted, AppGone
<1>6. ConnAfter(c) \in TcpState
  BY <1>5, Records DEF ConnAfter, TcpState
<1>7. AppAfter(c) \in AppTask
  BY <1>5, Records DEF AppAfter, AppTask
<1>. QED
  BY <1>3, <1>4, <1>6, <1>7

LEMMA MovedFacts ==
    ASSUME NEW S, NEW t \in Seq(S), NEW u \in Seq(S), NEW k \in Nat, k <= Len(u)
    PROVE  /\ t \o SubSeq(u, 1, k) \in Seq(S) /\ Len(t \o SubSeq(u, 1, k)) = Len(t) + k
           /\ SubSeq(u, k + 1, Len(u)) \in Seq(S)
           /\ Len(SubSeq(u, k + 1, Len(u))) = Len(u) - k
<1>1. Len(t) \in Nat /\ Len(u) \in Nat /\ 0 \in Nat /\ 0 <= k
  BY LenProperties
<1>2. SubSeq(u, 0 + 1, k) \in Seq(S) /\ Len(SubSeq(u, 0 + 1, k)) = k - 0
  BY <1>1, PieceFacts
<1>3. SubSeq(u, 1, k) \in Seq(S) /\ Len(SubSeq(u, 1, k)) = k
  BY <1>2
<1>4. SubSeq(u, k + 1, Len(u)) \in Seq(S) /\ Len(SubSeq(u, k + 1, Len(u))) = Len(u) - k
  <2>1. Len(u) <= Len(u)
    BY <1>1
  <2>. QED
    BY <1>1, <2>1, PieceFacts
<1>. DEFINE p == SubSeq(u, 1, k)
<1>5. p \in Seq(S) /\ Len(p) = k
  BY <1>3
<1>. HIDE DEF p
<1>6. t \o p \in Seq(S) /\ Len(t \o p) = Len(t) + Len(p)
  BY <1>5, ConcatProperties
<1>. QED
  BY <1>4, <1>5, <1>6 DEF p

LEMMA TypeEstablished ==
    ASSUME TypeOK, NEW c \in Conns, ServiceEstablished(c)
    PROVE  TypeOK'
<1>1. /\ pending[c] \in Seq(1..Up) /\ txbuf[c] \in Seq(1..Up) /\ Len(pending[c]) \in Nat
      /\ rxbuf[c] \in Seq(1..Down) /\ toApp[c] \in Seq(1..Down) /\ Len(rxbuf[c]) \in Nat
      /\ Len(pending[c]) <= MaxPending /\ Len(rxbuf[c]) <= RxBuf
  BY Typed
<1>2. /\ Sendable(c) \in Nat /\ Sendable(c) <= Len(pending[c])
      /\ Len(txbuf[c]) + Sendable(c) <= TxBuf
      /\ Handed(c) \in Nat /\ Handed(c) <= Len(rxbuf[c])
      /\ Len(toApp[c]) + Handed(c) <= AppQueue
  BY EstablishedFits
<1>3. /\ txbuf[c] \o SubSeq(pending[c], 1, Sendable(c)) \in Seq(1..Up)
      /\ Len(txbuf[c] \o SubSeq(pending[c], 1, Sendable(c))) <= TxBuf
      /\ PendLeft(c) \in Seq(1..Up) /\ Len(PendLeft(c)) = Len(pending[c]) - Sendable(c)
  <2>. DEFINE k == Sendable(c)
  <2>1. k \in Nat /\ k <= Len(pending[c]) /\ pending[c] \in Seq(1..Up) /\ txbuf[c] \in Seq(1..Up)
    BY <1>1, <1>2
  <2>. HIDE DEF k
  <2>2. /\ txbuf[c] \o SubSeq(pending[c], 1, k) \in Seq(1..Up)
        /\ Len(txbuf[c] \o SubSeq(pending[c], 1, k)) = Len(txbuf[c]) + k
        /\ SubSeq(pending[c], k + 1, Len(pending[c])) \in Seq(1..Up)
    BY <2>1, MovedFacts, Zenon
  <2>3. Len(SubSeq(pending[c], k + 1, Len(pending[c]))) = Len(pending[c]) - k
    BY <2>1, MovedFacts
  <2>. QED
    BY <1>2, <2>2, <2>3 DEF PendLeft, k
<1>4. /\ toApp[c] \o SubSeq(rxbuf[c], 1, Handed(c)) \in Seq(1..Down)
      /\ Len(toApp[c] \o SubSeq(rxbuf[c], 1, Handed(c))) <= AppQueue
      /\ RxLeft(c, Handed(c)) \in Seq(1..Down)
      /\ Len(RxLeft(c, Handed(c))) = Len(rxbuf[c]) - Handed(c)
  <2>. DEFINE k == Handed(c)
  <2>1. k \in Nat /\ k <= Len(rxbuf[c]) /\ rxbuf[c] \in Seq(1..Down) /\ toApp[c] \in Seq(1..Down)
    BY <1>1, <1>2
  <2>. HIDE DEF k
  <2>2. /\ toApp[c] \o SubSeq(rxbuf[c], 1, k) \in Seq(1..Down)
        /\ Len(toApp[c] \o SubSeq(rxbuf[c], 1, k)) = Len(toApp[c]) + k
        /\ SubSeq(rxbuf[c], k + 1, Len(rxbuf[c])) \in Seq(1..Down)
    BY <2>1, MovedFacts, Zenon
  <2>3. Len(SubSeq(rxbuf[c], k + 1, Len(rxbuf[c]))) = Len(rxbuf[c]) - k
    BY <2>1, MovedFacts
  <2>. QED
    BY <1>2, <2>2, <2>3 DEF RxLeft, k
<1>5. Len(PendLeft(c)) <= MaxPending /\ Len(RxLeft(c, Handed(c))) <= RxBuf
  <2>1. Len(PendLeft(c)) <= MaxPending
    BY <1>1, <1>2, <1>3, Sizes
  <2>2. Len(RxLeft(c, Handed(c))) <= RxBuf
    BY <1>1, <1>2, <1>4, Sizes
  <2>. QED
    BY <2>1, <2>2
<1>6. <<>> \in Seq(1..Up) /\ Len(<<>>) <= MaxPending
  BY EmptySeq, Sizes
<1>7. /\ pending' \in [Conns -> Seq(1..Up)] /\ txbuf' \in [Conns -> Seq(1..Up)]
      /\ rxbuf' \in [Conns -> Seq(1..Down)] /\ toApp' \in [Conns -> Seq(1..Down)]
      /\ \A d \in Conns : /\ Len(pending'[d]) <= MaxPending
                          /\ Len(rxbuf'[d]) <= RxBuf /\ Len(txbuf'[d]) <= TxBuf
                          /\ Len(toApp'[d]) <= AppQueue
  <2>1. /\ pending' = [pending EXCEPT ![c] = pending'[c]] /\ txbuf' = [txbuf EXCEPT ![c] = txbuf'[c]]
        /\ rxbuf' = [rxbuf EXCEPT ![c] = rxbuf'[c]] /\ toApp' = [toApp EXCEPT ![c] = toApp'[c]]
    BY EstablishedParts DEF TypeOK
  <2>2. /\ pending'[c] \in Seq(1..Up) /\ Len(pending'[c]) <= MaxPending
        /\ txbuf'[c] \in Seq(1..Up) /\ Len(txbuf'[c]) <= TxBuf
    <3>1. pending'[c] \in {<<>>, PendLeft(c)}
      BY EstablishedParts DEF TypeOK
    <3>2. txbuf'[c] = txbuf[c] \o SubSeq(pending[c], 1, Sendable(c))
      BY EstablishedParts DEF TypeOK
    <3>. QED
      BY <1>3, <1>5, <1>6, <3>1, <3>2
  <2>3. /\ rxbuf'[c] \in Seq(1..Down) /\ Len(rxbuf'[c]) <= RxBuf
        /\ toApp'[c] \in Seq(1..Down) /\ Len(toApp'[c]) <= AppQueue
    <3>1. rxbuf'[c] = RxLeft(c, Handed(c)) /\ toApp'[c] = toApp[c] \o SubSeq(rxbuf[c], 1, Handed(c))
      BY EstablishedParts DEF TypeOK
    <3>. QED
      BY <1>4, <1>5, <3>1
  <2>. DEFINE p == pending'[c]
              t == txbuf'[c]
              r == rxbuf'[c]
              a == toApp'[c]
  <2>4. /\ p \in Seq(1..Up) /\ Len(p) <= MaxPending /\ t \in Seq(1..Up) /\ Len(t) <= TxBuf
        /\ r \in Seq(1..Down) /\ Len(r) <= RxBuf /\ a \in Seq(1..Down) /\ Len(a) <= AppQueue
        /\ pending' = [pending EXCEPT ![c] = p] /\ txbuf' = [txbuf EXCEPT ![c] = t]
        /\ rxbuf' = [rxbuf EXCEPT ![c] = r] /\ toApp' = [toApp EXCEPT ![c] = a]
    BY <2>1, <2>2, <2>3
  <2>. HIDE DEF p, t, r, a
  <2>. QED
    BY <2>4 DEF TypeOK
<1>8. SockAfter(c) \in Socket /\ ConnAfter(c) \in TcpState /\ AppAfter(c) \in AppTask
  BY StatesTyped
<1>9. /\ sock' \in [Conns -> Socket] /\ conn' \in [Conns -> TcpState] /\ app' \in [Conns -> AppTask]
      /\ answer' \in [Conns -> Answers] /\ todo' \subseteq Conns
  <2>1. sock' = [sock EXCEPT ![c] = SockAfter(c)] /\ sock \in [Conns -> Socket]
    BY EstablishedParts DEF TypeOK
  <2>2. conn' = [conn EXCEPT ![c] = ConnAfter(c)] /\ conn \in [Conns -> TcpState]
    BY EstablishedParts DEF TypeOK
  <2>3. app' = [app EXCEPT ![c] = AppAfter(c)] /\ app \in [Conns -> AppTask]
    BY EstablishedParts DEF TypeOK
  <2>4. /\ answer' = [answer EXCEPT ![c] = IF conn[c].est THEN @ ELSE "ok"]
        /\ answer \in [Conns -> Answers] /\ "ok" \in Answers
    BY EstablishedParts DEF TypeOK, Answers
  <2>5. todo' = todo \ {c} /\ todo \subseteq Conns
    BY EstablishedParts DEF TypeOK
  <2>. QED
    BY <1>8, <2>1, <2>2, <2>3, <2>4, <2>5
<1>10. dataIn' \in Seq(DataMsg) /\ Len(dataIn') <= AppQueue
  BY EstablishedParts, TrySendCloseFacts DEF TypeOK
<1>11. UNCHANGED <<phase, cmds, deferred, far>>
  BY EstablishedParts
<1>. QED
  BY <1>7, <1>9, <1>10, <1>11 DEF TypeOK

LEMMA TypeService ==
    ASSUME TypeOK, NEW c \in Conns, Service(c)
    PROVE  TypeOK'
<1>1. CASE ServiceAborted(c)
  BY <1>1, RecordUpdates DEF ServiceAborted, TypeOK, sockVars
<1>2. CASE ServiceConnecting(c)
  BY <1>2, RecordUpdates DEF ServiceConnecting, TypeOK, sockVars, Answers
<1>3. CASE ServiceEstablished(c)
  BY <1>3, TypeEstablished
<1>. QED
  BY <1>1, <1>2, <1>3 DEF Service

LEMMA TypeTime ==
    ASSUME TypeOK, NEW c \in Conns, ConnectDeadline(c) \/ LingerElapses(c)
    PROVE  TypeOK'
<1>1. CASE ConnectDeadline(c)
  BY <1>1, RecordUpdates DEF ConnectDeadline, TypeOK, stackVars, sockVars
<1>2. CASE LingerElapses(c)
  BY <1>2, RecordUpdates DEF LingerElapses, TypeOK, stackVars, sockVars
<1>. QED
  BY <1>1, <1>2

(* A step that handles the first message of the queues, whichever of the    *)
(* two it is in.                                                            *)
Handles ==
    /\ Queued # <<>>
    /\ TryHandleData(Head(Queued))
    /\ Queued' = PushedBack(Head(Queued)) \o Tail(Queued)
    /\ UNCHANGED <<todo, cmds, sockVars, toApp, answer, app, far>>

LEMMA HandlesWhen ==
    ASSUME TypeOK, TakeData \/ (RetryDeferred /\ deferred # <<>>)
    PROVE  Handles
<1>0. deferred \in Seq(DataMsg) /\ dataIn \in Seq(DataMsg)
  BY DEF TypeOK
<1>1. CASE TakeData
  <2>1. deferred = <<>> /\ dataIn # <<>> /\ deferred' = PushedBack(Head(dataIn)) /\ dataIn' = Tail(dataIn)
    BY <1>1 DEF TakeData
  <2>2. Queued = dataIn
    BY <1>0, <2>1, ConcatEmptySeq DEF Queued
  <2>3. Queued' = PushedBack(Head(Queued)) \o Tail(Queued)
    BY <2>1, <2>2 DEF Queued
  <2>. QED
    BY <1>1, <2>1, <2>2, <2>3 DEF TakeData, Handles
<1>2. CASE RetryDeferred /\ deferred # <<>>
  <2>1. /\ TryHandleData(Head(deferred)) /\ deferred' = PushedBack(Head(deferred)) \o Tail(deferred)
        /\ UNCHANGED <<todo, cmds, dataIn, sockVars, toApp, answer, app, far>>
    BY <1>2 DEF RetryDeferred
  <2>2. Head(deferred) \in DataMsg
    BY <1>0, <1>2, TailFacts
  <2>3. PushedBack(Head(deferred)) \in Seq(DataMsg)
    BY <2>2, PushedBackFacts
  <2>4. /\ Queued # <<>> /\ Head(Queued) = Head(deferred)
        /\ (PushedBack(Head(deferred)) \o Tail(deferred)) \o dataIn
              = PushedBack(Head(deferred)) \o Tail(Queued)
    BY <1>0, <1>2, <2>3, QueueTakes DEF Queued
  <2>5. Queued' = PushedBack(Head(Queued)) \o Tail(Queued)
    BY <2>1, <2>4 DEF Queued
  <2>. QED
    BY <2>1, <2>4, <2>5 DEF Handles
<1>. QED
  BY <1>1, <1>2

LEMMA HandledTypes ==
    ASSUME TypeOK, NEW m \in DataMsg, TryHandleData(m)
    PROVE  /\ pending' \in [Conns -> Seq(1..Up)] /\ conn' \in [Conns -> TcpState]
           /\ \A d \in Conns : Len(pending'[d]) <= MaxPending
<1>. DEFINE c == m.id
            t == SubSeq(m.data, 1, Taken(m))
            p == pending[c] \o t
<1>1. c \in Conns /\ t \in Seq(1..Up) /\ Len(t) = Taken(m) /\ Len(pending[c]) + Taken(m) <= MaxPending
  BY TakenFacts
<1>2. pending[c] \in Seq(1..Up)
  BY <1>1, Typed
<1>3. p \in Seq(1..Up) /\ Len(p) <= MaxPending
  <2>. HIDE DEF t
  <2>1. p \in Seq(1..Up) /\ Len(p) = Len(pending[c]) + Len(t)
    BY <1>1, <1>2, ConcatProperties
  <2>. QED
    BY <1>1, <2>1
<1>4. pending' = [pending EXCEPT ![c] = p]
  BY DEF TryHandleData
<1>5. \A b \in BOOLEAN : [conn[c] EXCEPT !.half = b] \in TcpState
  BY <1>1, RecordUpdates
<1>6. /\ conn[c].half \/ (m.close /\ c \in Live) \in BOOLEAN
      /\ conn' = [conn EXCEPT ![c].half = @ \/ (m.close /\ c \in Live)]
  BY <1>1 DEF TryHandleData
<1>. HIDE DEF p
<1>7. pending' \in [Conns -> Seq(1..Up)] /\ \A d \in Conns : Len(pending'[d]) <= MaxPending
  BY <1>1, <1>3, <1>4 DEF TypeOK
<1>8. conn' \in [Conns -> TcpState]
  BY <1>1, <1>5, <1>6 DEF TypeOK
<1>. QED
  BY <1>7, <1>8

LEMMA TypeLoop ==
    ASSUME TypeOK, Loop
    PROVE  TypeOK'
<1>1. CASE PollDone
  <2>1. ASSUME NEW c \in Conns PROVE [sock[c] EXCEPT !.rst = FALSE] \in Socket
    BY Records DEF Socket
  <2>2. sock' \in [Conns -> Socket] /\ todo' \subseteq Conns
    BY <1>1, <2>1 DEF PollDone, Live
  <2>. QED
    BY <1>1, <2>2 DEF PollDone, TypeOK, tableVars
<1>2. CASE ServiceDone
  BY <1>2 DEF ServiceDone, TypeOK, tableVars, sockVars
<1>3. CASE DrainDone
  BY <1>3 DEF DrainDone, TypeOK, tableVars, sockVars
<1>4. CASE Ingest
  BY <1>4 DEF Ingest, TypeOK, tableVars, sockVars
<1>5. CASE Tick
  BY <1>5 DEF Tick, TypeOK, tableVars, sockVars
<1>6. CASE Stop
  <2>1. ASSUME NEW c \in Conns PROVE [conn[c] EXCEPT !.st = "gone"] \in TcpState
    BY RecordUpdates
  <2>2. conn' \in [Conns -> TcpState]
    BY <1>6, <2>1 DEF Stop, TypeOK
  <2>3. answer' \in [Conns -> Answers]
    BY <1>6 DEF Stop, TypeOK, Answers
  <2>4. <<>> \in Seq(Conns) /\ <<>> \in Seq(DataMsg) /\ Len(<<>>) <= AppQueue /\ Len(<<>>) <= 1
    BY EmptySeq, Sizes
  <2>. QED
    BY <1>6, <2>2, <2>3, <2>4 DEF Stop, TypeOK, sockVars
<1>7. CASE HandleOpenTcp
  <2>1. cmds \in Seq(Conns) /\ cmds # <<>>
    BY <1>7 DEF HandleOpenTcp, TypeOK
  <2>2. Head(cmds) \in Conns /\ cmds' \in Seq(Conns)
    BY <1>7, <2>1, TailFacts DEF HandleOpenTcp
  <2>3. /\ NewConn \in TcpState /\ "SynSent" \in TcpStates
        /\ \A s \in TcpStates : [sock[Head(cmds)] EXCEPT !.state = s] \in Socket
    BY <2>2, RecordUpdates DEF NewConn, TcpState, TcpStates
  <2>4. conn' \in [Conns -> TcpState] /\ sock' \in [Conns -> Socket] /\ answer' \in [Conns -> Answers]
    BY <1>7, <2>2, <2>3 DEF HandleOpenTcp, TypeOK, Answers
  <2>. QED
    BY <1>7, <2>2, <2>4 DEF HandleOpenTcp, TypeOK
<1>8. CASE RetryDeferred /\ deferred = <<>>
  BY <1>8 DEF RetryDeferred, TypeOK, tableVars, sockVars
<1>9. CASE RetryDeferred /\ deferred # <<>>
  <2>0. deferred \in Seq(DataMsg) /\ Len(deferred) <= 1
    BY DEF TypeOK
  <2>1. /\ Head(deferred) \in DataMsg /\ Tail(deferred) \in Seq(DataMsg) /\ Len(deferred) \in Nat \ {0}
        /\ Len(Tail(deferred)) = Len(deferred) - 1
    BY <1>9, <2>0, TailFacts
  <2>2. Tail(deferred) = <<>>
    BY <2>0, <2>1, EmptySeq
  <2>3. PushedBack(Head(deferred)) \in Seq(DataMsg) /\ Len(PushedBack(Head(deferred))) <= 1
    BY <2>1, PushedBackFacts
  <2>4. PushedBack(Head(deferred)) \o Tail(deferred) = PushedBack(Head(deferred))
    BY <2>2, <2>3, ConcatEmptySeq
  <2>5. deferred' \in Seq(DataMsg) /\ Len(deferred') <= 1
    BY <1>9, <2>3, <2>4 DEF RetryDeferred
  <2>6. TryHandleData(Head(deferred))
    BY <1>9 DEF RetryDeferred
  <2>7. /\ pending' \in [Conns -> Seq(1..Up)] /\ conn' \in [Conns -> TcpState]
        /\ \A d \in Conns : Len(pending'[d]) <= MaxPending
    BY <2>1, <2>6, HandledTypes
  <2>8. UNCHANGED <<todo, cmds, dataIn, sockVars, toApp, answer, app, far>>
    BY <1>9 DEF RetryDeferred
  <2>9. phase' \in {"poll", "service", "deferred", "select", "drain", "stopped"}
    BY <1>9 DEF RetryDeferred
  <2>. QED
    BY <2>5, <2>7, <2>8, <2>9 DEF TypeOK, sockVars
<1>10. CASE TakeData
  <2>0. dataIn \in Seq(DataMsg) /\ Len(dataIn) <= AppQueue /\ dataIn # <<>>
    BY <1>10 DEF TypeOK, TakeData
  <2>1. Head(dataIn) \in DataMsg /\ dataIn' \in Seq(DataMsg) /\ Len(dataIn') <= AppQueue
    BY <1>10, <2>0, TailFits, Sizes DEF TakeData
  <2>3. deferred' \in Seq(DataMsg) /\ Len(deferred') <= 1
    BY <1>10, <2>1, PushedBackFacts DEF TakeData
  <2>6. TryHandleData(Head(dataIn))
    BY <1>10 DEF TakeData
  <2>7. /\ pending' \in [Conns -> Seq(1..Up)] /\ conn' \in [Conns -> TcpState]
        /\ \A d \in Conns : Len(pending'[d]) <= MaxPending
    BY <2>1, <2>6, HandledTypes
  <2>8. UNCHANGED <<todo, cmds, sockVars, toApp, answer, app, far>>
    BY <1>10 DEF TakeData
  <2>9. phase' \in {"poll", "service", "deferred", "select", "drain", "stopped"}
    BY <1>10 DEF TakeData
  <2>. QED
    BY <2>1, <2>3, <2>7, <2>8, <2>9 DEF TypeOK, sockVars
<1>. QED
  BY <1>1, <1>2, <1>3, <1>4, <1>5, <1>6, <1>7, <1>8, <1>9, <1>10 DEF Loop

LEMMA TypeStep ==
    ASSUME TypeOK, [Next]_vars
    PROVE  TypeOK'
<1>1. CASE UNCHANGED vars
  BY <1>1 DEF vars, stackVars, tableVars, sockVars, TypeOK
<1>2. CASE Next
  BY <1>2, TypeLoop, TypeService, TypeFar, TypeApp, TypeTime DEF Next
<1>. QED
  BY <1>1, <1>2

(* Handling a message changes two things of its connection: what is         *)
(* pending and, for a close, that it is to be half-closed.                  *)
LEMMA HandledFields ==
    ASSUME TypeOK, NEW m \in DataMsg, TryHandleData(m)
    PROVE  /\ Live' = Live
           /\ \A d \in Conns :
                /\ conn'[d].st = conn[d].st /\ conn'[d].est = conn[d].est
                /\ conn'[d].aborted = conn[d].aborted
                /\ d # m.id => conn'[d] = conn[d] /\ pending'[d] = pending[d]
           /\ m.id \notin Live => conn'[m.id] = conn[m.id]
           /\ conn'[m.id].half <=> conn[m.id].half \/ (m.close /\ m.id \in Live)
           /\ pending'[m.id] = pending[m.id] \o SubSeq(m.data, 1, Taken(m))
<1>1. /\ m.id \in Conns /\ conn \in [Conns -> TcpState] /\ pending \in [Conns -> Seq(1..Up)]
  BY TakenFacts DEF TypeOK
<1>2. \A d \in Conns : conn[d] \in TcpState
  BY <1>1
<1>3. conn' = [conn EXCEPT ![m.id].half = @ \/ (m.close /\ m.id \in Live)]
  BY DEF TryHandleData
<1>4. \A d \in Conns :
         /\ conn'[d].st = conn[d].st /\ conn'[d].est = conn[d].est
         /\ conn'[d].aborted = conn[d].aborted
         /\ d # m.id => conn'[d] = conn[d]
  BY <1>1, <1>2, <1>3 DEF TcpState
<1>5. conn'[m.id].half <=> conn[m.id].half \/ (m.close /\ m.id \in Live)
  BY <1>1, <1>2, <1>3 DEF TcpState
<1>6. m.id \notin Live => conn'[m.id] = conn[m.id]
  BY <1>1, <1>2, <1>3 DEF TcpState
<1>7. /\ \A d \in Conns : d # m.id => pending'[d] = pending[d]
      /\ pending'[m.id] = pending[m.id] \o SubSeq(m.data, 1, Taken(m))
  BY <1>1 DEF TryHandleData
<1>8. Live' = Live
  BY <1>4 DEF Live
<1>. QED
  BY <1>4, <1>5, <1>6, <1>7, <1>8

LEMMA HeadQueued ==
    ASSUME TypeOK, Queued # <<>>
    PROVE  /\ Queued \in Seq(DataMsg) /\ Head(Queued) \in DataMsg /\ Head(Queued) = Queued[1]
           /\ Tail(Queued) \in Seq(DataMsg) /\ Len(Queued) \in Nat \ {0}
<1>1. Queued \in Seq(DataMsg)
  BY ConcatProperties DEF Queued, TypeOK
<1>. QED
  BY <1>1, TailFacts

(* What a pass over an established connection leaves of its records. *)
LEMMA AfterFields ==
    ASSUME TypeOK, NEW c \in Conns
    PROVE  /\ ConnAfter(c).est /\ ConnAfter(c).half = conn[c].half
           /\ ConnAfter(c).aborted = Aborts(c)
           /\ ConnAfter(c).st = IF Removed(Aborts(c), State2(c)) THEN "gone" ELSE conn[c].st
           /\ AppAfter(c).st = app[c].st /\ AppAfter(c).closed = app[c].closed
           /\ AppAfter(c).sent = app[c].sent /\ AppAfter(c).got = app[c].got
           /\ AppAfter(c).rx <=> app[c].rx /\ ~Unwanted(c)
           /\ AppAfter(c).tx <=> app[c].tx /\ ~Unwanted(c)
<1>1. /\ ConnAfter(c).est /\ ConnAfter(c).half = conn[c].half
      /\ ConnAfter(c).aborted = Aborts(c)
      /\ ConnAfter(c).st = IF Removed(Aborts(c), State2(c)) THEN "gone" ELSE conn[c].st
  BY Records DEF ConnAfter, TcpState
<1>2. /\ AppAfter(c).st = app[c].st /\ AppAfter(c).closed = app[c].closed
      /\ AppAfter(c).sent = app[c].sent /\ AppAfter(c).got = app[c].got
      /\ AppAfter(c).rx <=> app[c].rx /\ ~Unwanted(c)
      /\ AppAfter(c).tx <=> app[c].tx /\ ~Unwanted(c)
  BY Records DEF AppAfter, AppTask
<1>. QED
  BY <1>1, <1>2

LEMMA NewConnFields ==
    /\ NewConn.st = "live" /\ ~NewConn.est /\ ~NewConn.half /\ ~NewConn.aborted
    /\ NoConn.st = "free" /\ ~NoConn.est /\ ~NoConn.half /\ ~NoConn.aborted
BY DEF NewConn, NoConn

-----------------------------------------------------------------------------
(* The loop                                                                 *)

LEMMA LoopStep ==
    ASSUME TypeOK, LoopInv, Next
    PROVE  LoopInv'
<1>1. conn \in [Conns -> TcpState] /\ sock \in [Conns -> Socket]
  BY DEF TypeOK
<1>2. CASE PollDone
  <2>1. ASSUME NEW c \in Conns PROVE ~[sock[c] EXCEPT !.rst = FALSE].rst
    BY Records DEF Socket
  <2>. QED
    BY <1>1, <1>2, <2>1 DEF PollDone, LoopInv, Live, tableVars
<1>3. CASE ServiceDone
  BY <1>3, <1>1 DEF ServiceDone, LoopInv, Live, stackVars, tableVars, sockVars
<1>4. CASE RetryDeferred
  BY <1>4, <1>1 DEF RetryDeferred, LoopInv, Live, stackVars, tableVars, sockVars
<1>5. CASE DrainDone
  BY <1>5, <1>1 DEF DrainDone, LoopInv, Live, stackVars, tableVars, sockVars
<1>6. CASE TakeData
  BY <1>6, <1>1 DEF TakeData, LoopInv, Live, stackVars, tableVars, sockVars
<1>7. CASE HandleOpenTcp
  BY <1>7, <1>1 DEF HandleOpenTcp, LoopInv, Live, stackVars, tableVars, sockVars
<1>8. CASE Ingest
  BY <1>8, <1>1 DEF Ingest, LoopInv, Live, stackVars, tableVars, sockVars
<1>9. CASE Tick
  BY <1>9, <1>1 DEF Tick, LoopInv, Live, stackVars, tableVars, sockVars
<1>10. CASE Stop
  BY <1>10, <1>1 DEF Stop, LoopInv, Live, stackVars, tableVars, sockVars
<1>11. ASSUME NEW c \in Conns, Service(c) PROVE LoopInv'
  <2>1. CASE ServiceAborted(c)
    BY <2>1, <1>1 DEF ServiceAborted, LoopInv, Live, stackVars, tableVars, sockVars
  <2>2. CASE ServiceConnecting(c)
    BY <2>2, <1>1 DEF ServiceConnecting, LoopInv, Live, stackVars, tableVars, sockVars
  <2>3. CASE ServiceEstablished(c)
    <3>1. /\ todo' = todo \ {c} /\ phase' = phase /\ phase = "service" /\ todo \subseteq Conns
          /\ conn' = [conn EXCEPT ![c] = ConnAfter(c)] /\ sock' = [sock EXCEPT ![c] = SockAfter(c)]
      BY <2>3, EstablishedParts DEF TypeOK
    <3>2. \A d \in todo' : d \in todo /\ d \in Conns /\ conn'[d] = conn[d] /\ sock'[d] = sock[d]
      BY <1>1, <3>1
    <3>. QED
      BY <3>1, <3>2 DEF LoopInv, Live
  <2>. QED
    BY <1>11, <2>1, <2>2, <2>3 DEF Service
<1>12. ASSUME NEW c \in Conns, Far(c) PROVE LoopInv'
  <2>1. CASE SynAck(c)
    BY <2>1, <1>1 DEF SynAck, LoopInv, Live, stackVars, tableVars, sockVars
  <2>2. CASE FarData(c)
    BY <2>2, <1>1 DEF FarData, LoopInv, Live, stackVars, tableVars, sockVars
  <2>3. CASE FarFin(c)
    BY <2>3, <1>1 DEF FarFin, LoopInv, Live, stackVars, tableVars, sockVars
  <2>4. CASE FarAck(c)
    BY <2>4, <1>1 DEF FarAck, LoopInv, Live, stackVars, tableVars, sockVars
  <2>5. CASE FarAckFin(c)
    BY <2>5, <1>1 DEF FarAckFin, LoopInv, Live, stackVars, tableVars, sockVars
  <2>6. CASE SocketDies(c)
    BY <2>6, <1>1 DEF SocketDies, LoopInv, Live, stackVars, tableVars, sockVars
  <2>. QED
    BY <1>12, <2>1, <2>2, <2>3, <2>4, <2>5, <2>6 DEF Far
<1>13. ASSUME NEW c \in Conns, App(c) PROVE LoopInv'
  <2>1. CASE AppOpen(c)
    BY <2>1, <1>1 DEF AppOpen, LoopInv, Live, stackVars, tableVars, sockVars
  <2>2. CASE AppOpened(c)
    BY <2>2, <1>1 DEF AppOpened, LoopInv, Live, stackVars, tableVars, sockVars
  <2>3. CASE AppAbandon(c)
    BY <2>3, <1>1 DEF AppAbandon, LoopInv, Live, stackVars, tableVars, sockVars
  <2>4. CASE AppSend(c)
    BY <2>4, <1>1 DEF AppSend, LoopInv, Live, stackVars, tableVars, sockVars
  <2>5. CASE AppClose(c)
    BY <2>5, <1>1 DEF AppClose, LoopInv, Live, stackVars, tableVars, sockVars
  <2>6. CASE AppDropSender(c)
    BY <2>6, <1>1 DEF AppDropSender, LoopInv, Live, stackVars, tableVars, sockVars
  <2>7. CASE AppDropReceiver(c)
    BY <2>7, <1>1 DEF AppDropReceiver, LoopInv, Live, stackVars, tableVars, sockVars
  <2>8. CASE AppRecv(c)
    BY <2>8, <1>1 DEF AppRecv, LoopInv, Live, stackVars, tableVars, sockVars
  <2>. QED
    BY <1>13, <2>1, <2>2, <2>3, <2>4, <2>5, <2>6, <2>7, <2>8 DEF App
<1>14. ASSUME NEW c \in Conns, ConnectDeadline(c) \/ LingerElapses(c) PROVE LoopInv'
  <2>1. CASE ConnectDeadline(c)
    BY <2>1, <1>1 DEF ConnectDeadline, LoopInv, Live, stackVars, tableVars, sockVars
  <2>2. CASE LingerElapses(c)
    BY <2>2, <1>1 DEF LingerElapses, LoopInv, Live, stackVars, tableVars, sockVars
  <2>. QED
    BY <1>14, <2>1, <2>2
<1>. QED
  BY <1>2, <1>3, <1>4, <1>5, <1>6, <1>7, <1>8, <1>9, <1>10, <1>11, <1>12, <1>13, <1>14 DEF Next,
     Loop

-----------------------------------------------------------------------------
(* Opening                                                                  *)

LEMMA OpenStep ==
    ASSUME TypeOK, LoopInv, OpenInv, CmdInv, Next
    PROVE  OpenInv'
<1>1. /\ conn \in [Conns -> TcpState] /\ app \in [Conns -> AppTask] /\ answer \in [Conns -> Answers]
  BY DEF TypeOK
<1>2. \A c \in Conns : conn[c] \in TcpState /\ app[c] \in AppTask
  BY <1>1
<1>3. CASE PollDone
  BY <1>3, <1>1, <1>2 DEF PollDone, OpenInv, AnswerMatchesTable, Live, stackVars, tableVars,
     sockVars
<1>4. CASE ServiceDone
  BY <1>4, <1>1, <1>2 DEF ServiceDone, OpenInv, AnswerMatchesTable, Live, stackVars, tableVars,
     sockVars
<1>5. CASE RetryDeferred
  <2>1. CASE deferred = <<>>
    BY <1>5, <2>1 DEF RetryDeferred, tableVars, OpenInv, AnswerMatchesTable, sockVars
  <2>2. CASE deferred # <<>>
    <3>1. Handles
      BY <1>5, <2>2, HandlesWhen
    <3>2. Head(Queued) \in DataMsg /\ TryHandleData(Head(Queued))
      BY <3>1, HeadQueued DEF Handles
    <3>3. \A c \in Conns : /\ conn'[c].st = conn[c].st /\ conn'[c].est = conn[c].est
                           /\ conn'[c].aborted = conn[c].aborted
      BY <3>2, HandledFields
    <3>. QED
      BY <3>1, <3>3 DEF Handles, OpenInv, AnswerMatchesTable
  <2>. QED
    BY <2>1, <2>2
<1>6. CASE DrainDone
  BY <1>6, <1>1, <1>2 DEF DrainDone, OpenInv, AnswerMatchesTable, Live, stackVars, tableVars,
     sockVars
<1>7. CASE TakeData
  <2>1. Handles
    BY <1>7, HandlesWhen
  <2>2. Head(Queued) \in DataMsg /\ TryHandleData(Head(Queued))
    BY <2>1, HeadQueued DEF Handles
  <2>3. \A c \in Conns : /\ conn'[c].st = conn[c].st /\ conn'[c].est = conn[c].est
                         /\ conn'[c].aborted = conn[c].aborted
    BY <2>2, HandledFields
  <2>. QED
    BY <2>1, <2>3 DEF Handles, OpenInv, AnswerMatchesTable
<1>8. CASE HandleOpenTcp
  <2>1. cmds \in Seq(Conns) /\ cmds # <<>>
    BY <1>8 DEF HandleOpenTcp, TypeOK
  <2>2. Head(cmds) \in Conns /\ Head(cmds) = cmds[1] /\ 1 \in 1..Len(cmds)
    BY <2>1, TailFacts
  <2>3. /\ conn[Head(cmds)].st = "free" /\ answer[Head(cmds)] = "none"
        /\ app[Head(cmds)].st \notin {"idle", "open"}
    BY <2>2 DEF CmdInv, OpenInv
  <2>4. CASE conn' = [conn EXCEPT ![Head(cmds)] = NewConn] /\ UNCHANGED answer
    BY <1>1, <1>2, <1>8, <2>2, <2>3, <2>4, NewConnFields DEF HandleOpenTcp, OpenInv,
       AnswerMatchesTable
  <2>5. CASE answer' = [answer EXCEPT ![Head(cmds)] = "connect error"] /\ UNCHANGED conn
    BY <1>1, <1>2, <1>8, <2>2, <2>3, <2>5 DEF HandleOpenTcp, OpenInv, AnswerMatchesTable
  <2>. QED
    BY <1>8, <2>4, <2>5 DEF HandleOpenTcp
<1>9. CASE Ingest
  BY <1>9, <1>1, <1>2 DEF Ingest, OpenInv, AnswerMatchesTable, Live, stackVars, tableVars, sockVars
<1>10. CASE Tick
  BY <1>10, <1>1, <1>2 DEF Tick, OpenInv, AnswerMatchesTable, Live, stackVars, tableVars, sockVars
<1>11. CASE Stop
  BY <1>11, <1>1, <1>2 DEF Stop, OpenInv, AnswerMatchesTable, Live, stackVars, tableVars, sockVars
<1>12. ASSUME NEW c \in Conns, Service(c) PROVE OpenInv'
  <2>0. c \in todo => conn[c].st = "live" /\ app[c].st # "idle"
    BY DEF LoopInv, Live, OpenInv
  <2>1. CASE ServiceAborted(c)
    BY <2>1, <1>1, <1>2, <2>0 DEF ServiceAborted, OpenInv, AnswerMatchesTable, Live, stackVars,
       tableVars, sockVars
  <2>2. CASE ServiceConnecting(c)
    <3>1. conn[c].st = "live" /\ app[c].st \notin {"idle", "open"} /\ answer[c] = "none"
      BY <2>0, <2>2 DEF ServiceConnecting, OpenInv, AnswerMatchesTable
    <3>2. CASE UNCHANGED <<conn, answer>>
      BY <2>2, <3>2 DEF ServiceConnecting, OpenInv, AnswerMatchesTable
    <3>3. CASE /\ conn' = [conn EXCEPT ![c].st = "gone"]
               /\ \E a \in {"refused", "timed out"} : answer' = [answer EXCEPT ![c] = a]
      <4>1. /\ conn'[c].st = "gone" /\ conn'[c].est = conn[c].est /\ conn'[c].aborted = conn[c].aborted
            /\ answer'[c] \notin {"none", "ok"} /\ UNCHANGED app
        BY <2>2, <1>1, <1>2, <3>3 DEF ServiceConnecting, TcpState
      <4>2. \A d \in Conns : d # c => conn'[d] = conn[d] /\ answer'[d] = answer[d]
        BY <1>1, <3>3
      <4>. QED
        BY <3>1, <4>1, <4>2 DEF OpenInv, AnswerMatchesTable
    <3>. QED
      BY <2>2, <3>2, <3>3 DEF ServiceConnecting
  <2>3. CASE ServiceEstablished(c)
    <3>1. /\ ConnAfter(c).est /\ ConnAfter(c).st \in {"live", "gone"}
          /\ AppAfter(c).st = app[c].st /\ AppAfter(c).closed = app[c].closed
          /\ AppAfter(c).st # "abandoned" => (AppAfter(c).rx <=> app[c].rx) /\ (AppAfter(c).tx <=> app[c].tx)
      BY <2>0, <2>3, <1>2, AfterFields, EstablishedParts DEF Unwanted, Abandoned, AppTask
    <3>2. /\ conn' = [conn EXCEPT ![c] = ConnAfter(c)] /\ app' = [app EXCEPT ![c] = AppAfter(c)]
          /\ answer' = [answer EXCEPT ![c] = IF conn[c].est THEN @ ELSE "ok"]
          /\ conn[c].st = "live" /\ app[c].st # "idle"
      BY <2>0, <2>3, EstablishedParts
    <3>. QED
      BY <1>1, <3>1, <3>2 DEF OpenInv, AnswerMatchesTable
  <2>. QED
    BY <1>12, <2>1, <2>2, <2>3 DEF Service
<1>13. ASSUME NEW c \in Conns, Far(c) PROVE OpenInv'
  <2>1. CASE SynAck(c)
    BY <2>1, <1>1, <1>2 DEF SynAck, OpenInv, AnswerMatchesTable, Live, stackVars, tableVars,
       sockVars
  <2>2. CASE FarData(c)
    BY <2>2, <1>1, <1>2 DEF FarData, OpenInv, AnswerMatchesTable, Live, stackVars, tableVars,
       sockVars
  <2>3. CASE FarFin(c)
    BY <2>3, <1>1, <1>2 DEF FarFin, OpenInv, AnswerMatchesTable, Live, stackVars, tableVars,
       sockVars
  <2>4. CASE FarAck(c)
    BY <2>4, <1>1, <1>2 DEF FarAck, OpenInv, AnswerMatchesTable, Live, stackVars, tableVars,
       sockVars
  <2>5. CASE FarAckFin(c)
    BY <2>5, <1>1, <1>2 DEF FarAckFin, OpenInv, AnswerMatchesTable, Live, stackVars, tableVars,
       sockVars
  <2>6. CASE SocketDies(c)
    BY <2>6, <1>1, <1>2 DEF SocketDies, OpenInv, AnswerMatchesTable, Live, stackVars, tableVars,
       sockVars
  <2>. QED
    BY <1>13, <2>1, <2>2, <2>3, <2>4, <2>5, <2>6 DEF Far
<1>14. ASSUME NEW c \in Conns, App(c) PROVE OpenInv'
  <2>1. CASE AppOpen(c)
    BY <2>1, <1>1, <1>2 DEF AppOpen, OpenInv, AnswerMatchesTable, Live, stackVars, tableVars,
       sockVars
  <2>2. CASE AppOpened(c)
    BY <2>2, <1>1, <1>2 DEF AppOpened, OpenInv, AnswerMatchesTable, Live, stackVars, tableVars,
       sockVars
  <2>3. CASE AppAbandon(c)
    BY <2>3, <1>1, <1>2 DEF AppAbandon, OpenInv, AnswerMatchesTable, Live, stackVars, tableVars,
       sockVars
  <2>4. CASE AppSend(c)
    BY <2>4, <1>1, <1>2 DEF AppSend, OpenInv, AnswerMatchesTable, Live, stackVars, tableVars,
       sockVars
  <2>5. CASE AppClose(c)
    BY <2>5, <1>1, <1>2 DEF AppClose, OpenInv, AnswerMatchesTable, Sending, tableVars
  <2>6. CASE AppDropSender(c)
    BY <2>6, <1>1, <1>2 DEF AppDropSender, OpenInv, AnswerMatchesTable, Live, stackVars, tableVars,
       sockVars
  <2>7. CASE AppDropReceiver(c)
    BY <2>7, <1>1, <1>2 DEF AppDropReceiver, OpenInv, AnswerMatchesTable, Live, stackVars,
       tableVars, sockVars
  <2>8. CASE AppRecv(c)
    BY <2>8, <1>1, <1>2 DEF AppRecv, OpenInv, AnswerMatchesTable, Live, stackVars, tableVars,
       sockVars
  <2>. QED
    BY <1>14, <2>1, <2>2, <2>3, <2>4, <2>5, <2>6, <2>7, <2>8 DEF App
<1>15. ASSUME NEW c \in Conns, ConnectDeadline(c) \/ LingerElapses(c) PROVE OpenInv'
  <2>1. CASE ConnectDeadline(c)
    BY <2>1, <1>1, <1>2 DEF ConnectDeadline, OpenInv, AnswerMatchesTable, Live, stackVars,
       tableVars, sockVars
  <2>2. CASE LingerElapses(c)
    BY <2>2, <1>1, <1>2 DEF LingerElapses, OpenInv, AnswerMatchesTable, Live, stackVars, tableVars,
       sockVars
  <2>. QED
    BY <1>15, <2>1, <2>2
<1>. QED
  BY <1>3, <1>4, <1>5, <1>6, <1>7, <1>8, <1>9, <1>10, <1>11, <1>12, <1>13, <1>14, <1>15 DEF Next,
     Loop

(* The queues after a close was tried, and after a send. *)
LEMMA QueueAfterClose ==
    ASSUME TypeOK, NEW c \in Conns, deferred' = deferred,
           dataIn' \in {dataIn, Append(dataIn, TcpClose(c))}
    PROVE  Queued' \in {Queued, Append(Queued, TcpClose(c))} /\ Queued \in Seq(DataMsg)
<1>1. /\ deferred \in Seq(DataMsg) /\ dataIn \in Seq(DataMsg) /\ TcpClose(c) \in DataMsg
  BY Messages DEF TypeOK
<1>2. /\ deferred \o Append(dataIn, TcpClose(c)) = Append(deferred \o dataIn, TcpClose(c))
      /\ deferred \o dataIn \in Seq(DataMsg)
  BY <1>1, QueueAdds
<1>. QED
  BY <1>2 DEF Queued

(* The steps that leave the queues alone, those that close a connection,    *)
(* and those that send.                                                     *)
Closes(c) == AppAbandon(c) \/ AppClose(c) \/ AppDropSender(c) \/ ServiceEstablished(c)

LEMMA ClosesQueue ==
    ASSUME TypeOK, NEW c \in Conns, Closes(c)
    PROVE  Queued' \in {Queued, Append(Queued, TcpClose(c))} /\ Queued \in Seq(DataMsg)
<1>1. TrySendClose(c) \in {dataIn, Append(dataIn, TcpClose(c))}
  BY TrySendCloseFacts
<1>2. deferred' = deferred /\ dataIn' \in {dataIn, Append(dataIn, TcpClose(c))}
  <2>1. CASE AppAbandon(c)
    BY <1>1, <2>1 DEF AppAbandon
  <2>2. CASE AppClose(c)
    BY <2>2 DEF AppClose
  <2>3. CASE AppDropSender(c)
    BY <1>1, <2>3 DEF AppDropSender
  <2>4. CASE ServiceEstablished(c)
    BY <1>1, <2>4, EstablishedParts
  <2>. QED
    BY <2>1, <2>2, <2>3, <2>4 DEF Closes
<1>. QED
  BY <1>2, QueueAfterClose

LEMMA SendsQueue ==
    ASSUME TypeOK, NEW c \in Conns, AppSend(c)
    PROVE  \E n \in Nat \ {0} :
              /\ app[c].sent + n <= Up
              /\ app' = [app EXCEPT ![c].sent = @ + n]
              /\ TcpData(c, Units(app[c].sent + 1, app[c].sent + n)) \in DataMsg
              /\ Queued' = Append(Queued, TcpData(c, Units(app[c].sent + 1, app[c].sent + n)))
              /\ Queued \in Seq(DataMsg)
<1>1. PICK n \in 1..SendMax :
         /\ app[c].sent + n <= Up
         /\ dataIn' = Append(dataIn, TcpData(c, Units(app[c].sent + 1, app[c].sent + n)))
         /\ app' = [app EXCEPT ![c].sent = @ + n]
  BY DEF AppSend
<1>. DEFINE m == TcpData(c, Units(app[c].sent + 1, app[c].sent + n))
<1>2. n \in Nat \ {0} /\ app[c].sent \in Nat
  BY Sizes, Typed
<1>3. m \in DataMsg
  BY <1>1, <1>2, Messages
<1>4. deferred \in Seq(DataMsg) /\ dataIn \in Seq(DataMsg)
  BY DEF TypeOK
<1>. HIDE DEF m
<1>5. /\ deferred \o Append(dataIn, m) = Append(deferred \o dataIn, m)
      /\ deferred \o dataIn \in Seq(DataMsg)
  BY <1>3, <1>4, QueueAdds
<1>6. Queued' = Append(Queued, m) /\ Queued \in Seq(DataMsg)
  <2>1. deferred' = deferred /\ dataIn' = Append(dataIn, m)
    BY <1>1 DEF AppSend, m
  <2>. QED
    BY <1>5, <2>1 DEF Queued
<1>. QED
  BY <1>1, <1>2, <1>3, <1>6 DEF m

LEMMA CmdStep ==
    ASSUME TypeOK, LoopInv, OpenInv, CmdInv, Next
    PROVE  CmdInv'
<1>1. /\ conn \in [Conns -> TcpState] /\ app \in [Conns -> AppTask] /\ answer \in [Conns -> Answers]
      /\ cmds \in Seq(Conns)
  BY DEF TypeOK
<1>2. \A c \in Conns : conn[c] \in TcpState /\ app[c] \in AppTask
  BY <1>1
<1>3. \A i \in 1..Len(cmds) : cmds[i] \in Conns
  BY <1>1, ElementOfSeq
<1>4. CASE PollDone
  BY <1>4, <1>1, <1>2, <1>3 DEF PollDone, CmdInv, Live, stackVars, tableVars, sockVars
<1>5. CASE ServiceDone
  BY <1>5, <1>1, <1>2, <1>3 DEF ServiceDone, CmdInv, Live, stackVars, tableVars, sockVars
<1>6. CASE RetryDeferred
  <2>1. CASE deferred = <<>>
    BY <1>6, <2>1 DEF RetryDeferred, tableVars, CmdInv
  <2>2. CASE deferred # <<>>
    <3>1. Handles
      BY <1>6, <2>2, HandlesWhen
    <3>2. Head(Queued) \in DataMsg /\ TryHandleData(Head(Queued))
      BY <3>1, HeadQueued DEF Handles
    <3>3. \A c \in Conns : conn'[c].st = conn[c].st
      BY <3>2, HandledFields
    <3>. QED
      BY <1>3, <3>1, <3>3 DEF Handles, CmdInv
  <2>. QED
    BY <2>1, <2>2
<1>7. CASE DrainDone
  BY <1>7, <1>1, <1>2, <1>3 DEF DrainDone, CmdInv, Live, stackVars, tableVars, sockVars
<1>8. CASE TakeData
  <2>1. Handles
    BY <1>8, HandlesWhen
  <2>2. Head(Queued) \in DataMsg /\ TryHandleData(Head(Queued))
    BY <2>1, HeadQueued DEF Handles
  <2>3. \A c \in Conns : conn'[c].st = conn[c].st
    BY <2>2, HandledFields
  <2>. QED
    BY <1>3, <2>1, <2>3 DEF Handles, CmdInv
<1>9. CASE HandleOpenTcp
  <2>1. cmds # <<>> /\ cmds' = Tail(cmds) /\ UNCHANGED app
    BY <1>9 DEF HandleOpenTcp
  <2>2. /\ Head(cmds) \in Conns /\ Head(cmds) = cmds[1] /\ Len(cmds) \in Nat \ {0}
        /\ Len(cmds') = Len(cmds) - 1 /\ \A i \in 1..(Len(cmds) - 1) : cmds'[i] = cmds[i + 1]
    BY <1>1, <2>1, TailFacts
  <2>3. \A i \in 1..Len(cmds') : /\ i + 1 \in 1..Len(cmds) /\ cmds'[i] = cmds[i + 1]
                                 /\ cmds'[i] # Head(cmds) /\ cmds'[i] \in Conns
    BY <1>3, <2>2 DEF CmdInv
  <2>4. \A c \in Conns : c # Head(cmds) => conn'[c] = conn[c] /\ answer'[c] = answer[c]
    BY <1>9, <1>1, <2>2 DEF HandleOpenTcp
  <2>5. \A i, j \in 1..Len(cmds') : cmds'[i] = cmds'[j] => i = j
    BY <2>2, <2>3 DEF CmdInv
  <2>6. \A i \in 1..Len(cmds') : /\ conn'[cmds'[i]].st = "free" /\ answer'[cmds'[i]] = "none"
                                 /\ app'[cmds'[i]].st # "idle"
    BY <2>1, <2>3, <2>4 DEF CmdInv
  <2>. QED
    BY <2>5, <2>6 DEF CmdInv
<1>10. CASE Ingest
  BY <1>10, <1>1, <1>2, <1>3 DEF Ingest, CmdInv, Live, stackVars, tableVars, sockVars
<1>11. CASE Tick
  BY <1>11, <1>1, <1>2, <1>3 DEF Tick, CmdInv, Live, stackVars, tableVars, sockVars
<1>12. CASE Stop
  <2>1. cmds' = <<>> /\ Len(<<>>) = 0
    BY <1>12 DEF Stop
  <2>. QED
    BY <2>1 DEF CmdInv
<1>13. ASSUME NEW c \in Conns, Service(c) PROVE CmdInv'
  <2>0. c \in todo => conn[c].st = "live"
    BY DEF LoopInv, Live
  <2>1. CASE ServiceAborted(c)
    BY <2>1, <1>1, <1>2, <1>3, <2>0 DEF ServiceAborted, CmdInv, Live, stackVars, tableVars, sockVars
  <2>2. CASE ServiceConnecting(c)
    BY <2>2, <1>1, <1>2, <1>3, <2>0 DEF ServiceConnecting, CmdInv, Live, stackVars, tableVars,
       sockVars
  <2>3. CASE ServiceEstablished(c)
    BY <1>1, <1>3, <2>0, <2>3, EstablishedParts, AfterFields DEF CmdInv
  <2>. QED
    BY <1>13, <2>1, <2>2, <2>3 DEF Service
<1>14. ASSUME NEW c \in Conns, Far(c) PROVE CmdInv'
  <2>1. CASE SynAck(c)
    BY <2>1, <1>1, <1>2, <1>3 DEF SynAck, CmdInv, Live, stackVars, tableVars, sockVars
  <2>2. CASE FarData(c)
    BY <2>2, <1>1, <1>2, <1>3 DEF FarData, CmdInv, Live, stackVars, tableVars, sockVars
  <2>3. CASE FarFin(c)
    BY <2>3, <1>1, <1>2, <1>3 DEF FarFin, CmdInv, Live, stackVars, tableVars, sockVars
  <2>4. CASE FarAck(c)
    BY <2>4, <1>1, <1>2, <1>3 DEF FarAck, CmdInv, Live, stackVars, tableVars, sockVars
  <2>5. CASE FarAckFin(c)
    BY <2>5, <1>1, <1>2, <1>3 DEF FarAckFin, CmdInv, Live, stackVars, tableVars, sockVars
  <2>6. CASE SocketDies(c)
    BY <2>6, <1>1, <1>2, <1>3 DEF SocketDies, CmdInv, Live, stackVars, tableVars, sockVars
  <2>. QED
    BY <1>14, <2>1, <2>2, <2>3, <2>4, <2>5, <2>6 DEF Far
<1>15. ASSUME NEW c \in Conns, App(c) PROVE CmdInv'
  <2>1. CASE AppOpen(c)
    <3>1. cmds' = Append(cmds, c) /\ conn[c].st = "free" /\ answer[c] = "none" /\ app[c].st = "idle"
      BY <2>1 DEF AppOpen, OpenInv
    <3>2. /\ Len(cmds') = Len(cmds) + 1 /\ Len(cmds) \in Nat
          /\ \A i \in 1..(Len(cmds) + 1) : cmds'[i] = IF i <= Len(cmds) THEN cmds[i] ELSE c
      BY <1>1, <3>1, AppendFacts, LenProperties
    <3>3. \A i \in 1..Len(cmds) : cmds[i] # c /\ cmds'[i] = cmds[i]
      BY <3>1, <3>2 DEF CmdInv
    <3>4. \A i \in 1..Len(cmds') : \/ i \in 1..Len(cmds)
                                   \/ i = Len(cmds) + 1 /\ cmds'[i] = c
      BY <3>2
    <3>5. app'[c].st = "opening" /\ \A d \in Conns : d # c => app'[d] = app[d]
      BY <2>1, <1>1, <1>2 DEF AppOpen, AppTask
    <3>6. conn' = conn /\ answer' = answer
      BY <2>1 DEF AppOpen, tableVars
    <3>7. \A i, j \in 1..Len(cmds') : cmds'[i] = cmds'[j] => i = j
      BY <3>3, <3>4 DEF CmdInv
    <3>8. \A i \in 1..Len(cmds') : /\ conn'[cmds'[i]].st = "free" /\ answer'[cmds'[i]] = "none"
                                   /\ app'[cmds'[i]].st # "idle"
      BY <1>3, <3>1, <3>3, <3>4, <3>5, <3>6 DEF CmdInv
    <3>. QED
      BY <3>7, <3>8 DEF CmdInv
  <2>2. CASE AppOpened(c)
    BY <2>2, <1>1, <1>2, <1>3 DEF AppOpened, CmdInv, Live, stackVars, tableVars, sockVars
  <2>3. CASE AppAbandon(c)
    BY <2>3, <1>1, <1>2, <1>3 DEF AppAbandon, CmdInv, Live, stackVars, tableVars, sockVars
  <2>4. CASE AppSend(c)
    BY <2>4, <1>1, <1>2, <1>3 DEF AppSend, CmdInv, Live, stackVars, tableVars, sockVars
  <2>5. CASE AppClose(c)
    BY <2>5, <1>1, <1>2, <1>3 DEF AppClose, CmdInv, Live, stackVars, tableVars, sockVars
  <2>6. CASE AppDropSender(c)
    BY <2>6, <1>1, <1>2, <1>3 DEF AppDropSender, CmdInv, Live, stackVars, tableVars, sockVars
  <2>7. CASE AppDropReceiver(c)
    BY <2>7, <1>1, <1>2, <1>3 DEF AppDropReceiver, CmdInv, Live, stackVars, tableVars, sockVars
  <2>8. CASE AppRecv(c)
    BY <2>8, <1>1, <1>2, <1>3 DEF AppRecv, CmdInv, Live, stackVars, tableVars, sockVars
  <2>. QED
    BY <1>15, <2>1, <2>2, <2>3, <2>4, <2>5, <2>6, <2>7, <2>8 DEF App
<1>16. ASSUME NEW c \in Conns, ConnectDeadline(c) \/ LingerElapses(c) PROVE CmdInv'
  <2>1. CASE ConnectDeadline(c)
    BY <2>1, <1>1, <1>2, <1>3 DEF ConnectDeadline, CmdInv, Live, stackVars, tableVars, sockVars
  <2>2. CASE LingerElapses(c)
    BY <2>2, <1>1, <1>2, <1>3 DEF LingerElapses, CmdInv, Live, stackVars, tableVars, sockVars
  <2>. QED
    BY <1>16, <2>1, <2>2
<1>. QED
  BY <1>4, <1>5, <1>6, <1>7, <1>8, <1>9, <1>10, <1>11, <1>12, <1>13, <1>14, <1>15, <1>16 DEF Next,
     Loop

-----------------------------------------------------------------------------
(* The queues                                                               *)

(* A message joins the queue. *)
LEMMA JoinsQueue ==
    ASSUME NEW q \in Seq(DataMsg), NEW m \in DataMsg
    PROVE  /\ \A d : d # m.id /\ NoMessages(d, q) => NoMessages(d, Append(q, m))
           /\ \A d : d # m.id => Parts(d, Append(q, m)) = Parts(d, q)
           /\ m.data = <<>> => Parts(m.id, Append(q, m)) = Parts(m.id, q)
           /\ \A d : HasClose(d, Append(q, m)) <=> HasClose(d, q) \/ (m.close /\ d = m.id)
           /\ Closing(q) /\ (m.close => m.data = <<>>) /\ (~m.close => ~HasClose(m.id, q)) =>
                 Closing(Append(q, m))
<1>. DEFINE r == Append(q, m)
            z == Len(q) + 1
<1>1. /\ r \in Seq(DataMsg) /\ Len(r) = z /\ Len(q) \in Nat
      /\ \A i \in 1..z : r[i] = IF i <= Len(q) THEN q[i] ELSE m
  BY AppendFacts, LenProperties
<1>2. r[z] = m /\ z \in 1..Len(r) /\ z \in Nat /\ \A i \in 1..Len(q) : i < z
  BY <1>1
<1>3. \A i \in 1..Len(q) : i \in 1..Len(r) /\ r[i] = q[i]
  BY <1>1
<1>4. \A i \in 1..Len(r) : i \in 1..Len(q) \/ i = z
  BY <1>1
<1>. HIDE DEF r, z
<1>5. \A d : d # m.id /\ NoMessages(d, q) => NoMessages(d, r)
  BY <1>2, <1>3, <1>4 DEF NoMessages
<1>6. ASSUME NEW d, d # m.id \/ m.data = <<>> PROVE Parts(d, r) = Parts(d, q)
  BY <1>2, <1>3, <1>4, <1>6 DEF Parts
<1>7. \A d : HasClose(d, r) <=> HasClose(d, q) \/ (m.close /\ d = m.id)
  BY <1>2, <1>3, <1>4 DEF HasClose
<1>8. ASSUME Closing(q), m.close => m.data = <<>>, ~m.close => ~HasClose(m.id, q)
      PROVE  Closing(r)
  <2>. SUFFICES ASSUME NEW i \in 1..Len(r), r[i].close
                PROVE  r[i].data = <<>> /\ \A j \in Parts(r[i].id, r) : j < i
    BY DEF Closing
  <2>1. CASE i \in 1..Len(q)
    <3>1. r[i] = q[i] /\ q[i].data = <<>> /\ \A j \in Parts(q[i].id, q) : j < i
      BY <1>3, <1>8, <2>1 DEF Closing
    <3>2. HasClose(q[i].id, q)
      BY <2>1, <3>1 DEF HasClose
    <3>3. q[i].id # m.id \/ m.data = <<>>
      BY <1>8, <3>2
    <3>4. Parts(q[i].id, r) = Parts(q[i].id, q)
      BY <1>6, <3>3
    <3>. QED
      BY <3>1, <3>4
  <2>2. CASE i = z
    <3>1. r[i] = m /\ m.data = <<>>
      BY <1>2, <1>8, <2>2
    <3>2. Parts(m.id, r) = Parts(m.id, q)
      BY <1>6, <3>1
    <3>3. \A j \in Parts(m.id, q) : j \in 1..Len(q)
      BY DEF Parts
    <3>. QED
      BY <1>2, <2>2, <3>1, <3>2, <3>3
  <2>. QED
    BY <1>4, <2>1, <2>2
<1>. QED
  BY <1>5, <1>6, <1>7, <1>8 DEF r

(* The first message leaves it. *)
LEMMA LeavesQueue ==
    ASSUME NEW q \in Seq(DataMsg), q # <<>>
    PROVE  /\ \A d : NoMessages(d, q) => NoMessages(d, Tail(q)) /\ d # q[1].id
           /\ \A d : Parts(d, q) = {} => Parts(d, Tail(q)) = {}
           /\ \A d : HasClose(d, Tail(q)) => HasClose(d, q)
           /\ Closing(q) => Closing(Tail(q))
           /\ q[1].close => HasClose(q[1].id, q) /\ (Closing(q) => Parts(q[1].id, q) = {})
<1>. DEFINE r == Tail(q)
<1>1. /\ r \in Seq(DataMsg) /\ Len(q) \in Nat \ {0} /\ Len(r) = Len(q) - 1
      /\ \A i \in 1..(Len(q) - 1) : r[i] = q[i + 1]
  BY TailFacts
<1>2. 1 \in 1..Len(q) /\ \A i \in 1..Len(r) : i \in Int /\ i + 1 \in 1..Len(q) /\ r[i] = q[i + 1]
  BY <1>1
<1>. HIDE DEF r
<1>3. \A d : NoMessages(d, q) => NoMessages(d, r) /\ d # q[1].id
  BY <1>2 DEF NoMessages
<1>4. \A d : \A j \in Parts(d, r) : j \in Int /\ j + 1 \in Parts(d, q)
  BY <1>2 DEF Parts
<1>5. \A d : HasClose(d, r) => HasClose(d, q)
  BY <1>2 DEF HasClose
<1>6. ASSUME Closing(q) PROVE Closing(r)
  <2>. SUFFICES ASSUME NEW i \in 1..Len(r), r[i].close
                PROVE  r[i].data = <<>> /\ \A j \in Parts(r[i].id, r) : j < i
    BY DEF Closing
  <2>1. i \in Int /\ r[i] = q[i + 1] /\ r[i].data = <<>> /\ \A j \in Parts(r[i].id, q) : j < i + 1
    BY <1>2, <1>6 DEF Closing
  <2>2. \A j \in Parts(r[i].id, r) : j < i
    BY <1>4, <2>1
  <2>. QED
    BY <2>1, <2>2
<1>7. ASSUME q[1].close PROVE HasClose(q[1].id, q) /\ (Closing(q) => Parts(q[1].id, q) = {})
  <2>1. HasClose(q[1].id, q)
    BY <1>2, <1>7 DEF HasClose
  <2>2. \A j \in Parts(q[1].id, q) : j \in 1..Len(q)
    BY DEF Parts
  <2>3. ASSUME Closing(q) PROVE \A j \in Parts(q[1].id, q) : j < 1
    BY <1>2, <1>7, <2>3 DEF Closing
  <2>. QED
    BY <1>1, <2>1, <2>2, <2>3
<1>. QED
  BY <1>3, <1>4, <1>5, <1>6, <1>7 DEF r

(* The first message, an upload, is replaced by what remains of it. *)
LEMMA ReplacesHead ==
    ASSUME NEW q \in Seq(DataMsg), NEW r \in Seq(DataMsg), Len(q) \in Nat \ {0},
           SameBehind(q, r), r[1].id = q[1].id, ~q[1].close, ~r[1].close,
           q[1].data # <<>>, r[1].data # <<>>
    PROVE  /\ \A d : NoMessages(d, q) => NoMessages(d, r) /\ d # q[1].id
           /\ \A d : Parts(d, r) = Parts(d, q)
           /\ \A d : HasClose(d, r) => HasClose(d, q)
           /\ Closing(q) => Closing(r)
<1>1. Len(r) = Len(q) /\ 1 \in 1..Len(q)
  BY DEF SameBehind
<1>2. \A i \in 1..Len(q) : i = 1 \/ r[i] = q[i]
  BY DEF SameBehind
<1>3. \A i \in 1..Len(q) : r[i].id = q[i].id /\ r[i].close = q[i].close
  <2>1. q[1] \in DataMsg /\ r[1] \in DataMsg
    BY <1>1, ElementOfSeq
  <2>2. q[1].close \in BOOLEAN /\ r[1].close \in BOOLEAN
    BY <2>1 DEF DataMsg
  <2>. QED
    BY <1>2, <2>2
<1>4. \A i \in 1..Len(q) : r[i].data = <<>> <=> q[i].data = <<>>
  BY <1>2
<1>5. \A d : Parts(d, r) = Parts(d, q)
  BY <1>1, <1>3, <1>4 DEF Parts
<1>6. \A d : NoMessages(d, q) => NoMessages(d, r) /\ d # q[1].id
  BY <1>1, <1>3 DEF NoMessages
<1>7. \A d : HasClose(d, r) => HasClose(d, q)
  BY <1>1, <1>3 DEF HasClose
<1>8. Closing(q) => Closing(r)
  BY <1>1, <1>3, <1>4, <1>5 DEF Closing
<1>. QED
  BY <1>5, <1>6, <1>7, <1>8

(* What one handled message does to the queues: it leaves, or what remains  *)
(* of it takes its place.                                                   *)
LEMMA HandledQueue ==
    ASSUME TypeOK, Closing(Queued), Handles
    PROVE  LET m == Head(Queued) IN
           \/ PushedBack(m) = <<>> /\ Queued' = Tail(Queued)
           \/ /\ PushedBack(m) = <<Rest(m)>> /\ Queued' \in Seq(DataMsg)
              /\ SameBehind(Queued, Queued') /\ Queued'[1] = Rest(m)
              /\ Rest(m).id = m.id /\ ~m.close /\ ~Rest(m).close
              /\ m.data # <<>> /\ Rest(m).data # <<>>
              /\ Rest(m).data = SubSeq(m.data, Taken(m) + 1, Len(m.data))
              /\ m.id \in Live /\ Taken(m) < Len(m.data) /\ Taken(m) = Space(m.id)
<1>. DEFINE m == Head(Queued)
            q == Queued
<1>1. /\ q \in Seq(DataMsg) /\ m \in DataMsg /\ m = q[1] /\ Tail(q) \in Seq(DataMsg)
      /\ Len(q) \in Nat \ {0}
  BY HeadQueued DEF Handles
<1>2. /\ Queued' = PushedBack(m) \o Tail(q)
  BY DEF Handles
<1>3. /\ PushedBack(m) = IF m.id \in Live /\ Taken(m) < Len(m.data) THEN <<Rest(m)>> ELSE <<>>
      /\ Rest(m) \in DataMsg /\ Rest(m).id = m.id /\ ~Rest(m).close
      /\ Rest(m).data = SubSeq(m.data, Taken(m) + 1, Len(m.data))
      /\ m.id \in Live /\ Taken(m) < Len(m.data) /\ ~m.close => Taken(m) = Space(m.id)
  BY <1>1, PushedBackFacts
<1>4. m.data \in Seq(1..Up) /\ Taken(m) \in Nat /\ Taken(m) <= Len(m.data) /\ Len(m.data) \in Nat
  BY <1>1, TakenFacts, LenProperties
<1>5. CASE ~(m.id \in Live /\ Taken(m) < Len(m.data))
  <2>1. PushedBack(m) = <<>>
    BY <1>3, <1>5
  <2>2. Queued' = Tail(q)
    BY <1>1, <1>2, <2>1, ConcatEmptySeq
  <2>. QED
    BY <2>1, <2>2
<1>6. CASE m.id \in Live /\ Taken(m) < Len(m.data)
  <2>1. PushedBack(m) = <<Rest(m)>>
    BY <1>3, <1>6
  <2>2. m.data # <<>>
    BY <1>4, <1>6
  <2>3. ~m.close
    <3>1. 1 \in 1..Len(q) /\ q[1].data # <<>>
      BY <1>1, <2>2
    <3>. QED
      BY <1>1, <3>1 DEF Closing
  <2>4. Rest(m).data # <<>>
    <3>1. Len(SubSeq(m.data, Taken(m) + 1, Len(m.data))) = Len(m.data) - Taken(m)
      <4>1. Len(m.data) <= Len(m.data)
        BY <1>4
      <4>. QED
        BY <1>4, <4>1, PieceFacts
    <3>2. Len(m.data) - Taken(m) # 0
      BY <1>4, <1>6
    <3>3. Len(Rest(m).data) = Len(m.data) - Taken(m)
      BY <1>3, <3>1, Zenon
    <3>4. Len(Rest(m).data) # Len(<<>>)
      BY <3>2, <3>3
    <3>. QED
      BY <3>4, Zenon
  <2>. DEFINE x == Rest(m)
              t == Tail(q)
  <2>5. x \in DataMsg /\ t \in Seq(DataMsg) /\ Len(t) = Len(q) - 1
        /\ \A i \in 1..(Len(q) - 1) : t[i] = q[i + 1]
    BY <1>1, <1>3, TailFacts DEF Handles
  <2>6. Queued' = <<x>> \o t
    BY <1>2, <2>1
  <2>. HIDE DEF x, t, q
  <2>7. /\ <<x>> \o t \in Seq(DataMsg) /\ Len(<<x>> \o t) = Len(<<x>>) + Len(t)
        /\ \A i \in 1..(Len(<<x>>) + Len(t)) :
              (<<x>> \o t)[i] = IF i <= Len(<<x>>) THEN <<x>>[i] ELSE t[i - Len(<<x>>)]
    <3>1. <<x>> \in Seq(DataMsg)
      BY <2>5
    <3>. QED
      BY <2>5, <3>1, ConcatProperties
  <2>8. Len(<<x>>) = 1 /\ <<x>>[1] = x
    OBVIOUS
  <2>9. /\ Queued' \in Seq(DataMsg) /\ Len(Queued') = Len(q) /\ Queued'[1] = x
    BY <1>1, <2>5, <2>6, <2>7, <2>8
  <2>10. ASSUME NEW i \in 2..Len(q) PROVE Queued'[i] = q[i]
    <3>1. i \in 1..(1 + Len(t)) /\ ~(i <= 1) /\ i - 1 \in 1..(Len(q) - 1) /\ (i - 1) + 1 = i
      BY <1>1, <2>5
    <3>2. Queued'[i] = t[i - 1]
      BY <2>6, <2>7, <2>8, <3>1
    <3>. QED
      BY <2>5, <3>1, <3>2
  <2>11. SameBehind(q, Queued')
    BY <2>9, <2>10 DEF SameBehind
  <2>. QED
    BY <1>3, <1>6, <2>1, <2>2, <2>3, <2>4, <2>9, <2>11 DEF x, q
<1>. QED
  BY <1>5, <1>6

LEMMA HandledAll ==
    ASSUME TypeOK, Closing(Queued), Handles
    PROVE  /\ \A d : NoMessages(d, Queued) => NoMessages(d, Queued') /\ d # Head(Queued).id
           /\ \A d : Parts(d, Queued) = {} => Parts(d, Queued') = {}
           /\ \A d : HasClose(d, Queued') => HasClose(d, Queued)
           /\ Closing(Queued')
           /\ Head(Queued).close => /\ HasClose(Head(Queued).id, Queued)
                                    /\ Parts(Head(Queued).id, Queued) = {}
<1>1. /\ Queued \in Seq(DataMsg) /\ Queued # <<>> /\ Head(Queued) = Queued[1]
      /\ Len(Queued) \in Nat \ {0}
  BY HeadQueued DEF Handles
<1>2. /\ \A d : NoMessages(d, Queued) => NoMessages(d, Tail(Queued)) /\ d # Queued[1].id
      /\ \A d : Parts(d, Queued) = {} => Parts(d, Tail(Queued)) = {}
      /\ \A d : HasClose(d, Tail(Queued)) => HasClose(d, Queued)
      /\ Closing(Tail(Queued))
      /\ Queued[1].close => HasClose(Queued[1].id, Queued) /\ Parts(Queued[1].id, Queued) = {}
  BY <1>1, LeavesQueue
<1>3. CASE Queued' = Tail(Queued)
  BY <1>1, <1>2, <1>3
<1>4. CASE /\ Queued' \in Seq(DataMsg) /\ SameBehind(Queued, Queued')
           /\ Queued'[1].id = Queued[1].id /\ ~Queued[1].close /\ ~Queued'[1].close
           /\ Queued[1].data # <<>> /\ Queued'[1].data # <<>>
  <2>1. /\ \A d : NoMessages(d, Queued) => NoMessages(d, Queued') /\ d # Queued[1].id
        /\ \A d : Parts(d, Queued') = Parts(d, Queued)
        /\ \A d : HasClose(d, Queued') => HasClose(d, Queued)
        /\ Closing(Queued')
    BY <1>1, <1>4, ReplacesHead
  <2>. QED
    BY <1>1, <1>4, <2>1
<1>. QED
  BY <1>1, <1>3, <1>4, HandledQueue

(* What a pass over a connection that is still connecting leaves alone. *)
LEMMA ConnectingFields ==
    ASSUME TypeOK, NEW c \in Conns, ServiceConnecting(c)
    PROVE  /\ c \in todo /\ \A d \in Conns : d # c => conn'[d] = conn[d]
           /\ conn'[c].st \in {conn[c].st, "gone"} /\ conn'[c].half = conn[c].half
           /\ UNCHANGED <<phase, dataIn, deferred, pending, txbuf, rxbuf, sock, toApp, far, app>>
<1>1. conn \in [Conns -> TcpState] /\ conn[c] \in TcpState
  BY Records DEF TypeOK
<1>2. conn' = conn \/ conn' = [conn EXCEPT ![c].st = "gone"]
  BY DEF ServiceConnecting
<1>3. /\ \A d \in Conns : d # c => conn'[d] = conn[d]
      /\ conn'[c].st \in {conn[c].st, "gone"} /\ conn'[c].half = conn[c].half
  BY <1>1, <1>2 DEF TcpState
<1>. QED
  BY <1>3 DEF ServiceConnecting, sockVars

LEMMA FreshStep ==
    ASSUME TypeOK, LoopInv, OpenInv, CmdInv, FreshInv, CloseInv, Next
    PROVE  FreshInv'
<1>1. /\ conn \in [Conns -> TcpState] /\ app \in [Conns -> AppTask] /\ far \in [Conns -> FarEnd]
      /\ pending \in [Conns -> Seq(1..Up)] /\ txbuf \in [Conns -> Seq(1..Up)]
      /\ rxbuf \in [Conns -> Seq(1..Down)] /\ toApp \in [Conns -> Seq(1..Down)]
  BY DEF TypeOK
<1>2. \A c \in Conns : conn[c] \in TcpState /\ app[c] \in AppTask
  BY <1>1
<1>3. CASE PollDone
  BY <1>3, <1>1, <1>2 DEF PollDone, FreshInv, Untouched, Queued, Live, stackVars, tableVars,
     sockVars
<1>4. CASE ServiceDone
  BY <1>4, <1>1, <1>2 DEF ServiceDone, FreshInv, Untouched, Queued, Live, stackVars, tableVars,
     sockVars
<1>5. CASE RetryDeferred
  <2>1. CASE deferred = <<>>
    BY <1>5, <2>1 DEF RetryDeferred, tableVars, sockVars, FreshInv, Untouched, Queued
  <2>2. CASE deferred # <<>>
    <3>1. Handles
      BY <1>5, <2>2, HandlesWhen
    <3>2. Head(Queued) \in DataMsg /\ TryHandleData(Head(Queued))
      BY <3>1, HeadQueued DEF Handles
    <3>3. \A c \in Conns : /\ conn'[c].st = conn[c].st
                           /\ c # Head(Queued).id => conn'[c] = conn[c] /\ pending'[c] = pending[c]
      BY <3>2, HandledFields
    <3>4. \A c \in Conns : NoMessages(c, Queued) => NoMessages(c, Queued') /\ c # Head(Queued).id
      BY <3>1, HandledAll DEF CloseInv
    <3>5. UNCHANGED <<rxbuf, txbuf, toApp, app, far>>
      BY <3>1 DEF Handles, sockVars
    <3>. QED
      BY <3>3, <3>4, <3>5 DEF FreshInv, Untouched
  <2>. QED
    BY <2>1, <2>2
<1>6. CASE DrainDone
  BY <1>6, <1>1, <1>2 DEF DrainDone, FreshInv, Untouched, Queued, Live, stackVars, tableVars,
     sockVars
<1>7. CASE TakeData
  <2>1. Handles
    BY <1>7, HandlesWhen
  <2>2. Head(Queued) \in DataMsg /\ TryHandleData(Head(Queued))
    BY <2>1, HeadQueued DEF Handles
  <2>3. \A c \in Conns : /\ conn'[c].st = conn[c].st
                         /\ c # Head(Queued).id => conn'[c] = conn[c] /\ pending'[c] = pending[c]
    BY <2>2, HandledFields
  <2>4. \A c \in Conns : NoMessages(c, Queued) => NoMessages(c, Queued') /\ c # Head(Queued).id
    BY <2>1, HandledAll DEF CloseInv
  <2>5. UNCHANGED <<rxbuf, txbuf, toApp, app, far>>
    BY <2>1 DEF Handles, sockVars
  <2>. QED
    BY <2>3, <2>4, <2>5 DEF FreshInv, Untouched
<1>8. CASE HandleOpenTcp
  <2>1. Head(cmds) \in Conns
    BY <1>8, TailFacts DEF HandleOpenTcp, TypeOK
  <2>2. \A c \in Conns : c # Head(cmds) => conn'[c] = conn[c]
    BY <1>8, <1>1, <2>1 DEF HandleOpenTcp
  <2>3. conn'[Head(cmds)].st = "free" => conn'[Head(cmds)] = conn[Head(cmds)]
    BY <1>8, <1>1, <2>1, NewConnFields DEF HandleOpenTcp
  <2>. QED
    BY <1>8, <2>2, <2>3 DEF HandleOpenTcp, FreshInv, Untouched, Queued
<1>9. CASE Ingest
  BY <1>9, <1>1, <1>2 DEF Ingest, FreshInv, Untouched, Queued, Live, stackVars, tableVars, sockVars
<1>10. CASE Tick
  BY <1>10, <1>1, <1>2 DEF Tick, FreshInv, Untouched, Queued, Live, stackVars, tableVars, sockVars
<1>11. CASE Stop
  <2>1. Queued' = <<>>
    BY <1>11 DEF Stop, Queued
  <2>2. \A c \in Conns : NoMessages(c, Queued')
    BY <2>1 DEF NoMessages
  <2>3. ASSUME NEW c \in Conns, conn'[c].st = "free" PROVE conn'[c] = conn[c]
    BY <1>11, <1>1, <1>2, <2>3 DEF Stop, TcpState
  <2>. QED
    BY <1>11, <2>2, <2>3 DEF Stop, FreshInv, Untouched, sockVars
<1>12. ASSUME NEW c \in Conns, Service(c) PROVE FreshInv'
  <2>0. c \in todo => conn[c].st = "live"
    BY DEF LoopInv, Live
  <2>1. CASE ServiceAborted(c)
    BY <2>1, <1>1, <1>2, <2>0 DEF ServiceAborted, FreshInv, Untouched, Queued, Live, stackVars,
       tableVars, sockVars
  <2>2. CASE ServiceConnecting(c)
    <3>1. /\ \A d \in Conns : d # c => conn'[d] = conn[d]
          /\ conn'[c].st # "free" /\ Queued' = Queued
          /\ UNCHANGED <<pending, txbuf, rxbuf, toApp, far, app>>
      BY <2>2, <2>0, ConnectingFields DEF Queued
    <3>. QED
      BY <3>1 DEF FreshInv, Untouched
  <2>3. CASE ServiceEstablished(c)
    <3>1. Queued' \in {Queued, Append(Queued, TcpClose(c))} /\ Queued \in Seq(DataMsg)
      BY <2>3, ClosesQueue DEF Closes
    <3>2. TcpClose(c) \in DataMsg /\ TcpClose(c).id = c
      BY Messages
    <3>3. \A d \in Conns : d # c /\ NoMessages(d, Queued) => NoMessages(d, Queued')
      BY <3>1, <3>2, JoinsQueue
    <3>4. conn[c].st = "live" /\ conn'[c].st # "free"
      BY <2>3, <2>0, <1>1, EstablishedParts, AfterFields
    <3>5. /\ \A d \in Conns : d # c =>
               /\ conn'[d] = conn[d] /\ pending'[d] = pending[d] /\ txbuf'[d] = txbuf[d]
               /\ rxbuf'[d] = rxbuf[d] /\ toApp'[d] = toApp[d] /\ app'[d] = app[d]
          /\ far' = far
      BY <2>3, <1>1, EstablishedParts
    <3>. QED
      BY <3>3, <3>4, <3>5 DEF FreshInv, Untouched
  <2>. QED
    BY <1>12, <2>1, <2>2, <2>3 DEF Service
<1>13. ASSUME NEW c \in Conns, Far(c) PROVE FreshInv'
  <2>1. CASE SynAck(c)
    BY <2>1, <1>1, <1>2 DEF SynAck, FreshInv, Untouched, Queued, Live, stackVars, tableVars,
       sockVars
  <2>2. CASE FarData(c)
    BY <2>2, <1>1, <1>2 DEF FarData, FreshInv, Untouched, Queued, Live, stackVars, tableVars,
       sockVars
  <2>3. CASE FarFin(c)
    BY <2>3, <1>1, <1>2 DEF FarFin, FreshInv, Untouched, Queued, Live, stackVars, tableVars,
       sockVars
  <2>4. CASE FarAck(c)
    BY <2>4, <1>1, <1>2 DEF FarAck, FreshInv, Untouched, Queued, Live, stackVars, tableVars,
       sockVars
  <2>5. CASE FarAckFin(c)
    BY <2>5, <1>1, <1>2 DEF FarAckFin, FreshInv, Untouched, Queued, Live, stackVars, tableVars,
       sockVars
  <2>6. CASE SocketDies(c)
    BY <2>6, <1>1, <1>2 DEF SocketDies, FreshInv, Untouched, Queued, Live, stackVars, tableVars,
       sockVars
  <2>. QED
    BY <1>13, <2>1, <2>2, <2>3, <2>4, <2>5, <2>6 DEF Far
<1>14. ASSUME NEW c \in Conns, App(c) PROVE FreshInv'
  <2>0. app[c].st = "open" \/ answer[c] = "ok" => conn[c].st # "free"
    BY DEF OpenInv, Live
  <2>1. CASE AppOpen(c)
    BY <2>1, <1>1, <1>2, <2>0 DEF AppOpen, FreshInv, Untouched, Queued, Live, stackVars, tableVars,
       sockVars
  <2>2. CASE AppOpened(c)
    BY <2>2, <1>1, <1>2, <2>0 DEF AppOpened, FreshInv, Untouched, Queued, Live, stackVars,
       tableVars, sockVars
  <2>3. CASE AppAbandon(c)
    <3>1. Queued' \in {Queued, Append(Queued, TcpClose(c))} /\ Queued \in Seq(DataMsg)
      BY <2>3, ClosesQueue DEF Closes
    <3>2. TcpClose(c) \in DataMsg /\ TcpClose(c).id = c
      BY Messages
    <3>3. \A d \in Conns : d # c /\ NoMessages(d, Queued) => NoMessages(d, Queued')
      BY <3>1, <3>2, JoinsQueue
    <3>4. answer[c] # "ok" => Queued' = Queued
      BY <2>3 DEF AppAbandon, Queued
    <3>5. /\ \A d \in Conns : app'[d].got = app[d].got /\ app'[d].sent = app[d].sent
          /\ UNCHANGED <<conn, pending, txbuf, rxbuf, toApp, far>>
      BY <2>3, <1>1, <1>2 DEF AppAbandon, AppTask, tableVars, sockVars
    <3>. QED
      BY <2>0, <3>3, <3>4, <3>5 DEF FreshInv, Untouched
  <2>4. CASE AppSend(c)
    <3>1. PICK n \in Nat \ {0} :
             /\ app' = [app EXCEPT ![c].sent = @ + n]
             /\ TcpData(c, Units(app[c].sent + 1, app[c].sent + n)) \in DataMsg
             /\ Queued' = Append(Queued, TcpData(c, Units(app[c].sent + 1, app[c].sent + n)))
             /\ Queued \in Seq(DataMsg)
      BY <2>4, SendsQueue
    <3>2. TcpData(c, Units(app[c].sent + 1, app[c].sent + n)).id = c
      BY DEF TcpData
    <3>3. \A d \in Conns : d # c /\ NoMessages(d, Queued) => NoMessages(d, Queued')
      BY <3>1, <3>2, JoinsQueue
    <3>4. conn[c].st # "free" /\ UNCHANGED <<conn, pending, txbuf, rxbuf, toApp, far>>
      BY <2>4, <2>0 DEF AppSend, Sending, tableVars, sockVars
    <3>. QED
      BY <1>1, <3>1, <3>3, <3>4 DEF FreshInv, Untouched
  <2>5. CASE AppClose(c)
    <3>1. Queued' \in {Queued, Append(Queued, TcpClose(c))} /\ Queued \in Seq(DataMsg)
      BY <2>5, ClosesQueue DEF Closes
    <3>2. TcpClose(c) \in DataMsg /\ TcpClose(c).id = c
      BY Messages
    <3>3. \A d \in Conns : d # c /\ NoMessages(d, Queued) => NoMessages(d, Queued')
      BY <3>1, <3>2, JoinsQueue
    <3>. QED
      BY <2>5, <1>1, <1>2, <2>0, <3>3 DEF AppClose, FreshInv, Untouched, tableVars, sockVars,
         Sending
  <2>6. CASE AppDropSender(c)
    <3>1. Queued' \in {Queued, Append(Queued, TcpClose(c))} /\ Queued \in Seq(DataMsg)
      BY <2>6, ClosesQueue DEF Closes
    <3>2. TcpClose(c) \in DataMsg /\ TcpClose(c).id = c
      BY Messages
    <3>3. \A d \in Conns : d # c /\ NoMessages(d, Queued) => NoMessages(d, Queued')
      BY <3>1, <3>2, JoinsQueue
    <3>. QED
      BY <2>6, <1>1, <1>2, <2>0, <3>3 DEF AppDropSender, FreshInv, Untouched, tableVars, sockVars
  <2>7. CASE AppDropReceiver(c)
    BY <2>7, <1>1, <1>2, <2>0 DEF AppDropReceiver, FreshInv, Untouched, Queued, Live, stackVars,
       tableVars, sockVars
  <2>8. CASE AppRecv(c)
    BY <2>8, <1>1, <1>2, <2>0 DEF AppRecv, FreshInv, Untouched, Queued, Live, stackVars, tableVars,
       sockVars
  <2>. QED
    BY <1>14, <2>1, <2>2, <2>3, <2>4, <2>5, <2>6, <2>7, <2>8 DEF App
<1>15. ASSUME NEW c \in Conns, ConnectDeadline(c) \/ LingerElapses(c) PROVE FreshInv'
  <2>1. CASE ConnectDeadline(c)
    BY <2>1, <1>1, <1>2 DEF ConnectDeadline, FreshInv, Untouched, Queued, Live, stackVars,
       tableVars, sockVars
  <2>2. CASE LingerElapses(c)
    BY <2>2, <1>1, <1>2 DEF LingerElapses, FreshInv, Untouched, Queued, Live, stackVars, tableVars,
       sockVars
  <2>. QED
    BY <1>15, <2>1, <2>2
<1>. QED
  BY <1>3, <1>4, <1>5, <1>6, <1>7, <1>8, <1>9, <1>10, <1>11, <1>12, <1>13, <1>14, <1>15 DEF Next,
     Loop

LEMMA CloseStep ==
    ASSUME TypeOK, LoopInv, OpenInv, CmdInv, CloseInv, Next
    PROVE  CloseInv'
<1>1. conn \in [Conns -> TcpState] /\ app \in [Conns -> AppTask]
  BY DEF TypeOK
<1>2. \A c \in Conns : conn[c] \in TcpState /\ app[c] \in AppTask
  BY <1>1
<1>3. CASE PollDone
  BY <1>3, <1>1, <1>2 DEF PollDone, CloseInv, Finished, Queued, stackVars, tableVars, sockVars,
     AppTask
<1>4. CASE ServiceDone
  BY <1>4, <1>1, <1>2 DEF ServiceDone, CloseInv, Finished, Queued, stackVars, tableVars, sockVars,
     AppTask
<1>5. CASE RetryDeferred
  <2>1. CASE deferred = <<>>
    BY <1>5, <2>1 DEF RetryDeferred, tableVars, CloseInv, Finished, Queued
  <2>2. CASE deferred # <<>>
    <3>1. Handles
      BY <1>5, <2>2, HandlesWhen
    <3>. DEFINE m == Head(Queued)
    <3>2. m \in DataMsg /\ TryHandleData(m) /\ m.id \in Conns
      BY <3>1, HeadQueued, TakenFacts DEF Handles
    <3>3. /\ \A c \in Conns : c # m.id => conn'[c] = conn[c]
          /\ conn'[m.id].half <=> conn[m.id].half \/ (m.close /\ m.id \in Live)
      BY <3>2, HandledFields
    <3>4. /\ \A c : Parts(c, Queued) = {} => Parts(c, Queued') = {}
          /\ \A c : HasClose(c, Queued') => HasClose(c, Queued)
          /\ Closing(Queued')
          /\ m.close => HasClose(m.id, Queued) /\ Parts(m.id, Queued) = {}
      BY <3>1, HandledAll DEF CloseInv
    <3>5. UNCHANGED app
      BY <3>1 DEF Handles
    <3>. HIDE DEF m
    <3>. QED
      BY <3>2, <3>3, <3>4, <3>5 DEF CloseInv, Finished
  <2>. QED
    BY <2>1, <2>2
<1>6. CASE DrainDone
  BY <1>6, <1>1, <1>2 DEF DrainDone, CloseInv, Finished, Queued, stackVars, tableVars, sockVars,
     AppTask
<1>7. CASE TakeData
  <2>1. Handles
    BY <1>7, HandlesWhen
  <2>. DEFINE m == Head(Queued)
  <2>2. m \in DataMsg /\ TryHandleData(m) /\ m.id \in Conns
    BY <2>1, HeadQueued, TakenFacts DEF Handles
  <2>3. /\ \A c \in Conns : c # m.id => conn'[c] = conn[c]
        /\ conn'[m.id].half <=> conn[m.id].half \/ (m.close /\ m.id \in Live)
    BY <2>2, HandledFields
  <2>4. /\ \A c : Parts(c, Queued) = {} => Parts(c, Queued') = {}
        /\ \A c : HasClose(c, Queued') => HasClose(c, Queued)
        /\ Closing(Queued')
        /\ m.close => HasClose(m.id, Queued) /\ Parts(m.id, Queued) = {}
    BY <2>1, HandledAll DEF CloseInv
  <2>5. UNCHANGED app
    BY <2>1 DEF Handles
  <2>. HIDE DEF m
  <2>. QED
    BY <2>2, <2>3, <2>4, <2>5 DEF CloseInv, Finished
<1>8. CASE HandleOpenTcp
  <2>1. Head(cmds) \in Conns
    BY <1>8, TailFacts DEF HandleOpenTcp, TypeOK
  <2>2. \A c \in Conns : conn'[c].half => conn[c].half
    BY <1>8, <1>1, <2>1, NewConnFields DEF HandleOpenTcp
  <2>. QED
    BY <1>8, <2>2 DEF HandleOpenTcp, CloseInv, Finished, Queued
<1>9. CASE Ingest
  BY <1>9, <1>1, <1>2 DEF Ingest, CloseInv, Finished, Queued, stackVars, tableVars, sockVars,
     AppTask
<1>10. CASE Tick
  BY <1>10, <1>1, <1>2 DEF Tick, CloseInv, Finished, Queued, stackVars, tableVars, sockVars, AppTask
<1>11. CASE Stop
  <2>1. Queued' = <<>>
    BY <1>11 DEF Stop, Queued
  <2>2. Closing(Queued') /\ \A c \in Conns : Parts(c, Queued') = {} /\ ~HasClose(c, Queued')
    BY <2>1 DEF Closing, Parts, HasClose
  <2>3. \A c \in Conns : conn'[c].half = conn[c].half
    BY <1>11, <1>1, <1>2 DEF Stop, TcpState
  <2>. QED
    BY <1>11, <2>2, <2>3 DEF Stop, CloseInv, Finished
<1>12. ASSUME NEW c \in Conns, Service(c) PROVE CloseInv'
  <2>1. CASE ServiceAborted(c)
    <3>1. \A d \in Conns : conn'[d].half = conn[d].half
      BY <2>1, <1>1, <1>2 DEF ServiceAborted, TcpState
    <3>. QED
      BY <2>1, <3>1 DEF ServiceAborted, CloseInv, Finished, Queued
  <2>2. CASE ServiceConnecting(c)
    <3>1. \A d \in Conns : conn'[d].half = conn[d].half
      BY <2>2, ConnectingFields
    <3>2. UNCHANGED <<dataIn, deferred, app>>
      BY <2>2, ConnectingFields
    <3>. QED
      BY <3>1, <3>2 DEF CloseInv, Finished, Queued
  <2>3. CASE ServiceEstablished(c)
    <3>1. Queued' \in {Queued, Append(Queued, TcpClose(c))} /\ Queued \in Seq(DataMsg)
      BY <2>3, ClosesQueue DEF Closes
    <3>2. TcpClose(c) \in DataMsg /\ TcpClose(c).id = c /\ TcpClose(c).close /\ TcpClose(c).data = <<>>
      BY Messages
    <3>3. /\ \A d \in Conns : Parts(d, Queued') = Parts(d, Queued)
          /\ \A d \in Conns : d # c => HasClose(d, Queued') = HasClose(d, Queued)
          /\ Closing(Queued')
      <4>1. CASE Queued' = Queued
        BY <4>1 DEF CloseInv
      <4>2. CASE Queued' = Append(Queued, TcpClose(c))
        <5>1. /\ \A d : d # c => Parts(d, Queued') = Parts(d, Queued)
              /\ Parts(c, Queued') = Parts(c, Queued)
              /\ \A d : HasClose(d, Queued') <=> HasClose(d, Queued) \/ d = c
              /\ Closing(Queued')
          BY <3>1, <3>2, <4>2, JoinsQueue DEF CloseInv
        <5>. QED
          BY <5>1 DEF HasClose
      <4>. QED
        BY <3>1, <4>1, <4>2
    <3>4. \A d \in Conns : conn'[d].half = conn[d].half
      BY <2>3, <1>1, EstablishedParts, AfterFields
    <3>5. /\ \A d \in Conns : Finished(d) => Finished(d)'
          /\ HasClose(c, Queued') => Finished(c)'
      <4>1. app' = [app EXCEPT ![c] = AppAfter(c)]
        BY <2>3, EstablishedParts
      <4>2. AppAfter(c).closed = app[c].closed /\ (AppAfter(c).tx <=> app[c].tx /\ ~Unwanted(c))
        BY AfterFields
      <4>3. ~Unwanted(c) => Queued' = Queued
        BY <2>3, EstablishedParts DEF Queued
      <4>4. \A d \in Conns : Finished(d) => Finished(d)'
        BY <1>1, <4>1, <4>2 DEF Finished
      <4>5. Unwanted(c) => Finished(c)'
        BY <1>1, <4>1, <4>2 DEF Finished
      <4>. QED
        BY <4>3, <4>4, <4>5 DEF CloseInv
    <3>. QED
      BY <3>3, <3>4, <3>5 DEF CloseInv
  <2>. QED
    BY <1>12, <2>1, <2>2, <2>3 DEF Service
<1>13. ASSUME NEW c \in Conns, Far(c) PROVE CloseInv'
  <2>1. CASE SynAck(c)
    BY <2>1, <1>1, <1>2 DEF SynAck, CloseInv, Finished, Queued, stackVars, tableVars, sockVars,
       AppTask
  <2>2. CASE FarData(c)
    BY <2>2, <1>1, <1>2 DEF FarData, CloseInv, Finished, Queued, stackVars, tableVars, sockVars,
       AppTask
  <2>3. CASE FarFin(c)
    BY <2>3, <1>1, <1>2 DEF FarFin, CloseInv, Finished, Queued, stackVars, tableVars, sockVars,
       AppTask
  <2>4. CASE FarAck(c)
    BY <2>4, <1>1, <1>2 DEF FarAck, CloseInv, Finished, Queued, stackVars, tableVars, sockVars,
       AppTask
  <2>5. CASE FarAckFin(c)
    BY <2>5, <1>1, <1>2 DEF FarAckFin, CloseInv, Finished, Queued, stackVars, tableVars, sockVars,
       AppTask
  <2>6. CASE SocketDies(c)
    BY <2>6, <1>1, <1>2 DEF SocketDies, CloseInv, Finished, Queued, stackVars, tableVars, sockVars,
       AppTask
  <2>. QED
    BY <1>13, <2>1, <2>2, <2>3, <2>4, <2>5, <2>6 DEF Far
<1>14. ASSUME NEW c \in Conns, App(c) PROVE CloseInv'
  <2>1. CASE AppOpen(c)
    BY <2>1, <1>1, <1>2 DEF AppOpen, CloseInv, Finished, Queued, stackVars, tableVars, sockVars,
       AppTask
  <2>2. CASE AppOpened(c)
    BY <2>2, <1>1, <1>2 DEF AppOpened, CloseInv, Finished, Queued, stackVars, tableVars, sockVars,
       AppTask
  <2>3. CASE AppAbandon(c)
    <3>1. Queued' \in {Queued, Append(Queued, TcpClose(c))} /\ Queued \in Seq(DataMsg)
      BY <2>3, ClosesQueue DEF Closes
    <3>2. TcpClose(c) \in DataMsg /\ TcpClose(c).id = c /\ TcpClose(c).close /\ TcpClose(c).data = <<>>
      BY Messages
    <3>3. /\ \A d \in Conns : Parts(d, Queued') = Parts(d, Queued)
          /\ \A d \in Conns : d # c => HasClose(d, Queued') = HasClose(d, Queued)
          /\ Closing(Queued')
      <4>1. CASE Queued' = Queued
        BY <4>1 DEF CloseInv
      <4>2. CASE Queued' = Append(Queued, TcpClose(c))
        <5>1. /\ \A d : d # c => Parts(d, Queued') = Parts(d, Queued)
              /\ Parts(c, Queued') = Parts(c, Queued)
              /\ \A d : HasClose(d, Queued') <=> HasClose(d, Queued) \/ d = c
              /\ Closing(Queued')
          BY <3>1, <3>2, <4>2, JoinsQueue DEF CloseInv
        <5>. QED
          BY <5>1 DEF HasClose
      <4>. QED
        BY <3>1, <4>1, <4>2
    <3>4. \A d \in Conns : conn'[d].half = conn[d].half
      BY <2>3 DEF AppAbandon, tableVars
    <3>5. /\ \A d \in Conns : Finished(d) => Finished(d)'
          /\ HasClose(c, Queued') => Finished(c)'
      <4>1. app[c].tx /\ ~app[c].closed /\ ~Finished(c)
        BY <2>3 DEF AppAbandon, OpenInv, Finished
      <4>2. answer[c] = "ok" => Finished(c)'
        BY <2>3, <1>1, <1>2 DEF AppAbandon, Finished, AppTask
      <4>3. answer[c] # "ok" => Queued' = Queued
        BY <2>3 DEF AppAbandon, Queued
      <4>4. \A d \in Conns : d # c => app'[d] = app[d]
        BY <2>3, <1>1 DEF AppAbandon
      <4>. QED
        BY <4>1, <4>2, <4>3, <4>4 DEF CloseInv, Finished
    <3>. QED
      BY <3>3, <3>4, <3>5 DEF CloseInv
  <2>4. CASE AppSend(c)
    <3>1. PICK n \in Nat \ {0} :
             /\ app' = [app EXCEPT ![c].sent = @ + n]
             /\ TcpData(c, Units(app[c].sent + 1, app[c].sent + n)) \in DataMsg
             /\ Queued' = Append(Queued, TcpData(c, Units(app[c].sent + 1, app[c].sent + n)))
             /\ Queued \in Seq(DataMsg)
      BY <2>4, SendsQueue
    <3>. DEFINE m == TcpData(c, Units(app[c].sent + 1, app[c].sent + n))
    <3>2. m.id = c /\ ~m.close /\ m \in DataMsg /\ Queued' = Append(Queued, m)
      BY <3>1 DEF TcpData
    <3>. HIDE DEF m
    <3>3. ~Finished(c) /\ ~HasClose(c, Queued) /\ ~conn[c].half
      BY <2>4 DEF AppSend, Sending, Finished, CloseInv
    <3>4. /\ \A d : d # c => Parts(d, Queued') = Parts(d, Queued)
          /\ \A d : HasClose(d, Queued') <=> HasClose(d, Queued)
          /\ Closing(Queued')
      BY <3>1, <3>2, <3>3, JoinsQueue DEF CloseInv
    <3>5. /\ \A d \in Conns : (app'[d].closed <=> app[d].closed) /\ (app'[d].tx <=> app[d].tx)
          /\ conn' = conn
      BY <2>4, <1>1, <1>2, <3>1 DEF AppSend, AppTask, tableVars
    <3>. QED
      BY <3>3, <3>4, <3>5 DEF CloseInv, Finished
  <2>5. CASE AppClose(c)
    <3>1. Queued' \in {Queued, Append(Queued, TcpClose(c))} /\ Queued \in Seq(DataMsg)
      BY <2>5, ClosesQueue DEF Closes
    <3>2. TcpClose(c) \in DataMsg /\ TcpClose(c).id = c /\ TcpClose(c).close /\ TcpClose(c).data = <<>>
      BY Messages
    <3>3. /\ \A d \in Conns : Parts(d, Queued') = Parts(d, Queued)
          /\ \A d \in Conns : d # c => HasClose(d, Queued') = HasClose(d, Queued)
          /\ Closing(Queued')
      <4>1. CASE Queued' = Queued
        BY <4>1 DEF CloseInv
      <4>2. CASE Queued' = Append(Queued, TcpClose(c))
        <5>1. /\ \A d : d # c => Parts(d, Queued') = Parts(d, Queued)
              /\ Parts(c, Queued') = Parts(c, Queued)
              /\ \A d : HasClose(d, Queued') <=> HasClose(d, Queued) \/ d = c
              /\ Closing(Queued')
          BY <3>1, <3>2, <4>2, JoinsQueue DEF CloseInv
        <5>. QED
          BY <5>1 DEF HasClose
      <4>. QED
        BY <3>1, <4>1, <4>2
    <3>4. \A d \in Conns : conn'[d].half = conn[d].half
      BY <2>5 DEF AppClose, tableVars
    <3>5. /\ \A d \in Conns : Finished(d) => Finished(d)'
          /\ Finished(c)'
      BY <2>5, <1>1, <1>2 DEF AppClose, Finished, AppTask
    <3>. QED
      BY <3>3, <3>4, <3>5 DEF CloseInv
  <2>6. CASE AppDropSender(c)
    <3>1. Queued' \in {Queued, Append(Queued, TcpClose(c))} /\ Queued \in Seq(DataMsg)
      BY <2>6, ClosesQueue DEF Closes
    <3>2. TcpClose(c) \in DataMsg /\ TcpClose(c).id = c /\ TcpClose(c).close /\ TcpClose(c).data = <<>>
      BY Messages
    <3>3. /\ \A d \in Conns : Parts(d, Queued') = Parts(d, Queued)
          /\ \A d \in Conns : d # c => HasClose(d, Queued') = HasClose(d, Queued)
          /\ Closing(Queued')
      <4>1. CASE Queued' = Queued
        BY <4>1 DEF CloseInv
      <4>2. CASE Queued' = Append(Queued, TcpClose(c))
        <5>1. /\ \A d : d # c => Parts(d, Queued') = Parts(d, Queued)
              /\ Parts(c, Queued') = Parts(c, Queued)
              /\ \A d : HasClose(d, Queued') <=> HasClose(d, Queued) \/ d = c
              /\ Closing(Queued')
          BY <3>1, <3>2, <4>2, JoinsQueue DEF CloseInv
        <5>. QED
          BY <5>1 DEF HasClose
      <4>. QED
        BY <3>1, <4>1, <4>2
    <3>4. \A d \in Conns : conn'[d].half = conn[d].half
      BY <2>6 DEF AppDropSender, tableVars
    <3>5. /\ \A d \in Conns : Finished(d) => Finished(d)'
          /\ Finished(c)'
      BY <2>6, <1>1, <1>2 DEF AppDropSender, Finished, AppTask
    <3>. QED
      BY <3>3, <3>4, <3>5 DEF CloseInv
  <2>7. CASE AppDropReceiver(c)
    BY <2>7, <1>1, <1>2 DEF AppDropReceiver, CloseInv, Finished, Queued, stackVars, tableVars,
       sockVars, AppTask
  <2>8. CASE AppRecv(c)
    BY <2>8, <1>1, <1>2 DEF AppRecv, CloseInv, Finished, Queued, stackVars, tableVars, sockVars,
       AppTask
  <2>. QED
    BY <1>14, <2>1, <2>2, <2>3, <2>4, <2>5, <2>6, <2>7, <2>8 DEF App
<1>15. ASSUME NEW c \in Conns, ConnectDeadline(c) \/ LingerElapses(c) PROVE CloseInv'
  <2>1. CASE ConnectDeadline(c)
    <3>1. \A d \in Conns : conn'[d].half = conn[d].half
      BY <2>1, <1>1, <1>2 DEF ConnectDeadline, TcpState
    <3>. QED
      BY <2>1, <3>1 DEF ConnectDeadline, CloseInv, Finished, Queued, stackVars
  <2>2. CASE LingerElapses(c)
    <3>1. \A d \in Conns : conn'[d].half = conn[d].half
      BY <2>2, <1>1, <1>2 DEF LingerElapses, TcpState
    <3>. QED
      BY <2>2, <3>1 DEF LingerElapses, CloseInv, Finished, Queued, stackVars
  <2>. QED
    BY <1>15, <2>1, <2>2
<1>. QED
  BY <1>3, <1>4, <1>5, <1>6, <1>7, <1>8, <1>9, <1>10, <1>11, <1>12, <1>13, <1>14, <1>15 DEF Next,
     Loop

-----------------------------------------------------------------------------
(* The end of the upload                                                    *)

LEMMA FinStep ==
    ASSUME TypeOK, LoopInv, OpenInv, CmdInv, CloseInv, FinInv, Next
    PROVE  FinInv'
<1>1. /\ conn \in [Conns -> TcpState] /\ app \in [Conns -> AppTask] /\ sock \in [Conns -> Socket]
      /\ pending \in [Conns -> Seq(1..Up)]
  BY DEF TypeOK
<1>2. \A c \in Conns : conn[c] \in TcpState /\ app[c] \in AppTask /\ sock[c] \in Socket
  BY <1>1
<1>3. CASE PollDone
  <2>1. \A c \in Conns : sock'[c].state = sock[c].state
    BY <1>3, <1>1, <1>2 DEF PollDone, Socket
  <2>. QED
    BY <1>3, <2>1 DEF PollDone, FinInv, Live, tableVars
<1>4. CASE ServiceDone
  BY <1>4, <1>1, <1>2 DEF ServiceDone, FinInv, FinStates, Live, stackVars, tableVars, sockVars,
     AppTask, TcpState, Socket
<1>5. CASE RetryDeferred
  <2>1. CASE deferred = <<>>
    BY <1>5, <2>1 DEF RetryDeferred, tableVars, sockVars, FinInv, Live
  <2>2. CASE deferred # <<>>
    <3>1. Handles
      BY <1>5, <2>2, HandlesWhen
    <3>. DEFINE m == Head(Queued)
    <3>2. m \in DataMsg /\ TryHandleData(m) /\ m.id \in Conns
      BY <3>1, HeadQueued, TakenFacts DEF Handles
    <3>3. /\ Live' = Live
          /\ \A c \in Conns : c # m.id => conn'[c] = conn[c] /\ pending'[c] = pending[c]
          /\ conn'[m.id].half <=> conn[m.id].half \/ (m.close /\ m.id \in Live)
          /\ pending'[m.id] = pending[m.id] \o SubSeq(m.data, 1, Taken(m))
      BY <3>2, HandledFields
    <3>4. conn[m.id].half => pending'[m.id] = pending[m.id]
      <4>. HAVE conn[m.id].half
      <4>1. Parts(m.id, Queued) = {} /\ Queued[1] = m /\ 1 \in 1..Len(Queued)
        BY <3>1, <3>2, HeadQueued DEF CloseInv, Handles
      <4>2. m.data = <<>>
        BY <4>1 DEF Parts
      <4>3. /\ Taken(m) \in Nat /\ Taken(m) <= Len(m.data) /\ SubSeq(m.data, 1, Taken(m)) \in Seq(1..Up)
            /\ Len(SubSeq(m.data, 1, Taken(m))) = Taken(m)
        BY <3>2, TakenFacts
      <4>4. SubSeq(m.data, 1, Taken(m)) = <<>>
        BY <4>2, <4>3, EmptySeq
      <4>5. pending[m.id] \in Seq(1..Up)
        BY <3>2, Typed
      <4>. QED
        BY <3>3, <4>4, <4>5, ConcatEmptySeq
    <3>5. UNCHANGED <<app, sock>>
      BY <3>1 DEF Handles, sockVars
    <3>. HIDE DEF m
    <3>6. \A c \in Live' : c \in Live /\ c \in Conns
      BY <3>3 DEF Live
    <3>. QED
      BY <3>2, <3>3, <3>4, <3>5, <3>6 DEF FinInv
  <2>. QED
    BY <2>1, <2>2
<1>6. CASE DrainDone
  BY <1>6, <1>1, <1>2 DEF DrainDone, FinInv, FinStates, Live, stackVars, tableVars, sockVars,
     AppTask, TcpState, Socket
<1>7. CASE TakeData
  <2>1. Handles
    BY <1>7, HandlesWhen
  <2>. DEFINE m == Head(Queued)
  <2>2. m \in DataMsg /\ TryHandleData(m) /\ m.id \in Conns
    BY <2>1, HeadQueued, TakenFacts DEF Handles
  <2>3. /\ Live' = Live
        /\ \A c \in Conns : c # m.id => conn'[c] = conn[c] /\ pending'[c] = pending[c]
        /\ conn'[m.id].half <=> conn[m.id].half \/ (m.close /\ m.id \in Live)
        /\ pending'[m.id] = pending[m.id] \o SubSeq(m.data, 1, Taken(m))
    BY <2>2, HandledFields
  <2>4. conn[m.id].half => pending'[m.id] = pending[m.id]
    <3>. HAVE conn[m.id].half
    <3>1. Parts(m.id, Queued) = {} /\ Queued[1] = m /\ 1 \in 1..Len(Queued)
      BY <2>1, <2>2, HeadQueued DEF CloseInv, Handles
    <3>2. m.data = <<>>
      BY <3>1 DEF Parts
    <3>3. /\ Taken(m) \in Nat /\ Taken(m) <= Len(m.data) /\ SubSeq(m.data, 1, Taken(m)) \in Seq(1..Up)
          /\ Len(SubSeq(m.data, 1, Taken(m))) = Taken(m)
      BY <2>2, TakenFacts
    <3>4. SubSeq(m.data, 1, Taken(m)) = <<>>
      BY <3>2, <3>3, EmptySeq
    <3>5. pending[m.id] \in Seq(1..Up)
      BY <2>2, Typed
    <3>. QED
      BY <2>3, <3>4, <3>5, ConcatEmptySeq
  <2>5. UNCHANGED <<app, sock>>
    BY <2>1 DEF Handles, sockVars
  <2>. HIDE DEF m
  <2>6. \A c \in Live' : c \in Live /\ c \in Conns
    BY <2>3 DEF Live
  <2>. QED
    BY <2>2, <2>3, <2>4, <2>5, <2>6 DEF FinInv
<1>8. CASE HandleOpenTcp
  <2>1. Head(cmds) \in Conns
    BY <1>8, TailFacts DEF HandleOpenTcp, TypeOK
  <2>2. /\ \A c \in Conns : c # Head(cmds) => conn'[c] = conn[c] /\ sock'[c] = sock[c]
        /\ UNCHANGED <<app, pending>>
    BY <1>8, <1>1, <2>1 DEF HandleOpenTcp
  <2>3. conn[Head(cmds)].st = "free"
    <3>1. cmds \in Seq(Conns) /\ cmds # <<>>
      BY <1>8 DEF HandleOpenTcp, TypeOK
    <3>2. Head(cmds) = cmds[1] /\ 1 \in 1..Len(cmds)
      BY <3>1, TailFacts
    <3>. QED
      BY <3>2 DEF CmdInv
  <2>4. Head(cmds) \in Live' => sock'[Head(cmds)].state = "SynSent"
    BY <1>8, <1>1, <1>2, <2>1, <2>3 DEF HandleOpenTcp, Live, Socket
  <2>. QED
    BY <2>1, <2>2, <2>4 DEF FinInv, FinStates, Live
<1>9. CASE Ingest
  BY <1>9, <1>1, <1>2 DEF Ingest, FinInv, FinStates, Live, stackVars, tableVars, sockVars, AppTask,
     TcpState, Socket
<1>10. CASE Tick
  BY <1>10, <1>1, <1>2 DEF Tick, FinInv, FinStates, Live, stackVars, tableVars, sockVars, AppTask,
     TcpState, Socket
<1>11. CASE Stop
  <2>1. Live' = {}
    BY <1>11, <1>1, <1>2 DEF Stop, Live, TcpState
  <2>. QED
    BY <2>1 DEF FinInv
<1>12. ASSUME NEW c \in Conns, Service(c) PROVE FinInv'
  <2>1. CASE ServiceAborted(c)
    BY <2>1, <1>1, <1>2 DEF ServiceAborted, FinInv, FinStates, Live, stackVars, tableVars, sockVars,
       AppTask, TcpState, Socket
  <2>2. CASE ServiceConnecting(c)
    <3>1. /\ Live' \subseteq Live /\ UNCHANGED <<pending, app, sock>>
          /\ \A d \in Conns : conn'[d].half = conn[d].half
      BY <2>2, ConnectingFields DEF Live
    <3>. QED
      BY <3>1 DEF FinInv, Live
  <2>3. CASE ServiceEstablished(c)
    <3>1. /\ conn' = [conn EXCEPT ![c] = ConnAfter(c)] /\ app' = [app EXCEPT ![c] = AppAfter(c)]
          /\ sock' = [sock EXCEPT ![c] = SockAfter(c)]
          /\ pending' = [pending EXCEPT ![c] =
                            IF ~Aborts(c) /\ State2(c) = "TimeWait" THEN <<>> ELSE PendLeft(c)]
          /\ c \in Live
      BY <2>3, EstablishedParts DEF LoopInv
    <3>2. \A d \in Conns : d # c => /\ conn'[d] = conn[d] /\ app'[d] = app[d]
                                   /\ sock'[d] = sock[d] /\ pending'[d] = pending[d]
      BY <1>1, <3>1
    <3>3. ASSUME app'[c].rx, sock'[c].state \in FinStates PROVE conn'[c].half /\ pending'[c] = <<>>
      <4>1. app'[c] = AppAfter(c) /\ sock'[c] = SockAfter(c) /\ conn'[c] = ConnAfter(c)
            /\ pending'[c] \in {<<>>, PendLeft(c)}
        BY <1>1, <3>1
      <4>2. app[c].rx /\ ~Unwanted(c) /\ ~AppGone(c) /\ ~Aborts(c)
        BY <3>3, <4>1, AfterFields DEF AppGone, Aborts
      <4>3. State3(c) \in FinStates /\ State2(c) = State1(c)
        BY <3>3, <4>1, <4>2 DEF SockAfter, State2
      <4>4. State1(c) \in FinStates
        BY <4>3 DEF State3, FinStates, CloseState
      <4>5. CASE conn[c].half /\ PendLeft(c) = <<>>
        BY <4>1, <4>5, AfterFields
      <4>6. CASE ~(conn[c].half /\ PendLeft(c) = <<>>)
        <5>1. State1(c) = sock[c].state
          BY <4>6 DEF State1, HalfClose
        <5>2. conn[c].half /\ pending[c] = <<>>
          BY <3>1, <4>2, <4>4, <5>1 DEF FinInv
        <5>3. Sendable(c) \in Nat /\ Sendable(c) <= Len(pending[c])
          BY EstablishedFits
        <5>4. Sendable(c) = 0 /\ Len(pending[c]) = 0
          BY <5>2, <5>3
        <5>5. PendLeft(c) = <<>>
          BY <5>2, <5>4 DEF PendLeft
        <5>. QED
          BY <4>6, <5>2, <5>5
      <4>. QED
        BY <4>5, <4>6
    <3>4. \A d \in Live' : d \in Conns /\ (d # c => d \in Live)
      BY <3>2 DEF Live
    <3>. QED
      BY <3>2, <3>3, <3>4 DEF FinInv
  <2>. QED
    BY <1>12, <2>1, <2>2, <2>3 DEF Service
<1>13. ASSUME NEW c \in Conns, Far(c) PROVE FinInv'
  <2>1. CASE SynAck(c)
    BY <2>1, <1>1, <1>2 DEF SynAck, FinInv, FinStates, Live, stackVars, tableVars, sockVars,
       AppTask, TcpState, Socket
  <2>2. CASE FarData(c)
    BY <2>2, <1>1, <1>2 DEF FarData, FinInv, FinStates, Live, stackVars, tableVars, sockVars,
       AppTask, TcpState, Socket
  <2>3. CASE FarFin(c)
    <3>1. UNCHANGED <<conn, pending, app>> /\ Receiving(sock[c].state)
      BY <2>3 DEF FarFin, tableVars
    <3>2. \A d \in Conns : d # c => sock'[d] = sock[d]
      BY <2>3, <1>1 DEF FarFin
    <3>3. sock'[c].state \in FinStates => sock[c].state \in FinStates
      BY <2>3, <1>1, <1>2 DEF FarFin, Receiving, FinStates, Socket
    <3>. QED
      BY <3>1, <3>2, <3>3 DEF FinInv, Live
  <2>4. CASE FarAck(c)
    BY <2>4, <1>1, <1>2 DEF FarAck, FinInv, FinStates, Live, stackVars, tableVars, sockVars,
       AppTask, TcpState, Socket
  <2>5. CASE FarAckFin(c)
    BY <2>5, <1>1, <1>2 DEF FarAckFin, FinInv, FinStates, Live, stackVars, tableVars, sockVars,
       AppTask, TcpState, Socket
  <2>6. CASE SocketDies(c)
    BY <2>6, <1>1, <1>2 DEF SocketDies, FinInv, FinStates, Live, stackVars, tableVars, sockVars,
       AppTask, TcpState, Socket
  <2>. QED
    BY <1>13, <2>1, <2>2, <2>3, <2>4, <2>5, <2>6 DEF Far
<1>14. ASSUME NEW c \in Conns, App(c) PROVE FinInv'
  <2>1. CASE AppOpen(c)
    BY <2>1, <1>1, <1>2 DEF AppOpen, FinInv, FinStates, Live, stackVars, tableVars, sockVars,
       AppTask, TcpState, Socket
  <2>2. CASE AppOpened(c)
    BY <2>2, <1>1, <1>2 DEF AppOpened, FinInv, FinStates, Live, stackVars, tableVars, sockVars,
       AppTask, TcpState, Socket
  <2>3. CASE AppAbandon(c)
    BY <2>3, <1>1, <1>2 DEF AppAbandon, FinInv, FinStates, Live, stackVars, tableVars, sockVars,
       AppTask, TcpState, Socket
  <2>4. CASE AppSend(c)
    BY <2>4, <1>1, <1>2 DEF AppSend, FinInv, FinStates, Live, stackVars, tableVars, sockVars,
       AppTask, TcpState, Socket
  <2>5. CASE AppClose(c)
    BY <2>5, <1>1, <1>2 DEF AppClose, FinInv, FinStates, Live, stackVars, tableVars, sockVars,
       AppTask, TcpState, Socket
  <2>6. CASE AppDropSender(c)
    BY <2>6, <1>1, <1>2 DEF AppDropSender, FinInv, FinStates, Live, stackVars, tableVars, sockVars,
       AppTask, TcpState, Socket
  <2>7. CASE AppDropReceiver(c)
    BY <2>7, <1>1, <1>2 DEF AppDropReceiver, FinInv, FinStates, Live, stackVars, tableVars,
       sockVars, AppTask, TcpState, Socket
  <2>8. CASE AppRecv(c)
    BY <2>8, <1>1, <1>2 DEF AppRecv, FinInv, FinStates, Live, stackVars, tableVars, sockVars,
       AppTask, TcpState, Socket
  <2>. QED
    BY <1>14, <2>1, <2>2, <2>3, <2>4, <2>5, <2>6, <2>7, <2>8 DEF App
<1>15. ASSUME NEW c \in Conns, ConnectDeadline(c) \/ LingerElapses(c) PROVE FinInv'
  <2>1. CASE ConnectDeadline(c)
    BY <2>1, <1>1, <1>2 DEF ConnectDeadline, FinInv, FinStates, Live, stackVars, tableVars,
       sockVars, AppTask, TcpState, Socket
  <2>2. CASE LingerElapses(c)
    BY <2>2, <1>1, <1>2 DEF LingerElapses, FinInv, FinStates, Live, stackVars, tableVars, sockVars,
       AppTask, TcpState, Socket
  <2>. QED
    BY <1>15, <2>1, <2>2
<1>. QED
  BY <1>3, <1>4, <1>5, <1>6, <1>7, <1>8, <1>9, <1>10, <1>11, <1>12, <1>13, <1>14, <1>15 DEF Next,
     Loop

(* A message pushed back is the head of the deferred queue, and its         *)
(* connection has no room left.                                             *)
LEMMA PushedBackFull ==
    ASSUME TypeOK, Closing(Queued), NEW m, m = Head(Queued), Handles, PushedBack(m) # <<>>
    PROVE  /\ PushedBack(m) = <<Rest(m)>> /\ Rest(m).id = m.id /\ m.id \in Live'
           /\ MaxPending - Len(pending'[m.id]) = 0
<1>1. /\ PushedBack(m) = <<Rest(m)>> /\ Rest(m).id = m.id /\ m.id \in Live /\ Taken(m) = Space(m.id)
  BY HandledQueue
<1>2. m \in DataMsg /\ TryHandleData(m)
  BY HeadQueued DEF Handles
<1>3. Live' = Live /\ pending'[m.id] = pending[m.id] \o SubSeq(m.data, 1, Taken(m))
  BY <1>2, HandledFields
<1>4. /\ m.id \in Conns /\ SubSeq(m.data, 1, Taken(m)) \in Seq(1..Up)
      /\ Len(SubSeq(m.data, 1, Taken(m))) = Taken(m) /\ Taken(m) \in Nat
  BY <1>2, TakenFacts
<1>5. pending[m.id] \in Seq(1..Up) /\ Len(pending[m.id]) \in Nat
  BY <1>4, Typed
<1>6. Len(pending'[m.id]) = Len(pending[m.id]) + Taken(m)
  <2>. DEFINE p == SubSeq(m.data, 1, Taken(m))
  <2>1. p \in Seq(1..Up) /\ Len(p) = Taken(m)
    BY <1>4
  <2>. HIDE DEF p
  <2>2. Len(pending[m.id] \o p) = Len(pending[m.id]) + Len(p)
    BY <1>5, <2>1, ConcatProperties
  <2>. QED
    BY <1>3, <2>1, <2>2 DEF p
<1>7. Taken(m) = MaxPending - Len(pending[m.id]) /\ MaxPending \in Nat
  BY <1>1, Sizes DEF Space
<1>8. MaxPending - Len(pending'[m.id]) = 0
  BY <1>5, <1>6, <1>7
<1>. QED
  BY <1>1, <1>3, <1>8

(* What is deferred after a message was handled. *)
LEMMA DeferredAfter ==
    ASSUME TypeOK, TakeData \/ (RetryDeferred /\ deferred # <<>>)
    PROVE  deferred' = PushedBack(Head(Queued))
<1>0. deferred \in Seq(DataMsg) /\ dataIn \in Seq(DataMsg) /\ Len(deferred) <= 1
  BY DEF TypeOK
<1>1. CASE TakeData
  <2>1. deferred = <<>> /\ deferred' = PushedBack(Head(dataIn))
    BY <1>1 DEF TakeData
  <2>2. Queued = dataIn
    BY <1>0, <2>1, ConcatEmptySeq DEF Queued
  <2>. QED
    BY <2>1, <2>2
<1>2. CASE RetryDeferred /\ deferred # <<>>
  <2>1. deferred' = PushedBack(Head(deferred)) \o Tail(deferred)
    BY <1>2 DEF RetryDeferred
  <2>2. /\ Head(deferred) \in DataMsg /\ Tail(deferred) \in Seq(DataMsg)
        /\ Len(deferred) \in Nat \ {0} /\ Len(Tail(deferred)) = Len(deferred) - 1
    BY <1>0, <1>2, TailFacts
  <2>3. Tail(deferred) = <<>>
    BY <1>0, <2>2, EmptySeq
  <2>4. PushedBack(Head(deferred)) \in Seq(DataMsg)
    BY <2>2, PushedBackFacts
  <2>5. Head(Queued) = Head(deferred)
    BY <1>0, <1>2, <2>4, QueueTakes DEF Queued
  <2>. QED
    BY <2>1, <2>3, <2>4, <2>5, ConcatEmptySeq
<1>. QED
  BY <1>1, <1>2

LEMMA DeferredStep ==
    ASSUME TypeOK, LoopInv, CloseInv, DeferredOnlyWhenFull, Next
    PROVE  DeferredOnlyWhenFull'
<1>1. conn \in [Conns -> TcpState]
  BY DEF TypeOK
<1>2. \A c \in Conns : conn[c] \in TcpState
  BY <1>1
<1>3. CASE PollDone
  BY <1>3 DEF PollDone, DeferredOnlyWhenFull, Space, Live, stackVars, tableVars, sockVars
<1>4. CASE ServiceDone
  BY <1>4 DEF ServiceDone, DeferredOnlyWhenFull, Space, Live, stackVars, tableVars, sockVars
<1>5. CASE RetryDeferred
  <2>1. CASE deferred = <<>>
    BY <1>5, <2>1 DEF RetryDeferred, DeferredOnlyWhenFull
  <2>2. CASE deferred # <<>>
    <3>1. Handles /\ deferred' = PushedBack(Head(Queued))
      BY <1>5, <2>2, HandlesWhen, DeferredAfter
    <3>2. CASE deferred' = <<>>
      BY <3>2 DEF DeferredOnlyWhenFull
    <3>3. CASE deferred' # <<>>
      <4>1. /\ deferred' = <<Rest(Head(Queued))>> /\ Rest(Head(Queued)).id = Head(Queued).id
            /\ Head(Queued).id \in Live' /\ MaxPending - Len(pending'[Head(Queued).id]) = 0
        BY <3>1, <3>3, PushedBackFull DEF CloseInv
      <4>2. Head(deferred') = Rest(Head(Queued))
        BY <4>1
      <4>. QED
        BY <4>1, <4>2 DEF DeferredOnlyWhenFull, Space
    <3>. QED
      BY <3>2, <3>3
  <2>. QED
    BY <2>1, <2>2
<1>6. CASE DrainDone
  BY <1>6 DEF DrainDone, LoopInv, DeferredOnlyWhenFull
<1>7. CASE TakeData
  <2>1. Handles /\ deferred' = PushedBack(Head(Queued))
    BY <1>7, HandlesWhen, DeferredAfter
  <2>2. CASE deferred' = <<>>
    BY <2>2 DEF DeferredOnlyWhenFull
  <2>3. CASE deferred' # <<>>
    <3>1. /\ deferred' = <<Rest(Head(Queued))>> /\ Rest(Head(Queued)).id = Head(Queued).id
          /\ Head(Queued).id \in Live' /\ MaxPending - Len(pending'[Head(Queued).id]) = 0
      BY <2>1, <2>3, PushedBackFull DEF CloseInv
    <3>2. Head(deferred') = Rest(Head(Queued))
      BY <3>1
    <3>. QED
      BY <3>1, <3>2 DEF DeferredOnlyWhenFull, Space
  <2>. QED
    BY <2>2, <2>3
<1>8. CASE HandleOpenTcp
  <2>1. Head(cmds) \in Conns
    BY <1>8, TailFacts DEF HandleOpenTcp, TypeOK
  <2>2. Live \subseteq Live' /\ UNCHANGED <<deferred, pending>>
    BY <1>8, <1>1, <2>1, NewConnFields DEF HandleOpenTcp, Live
  <2>. QED
    BY <1>8, <2>2 DEF HandleOpenTcp, DeferredOnlyWhenFull, Space
<1>9. CASE Ingest
  BY <1>9 DEF Ingest, DeferredOnlyWhenFull, Space, Live, stackVars, tableVars, sockVars
<1>10. CASE Tick
  BY <1>10 DEF Tick, DeferredOnlyWhenFull, Space, Live, stackVars, tableVars, sockVars
<1>11. CASE Stop
  BY <1>11 DEF Stop, DeferredOnlyWhenFull, Space, Live, stackVars, tableVars, sockVars
<1>12. ASSUME NEW c \in Conns, Service(c) PROVE DeferredOnlyWhenFull'
  <2>1. CASE ServiceAborted(c)
    BY <2>1 DEF ServiceAborted, DeferredOnlyWhenFull, Space, Live, stackVars, tableVars, sockVars
  <2>2. CASE ServiceConnecting(c)
    BY <2>2 DEF ServiceConnecting, DeferredOnlyWhenFull, Space, Live, stackVars, tableVars, sockVars
  <2>3. CASE ServiceEstablished(c)
    BY <2>3, EstablishedParts DEF DeferredOnlyWhenFull
  <2>. QED
    BY <1>12, <2>1, <2>2, <2>3 DEF Service
<1>13. ASSUME NEW c \in Conns, Far(c) PROVE DeferredOnlyWhenFull'
  <2>1. CASE SynAck(c)
    BY <2>1 DEF SynAck, DeferredOnlyWhenFull, Space, Live, stackVars, tableVars, sockVars
  <2>2. CASE FarData(c)
    BY <2>2 DEF FarData, DeferredOnlyWhenFull, Space, Live, stackVars, tableVars, sockVars
  <2>3. CASE FarFin(c)
    BY <2>3 DEF FarFin, DeferredOnlyWhenFull, Space, Live, stackVars, tableVars, sockVars
  <2>4. CASE FarAck(c)
    BY <2>4 DEF FarAck, DeferredOnlyWhenFull, Space, Live, stackVars, tableVars, sockVars
  <2>5. CASE FarAckFin(c)
    BY <2>5 DEF FarAckFin, DeferredOnlyWhenFull, Space, Live, stackVars, tableVars, sockVars
  <2>6. CASE SocketDies(c)
    BY <2>6 DEF SocketDies, DeferredOnlyWhenFull, Space, Live, stackVars, tableVars, sockVars
  <2>. QED
    BY <1>13, <2>1, <2>2, <2>3, <2>4, <2>5, <2>6 DEF Far
<1>14. ASSUME NEW c \in Conns, App(c) PROVE DeferredOnlyWhenFull'
  <2>1. CASE AppOpen(c)
    BY <2>1 DEF AppOpen, DeferredOnlyWhenFull, Space, Live, stackVars, tableVars, sockVars
  <2>2. CASE AppOpened(c)
    BY <2>2 DEF AppOpened, DeferredOnlyWhenFull, Space, Live, stackVars, tableVars, sockVars
  <2>3. CASE AppAbandon(c)
    BY <2>3 DEF AppAbandon, DeferredOnlyWhenFull, Space, Live, stackVars, tableVars, sockVars
  <2>4. CASE AppSend(c)
    BY <2>4 DEF AppSend, DeferredOnlyWhenFull, Space, Live, stackVars, tableVars, sockVars
  <2>5. CASE AppClose(c)
    BY <2>5 DEF AppClose, DeferredOnlyWhenFull, Space, Live, stackVars, tableVars, sockVars
  <2>6. CASE AppDropSender(c)
    BY <2>6 DEF AppDropSender, DeferredOnlyWhenFull, Space, Live, stackVars, tableVars, sockVars
  <2>7. CASE AppDropReceiver(c)
    BY <2>7 DEF AppDropReceiver, DeferredOnlyWhenFull, Space, Live, stackVars, tableVars, sockVars
  <2>8. CASE AppRecv(c)
    BY <2>8 DEF AppRecv, DeferredOnlyWhenFull, Space, Live, stackVars, tableVars, sockVars
  <2>. QED
    BY <1>14, <2>1, <2>2, <2>3, <2>4, <2>5, <2>6, <2>7, <2>8 DEF App
<1>15. ASSUME NEW c \in Conns, ConnectDeadline(c) \/ LingerElapses(c) PROVE DeferredOnlyWhenFull'
  <2>1. CASE ConnectDeadline(c)
    <3>1. Live' = Live
      BY <2>1, <1>1, <1>2 DEF ConnectDeadline, Live, TcpState
    <3>. QED
      BY <2>1, <3>1 DEF ConnectDeadline, stackVars, DeferredOnlyWhenFull, Space
  <2>2. CASE LingerElapses(c)
    <3>1. Live' = Live
      BY <2>2, <1>1, <1>2 DEF LingerElapses, Live, TcpState
    <3>. QED
      BY <2>2, <3>1 DEF LingerElapses, stackVars, DeferredOnlyWhenFull, Space
  <2>. QED
    BY <1>15, <2>1, <2>2
<1>. QED
  BY <1>3, <1>4, <1>5, <1>6, <1>7, <1>8, <1>9, <1>10, <1>11, <1>12, <1>13, <1>14, <1>15 DEF Next,
     Loop

-----------------------------------------------------------------------------
(* The upload                                                               *)

(* The upload of one connection, wherever its units are: g was received, t  *)
(* is in the socket, p in pending and the rest in the queue q.              *)
Carried(c, q, g, t, p, sent) ==
    \E n \in Nat : Joined(g, t, p, n) /\ InLine(c, q, n, sent)
Held(c) == Carried(c, Queued, far[c].got, txbuf[c], pending[c], app[c].sent)
AllHeld == \A c \in Live : Held(c)

LEMMA CarriedIff ==
    ASSUME NEW c, NEW q \in Seq(DataMsg), NEW g \in Seq(1..Up), NEW t \in Seq(1..Up),
           NEW p \in Seq(1..Up), NEW sent \in Nat
    PROVE  Carried(c, q, g, t, p, sent) <=>
              /\ g \o t \o p = Units(1, Len(g \o t \o p))
              /\ InLine(c, q, Len(g \o t \o p), sent)
<1>. DEFINE w == g \o t \o p
<1>1. /\ Len(g) \in Nat /\ Len(t) \in Nat /\ Len(p) \in Nat
      /\ Len(w) = Len(g) + Len(t) + Len(p)
  BY ThreeFacts
<1>2. Len(w) \in Nat
  BY <1>1
<1>3. ASSUME NEW n \in Nat PROVE w = Units(1, n) <=> Joined(g, t, p, n)
  BY JoinedIff
<1>4. ASSUME NEW n \in Nat, Joined(g, t, p, n) PROVE n = Len(w)
  BY <1>1, <1>4 DEF Joined
<1>. HIDE DEF w
<1>5. Carried(c, q, g, t, p, sent) <=> w = Units(1, Len(w)) /\ InLine(c, q, Len(w), sent)
  BY <1>2, <1>3, <1>4 DEF Carried
<1>. QED
  BY <1>5 DEF w

LEMMA UploadHeld ==
    ASSUME TypeOK, UploadIntact
    PROVE  AllHeld
<1>. SUFFICES ASSUME NEW c \in Live PROVE Held(c)
  BY DEF AllHeld
<1>1. c \in Conns
  BY DEF Live
<1>2. /\ far[c].got \in Seq(1..Up) /\ txbuf[c] \in Seq(1..Up) /\ pending[c] \in Seq(1..Up)
      /\ app[c].sent \in Nat
  BY <1>1, Typed
<1>3. Queued \in Seq(DataMsg)
  BY ConcatProperties DEF Queued, TypeOK
<1>4. Passed(c) = Units(1, Len(Passed(c))) /\ InLine(c, Queued, Len(Passed(c)), app[c].sent)
  BY DEF UploadIntact
<1>. QED
  BY <1>2, <1>3, <1>4, CarriedIff DEF Held, Passed

LEMMA HeldUpload ==
    ASSUME TypeOK', AllHeld'
    PROVE  UploadIntact'
<1>. SUFFICES ASSUME NEW c \in Live'
              PROVE  /\ Passed(c)' = Units(1, Len(Passed(c)'))
                     /\ InLine(c, Queued', Len(Passed(c)'), app'[c].sent)
  BY DEF UploadIntact
<1>1. c \in Conns
  BY DEF Live
<1>2. /\ far'[c] \in FarEnd /\ txbuf'[c] \in Seq(1..Up) /\ pending'[c] \in Seq(1..Up)
      /\ app'[c] \in AppTask
  BY <1>1 DEF TypeOK
<1>3. far'[c].got \in Seq(1..Up) /\ app'[c].sent \in Nat
  BY <1>2, Sizes DEF FarEnd, AppTask
<1>4. Queued' \in Seq(DataMsg)
  BY ConcatProperties DEF Queued, TypeOK
<1>5. Carried(c, Queued', far'[c].got, txbuf'[c], pending'[c], app'[c].sent)
  BY DEF AllHeld, Held
<1>. QED
  BY <1>2, <1>3, <1>4, <1>5, CarriedIff DEF Passed

(* A close joins the queue. *)
LEMMA CarriedClose ==
    ASSUME NEW d, NEW q \in Seq(DataMsg), NEW m \in DataMsg, m.id # d \/ m.data = <<>>,
           NEW g, NEW t, NEW p, NEW sent \in Nat, Carried(d, q, g, t, p, sent)
    PROVE  Carried(d, Append(q, m), g, t, p, sent)
<1>1. PICK n \in Nat : Joined(g, t, p, n) /\ InLine(d, q, n, sent)
  BY DEF Carried
<1>2. Append(q, m) \in Seq(DataMsg) /\ SameParts(d, q, Append(q, m), 0)
  BY AddsOther
<1>. DEFINE z == 0
<1>3. z \in Int
  OBVIOUS
<1>. HIDE DEF z
<1>4. InLine(d, Append(q, m), n, sent)
  <2>1. SameParts(d, q, Append(q, m), z)
    BY <1>2 DEF z
  <2>. QED
    BY <1>1, <1>2, <1>3, <2>1, Moved, Zenon
<1>. QED
  BY <1>1, <1>4 DEF Carried

(* The first message, not an upload of d, leaves the queue or is replaced. *)
LEMMA CarriedPast ==
    ASSUME NEW d, NEW q \in Seq(DataMsg), NEW r \in Seq(DataMsg), q # <<>>, 1 \notin Parts(d, q),
           r = Tail(q) \/ (SameBehind(q, r) /\ 1 \notin Parts(d, r)),
           NEW g, NEW t, NEW p, NEW sent \in Nat, Carried(d, q, g, t, p, sent)
    PROVE  Carried(d, r, g, t, p, sent)
<1>1. PICK n \in Nat : Joined(g, t, p, n) /\ InLine(d, q, n, sent)
  BY DEF Carried
<1>2. CASE r = Tail(q)
  BY <1>1, <1>2, LeavesOther DEF Carried
<1>3. CASE SameBehind(q, r) /\ 1 \notin Parts(d, r)
  BY <1>1, <1>3, ReplacesOther DEF Carried
<1>. QED
  BY <1>2, <1>3

(* The first k units of the first message move into pending. *)
LEMMA CarriedTake ==
    ASSUME NEW c, NEW q \in Seq(DataMsg), NEW r \in Seq(DataMsg), q # <<>>, 1 \in Parts(c, q),
           NEW g \in Seq(1..Up), NEW t \in Seq(1..Up), NEW p \in Seq(1..Up), NEW sent \in Nat,
           Carried(c, q, g, t, p, sent), NEW k \in Nat, NEW v \in Seq(1..Up), Len(v) = k,
           \A i \in 1..k : v[i] = q[1].data[i],
           \/ k = Len(q[1].data) /\ r = Tail(q)
           \/ /\ k < Len(q[1].data) /\ SameBehind(q, r) /\ r[1].id = c
              /\ r[1].data = SubSeq(q[1].data, k + 1, Len(q[1].data))
    PROVE  Carried(c, r, g, t, p \o v, sent)
<1>1. PICK n \in Nat : Joined(g, t, p, n) /\ InLine(c, q, n, sent)
  BY DEF Carried
<1>2. InLine(c, r, n + k, sent)
  <2>1. CASE k = Len(q[1].data) /\ r = Tail(q)
    BY <1>1, <2>1, LeavesPart
  <2>2. CASE /\ k < Len(q[1].data) /\ SameBehind(q, r) /\ r[1].id = c
             /\ r[1].data = SubSeq(q[1].data, k + 1, Len(q[1].data))
    BY <1>1, <2>2, LeavesSome
  <2>. QED
    BY <2>1, <2>2
<1>3. Follows(v, n)
  <2>. SUFFICES ASSUME NEW i \in 1..Len(v) PROVE v[i] = n + i
    BY DEF Follows
  <2>. DEFINE l == Len(q[1].data)
  <2>1. First(q[1]) = n + 1 /\ Last(q[1]) = n + l /\ l \in Nat \ {0}
    BY <1>1, FirstPart
  <2>2. q[1].data = Units(n + 1, n + l)
    <3>1. Runs(c, q)
      BY <1>1, InLineIff
    <3>. QED
      BY <2>1, <3>1 DEF Runs
  <2>3. k <= l
    OBVIOUS
  <2>. HIDE DEF l
  <2>4. i \in 1..l /\ i \in 1..k /\ n + l - (n + 1) + 1 = l /\ (n + 1) + i - 1 = n + i
    BY <2>1, <2>3
  <2>5. Units(n + 1, n + l)[i] = n + i
    <3>. DEFINE a == n + 1
                b == n + l
    <3>1. /\ a \in Nat /\ b \in Nat /\ 1 <= a /\ a <= b + 1 /\ i \in 1..(b - a + 1)
          /\ a + i - 1 = n + i
      BY <2>1, <2>4
    <3>. HIDE DEF a, b
    <3>2. Units(a, b)[i] = a + i - 1
      BY <3>1, UnitsFacts
    <3>. QED
      BY <3>1, <3>2 DEF a, b
  <2>. QED
    BY <2>2, <2>4, <2>5
<1>4. Joined(g, t, p \o v, n + k)
  BY <1>1, <1>3, JoinedGrow
<1>. QED
  BY <1>1, <1>2, <1>4 DEF Carried

(* The first k units of pending move into the socket. *)
LEMMA CarriedSend ==
    ASSUME NEW c, NEW q, NEW g \in Seq(1..Up), NEW t \in Seq(1..Up), NEW p \in Seq(1..Up),
           NEW sent, Carried(c, q, g, t, p, sent), NEW k \in Nat, k <= Len(p)
    PROVE  Carried(c, q, g, t \o SubSeq(p, 1, k), SubSeq(p, k + 1, Len(p)), sent)
<1>1. PICK n \in Nat : Joined(g, t, p, n) /\ InLine(c, q, n, sent)
  BY DEF Carried
<1>2. Joined(g, t \o SubSeq(p, 1, k), SubSeq(p, k + 1, Len(p)), n)
  BY <1>1, JoinedLeave
<1>. QED
  BY <1>1, <1>2 DEF Carried

(* The far end receives a unit. *)
LEMMA CarriedArrive ==
    ASSUME NEW c, NEW q, NEW g \in Seq(1..Up), NEW t \in Seq(1..Up), NEW p \in Seq(1..Up),
           NEW sent, Carried(c, q, g, t, p, sent), t # <<>>
    PROVE  Carried(c, q, Append(g, Head(t)), Tail(t), p, sent)
<1>1. PICK n \in Nat : Joined(g, t, p, n) /\ InLine(c, q, n, sent)
  BY DEF Carried
<1>2. Joined(Append(g, Head(t)), Tail(t), p, n)
  BY <1>1, JoinedArrive
<1>. QED
  BY <1>1, <1>2 DEF Carried

LEMMA HandledHeld ==
    ASSUME TypeOK, Closing(Queued), AllHeld, Handles
    PROVE  AllHeld'
<1>. DEFINE m == Head(Queued)
            q == Queued
            r == Queued'
            v == SubSeq(m.data, 1, Taken(m))
<1>1. /\ q \in Seq(DataMsg) /\ m \in DataMsg /\ m = q[1] /\ Tail(q) \in Seq(DataMsg)
      /\ Len(q) \in Nat \ {0} /\ q # <<>> /\ TryHandleData(m)
  BY HeadQueued DEF Handles
<1>2. /\ m.id \in Conns /\ m.data \in Seq(1..Up) /\ Taken(m) \in Nat /\ Taken(m) <= Len(m.data)
      /\ v \in Seq(1..Up) /\ Len(v) = Taken(m) /\ \A i \in 1..Taken(m) : v[i] = m.data[i]
  BY <1>1, TakenFacts
<1>3. /\ Live' = Live
      /\ \A d \in Conns : d # m.id => pending'[d] = pending[d]
      /\ pending'[m.id] = pending[m.id] \o v
  BY <1>1, HandledFields
<1>4. \/ PushedBack(m) = <<>> /\ r = Tail(q)
      \/ /\ r \in Seq(DataMsg) /\ SameBehind(q, r) /\ r[1].id = m.id
         /\ m.data # <<>> /\ Taken(m) < Len(m.data)
         /\ r[1].data = SubSeq(m.data, Taken(m) + 1, Len(m.data))
  BY HandledQueue
<1>5. r \in Seq(DataMsg)
  BY <1>1, <1>4
<1>6. UNCHANGED <<txbuf, app, far>>
  BY DEF Handles, sockVars
<1>7. \A d \in Conns :
         /\ far[d].got \in Seq(1..Up) /\ txbuf[d] \in Seq(1..Up) /\ pending[d] \in Seq(1..Up)
         /\ app[d].sent \in Nat
  BY Typed
<1>8. 1 \in 1..Len(q)
  BY <1>1
<1>. HIDE DEF r, v
<1>9. ASSUME NEW d \in Live, d # m.id PROVE Held(d)'
  <2>0. d \in Conns /\ pending'[d] = pending[d]
    BY <1>3, <1>9 DEF Live
  <2>1. Carried(d, q, far[d].got, txbuf[d], pending[d], app[d].sent)
    BY DEF AllHeld, Held
  <2>2. 1 \notin Parts(d, q)
    BY <1>1, <1>9 DEF Parts
  <2>3. r = Tail(q) \/ (SameBehind(q, r) /\ 1 \notin Parts(d, r))
    BY <1>4, <1>9 DEF Parts
  <2>4. Carried(d, r, far[d].got, txbuf[d], pending[d], app[d].sent)
    <3>. HIDE DEF q
    <3>1. app[d].sent \in Nat
      BY <1>7, <2>0
    <3>. QED
      BY <1>1, <1>5, <2>1, <2>2, <2>3, <3>1, CarriedPast
  <2>. QED
    BY <1>6, <2>0, <2>4 DEF Held, r
<1>10. ASSUME NEW c \in Live, c = m.id PROVE Held(c)'
  <2>1. Carried(c, q, far[c].got, txbuf[c], pending[c], app[c].sent)
    BY <1>10 DEF AllHeld, Held
  <2>2. /\ far[c].got \in Seq(1..Up) /\ txbuf[c] \in Seq(1..Up) /\ pending[c] \in Seq(1..Up)
        /\ app[c].sent \in Nat
    BY <1>2, <1>7, <1>10
  <2>3. CASE m.data = <<>>
    <3>1. 1 \notin Parts(c, q)
      BY <1>1, <1>10, <2>3 DEF Parts
    <3>2. r = Tail(q)
      BY <1>4, <2>3
    <3>3. Len(v) = 0
      BY <1>2, <2>3
    <3>4. pending[c] \o v = pending[c]
      BY <1>2, <2>2, <3>3, EmptySeq, ConcatEmptySeq
    <3>5. Carried(c, r, far[c].got, txbuf[c], pending[c], app[c].sent)
      <4>. HIDE DEF q
      <4>. QED
        BY <1>1, <1>5, <2>1, <2>2, <3>1, <3>2, CarriedPast
    <3>. QED
      BY <1>2, <1>3, <1>6, <1>10, <3>4, <3>5 DEF Held, r
  <2>4. CASE m.data # <<>>
    <3>1. 1 \in Parts(c, q) /\ ~m.close
      BY <1>1, <1>8, <1>10, <2>4 DEF Parts, Closing
    <3>2. PushedBack(m) = <<>> => Taken(m) = Len(m.data)
      <4>1. PushedBack(m) = IF m.id \in Live /\ Taken(m) < Len(m.data) THEN <<Rest(m)>> ELSE <<>>
        BY <1>1, PushedBackFacts
      <4>2. PushedBack(m) = <<>> => ~(Taken(m) < Len(m.data))
        BY <1>10, <4>1
      <4>3. Len(m.data) \in Nat
        BY <1>2, LenProperties
      <4>. QED
        BY <1>2, <4>2, <4>3
    <3>3. \/ Taken(m) = Len(q[1].data) /\ r = Tail(q)
          \/ /\ Taken(m) < Len(q[1].data) /\ SameBehind(q, r) /\ r[1].id = c
             /\ r[1].data = SubSeq(q[1].data, Taken(m) + 1, Len(q[1].data))
      BY <1>1, <1>4, <1>10, <3>2
    <3>4. \A i \in 1..Taken(m) : v[i] = q[1].data[i]
      BY <1>1, <1>2
    <3>5. Carried(c, r, far[c].got, txbuf[c], pending[c] \o v, app[c].sent)
      <4>. DEFINE k == Taken(m)
      <4>1. k \in Nat /\ Len(v) = k /\ v \in Seq(1..Up)
        BY <1>2
      <4>2. \A i \in 1..k : v[i] = q[1].data[i]
        BY <3>4
      <4>3. \/ k = Len(q[1].data) /\ r = Tail(q)
            \/ /\ k < Len(q[1].data) /\ SameBehind(q, r) /\ r[1].id = c
               /\ r[1].data = SubSeq(q[1].data, k + 1, Len(q[1].data))
        BY <3>3
      <4>. HIDE DEF q, k
      <4>. QED
        BY <1>1, <1>5, <2>1, <2>2, <3>1, <4>1, <4>2, <4>3, CarriedTake
    <3>. QED
      BY <1>2, <1>3, <1>6, <1>10, <3>5 DEF Held, r
  <2>. QED
    BY <2>3, <2>4
<1>. QED
  BY <1>3, <1>9, <1>10 DEF AllHeld

LEMMA UploadStep ==
    ASSUME TypeOK, LoopInv, CmdInv, FreshInv, CloseInv, UploadIntact, Next
    PROVE  AllHeld'
<1>1. /\ conn \in [Conns -> TcpState] /\ app \in [Conns -> AppTask] /\ far \in [Conns -> FarEnd]
      /\ pending \in [Conns -> Seq(1..Up)] /\ txbuf \in [Conns -> Seq(1..Up)]
  BY DEF TypeOK
<1>2. \A c \in Conns : conn[c] \in TcpState /\ app[c] \in AppTask /\ far[c] \in FarEnd
  BY <1>1
<1>3. AllHeld
  BY UploadHeld
<1>4. ASSUME NEW c \in Conns, Queued \in Seq(DataMsg),
             Queued' \in {Queued, Append(Queued, TcpClose(c))}
      PROVE  \A d \in Live : Carried(d, Queued', far[d].got, txbuf[d], pending[d], app[d].sent)
  <2>. TAKE d \in Live
  <2>1. Carried(d, Queued, far[d].got, txbuf[d], pending[d], app[d].sent)
    BY <1>3 DEF AllHeld, Held
  <2>2. TcpClose(c) \in DataMsg /\ TcpClose(c).data = <<>>
    BY Messages
  <2>3. d \in Conns
    BY DEF Live
  <2>4. app[d].sent \in Nat
    BY <2>3, Typed
  <2>5. Carried(d, Append(Queued, TcpClose(c)), far[d].got, txbuf[d], pending[d], app[d].sent)
    BY <1>4, <2>1, <2>2, <2>4, CarriedClose
  <2>. QED
    BY <1>4, <2>1, <2>5
<1>5. CASE PollDone
  BY <1>5, <1>1, <1>2, <1>3 DEF PollDone, AllHeld, Held, Queued, Live, stackVars, tableVars,
     sockVars, AppTask, FarEnd, TcpState
<1>6. CASE ServiceDone
  BY <1>6, <1>1, <1>2, <1>3 DEF ServiceDone, AllHeld, Held, Queued, Live, stackVars, tableVars,
     sockVars, AppTask, FarEnd, TcpState
<1>7. CASE RetryDeferred
  <2>1. CASE deferred = <<>>
    BY <1>7, <1>3, <2>1 DEF RetryDeferred, tableVars, sockVars, AllHeld, Held, Queued, Live
  <2>2. CASE deferred # <<>>
    BY <1>7, <1>3, <2>2, HandlesWhen, HandledHeld DEF CloseInv
  <2>. QED
    BY <2>1, <2>2
<1>8. CASE DrainDone
  BY <1>8, <1>1, <1>2, <1>3 DEF DrainDone, AllHeld, Held, Queued, Live, stackVars, tableVars,
     sockVars, AppTask, FarEnd, TcpState
<1>9. CASE TakeData
  BY <1>9, <1>3, HandlesWhen, HandledHeld DEF CloseInv
<1>10. CASE HandleOpenTcp
  <2>1. cmds \in Seq(Conns) /\ cmds # <<>>
    BY <1>10 DEF HandleOpenTcp, TypeOK
  <2>2. Head(cmds) \in Conns /\ Head(cmds) = cmds[1] /\ 1 \in 1..Len(cmds)
    BY <2>1, TailFacts
  <2>3. /\ \A c \in Conns : c # Head(cmds) => conn'[c] = conn[c]
        /\ UNCHANGED <<deferred, dataIn, app, pending, txbuf, far>>
    BY <1>10, <1>1, <2>2 DEF HandleOpenTcp
  <2>4. conn[Head(cmds)].st = "free"
    BY <2>2 DEF CmdInv
  <2>5. Untouched(Head(cmds))
    BY <2>2, <2>4 DEF FreshInv
  <2>6. Held(Head(cmds))
    <3>. DEFINE c == Head(cmds)
    <3>1. /\ far[c].got = <<>> /\ txbuf[c] = <<>> /\ pending[c] = <<>> /\ app[c].sent = 0
          /\ NoMessages(c, Queued)
      BY <2>5 DEF Untouched
    <3>2. Queued \in Seq(DataMsg)
      BY ConcatProperties DEF Queued, TypeOK
    <3>3. Parts(c, Queued) = {}
      BY <3>1 DEF Parts, NoMessages
    <3>4. 0 \in Nat /\ InLine(c, Queued, 0, 0)
      BY <3>2, <3>3, NoneInLine
    <3>5. Joined(<<>>, <<>>, <<>>, 0)
      BY DEF Joined
    <3>. QED
      BY <3>1, <3>4, <3>5 DEF Held, Carried
  <2>7. Queued' = Queued
    BY <2>3 DEF Queued
  <2>8. \A c \in Live' : Held(c)
    BY <1>3, <2>2, <2>3, <2>6 DEF Live, AllHeld
  <2>. QED
    BY <2>3, <2>7, <2>8 DEF AllHeld, Held
<1>11. CASE Ingest
  BY <1>11, <1>1, <1>2, <1>3 DEF Ingest, AllHeld, Held, Queued, Live, stackVars, tableVars,
     sockVars, AppTask, FarEnd, TcpState
<1>12. CASE Tick
  BY <1>12, <1>1, <1>2, <1>3 DEF Tick, AllHeld, Held, Queued, Live, stackVars, tableVars, sockVars,
     AppTask, FarEnd, TcpState
<1>13. CASE Stop
  <2>1. Live' = {}
    BY <1>13, <1>1, <1>2 DEF Stop, Live, TcpState
  <2>. QED
    BY <2>1 DEF AllHeld
<1>14. ASSUME NEW c \in Conns, Service(c) PROVE AllHeld'
  <2>1. CASE ServiceAborted(c)
    BY <2>1, <1>1, <1>2, <1>3 DEF ServiceAborted, AllHeld, Held, Queued, Live, stackVars, tableVars,
       sockVars, AppTask, FarEnd, TcpState
  <2>2. CASE ServiceConnecting(c)
    <3>1. Live' \subseteq Live /\ UNCHANGED <<dataIn, deferred, pending, txbuf, far, app>>
      BY <2>2, ConnectingFields DEF Live
    <3>. QED
      BY <1>3, <3>1 DEF AllHeld, Held, Queued
  <2>3. CASE ServiceEstablished(c)
    <3>1. Queued' \in {Queued, Append(Queued, TcpClose(c))} /\ Queued \in Seq(DataMsg)
      BY <2>3, ClosesQueue DEF Closes
    <3>2. /\ conn' = [conn EXCEPT ![c] = ConnAfter(c)] /\ app' = [app EXCEPT ![c] = AppAfter(c)]
          /\ txbuf' = [txbuf EXCEPT ![c] = @ \o SubSeq(pending[c], 1, Sendable(c))]
          /\ pending' = [pending EXCEPT ![c] =
                            IF ~Aborts(c) /\ State2(c) = "TimeWait" THEN <<>> ELSE PendLeft(c)]
          /\ far' = far /\ c \in todo
      BY <2>3, EstablishedParts
    <3>3. \A d \in Conns : d # c => /\ conn'[d] = conn[d] /\ app'[d] = app[d]
                                   /\ txbuf'[d] = txbuf[d] /\ pending'[d] = pending[d]
      BY <1>1, <3>2
    <3>4. ASSUME NEW d \in Live', d # c PROVE Held(d)'
      <4>1. d \in Live /\ d \in Conns
        BY <3>3, <3>4 DEF Live
      <4>2. Carried(d, Queued', far[d].got, txbuf[d], pending[d], app[d].sent)
        BY <1>4, <3>1, <4>1
      <4>. QED
        BY <3>2, <3>3, <3>4, <4>1, <4>2 DEF Held
    <3>5. ASSUME c \in Live' PROVE Held(c)'
      <4>1. c \in Live
        BY <3>2 DEF LoopInv
      <4>2. Aborts(c) \/ State2(c) # "TimeWait"
        <5>1. conn'[c] = ConnAfter(c) /\ conn'[c].st = "live"
          BY <1>1, <3>2, <3>5 DEF Live
        <5>2. ConnAfter(c).st = IF Removed(Aborts(c), State2(c)) THEN "gone" ELSE conn[c].st
          BY AfterFields
        <5>. QED
          BY <5>1, <5>2 DEF Removed, Ended
      <4>3. /\ pending'[c] = PendLeft(c) /\ app'[c].sent = app[c].sent
            /\ txbuf'[c] = txbuf[c] \o SubSeq(pending[c], 1, Sendable(c))
        BY <1>1, <3>2, <4>2, AfterFields
      <4>4. Sendable(c) \in Nat /\ Sendable(c) <= Len(pending[c])
        BY EstablishedFits
      <4>5. far[c].got \in Seq(1..Up) /\ txbuf[c] \in Seq(1..Up) /\ pending[c] \in Seq(1..Up)
        BY Typed
      <4>6. Carried(c, Queued', far[c].got, txbuf[c], pending[c], app[c].sent)
        BY <1>4, <3>1, <4>1
      <4>7. Carried(c, Queued', far[c].got, txbuf[c] \o SubSeq(pending[c], 1, Sendable(c)),
                    PendLeft(c), app[c].sent)
        BY <4>4, <4>5, <4>6, CarriedSend DEF PendLeft
      <4>. QED
        BY <3>2, <4>3, <4>7 DEF Held
    <3>. QED
      BY <3>4, <3>5 DEF AllHeld
  <2>. QED
    BY <1>14, <2>1, <2>2, <2>3 DEF Service
<1>15. ASSUME NEW c \in Conns, Far(c) PROVE AllHeld'
  <2>1. CASE SynAck(c)
    BY <2>1, <1>1, <1>2, <1>3 DEF SynAck, AllHeld, Held, Queued, Live, stackVars, tableVars,
       sockVars, AppTask, FarEnd, TcpState
  <2>2. CASE FarData(c)
    <3>1. \A d \in Conns : far'[d].got = far[d].got
      BY <2>2, <1>1, <1>2 DEF FarData, FarEnd
    <3>. QED
      BY <2>2, <1>3, <3>1 DEF FarData, AllHeld, Held, Queued, Live, stackVars, tableVars
  <2>3. CASE FarFin(c)
    BY <2>3, <1>1, <1>2, <1>3 DEF FarFin, AllHeld, Held, Queued, Live, stackVars, tableVars,
       sockVars, AppTask, FarEnd, TcpState
  <2>4. CASE FarAck(c)
    <3>1. /\ c \in Live /\ txbuf[c] # <<>> /\ txbuf' = [txbuf EXCEPT ![c] = Tail(@)]
          /\ far' = [far EXCEPT ![c].got = Append(@, Head(txbuf[c]))]
          /\ UNCHANGED <<dataIn, deferred, conn, pending, app>>
      BY <2>4 DEF FarAck, stackVars, tableVars
    <3>2. Live' = Live /\ Queued' = Queued
      BY <3>1 DEF Live, Queued
    <3>3. \A d \in Conns : d # c => txbuf'[d] = txbuf[d] /\ far'[d] = far[d]
      BY <1>1, <3>1
    <3>4. txbuf'[c] = Tail(txbuf[c]) /\ far'[c].got = Append(far[c].got, Head(txbuf[c]))
      BY <1>1, <1>2, <3>1 DEF FarEnd
    <3>5. far[c].got \in Seq(1..Up) /\ txbuf[c] \in Seq(1..Up) /\ pending[c] \in Seq(1..Up)
      BY Typed
    <3>6. Carried(c, Queued, Append(far[c].got, Head(txbuf[c])), Tail(txbuf[c]), pending[c], app[c].sent)
      BY <1>3, <3>1, <3>5, CarriedArrive DEF AllHeld, Held
    <3>7. Held(c)'
      BY <3>1, <3>2, <3>4, <3>6 DEF Held
    <3>8. \A d \in Live' : d \in Conns /\ d \in Live
      BY <3>2 DEF Live
    <3>. QED
      BY <1>3, <3>1, <3>2, <3>3, <3>7, <3>8 DEF AllHeld, Held
  <2>5. CASE FarAckFin(c)
    BY <2>5, <1>1, <1>2, <1>3 DEF FarAckFin, AllHeld, Held, Queued, Live, stackVars, tableVars,
       sockVars, AppTask, FarEnd, TcpState
  <2>6. CASE SocketDies(c)
    BY <2>6, <1>1, <1>2, <1>3 DEF SocketDies, AllHeld, Held, Queued, Live, stackVars, tableVars,
       sockVars, AppTask, FarEnd, TcpState
  <2>. QED
    BY <1>15, <2>1, <2>2, <2>3, <2>4, <2>5, <2>6 DEF Far
<1>16. ASSUME NEW c \in Conns, App(c) PROVE AllHeld'
  <2>1. CASE AppOpen(c)
    BY <2>1, <1>1, <1>2, <1>3 DEF AppOpen, AllHeld, Held, Queued, Live, stackVars, tableVars,
       sockVars, AppTask, FarEnd, TcpState
  <2>2. CASE AppOpened(c)
    BY <2>2, <1>1, <1>2, <1>3 DEF AppOpened, AllHeld, Held, Queued, Live, stackVars, tableVars,
       sockVars, AppTask, FarEnd, TcpState
  <2>3. CASE AppAbandon(c)
    <3>1. Queued' \in {Queued, Append(Queued, TcpClose(c))} /\ Queued \in Seq(DataMsg)
      BY <2>3, ClosesQueue DEF Closes
    <3>2. /\ UNCHANGED <<conn, pending, txbuf, far>>
          /\ \A d \in Conns : app'[d].sent = app[d].sent
      BY <2>3, <1>1, <1>2 DEF AppAbandon, tableVars, sockVars, AppTask
    <3>. QED
      BY <3>1, <3>2, <1>4 DEF AllHeld, Held, Live
  <2>4. CASE AppSend(c)
    <3>1. PICK n \in Nat \ {0} :
             /\ app[c].sent + n <= Up
             /\ app' = [app EXCEPT ![c].sent = @ + n]
             /\ TcpData(c, Units(app[c].sent + 1, app[c].sent + n)) \in DataMsg
             /\ Queued' = Append(Queued, TcpData(c, Units(app[c].sent + 1, app[c].sent + n)))
             /\ Queued \in Seq(DataMsg)
      BY <2>4, SendsQueue
    <3>2. UNCHANGED <<conn, pending, txbuf, far>>
      BY <2>4 DEF AppSend, tableVars, sockVars
    <3>3. app'[c].sent = app[c].sent + n /\ \A d \in Conns : d # c => app'[d] = app[d]
      BY <1>1, <1>2, <3>1 DEF AppTask
    <3>. DEFINE m == TcpData(c, Units(app[c].sent + 1, app[c].sent + n))
    <3>4. m \in DataMsg /\ m.id = c /\ Queued' = Append(Queued, m)
      BY <3>1 DEF TcpData
    <3>5. ASSUME NEW d \in Live', d # c PROVE Held(d)'
      <4>. HIDE DEF m
      <4>1. d \in Live /\ d \in Conns /\ app[d].sent \in Nat
        BY <3>2, <3>5, Typed DEF Live
      <4>2. Carried(d, Queued, far[d].got, txbuf[d], pending[d], app[d].sent)
        BY <1>3, <4>1 DEF AllHeld, Held
      <4>3. Carried(d, Append(Queued, m), far[d].got, txbuf[d], pending[d], app[d].sent)
        BY <3>1, <3>4, <3>5, <4>1, <4>2, CarriedClose
      <4>. QED
        BY <3>2, <3>3, <3>4, <3>5, <4>1, <4>3 DEF Held
    <3>6. ASSUME c \in Live' PROVE Held(c)'
      <4>1. c \in Live
        BY <3>2, <3>6 DEF Live
      <4>2. PICK x \in Nat : Joined(far[c].got, txbuf[c], pending[c], x) /\ InLine(c, Queued, x, app[c].sent)
        BY <1>3, <4>1 DEF AllHeld, Held, Carried
      <4>3. app[c].sent \in Nat
        BY Typed
      <4>4. InLine(c, Append(Queued, m), x, app[c].sent + n)
        BY <3>1, <4>2, <4>3, AddsPart
      <4>. QED
        BY <3>2, <3>3, <3>4, <4>2, <4>4 DEF Held, Carried
    <3>. QED
      BY <3>5, <3>6 DEF AllHeld
  <2>5. CASE AppClose(c)
    <3>1. Queued' \in {Queued, Append(Queued, TcpClose(c))} /\ Queued \in Seq(DataMsg)
      BY <2>5, ClosesQueue DEF Closes
    <3>2. /\ UNCHANGED <<conn, pending, txbuf, far>>
          /\ \A d \in Conns : app'[d].sent = app[d].sent
      BY <2>5, <1>1, <1>2 DEF AppClose, tableVars, sockVars, AppTask
    <3>. QED
      BY <3>1, <3>2, <1>4 DEF AllHeld, Held, Live
  <2>6. CASE AppDropSender(c)
    <3>1. Queued' \in {Queued, Append(Queued, TcpClose(c))} /\ Queued \in Seq(DataMsg)
      BY <2>6, ClosesQueue DEF Closes
    <3>2. /\ UNCHANGED <<conn, pending, txbuf, far>>
          /\ \A d \in Conns : app'[d].sent = app[d].sent
      BY <2>6, <1>1, <1>2 DEF AppDropSender, tableVars, sockVars, AppTask
    <3>. QED
      BY <3>1, <3>2, <1>4 DEF AllHeld, Held, Live
  <2>7. CASE AppDropReceiver(c)
    BY <2>7, <1>1, <1>2, <1>3 DEF AppDropReceiver, AllHeld, Held, Queued, Live, stackVars,
       tableVars, sockVars, AppTask, FarEnd, TcpState
  <2>8. CASE AppRecv(c)
    <3>1. \A d \in Conns : app'[d].sent = app[d].sent
      BY <2>8, <1>1, <1>2 DEF AppRecv, AppTask
    <3>. QED
      BY <2>8, <1>3, <3>1 DEF AppRecv, AllHeld, Held, Queued, Live, stackVars, tableVars, sockVars
  <2>. QED
    BY <1>16, <2>1, <2>2, <2>3, <2>4, <2>5, <2>6, <2>7, <2>8 DEF App
<1>17. ASSUME NEW c \in Conns, ConnectDeadline(c) \/ LingerElapses(c) PROVE AllHeld'
  <2>1. CASE ConnectDeadline(c)
    <3>1. Live' = Live
      BY <2>1, <1>1, <1>2 DEF ConnectDeadline, Live, TcpState
    <3>. QED
      BY <2>1, <1>3, <3>1 DEF ConnectDeadline, stackVars, sockVars, AllHeld, Held, Queued
  <2>2. CASE LingerElapses(c)
    <3>1. Live' = Live
      BY <2>2, <1>1, <1>2 DEF LingerElapses, Live, TcpState
    <3>. QED
      BY <2>2, <1>3, <3>1 DEF LingerElapses, stackVars, sockVars, AllHeld, Held, Queued
  <2>. QED
    BY <1>17, <2>1, <2>2
<1>. QED
  BY <1>5, <1>6, <1>7, <1>8, <1>9, <1>10, <1>11, <1>12, <1>13, <1>14, <1>15, <1>16, <1>17 DEF Next,
     Loop

-----------------------------------------------------------------------------
(* The download                                                             *)

Read(c) == Joined(app[c].got, toApp[c], rxbuf[c], far[c].sent)
AllRead == \A c \in Live : app[c].rx => Read(c)

LEMMA DownloadRead ==
    ASSUME TypeOK, DownloadIntact
    PROVE  AllRead
<1>. SUFFICES ASSUME NEW c \in Live, app[c].rx PROVE Read(c)
  BY DEF AllRead
<1>1. c \in Conns
  BY DEF Live
<1>2. /\ app[c].got \in Seq(1..Down) /\ toApp[c] \in Seq(1..Down) /\ rxbuf[c] \in Seq(1..Down)
      /\ far[c].sent \in Nat
  BY <1>1, Typed
<1>3. app[c].got \o toApp[c] \o rxbuf[c] = Units(1, far[c].sent)
  BY DEF DownloadIntact
<1>. QED
  BY <1>2, <1>3, JoinedIff DEF Read

LEMMA ReadDownload ==
    ASSUME TypeOK', AllRead'
    PROVE  DownloadIntact'
<1>. SUFFICES ASSUME NEW c \in Live', app'[c].rx
              PROVE  app'[c].got \o toApp'[c] \o rxbuf'[c] = Units(1, far'[c].sent)
  BY DEF DownloadIntact
<1>1. c \in Conns
  BY DEF Live
<1>2. /\ app'[c] \in AppTask /\ toApp'[c] \in Seq(1..Down) /\ rxbuf'[c] \in Seq(1..Down)
      /\ far'[c] \in FarEnd
  BY <1>1 DEF TypeOK
<1>3. app'[c].got \in Seq(1..Down) /\ far'[c].sent \in Nat
  BY <1>2, Sizes DEF FarEnd, AppTask
<1>4. Joined(app'[c].got, toApp'[c], rxbuf'[c], far'[c].sent)
  BY DEF AllRead, Read
<1>. DEFINE g == app'[c].got
            t == toApp'[c]
            u == rxbuf'[c]
            n == far'[c].sent
<1>5. /\ g \in Seq(1..Down) /\ t \in Seq(1..Down) /\ u \in Seq(1..Down) /\ n \in Nat
      /\ Joined(g, t, u, n)
  BY <1>2, <1>3, <1>4
<1>. HIDE DEF g, t, u, n
<1>6. g \o t \o u = Units(1, n)
  BY <1>5, JoinedIff
<1>. QED
  BY <1>6 DEF g, t, u, n

LEMMA DownloadStep ==
    ASSUME TypeOK, LoopInv, OpenInv, CmdInv, FreshInv, DownloadIntact, Next
    PROVE  AllRead'
<1>1. /\ conn \in [Conns -> TcpState] /\ app \in [Conns -> AppTask] /\ far \in [Conns -> FarEnd]
      /\ rxbuf \in [Conns -> Seq(1..Down)] /\ toApp \in [Conns -> Seq(1..Down)]
  BY DEF TypeOK
<1>2. \A c \in Conns : conn[c] \in TcpState /\ app[c] \in AppTask /\ far[c] \in FarEnd
  BY <1>1
<1>3. AllRead
  BY DownloadRead
<1>4. CASE PollDone
  BY <1>4, <1>1, <1>2, <1>3 DEF PollDone, AllRead, Read, Live, stackVars, tableVars, sockVars,
     AppTask, FarEnd, TcpState
<1>5. CASE ServiceDone
  BY <1>5, <1>1, <1>2, <1>3 DEF ServiceDone, AllRead, Read, Live, stackVars, tableVars, sockVars,
     AppTask, FarEnd, TcpState
<1>6. CASE RetryDeferred
  <2>1. CASE deferred = <<>>
    BY <1>6, <1>3, <2>1 DEF RetryDeferred, tableVars, sockVars, AllRead, Read, Live
  <2>2. CASE deferred # <<>>
    <3>1. Handles
      BY <1>6, <2>2, HandlesWhen
    <3>2. Head(Queued) \in DataMsg /\ TryHandleData(Head(Queued))
      BY <3>1, HeadQueued DEF Handles
    <3>3. Live' = Live /\ UNCHANGED <<app, toApp, rxbuf, far>>
      BY <3>1, <3>2, HandledFields DEF Handles, sockVars
    <3>. QED
      BY <1>3, <3>3 DEF AllRead, Read
  <2>. QED
    BY <2>1, <2>2
<1>7. CASE DrainDone
  BY <1>7, <1>1, <1>2, <1>3 DEF DrainDone, AllRead, Read, Live, stackVars, tableVars, sockVars,
     AppTask, FarEnd, TcpState
<1>8. CASE TakeData
  <2>1. Handles
    BY <1>8, HandlesWhen
  <2>2. Head(Queued) \in DataMsg /\ TryHandleData(Head(Queued))
    BY <2>1, HeadQueued DEF Handles
  <2>3. Live' = Live /\ UNCHANGED <<app, toApp, rxbuf, far>>
    BY <2>1, <2>2, HandledFields DEF Handles, sockVars
  <2>. QED
    BY <1>3, <2>3 DEF AllRead, Read
<1>9. CASE HandleOpenTcp
  <2>1. cmds \in Seq(Conns) /\ cmds # <<>>
    BY <1>9 DEF HandleOpenTcp, TypeOK
  <2>2. Head(cmds) \in Conns /\ Head(cmds) = cmds[1] /\ 1 \in 1..Len(cmds)
    BY <2>1, TailFacts
  <2>3. /\ \A c \in Conns : c # Head(cmds) => conn'[c] = conn[c]
        /\ UNCHANGED <<app, toApp, rxbuf, far>>
    BY <1>9, <1>1, <2>2 DEF HandleOpenTcp
  <2>4. conn[Head(cmds)].st = "free"
    BY <2>2 DEF CmdInv
  <2>5. Untouched(Head(cmds))
    BY <2>2, <2>4 DEF FreshInv
  <2>6. Joined(<<>>, <<>>, <<>>, 0)
    BY DEF Joined
  <2>7. Read(Head(cmds))
    BY <2>5, <2>6 DEF Untouched, Read
  <2>8. \A c \in Live' : app[c].rx => Read(c)
    BY <1>3, <2>2, <2>3, <2>7 DEF Live, AllRead
  <2>. QED
    BY <2>3, <2>8 DEF AllRead, Read
<1>10. CASE Ingest
  BY <1>10, <1>1, <1>2, <1>3 DEF Ingest, AllRead, Read, Live, stackVars, tableVars, sockVars,
     AppTask, FarEnd, TcpState
<1>11. CASE Tick
  BY <1>11, <1>1, <1>2, <1>3 DEF Tick, AllRead, Read, Live, stackVars, tableVars, sockVars, AppTask,
     FarEnd, TcpState
<1>12. CASE Stop
  <2>1. Live' = {}
    BY <1>12, <1>1, <1>2 DEF Stop, Live, TcpState
  <2>. QED
    BY <2>1 DEF AllRead
<1>13. ASSUME NEW c \in Conns, Service(c) PROVE AllRead'
  <2>1. CASE ServiceAborted(c)
    BY <2>1, <1>1, <1>2, <1>3 DEF ServiceAborted, AllRead, Read, Live, stackVars, tableVars,
       sockVars, AppTask, FarEnd, TcpState
  <2>2. CASE ServiceConnecting(c)
    <3>1. Live' \subseteq Live /\ UNCHANGED <<app, toApp, rxbuf, far>>
      BY <2>2, ConnectingFields DEF Live
    <3>. QED
      BY <1>3, <3>1 DEF AllRead, Read
  <2>3. CASE ServiceEstablished(c)
    <3>1. /\ conn' = [conn EXCEPT ![c] = ConnAfter(c)] /\ app' = [app EXCEPT ![c] = AppAfter(c)]
          /\ toApp' = [toApp EXCEPT ![c] = @ \o SubSeq(rxbuf[c], 1, Handed(c))]
          /\ rxbuf' = [rxbuf EXCEPT ![c] = RxLeft(c, Handed(c))]
          /\ far' = far /\ c \in Live
      BY <2>3, EstablishedParts DEF LoopInv
    <3>2. \A d \in Conns : d # c => /\ conn'[d] = conn[d] /\ app'[d] = app[d]
                                   /\ toApp'[d] = toApp[d] /\ rxbuf'[d] = rxbuf[d]
      BY <1>1, <3>1
    <3>3. /\ app'[c] = AppAfter(c) /\ toApp'[c] = toApp[c] \o SubSeq(rxbuf[c], 1, Handed(c))
          /\ rxbuf'[c] = SubSeq(rxbuf[c], Handed(c) + 1, Len(rxbuf[c]))
      BY <1>1, <3>1 DEF RxLeft
    <3>4. app'[c].rx => Read(c)'
      <4>. HAVE app'[c].rx
      <4>1. app[c].rx /\ app'[c].got = app[c].got
        BY <3>3, AfterFields
      <4>2. Joined(app[c].got, toApp[c], rxbuf[c], far[c].sent)
        BY <1>3, <3>1, <4>1 DEF AllRead, Read
      <4>3. /\ app[c].got \in Seq(1..Down) /\ toApp[c] \in Seq(1..Down)
            /\ rxbuf[c] \in Seq(1..Down) /\ far[c].sent \in Nat
        BY Typed
      <4>4. Handed(c) \in Nat /\ Handed(c) <= Len(rxbuf[c])
        BY EstablishedFits
      <4>5. Joined(app[c].got, toApp[c] \o SubSeq(rxbuf[c], 1, Handed(c)),
                   SubSeq(rxbuf[c], Handed(c) + 1, Len(rxbuf[c])), far[c].sent)
        BY <4>2, <4>3, <4>4, JoinedLeave
      <4>. QED
        BY <3>1, <3>3, <4>1, <4>5 DEF Read
    <3>5. \A d \in Live' : d \in Conns /\ (d # c => d \in Live)
      BY <3>2 DEF Live
    <3>. QED
      BY <1>3, <3>1, <3>2, <3>4, <3>5 DEF AllRead, Read
  <2>. QED
    BY <1>13, <2>1, <2>2, <2>3 DEF Service
<1>14. ASSUME NEW c \in Conns, Far(c) PROVE AllRead'
  <2>1. CASE SynAck(c)
    BY <2>1, <1>1, <1>2, <1>3 DEF SynAck, AllRead, Read, Live, stackVars, tableVars, sockVars,
       AppTask, FarEnd, TcpState
  <2>2. CASE FarData(c)
    <3>1. /\ rxbuf' = [rxbuf EXCEPT ![c] = Append(@, far[c].sent + 1)]
          /\ far' = [far EXCEPT ![c].sent = @ + 1] /\ far[c].sent < Down /\ c \in Live
          /\ UNCHANGED <<conn, toApp, app>>
      BY <2>2 DEF FarData, tableVars
    <3>2. /\ \A d \in Conns : d # c => rxbuf'[d] = rxbuf[d] /\ far'[d] = far[d]
          /\ rxbuf'[c] = Append(rxbuf[c], far[c].sent + 1) /\ far'[c].sent = far[c].sent + 1
      BY <1>1, <1>2, <3>1 DEF FarEnd
    <3>3. app[c].rx => Read(c)'
      <4>. HAVE app[c].rx
      <4>. DEFINE n == far[c].sent
                  v == <<n + 1>>
      <4>1. Joined(app[c].got, toApp[c], rxbuf[c], n)
        BY <1>3, <3>1 DEF AllRead, Read
      <4>2. /\ app[c].got \in Seq(1..Down) /\ toApp[c] \in Seq(1..Down)
            /\ rxbuf[c] \in Seq(1..Down) /\ n \in Nat
        BY Typed
      <4>3. n < Down /\ Down \in Nat
        BY <3>1, Sizes
      <4>. HIDE DEF n
      <4>4. n + 1 \in 1..Down
        BY <4>2, <4>3
      <4>5. v \in Seq(1..Down) /\ Len(v) = 1 /\ v[1] = n + 1
        BY <4>4
      <4>6. Append(rxbuf[c], n + 1) = rxbuf[c] \o v
        BY <4>2, <4>4, AppendIsConcat
      <4>. HIDE DEF v
      <4>7. Follows(v, n)
        BY <4>5 DEF Follows
      <4>8. Joined(app[c].got, toApp[c], rxbuf[c] \o v, n + Len(v))
        BY <4>1, <4>2, <4>5, <4>7, JoinedGrow
      <4>. QED
        BY <3>1, <3>2, <4>5, <4>6, <4>8 DEF Read, n
    <3>4. \A d \in Live' : d \in Conns /\ d \in Live
      BY <3>1 DEF Live
    <3>. QED
      BY <1>3, <3>1, <3>2, <3>3, <3>4 DEF AllRead, Read
  <2>3. CASE FarFin(c)
    BY <2>3, <1>1, <1>2, <1>3 DEF FarFin, AllRead, Read, Live, stackVars, tableVars, sockVars,
       AppTask, FarEnd, TcpState
  <2>4. CASE FarAck(c)
    <3>1. \A d \in Conns : far'[d].sent = far[d].sent
      BY <2>4, <1>1, <1>2 DEF FarAck, FarEnd
    <3>. QED
      BY <2>4, <1>3, <3>1 DEF FarAck, AllRead, Read, Live, tableVars
  <2>5. CASE FarAckFin(c)
    BY <2>5, <1>1, <1>2, <1>3 DEF FarAckFin, AllRead, Read, Live, stackVars, tableVars, sockVars,
       AppTask, FarEnd, TcpState
  <2>6. CASE SocketDies(c)
    BY <2>6, <1>1, <1>2, <1>3 DEF SocketDies, AllRead, Read, Live, stackVars, tableVars, sockVars,
       AppTask, FarEnd, TcpState
  <2>. QED
    BY <1>14, <2>1, <2>2, <2>3, <2>4, <2>5, <2>6 DEF Far
<1>15. ASSUME NEW c \in Conns, App(c) PROVE AllRead'
  <2>1. CASE AppOpen(c)
    BY <2>1, <1>1, <1>2, <1>3 DEF AppOpen, AllRead, Read, Live, stackVars, tableVars, sockVars,
       AppTask, FarEnd, TcpState
  <2>2. CASE AppOpened(c)
    BY <2>2, <1>1, <1>2, <1>3 DEF AppOpened, AllRead, Read, Live, stackVars, tableVars, sockVars,
       AppTask, FarEnd, TcpState
  <2>3. CASE AppAbandon(c)
    <3>1. \A d \in Conns : /\ app'[d].got = app[d].got
                           /\ app'[d].rx => app[d].rx /\ toApp'[d] = toApp[d]
      BY <2>3, <1>1, <1>2 DEF AppAbandon, AppTask, OpenInv
    <3>2. UNCHANGED <<conn, rxbuf, far>>
      BY <2>3 DEF AppAbandon, tableVars, sockVars
    <3>. QED
      BY <1>3, <3>1, <3>2 DEF AllRead, Read, Live
  <2>4. CASE AppSend(c)
    <3>1. \A d \in Conns : /\ app'[d].got = app[d].got
                           /\ app'[d].rx => app[d].rx /\ toApp'[d] = toApp[d]
      BY <2>4, <1>1, <1>2 DEF AppSend, AppTask, OpenInv
    <3>2. UNCHANGED <<conn, rxbuf, far>>
      BY <2>4 DEF AppSend, tableVars, sockVars
    <3>. QED
      BY <1>3, <3>1, <3>2 DEF AllRead, Read, Live
  <2>5. CASE AppClose(c)
    <3>1. \A d \in Conns : /\ app'[d].got = app[d].got
                           /\ app'[d].rx => app[d].rx /\ toApp'[d] = toApp[d]
      BY <2>5, <1>1, <1>2 DEF AppClose, AppTask, OpenInv
    <3>2. UNCHANGED <<conn, rxbuf, far>>
      BY <2>5 DEF AppClose, tableVars, sockVars
    <3>. QED
      BY <1>3, <3>1, <3>2 DEF AllRead, Read, Live
  <2>6. CASE AppDropSender(c)
    <3>1. \A d \in Conns : /\ app'[d].got = app[d].got
                           /\ app'[d].rx => app[d].rx /\ toApp'[d] = toApp[d]
      BY <2>6, <1>1, <1>2 DEF AppDropSender, AppTask, OpenInv
    <3>2. UNCHANGED <<conn, rxbuf, far>>
      BY <2>6 DEF AppDropSender, tableVars, sockVars
    <3>. QED
      BY <1>3, <3>1, <3>2 DEF AllRead, Read, Live
  <2>7. CASE AppDropReceiver(c)
    <3>1. \A d \in Conns : /\ app'[d].got = app[d].got
                           /\ app'[d].rx => app[d].rx /\ toApp'[d] = toApp[d]
      BY <2>7, <1>1, <1>2 DEF AppDropReceiver, AppTask, OpenInv
    <3>2. UNCHANGED <<conn, rxbuf, far>>
      BY <2>7 DEF AppDropReceiver, tableVars, sockVars
    <3>. QED
      BY <1>3, <3>1, <3>2 DEF AllRead, Read, Live
  <2>8. CASE AppRecv(c)
    <3>1. /\ toApp[c] # <<>> /\ app[c].rx
          /\ app' = [app EXCEPT ![c].got = Append(@, Head(toApp[c]))]
          /\ toApp' = [toApp EXCEPT ![c] = Tail(@)] /\ UNCHANGED <<conn, rxbuf, far>>
      BY <2>8 DEF AppRecv, tableVars, sockVars
    <3>2. /\ \A d \in Conns : d # c => app'[d] = app[d] /\ toApp'[d] = toApp[d]
          /\ app'[c].got = Append(app[c].got, Head(toApp[c])) /\ toApp'[c] = Tail(toApp[c])
      BY <1>1, <1>2, <3>1 DEF AppTask
    <3>3. c \in Live => Read(c)'
      <4>. HAVE c \in Live
      <4>1. Joined(app[c].got, toApp[c], rxbuf[c], far[c].sent)
        BY <1>3, <3>1 DEF AllRead, Read
      <4>2. /\ app[c].got \in Seq(1..Down) /\ toApp[c] \in Seq(1..Down)
            /\ rxbuf[c] \in Seq(1..Down) /\ far[c].sent \in Nat
        BY Typed
      <4>3. Joined(Append(app[c].got, Head(toApp[c])), Tail(toApp[c]), rxbuf[c], far[c].sent)
        BY <3>1, <4>1, <4>2, JoinedArrive
      <4>. QED
        BY <3>1, <3>2, <4>3 DEF Read
    <3>4. \A d \in Live' : d \in Conns /\ d \in Live
      BY <3>1 DEF Live
    <3>. QED
      BY <1>3, <3>1, <3>2, <3>3, <3>4 DEF AllRead, Read
  <2>. QED
    BY <1>15, <2>1, <2>2, <2>3, <2>4, <2>5, <2>6, <2>7, <2>8 DEF App
<1>16. ASSUME NEW c \in Conns, ConnectDeadline(c) \/ LingerElapses(c) PROVE AllRead'
  <2>1. CASE ConnectDeadline(c)
    <3>1. Live' = Live
      BY <2>1, <1>1, <1>2 DEF ConnectDeadline, Live, TcpState
    <3>. QED
      BY <2>1, <1>3, <3>1 DEF ConnectDeadline, sockVars, AllRead, Read
  <2>2. CASE LingerElapses(c)
    <3>1. Live' = Live
      BY <2>2, <1>1, <1>2 DEF LingerElapses, Live, TcpState
    <3>. QED
      BY <2>2, <1>3, <3>1 DEF LingerElapses, sockVars, AllRead, Read
  <2>. QED
    BY <1>16, <2>1, <2>2
<1>. QED
  BY <1>4, <1>5, <1>6, <1>7, <1>8, <1>9, <1>10, <1>11, <1>12, <1>13, <1>14, <1>15, <1>16 DEF Next,
     Loop

-----------------------------------------------------------------------------
(* The whole invariant                                                      *)

LEMMA StackInit == Init => StackInv
<1>. SUFFICES ASSUME Init PROVE StackInv
  OBVIOUS
<1>1. TypeOK
  BY TypeInit
<1>2. /\ \A c \in Conns : conn[c] = NoConn /\ sock[c].state = "Closed"
      /\ Live = {}
  BY NewConnFields DEF Init, Live
<1>3. deferred = <<>> /\ dataIn = <<>> /\ cmds = <<>> /\ Len(<<>>) = 0
  BY DEF Init
<1>4. Queued = <<>> /\ Len(Queued) = 0
  BY <1>3 DEF Queued
<1>5. /\ Closing(Queued)
      /\ \A c \in Conns : NoMessages(c, Queued) /\ ~HasClose(c, Queued) /\ Parts(c, Queued) = {}
  BY <1>4 DEF Closing, NoMessages, HasClose, Parts
<1>6. LoopInv
  BY <1>2 DEF Init, LoopInv
<1>7. OpenInv
  BY <1>2, NewConnFields DEF Init, OpenInv, AnswerMatchesTable
<1>8. CmdInv
  BY <1>3 DEF CmdInv
<1>9. FreshInv
  BY <1>2, <1>5 DEF FreshInv, Untouched, Init
<1>10. CloseInv
  BY <1>2, <1>5, NewConnFields DEF CloseInv
<1>11. FinInv /\ DeferredOnlyWhenFull /\ UploadIntact /\ DownloadIntact
  BY <1>2, <1>3 DEF FinInv, DeferredOnlyWhenFull, UploadIntact, DownloadIntact
<1>. QED
  BY <1>1, <1>6, <1>7, <1>8, <1>9, <1>10, <1>11 DEF StackInv

LEMMA StackSame ==
    ASSUME StackInv, UNCHANGED vars
    PROVE  StackInv'
<1>1. /\ UNCHANGED <<phase, todo, cmds, dataIn, deferred, conn, pending, sock, rxbuf, txbuf>>
      /\ UNCHANGED <<toApp, answer, app, far>>
  BY DEF vars, stackVars, tableVars, sockVars
<1>2. Live' = Live /\ Queued' = Queued
  BY <1>1 DEF Live, Queued
<1>3. TypeOK'
  BY TypeStep DEF StackInv
<1>4. LoopInv' /\ OpenInv' /\ CmdInv'
  BY <1>1, <1>2 DEF StackInv, LoopInv, OpenInv, AnswerMatchesTable, CmdInv
<1>5. FreshInv'
  BY <1>1, <1>2 DEF StackInv, FreshInv, Untouched
<1>6. CloseInv' /\ FinInv'
  BY <1>1, <1>2 DEF StackInv, CloseInv, Finished, FinInv
<1>7. DeferredOnlyWhenFull' /\ DownloadIntact'
  BY <1>1, <1>2 DEF StackInv, DeferredOnlyWhenFull, Space, DownloadIntact
<1>8. UploadIntact'
  BY <1>1, <1>2 DEF StackInv, UploadIntact, Passed
<1>. QED
  BY <1>3, <1>4, <1>5, <1>6, <1>7, <1>8 DEF StackInv

LEMMA StackStep ==
    ASSUME StackInv, [Next]_vars
    PROVE  StackInv'
<1>1. CASE UNCHANGED vars
  BY <1>1, StackSame
<1>2. CASE Next
  <2>1. TypeOK'
    BY TypeStep DEF StackInv
  <2>2. LoopInv' /\ OpenInv' /\ CmdInv'
    BY <1>2, LoopStep, OpenStep, CmdStep DEF StackInv
  <2>3. FreshInv' /\ CloseInv' /\ FinInv'
    BY <1>2, FreshStep, CloseStep, FinStep DEF StackInv
  <2>4. DeferredOnlyWhenFull'
    BY <1>2, DeferredStep DEF StackInv
  <2>5. UploadIntact'
    BY <1>2, <2>1, UploadStep, HeldUpload DEF StackInv
  <2>6. DownloadIntact'
    BY <1>2, <2>1, DownloadStep, ReadDownload DEF StackInv
  <2>. QED
    BY <2>1, <2>2, <2>3, <2>4, <2>5, <2>6 DEF StackInv
<1>. QED
  BY <1>1, <1>2

(* StackInv is an invariant of the stack: it holds at the start, and every  *)
(* step of the loop, the apps, the far ends and time keeps it.              *)
THEOREM StackCorrect == Spec => []StackInv
<1>1. Init => StackInv
  BY StackInit
<1>2. StackInv /\ [Next]_vars => StackInv'
  BY StackStep
<1>. QED
  BY <1>1, <1>2, PTL DEF Spec

(* The bounded queues of netstack.rs keep their bounds whatever the apps    *)
(* and the far ends do, and so for any sizes: data_in and to_app their      *)
(* capacity, pending max_tcp_pending and the deferred queue one datum.      *)
THEOREM TypeCorrect == Spec => []TypeOK
<1>1. StackInv => TypeOK
  BY DEF StackInv
<1>. QED
  BY <1>1, StackCorrect, PTL

(* try_handle_data, the deferred queue and service_tcp neither lose nor     *)
(* repeat nor reorder a unit an app sends, for any number of connections    *)
(* that share the queues and any amount of data.                            *)
THEOREM UploadCorrect == Spec => []UploadIntact
<1>1. StackInv => UploadIntact
  BY DEF StackInv
<1>. QED
  BY <1>1, StackCorrect, PTL

(* What the far end sends reaches the app that reads it in order and whole: *)
(* service_tcp takes from a socket only what it has a permit to hand over.  *)
THEOREM DownloadCorrect == Spec => []DownloadIntact
<1>1. StackInv => DownloadIntact
  BY DEF StackInv
<1>. QED
  BY <1>1, StackCorrect, PTL

(* The half-close of service_tcp waits for everything the app sent before   *)
(* it: FinInv says the stack closes first only when asked to and when       *)
(* pending is empty, and CloseInv that nothing of the connection is queued  *)
(* then.                                                                    *)
THEOREM FinCorrect == Spec => []NoEarlyFin
<1>1. StackInv => NoEarlyFin
  <2>. SUFFICES ASSUME StackInv, NEW c \in Live, app[c].rx, sock[c].state \in FinStates
                PROVE  pending[c] = <<>> /\ Parts(c, Queued) = {}
    BY DEF NoEarlyFin, FinStates
  <2>1. conn[c].half /\ pending[c] = <<>> /\ c \in Conns
    BY DEF StackInv, FinInv, Live
  <2>. QED
    BY <2>1 DEF StackInv, CloseInv
<1>. QED
  BY <1>1, StackCorrect, PTL

(* An upload is held back in the deferred queue only for a connection that  *)
(* is in the table and whose pending is full.                               *)
THEOREM DeferredCorrect == Spec => []DeferredOnlyWhenFull
<1>1. StackInv => DeferredOnlyWhenFull
  BY DEF StackInv
<1>. QED
  BY <1>1, StackCorrect, PTL

(* The oneshot of OpenTcp is answered exactly as the table says, on every   *)
(* path by which a connection enters it, is established and leaves it.      *)
THEOREM AnswerCorrect == Spec => []AnswerMatchesTable
<1>1. StackInv => AnswerMatchesTable
  BY DEF StackInv, OpenInv
<1>. QED
  BY <1>1, StackCorrect, PTL

(* What a step that removes a connection owes. *)
LeavesClean ==
    \A c \in Conns : c \in Live /\ c \notin Live' /\ phase' # "stopped" => ~sock'[c].rst

LEMMA LeavesStep ==
    ASSUME TypeOK, LoopInv, Next
    PROVE  LeavesClean
<1>1. conn \in [Conns -> TcpState] /\ sock \in [Conns -> Socket]
  BY DEF TypeOK
<1>2. \A c \in Conns : conn[c] \in TcpState
  BY <1>1
<1>3. CASE PollDone
  BY <1>3 DEF PollDone, LeavesClean, Live, tableVars
<1>4. CASE ServiceDone
  BY <1>4 DEF ServiceDone, LeavesClean, Live, tableVars
<1>5. CASE RetryDeferred
  <2>1. CASE deferred = <<>>
    BY <1>5, <2>1 DEF RetryDeferred, tableVars, Live, LeavesClean
  <2>2. CASE deferred # <<>>
    <3>1. Handles
      BY <1>5, <2>2, HandlesWhen
    <3>2. Head(Queued) \in DataMsg /\ TryHandleData(Head(Queued))
      BY <3>1, HeadQueued DEF Handles
    <3>3. Live' = Live
      BY <3>2, HandledFields
    <3>. QED
      BY <3>3 DEF LeavesClean
  <2>. QED
    BY <2>1, <2>2
<1>6. CASE DrainDone
  BY <1>6 DEF DrainDone, LeavesClean, Live, tableVars
<1>7. CASE TakeData
  <2>1. Handles
    BY <1>7, HandlesWhen
  <2>2. Head(Queued) \in DataMsg /\ TryHandleData(Head(Queued))
    BY <2>1, HeadQueued DEF Handles
  <2>3. Live' = Live
    BY <2>2, HandledFields
  <2>. QED
    BY <2>3 DEF LeavesClean
<1>8. CASE HandleOpenTcp
  <2>1. Head(cmds) \in Conns
    BY <1>8, TailFacts DEF HandleOpenTcp, TypeOK
  <2>2. Live \subseteq Live'
    BY <1>8, <1>1, <2>1, NewConnFields DEF HandleOpenTcp, Live
  <2>. QED
    BY <2>2 DEF LeavesClean
<1>9. CASE Ingest
  BY <1>9 DEF Ingest, LeavesClean, Live, tableVars
<1>10. CASE Tick
  BY <1>10 DEF Tick, LeavesClean, Live, tableVars
<1>11. CASE Stop
  BY <1>11 DEF Stop, LeavesClean
<1>12. ASSUME NEW c \in Conns, Service(c) PROVE LeavesClean
  <2>1. CASE ServiceAborted(c)
    <3>1. ~sock[c].rst
      BY <2>1 DEF ServiceAborted, LoopInv
    <3>. QED
      BY <2>1, <1>1, <3>1 DEF ServiceAborted, sockVars, LeavesClean, Live
  <2>2. CASE ServiceConnecting(c)
    <3>1. /\ \A d \in Conns : d # c => conn'[d] = conn[d]
          /\ sock' = sock /\ c \in todo
      BY <2>2, ConnectingFields
    <3>. QED
      BY <3>1 DEF LoopInv, LeavesClean, Live
  <2>3. CASE ServiceEstablished(c)
    <3>1. /\ conn' = [conn EXCEPT ![c] = ConnAfter(c)] /\ sock' = [sock EXCEPT ![c] = SockAfter(c)]
          /\ c \in todo
      BY <2>3, EstablishedParts
    <3>2. \A d \in Conns : d # c => conn'[d] = conn[d]
      BY <1>1, <3>1
    <3>3. ASSUME c \notin Live' PROVE ~sock'[c].rst
      <4>1. conn'[c] = ConnAfter(c) /\ sock'[c] = SockAfter(c)
        BY <1>1, <3>1
      <4>2. ConnAfter(c).st # "live" /\ conn[c].st = "live" /\ ~sock[c].rst
        BY <3>1, <3>3, <4>1 DEF LoopInv, Live
      <4>3. ConnAfter(c).st = IF Removed(Aborts(c), State2(c)) THEN "gone" ELSE conn[c].st
        BY AfterFields
      <4>4. ~Aborts(c)
        BY <4>2, <4>3 DEF Removed
      <4>5. SockAfter(c).rst <=> sock[c].rst \/ (Aborts(c) /\ State1(c) # "Closed")
        BY Zenon DEF SockAfter
      <4>. QED
        BY <4>1, <4>2, <4>4, <4>5
    <3>. QED
      BY <3>2, <3>3 DEF LeavesClean, Live
  <2>. QED
    BY <1>12, <2>1, <2>2, <2>3 DEF Service
<1>13. ASSUME NEW c \in Conns, Far(c) PROVE LeavesClean
  <2>1. CASE SynAck(c)
    BY <2>1 DEF SynAck, LeavesClean, Live, tableVars
  <2>2. CASE FarData(c)
    BY <2>2 DEF FarData, LeavesClean, Live, tableVars
  <2>3. CASE FarFin(c)
    BY <2>3 DEF FarFin, LeavesClean, Live, tableVars
  <2>4. CASE FarAck(c)
    BY <2>4 DEF FarAck, LeavesClean, Live, tableVars
  <2>5. CASE FarAckFin(c)
    BY <2>5 DEF FarAckFin, LeavesClean, Live, tableVars
  <2>6. CASE SocketDies(c)
    BY <2>6 DEF SocketDies, LeavesClean, Live, tableVars
  <2>. QED
    BY <1>13, <2>1, <2>2, <2>3, <2>4, <2>5, <2>6 DEF Far
<1>14. ASSUME NEW c \in Conns, App(c) PROVE LeavesClean
  <2>1. CASE AppOpen(c)
    BY <2>1 DEF AppOpen, LeavesClean, Live, tableVars
  <2>2. CASE AppOpened(c)
    BY <2>2 DEF AppOpened, LeavesClean, Live, tableVars
  <2>3. CASE AppAbandon(c)
    BY <2>3 DEF AppAbandon, LeavesClean, Live, tableVars
  <2>4. CASE AppSend(c)
    BY <2>4 DEF AppSend, LeavesClean, Live, tableVars
  <2>5. CASE AppClose(c)
    BY <2>5 DEF AppClose, LeavesClean, Live, tableVars
  <2>6. CASE AppDropSender(c)
    BY <2>6 DEF AppDropSender, LeavesClean, Live, tableVars
  <2>7. CASE AppDropReceiver(c)
    BY <2>7 DEF AppDropReceiver, LeavesClean, Live, tableVars
  <2>8. CASE AppRecv(c)
    BY <2>8 DEF AppRecv, LeavesClean, Live, tableVars
  <2>. QED
    BY <1>14, <2>1, <2>2, <2>3, <2>4, <2>5, <2>6, <2>7, <2>8 DEF App
<1>15. ASSUME NEW c \in Conns, ConnectDeadline(c) \/ LingerElapses(c) PROVE LeavesClean
  <2>1. CASE ConnectDeadline(c)
    <3>1. Live' = Live
      BY <2>1, <1>1, <1>2 DEF ConnectDeadline, Live, TcpState
    <3>. QED
      BY <3>1 DEF LeavesClean
  <2>2. CASE LingerElapses(c)
    <3>1. Live' = Live
      BY <2>2, <1>1, <1>2 DEF LingerElapses, Live, TcpState
    <3>. QED
      BY <3>1 DEF LeavesClean
  <2>. QED
    BY <1>15, <2>1, <2>2
<1>. QED
  BY <1>3, <1>4, <1>5, <1>6, <1>7, <1>8, <1>9, <1>10, <1>11, <1>12, <1>13, <1>14, <1>15 DEF Next,
     Loop

(* A connection leaves the table only in a pass after the poll that sent    *)
(* what its socket owed: abort() is called in one pass of service_tcp and   *)
(* the entry removed in the next, and the poll between them clears the      *)
(* reset of every socket that the pass will visit.                          *)
THEOREM ResetCorrect == Spec => ResetLeavesFirst
<1>1. StackInv /\ [Next]_vars => [LeavesClean]_vars
  BY LeavesStep DEF StackInv
<1>2. Spec => [][LeavesClean]_vars
  BY <1>1, StackCorrect, PTL DEF Spec
<1>. QED
  BY <1>2 DEF ResetLeavesFirst, LeavesClean
=============================================================================
