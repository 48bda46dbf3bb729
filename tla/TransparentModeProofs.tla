----------------------- MODULE TransparentModeProofs ------------------------
(***************************************************************************)
(* Proofs about TransparentMode for every number of checks and every set   *)
(* of plans: its types, that a blip does not take transparent mode out,    *)
(* and that a service that has stopped leaves ordinary DNS behind.         *)
(***************************************************************************)
EXTENDS TransparentMode, TLAPS

Labels == {Idle} \cup ScriptLabels \cup InitLabels \cup MonitorLabels
Rests == {Idle} \cup InitLabels \cup MonitorLabels

(* TypeOK, in two parts: what the scripts keep for themselves, and the rest. *)
CallType ==
    /\ at \in [Procs -> Labels] /\ then \in [Procs -> Rests]
    /\ rules \in [Procs -> {"all", "accounting", "stop"}]

LEMMA LabelFacts ==
    /\ {"off", "off restart", "on", "on write", "on restart", "on again", "delete table",
        "delete routes", "remove file", "write", "check", "write again", "check again",
        "load", "add routes"} \subseteq Labels
    /\ Rests \subseteq Labels
    /\ {"idle", "stop", "stop firewall", "kill", "start", "configure", "mark", "mark dns",
        "commit", "look", "ports", "redirect", "dns", "gone", "take out"} \subseteq Rests
BY DEF Labels, Rests, ScriptLabels, InitLabels, MonitorLabels, Idle

LEMMA GoToType ==
    ASSUME CallType, NEW p \in Procs, NEW l \in Labels, GoTo(p, l) PROVE CallType'
BY DEF CallType, GoTo

LEMMA ReturnType ==
    ASSUME CallType, NEW p \in Procs, Return(p) PROVE CallType'
BY LabelFacts DEF CallType, Return, Idle

LEMMA DnsType ==
    ASSUME CallType, NEW p \in Procs, NEW e \in Labels, NEW l \in Rests, Dns(p, e, l)
    PROVE  CallType'
BY DEF CallType, Dns

LEMMA FirewallType ==
    ASSUME CallType, NEW p \in Procs, NEW w \in {"all", "accounting", "stop"}, NEW l \in Rests,
           Firewall(p, w, l)
    PROVE  CallType'
BY LabelFacts DEF CallType, Firewall

(* The other variables. *)
DataType ==
    /\ want \subseteq {"transparent", "dns"} /\ snippet \in BOOLEAN /\ loaded \in BOOLEAN
    /\ nft \subseteq Chains /\ nftFile \subseteq Chains \cup {"file"} /\ routes \in BOOLEAN
    /\ up \subseteq Ports /\ inst \subseteq {"core", "monitor", "sing-box"}
    /\ plan \subseteq {"core", "monitor", "sing-box"} /\ op \in {"start", "stop", "restart"}
    /\ changed \in [Procs -> BOOLEAN]
    /\ missing \in 0..Checks - 1 /\ streak \in 0..Checks

LEMMA TypeParts == TypeOK <=> CallType /\ DataType
BY DEF TypeOK, CallType, DataType, Labels, Rests

LEMMA TypeInit == Init => CallType /\ DataType
<1>. SUFFICES ASSUME Init PROVE CallType /\ DataType
  OBVIOUS
<1>1. CallType
  BY LabelFacts DEF Init, CallType, Idle
<1>2. missing \in 0..Checks - 1 /\ streak \in 0..Checks
  BY TransparentAssumption DEF Init
<1>3. changed \in [Procs -> BOOLEAN]
  BY DEF Init
<1>4. DataType
  BY <1>2, <1>3 DEF Init, DataType
<1>. QED
  BY <1>1, <1>4

LEMMA ScriptCall ==
    ASSUME CallType, NEW p \in Procs, Script(p) PROVE CallType'
<1>. USE LabelFacts, GoToType, ReturnType
<1>1. CASE DnsScript(p)
  BY <1>1 DEF DnsScript, OffRemove, OffRestart, OnLook, OnWrite, OnRestart, OnLookAgain
<1>2. CASE FirewallScript(p)
  BY <1>2 DEF FirewallScript, CoreMissing, HistoryFails, DeleteTable, DeleteRoutes, RemoveFile,
     WriteRules, CheckRules,
              WriteAgain, CheckAgain, LoadRules, Rejected, AddRoutes
<1>. QED
  BY <1>1, <1>2 DEF Script

LEMMA ScriptData ==
    ASSUME DataType, NEW p \in Procs, Script(p) PROVE DataType'
<1>. USE DEF DataType, dnsVars, fwVars, svcVars, monVars, Chains
<1>1. CASE OffRemove(p)
  BY <1>1 DEF OffRemove
<1>2. CASE OffRestart(p)
  BY <1>2 DEF OffRestart
<1>3. CASE \/ OnLook(p) \/ OnLookAgain(p) \/ CheckRules(p) \/ CheckAgain(p)
           \/ CoreMissing(p) \/ HistoryFails(p) \/ Rejected(p)
  BY <1>3 DEF OnLook, OnLookAgain, CheckRules, CheckAgain, CoreMissing, HistoryFails, Rejected
<1>4. CASE OnWrite(p)
  BY <1>4 DEF OnWrite
<1>5. CASE OnRestart(p)
  BY <1>5 DEF OnRestart
<1>6. CASE DeleteTable(p) \/ DeleteRoutes(p)
  BY <1>6 DEF DeleteTable, DeleteRoutes
<1>7. CASE RemoveFile(p)
  BY <1>7 DEF RemoveFile
<1>8. CASE WriteRules(p) \/ WriteAgain(p)
  BY <1>8 DEF WriteRules, WriteAgain, Written
<1>9. CASE LoadRules(p)
  BY <1>9 DEF LoadRules
<1>10. CASE AddRoutes(p)
  BY <1>10 DEF AddRoutes
<1>. QED
  BY <1>1, <1>2, <1>3, <1>4, <1>5, <1>6, <1>7, <1>8, <1>9, <1>10
     DEF Script, DnsScript, FirewallScript

LEMMA InitCall ==
    ASSUME CallType, InitScript \/ \E o \in {"start", "stop", "restart"} : Called(o)
    PROVE  CallType'
<1>. USE LabelFacts
<1>0. "init" \in Procs /\ "monitor" \in Procs /\ "orphan" \in Procs
  BY DEF Procs
<1>1. ASSUME NEW o \in {"start", "stop", "restart"}, Called(o) PROVE CallType'
  BY <1>0, <1>1, GoToType DEF Called
<1>2. CASE StopMarkers \/ StartDns
  BY <1>0, <1>2, DnsType DEF StopMarkers, StartDns
<1>3. CASE StopFirewall \/ StartSocks \/ StartTproxy
  BY <1>0, <1>3, FirewallType DEF StopFirewall, StartSocks, StartTproxy
<1>4. CASE StartNothing \/ MarkTransparent \/ MarkDns
  BY <1>0, <1>4, GoToType DEF StartNothing, MarkTransparent, MarkDns
<1>5. ASSUME NEW l \in Labels, EndMonitor(l) PROVE CallType'
  BY <1>0, <1>5 DEF EndMonitor, CallType, Idle
<1>6. CASE Kill \/ Commit
  <2>1. CASE Commit /\ "monitor" \in plan
    <3>1. /\ UNCHANGED <<then, rules>>
          /\ at' = [at EXCEPT !["init"] = Idle,
                !["monitor"] = IF at["monitor"] = Idle THEN "look" ELSE at["monitor"]]
      BY <2>1 DEF Commit
    <3>. QED
      BY <1>0, <3>1 DEF CallType, Idle
  <2>2. CASE ~(Commit /\ "monitor" \in plan)
    BY <1>5, <1>6, <2>2 DEF Kill, Commit, Idle
  <2>. QED
    BY <2>1, <2>2
<1>. QED
  BY <1>1, <1>2, <1>3, <1>4, <1>5, <1>6 DEF InitScript

LEMMA InitData ==
    ASSUME DataType, InitScript \/ \E o \in {"start", "stop", "restart"} : Called(o)
    PROVE  DataType'
<1>. USE DEF DataType, dnsVars, fwVars, svcVars, monVars
<1>1. ASSUME NEW o \in {"start", "stop", "restart"}, Called(o) PROVE DataType'
  BY <1>1 DEF Called
<1>2. CASE StopMarkers \/ StartDns \/ StopFirewall
  BY <1>2 DEF StopMarkers, StartDns, StopFirewall
<1>3. CASE StartSocks \/ StartTproxy
  BY <1>3 DEF StartSocks, StartTproxy
<1>4. CASE StartNothing
  BY <1>4 DEF StartNothing
<1>5. CASE MarkTransparent \/ MarkDns
  BY <1>5 DEF MarkTransparent, MarkDns
<1>6. ASSUME NEW l, EndMonitor(l)
      PROVE  /\ missing' \in 0..Checks - 1 /\ streak' \in 0..Checks
             /\ changed' \in [Procs -> BOOLEAN] /\ UNCHANGED <<snippet, loaded>>
  <2>1. missing' \in 0..Checks - 1 /\ streak' \in 0..Checks
    BY <1>6, TransparentAssumption DEF EndMonitor
  <2>2. changed' \in [Procs -> BOOLEAN]
    BY <1>6 DEF EndMonitor, Procs
  <2>. QED
    BY <1>6, <2>1, <2>2 DEF EndMonitor
<1>7. CASE Kill
  BY <1>6, <1>7 DEF Kill
<1>8. CASE Commit
  BY <1>6, <1>8 DEF Commit
<1>. QED
  BY <1>1, <1>2, <1>3, <1>4, <1>5, <1>7, <1>8 DEF InitScript

LEMMA MonitorCall ==
    ASSUME CallType, Monitor PROVE CallType'
<1>. USE LabelFacts, GoToType, DnsType, FirewallType
<1>0. "monitor" \in Procs
  BY DEF Procs
<1>1. CASE Look \/ LookAtPorts
  BY <1>0, <1>1 DEF Look, LookAtPorts
<1>2. CASE PutRedirect \/ TakeOut
  BY <1>0, <1>2 DEF PutRedirect, TakeOut
<1>3. CASE FollowDns
  BY <1>0, <1>3 DEF FollowDns
<1>4. CASE CountGone
  BY <1>0, <1>4 DEF CountGone
<1>. QED
  BY <1>1, <1>2, <1>3, <1>4 DEF Monitor

LEMMA MonitorData ==
    ASSUME DataType, Monitor PROVE DataType'
<1>. USE DEF DataType, dnsVars, fwVars, svcVars, monVars
<1>1. CASE Look \/ PutRedirect \/ FollowDns \/ TakeOut
  BY <1>1 DEF Look, PutRedirect, FollowDns, TakeOut
<1>2. CASE LookAtPorts
  BY <1>2, TransparentAssumption DEF LookAtPorts
<1>3. CASE CountGone
  <2>1. missing' = 0 \/ (missing + 1 < Checks /\ missing' = missing + 1)
    BY <1>3 DEF CountGone
  <2>2. missing' \in 0..Checks - 1
    BY <2>1, TransparentAssumption
  <2>. QED
    BY <1>3, <2>2 DEF CountGone
<1>. QED
  BY <1>1, <1>2, <1>3 DEF Monitor

LEMMA TypeStep == CallType /\ DataType /\ [Next]_vars => (CallType /\ DataType)'
<1>. SUFFICES ASSUME CallType, DataType, [Next]_vars PROVE (CallType /\ DataType)'
  OBVIOUS
<1>1. ASSUME NEW port \in Ports, PortOpens(port) \/ PortCloses(port)
      PROVE  (CallType /\ DataType)'
  BY <1>1 DEF PortOpens, PortCloses, CallType, DataType, dnsVars, fwVars, svcVars, monVars
<1>2. CASE UNCHANGED vars
  BY <1>2 DEF vars, CallType, DataType, dnsVars, fwVars, svcVars, monVars
<1>. QED
  BY <1>1, <1>2, ScriptCall, ScriptData, InitCall, InitData, MonitorCall, MonitorData DEF Next

(* Every variable keeps its type, and the monitor's count stays below the   *)
(* number of checks, through every interleaving of the scripts.             *)
THEOREM TypeCorrect == Spec => []TypeOK
BY TypeInit, TypeStep, TypeParts, PTL DEF Spec

-----------------------------------------------------------------------------
(* Blips: the count never runs ahead of the looks that found a port missing *)
CountInv ==
    /\ missing <= streak
    /\ at["monitor"] = "gone" => missing < streak
    /\ then["monitor"] # "gone"

BlipInv == CallType /\ DataType /\ CountInv

(* A step that leaves the counts alone, and does not lead to the counting. *)
LEMMA CountKept ==
    ASSUME CountInv, UNCHANGED monVars, then'["monitor"] # "gone",
           at'["monitor"] = "gone" => at["monitor"] = "gone"
    PROVE  CountInv'
BY DEF CountInv, monVars

LEMMA ScriptCount ==
    ASSUME BlipInv, NEW p \in Procs, Script(p) PROVE CountInv'
<1>0. "monitor" \in Procs
  BY DEF Procs
<1>1. UNCHANGED monVars
  BY DEF Script, DnsScript, OffRemove, OffRestart, OnLook, OnWrite, OnRestart, OnLookAgain,
     FirewallScript, CoreMissing, HistoryFails, DeleteTable, DeleteRoutes, RemoveFile,
     WriteRules, CheckRules, WriteAgain, CheckAgain, LoadRules, Rejected, AddRoutes
<1>2. Return(p) \/ \E l \in ScriptLabels : GoTo(p, l)
  BY DEF Script, DnsScript, OffRemove, OffRestart, OnLook, OnWrite, OnRestart, OnLookAgain,
     FirewallScript, CoreMissing, HistoryFails, DeleteTable, DeleteRoutes, RemoveFile,
     WriteRules, CheckRules, WriteAgain, CheckAgain, LoadRules, Rejected, AddRoutes,
     ScriptLabels
<1>3. CASE Return(p)
  BY <1>0, <1>1, <1>3, CountKept DEF BlipInv, CallType, CountInv, Return, Idle
<1>4. ASSUME NEW l \in ScriptLabels, GoTo(p, l) PROVE CountInv'
  BY <1>0, <1>1, <1>4, CountKept DEF BlipInv, CallType, CountInv, GoTo, ScriptLabels
<1>. QED
  BY <1>2, <1>3, <1>4

LEMMA InitCount ==
    ASSUME BlipInv, InitScript \/ \E o \in {"start", "stop", "restart"} : Called(o)
    PROVE  CountInv'
<1>. USE DEF BlipInv, CallType
<1>0. "init" \in Procs /\ "monitor" \in Procs /\ "orphan" \in Procs
  BY DEF Procs
<1>1. ASSUME NEW l, EndMonitor(l) PROVE CountInv'
  BY <1>0, <1>1 DEF EndMonitor, CountInv, Idle
<1>2. CASE Kill \/ Commit
  BY <1>0, <1>1, <1>2, CountKept DEF Kill, Commit, CountInv, Idle
<1>3. CASE \/ \E o \in {"start", "stop", "restart"} : Called(o)
           \/ StopMarkers \/ StopFirewall \/ StartDns \/ StartNothing \/ StartSocks \/ StartTproxy
           \/ MarkTransparent \/ MarkDns
  <2>1. UNCHANGED monVars
    BY <1>3 DEF Called, StopMarkers, StopFirewall, StartDns, StartNothing, StartSocks,
                StartTproxy, MarkTransparent, MarkDns
  <2>2. at'["monitor"] = at["monitor"] /\ then'["monitor"] = then["monitor"]
    BY <1>0, <1>3 DEF Called, StopMarkers, StopFirewall, StartDns, StartNothing, StartSocks,
                StartTproxy, MarkTransparent, MarkDns, GoTo, Dns, Firewall
  <2>. QED
    BY <2>1, <2>2, CountKept DEF CountInv
<1>. QED
  BY <1>1, <1>2, <1>3 DEF InitScript

LEMMA MonitorCount ==
    ASSUME BlipInv, Monitor PROVE CountInv'
<1>. USE DEF BlipInv, CallType
<1>0. "monitor" \in Procs
  BY DEF Procs
<1>1. CASE Look \/ PutRedirect \/ FollowDns \/ TakeOut
  <2>1. UNCHANGED monVars
    BY <1>1 DEF Look, PutRedirect, FollowDns, TakeOut
  <2>2. at'["monitor"] # "gone" /\ then'["monitor"] # "gone"
    BY <1>0, <1>1 DEF Look, PutRedirect, FollowDns, TakeOut, GoTo, Dns, Firewall, CountInv
  <2>. QED
    BY <2>1, <2>2, CountKept
<1>2. CASE LookAtPorts
  <2>1. missing' <= streak' /\ (~Served => missing' < streak')
    BY <1>2, TransparentAssumption DEF LookAtPorts, DataType, CountInv
  <2>2. then'["monitor"] # "gone" /\ (Served => at'["monitor"] # "gone")
    BY <1>0, <1>2 DEF LookAtPorts, GoTo, CountInv
  <2>. QED
    BY <2>1, <2>2 DEF CountInv
<1>3. CASE CountGone
  <2>0. /\ missing' = 0 \/ missing' = missing + 1
        /\ streak' = streak /\ missing < streak
    BY <1>3 DEF CountGone, CountInv
  <2>1. missing' <= streak'
    <3>1. missing \in Nat /\ streak \in Nat
      BY TransparentAssumption DEF DataType
    <3>. QED
      BY <2>0, <3>1
  <2>2. GoTo("monitor", "look") \/ Dns("monitor", "off", "take out")
    BY <1>3 DEF CountGone
  <2>3. at'["monitor"] # "gone" /\ then'["monitor"] # "gone"
    BY <1>0, <2>2 DEF GoTo, Dns, CountInv
  <2>. QED
    BY <2>1, <2>3 DEF CountInv
<1>. QED
  BY <1>1, <1>2, <1>3 DEF Monitor

LEMMA BlipStep == BlipInv /\ [Next]_vars => BlipInv'
<1>. SUFFICES ASSUME BlipInv, [Next]_vars PROVE BlipInv'
  OBVIOUS
<1>0. (CallType /\ DataType)'
  BY TypeStep DEF BlipInv
<1>1. ASSUME NEW port \in Ports, PortOpens(port) \/ PortCloses(port) PROVE CountInv'
  BY <1>1 DEF PortOpens, PortCloses, BlipInv, CountInv, monVars
<1>2. CASE UNCHANGED vars
  BY <1>0, <1>2 DEF vars, BlipInv, CountInv, monVars
<1>. QED
  BY <1>0, <1>1, <1>2, ScriptCount, InitCount, MonitorCount DEF Next, BlipInv

LEMMA BlipInit == Init => BlipInv
BY TypeInit DEF Init, BlipInv, CountInv, Procs, Idle

(* The monitor takes transparent mode out only after Checks looks in a row  *)
(* that found a port missing, for every number of checks: a look that finds *)
(* both ports, a fresh monitor and a restart all begin the count again.     *)
THEOREM BlipsAreForgiven == Spec => BlipsForgiven
<1>1. BlipInv /\ [Next]_vars =>
        [at["monitor"] = "gone" /\ at'["monitor"] = "off" => streak = Checks]_vars
  <2>. SUFFICES ASSUME BlipInv, Next, at["monitor"] = "gone", at'["monitor"] = "off"
                PROVE  streak = Checks
    OBVIOUS
  <2>0. "monitor" \in Procs
    BY DEF Procs
  <2>1. CASE CountGone
    <3>1. ~GoTo("monitor", "look")
      BY <2>0 DEF GoTo, BlipInv, CallType
    <3>2. ~(missing + 1 < Checks)
      BY <2>1, <3>1 DEF CountGone
    <3>. QED
      BY <3>2, TransparentAssumption DEF BlipInv, DataType, CountInv
  <2>2. CASE Look \/ LookAtPorts \/ PutRedirect \/ FollowDns \/ TakeOut
    BY <2>2 DEF Look, LookAtPorts, PutRedirect, FollowDns, TakeOut
  <2>3. ASSUME NEW p \in Procs, Script(p) PROVE at'["monitor"] # "off"
    <3>1. CASE p = "monitor"
      BY <2>3, <3>1 DEF Script, DnsScript, OffRemove, OffRestart, OnLook, OnWrite, OnRestart,
         OnLookAgain, FirewallScript, CoreMissing, HistoryFails, DeleteTable, DeleteRoutes,
         RemoveFile, WriteRules, CheckRules, WriteAgain, CheckAgain, LoadRules, Rejected,
         AddRoutes
    <3>2. CASE p # "monitor"
      <4>1. at'["monitor"] = at["monitor"]
        BY <2>0, <2>3, <3>2 DEF Script, DnsScript, OffRemove, OffRestart, OnLook, OnWrite,
           OnRestart, OnLookAgain, FirewallScript, CoreMissing, HistoryFails, DeleteTable,
           DeleteRoutes, RemoveFile, WriteRules, CheckRules, WriteAgain, CheckAgain, LoadRules,
           Rejected, AddRoutes, GoTo, Return, BlipInv, CallType
      <4>. QED
        BY <4>1
    <3>. QED
      BY <3>1, <3>2
  <2>4. ASSUME InitScript \/ \E o \in {"start", "stop", "restart"} : Called(o)
        PROVE  at'["monitor"] # "off"
    <3>0. "init" \in Procs /\ "orphan" \in Procs
      BY DEF Procs
    <3>1. CASE Kill \/ Commit
      BY <2>0, <3>0, <3>1 DEF Kill, Commit, EndMonitor, BlipInv, CallType, Idle
    <3>2. CASE ~(Kill \/ Commit)
      BY <2>0, <2>4, <3>2 DEF InitScript, Called, StopMarkers, StopFirewall, StartDns,
         StartNothing, StartSocks, StartTproxy, MarkTransparent, MarkDns, GoTo, Dns, Firewall,
         BlipInv, CallType
    <3>. QED
      BY <3>1, <3>2
  <2>5. ASSUME NEW port \in Ports, PortOpens(port) \/ PortCloses(port)
        PROVE  at'["monitor"] # "off"
    BY <2>5 DEF PortOpens, PortCloses
  <2>. QED
    BY <2>1, <2>2, <2>3, <2>4, <2>5 DEF Next, Monitor
<1>. QED
  BY <1>1, BlipInit, BlipStep, PTL DEF Spec, BlipsForgiven

-----------------------------------------------------------------------------
(* DNS: whoever leaves it pointed at sing-box is on the way to take it back *)

(* What a stop or a restart leaves wanted is wanted by a service that runs  *)
(* or is being started.                                                     *)
WantInv ==
    /\ at["init"] \in ScriptLabels \/ then["init"] = Idle
    /\ at["init"] \in {"mark", "mark dns"} \/ then["init"] \in {"mark", "mark dns"} => plan # {}
    /\ want # {} /\ op # "start" => \/ at["init"] = "stop"
                                    \/ at["init"] = Idle /\ inst # {}
                                    \/ at["init"] \in {"mark dns", "commit"} /\ plan # {}

(* A stop or a restart has removed the markers, and no start has come since. *)
Owed == op # "start" /\ at["init"] # "stop"

Pending(p) == at[p] \in {"off", "on restart", "on again"}
Restarting(p) == at[p] = "off restart" /\ changed[p]

(* From then on a snippet that nobody wants is about to be removed or       *)
(* looked at again; and a dnsmasq that runs with a removed snippet is       *)
(* always about to be restarted.                                            *)
LeftInv ==
    /\ Owed /\ snippet /\ "dns" \notin want => \E p \in Procs : Pending(p)
    /\ loaded /\ ~snippet => \E p \in Procs : Restarting(p)

DnsInv == CallType /\ DataType /\ WantInv /\ LeftInv

LEMMA ScriptWant ==
    ASSUME CallType, WantInv, NEW p \in Procs, Script(p) PROVE WantInv'
<1>0. "init" \in Procs
  BY DEF Procs
<1>1. UNCHANGED <<want, svcVars>> /\ at[p] \in ScriptLabels
  BY DEF Script, DnsScript, OffRemove, OffRestart, OnLook, OnWrite, OnRestart, OnLookAgain,
     FirewallScript, CoreMissing, HistoryFails, DeleteTable, DeleteRoutes, RemoveFile,
     WriteRules, CheckRules, WriteAgain, CheckAgain, LoadRules, Rejected, AddRoutes,
     ScriptLabels
<1>2. Return(p) \/ \E l \in ScriptLabels : GoTo(p, l)
  BY DEF Script, DnsScript, OffRemove, OffRestart, OnLook, OnWrite, OnRestart, OnLookAgain,
     FirewallScript, CoreMissing, HistoryFails, DeleteTable, DeleteRoutes, RemoveFile,
     WriteRules, CheckRules, WriteAgain, CheckAgain, LoadRules, Rejected, AddRoutes,
     ScriptLabels
<1>3. CASE p # "init"
  <2>1. at'["init"] = at["init"] /\ then'["init"] = then["init"]
    BY <1>0, <1>2, <1>3 DEF Return, GoTo, CallType
  <2>. QED
    BY <1>1, <2>1 DEF WantInv, svcVars
<1>4. CASE p = "init"
  <2>1. (want # {} => op = "start") /\ UNCHANGED <<want, op>>
    BY <1>1, <1>4 DEF WantInv, ScriptLabels, Idle, svcVars
  <2>2. CASE Return(p)
    <3>1. at'["init"] = then["init"] /\ then'["init"] = Idle
      BY <1>0, <1>4, <2>2 DEF Return, CallType
    <3>2. at'["init"] \in {"mark", "mark dns"} => plan # {}
      BY <3>1 DEF WantInv
    <3>. QED
      BY <1>1, <2>1, <3>1, <3>2 DEF WantInv, svcVars, Idle
  <2>3. ASSUME NEW l \in ScriptLabels, GoTo(p, l) PROVE WantInv'
    <3>1. at'["init"] = l /\ then'["init"] = then["init"]
      BY <1>0, <1>4, <2>3 DEF GoTo, CallType
    <3>. QED
      BY <1>1, <2>1, <3>1 DEF WantInv, svcVars, ScriptLabels
  <2>. QED
    BY <1>2, <2>2, <2>3
<1>. QED
  BY <1>3, <1>4

LEMMA InitWant ==
    ASSUME CallType, WantInv, InitScript \/ \E o \in {"start", "stop", "restart"} : Called(o)
    PROVE  WantInv'
<1>. USE DEF CallType, svcVars
<1>0. "init" \in Procs /\ "monitor" \in Procs /\ "orphan" \in Procs
  BY DEF Procs
<1>1. ASSUME NEW o \in {"start", "stop", "restart"}, Called(o) PROVE WantInv'
  <2>1. /\ at["init"] = Idle /\ then["init"] = Idle /\ UNCHANGED <<want, inst, plan>>
        /\ then'["init"] = then["init"]
        /\ at'["init"] = "stop" \/ (at'["init"] = "start" /\ op' = "start")
    BY <1>0, <1>1 DEF Called, GoTo, WantInv, ScriptLabels, Idle
  <2>. QED
    BY <2>1 DEF WantInv, Idle
<1>2. CASE StopMarkers \/ StartDns
  <2>1. /\ want' # {} => op' = "start"
        /\ at'["init"] = "off" /\ then'["init"] \in {"stop firewall", "configure"}
    BY <1>0, <1>2 DEF StopMarkers, StartDns, Dns, WantInv, Idle
  <2>. QED
    BY <2>1 DEF WantInv, ScriptLabels
<1>3. CASE StopFirewall
  <2>1. /\ want' # {} => op' = "start"
        /\ at'["init"] = "delete table" /\ then'["init"] = "kill"
    BY <1>0, <1>3 DEF StopFirewall, Firewall, WantInv, Idle
  <2>. QED
    BY <2>1 DEF WantInv, ScriptLabels
<1>4. CASE StartSocks \/ StartTproxy
  <2>1. want' = {} /\ at'["init"] = "delete table" /\ plan' # {}
    BY <1>0, <1>4 DEF StartSocks, StartTproxy, Firewall
  <2>. QED
    BY <2>1 DEF WantInv, ScriptLabels
<1>5. CASE StartNothing
  <2>1. (want # {} => op = "start") /\ then["init"] = Idle
    BY <1>5 DEF StartNothing, WantInv, ScriptLabels, Idle
  <2>2. /\ want' # {} => op' = "start"
        /\ at'["init"] = "commit" /\ then'["init"] = Idle
    BY <1>0, <1>5, <2>1 DEF StartNothing, GoTo
  <2>. QED
    BY <2>2 DEF WantInv, Idle
<1>6. CASE MarkTransparent \/ MarkDns
  <2>1. plan # {} /\ plan' = plan /\ then["init"] = Idle
    BY <1>6 DEF MarkTransparent, MarkDns, WantInv, ScriptLabels, Idle
  <2>2. at'["init"] \in {"mark dns", "commit"} /\ then'["init"] = Idle
    BY <1>0, <1>6, <2>1 DEF MarkTransparent, MarkDns, GoTo
  <2>. QED
    BY <2>1, <2>2 DEF WantInv, Idle
<1>7. CASE Kill
  <2>1. /\ want' # {} => op' = "start"
        /\ at'["init"] \in {"start", Idle} /\ then'["init"] = Idle
    BY <1>0, <1>7 DEF Kill, EndMonitor, WantInv, Idle
  <2>. QED
    BY <2>1 DEF WantInv, Idle
<1>8. CASE Commit
  <2>1. /\ want # {} /\ op # "start" => inst' # {}
        /\ UNCHANGED <<want, op>> /\ at'["init"] = Idle /\ then'["init"] = Idle
    BY <1>0, <1>8 DEF Commit, EndMonitor, WantInv, ScriptLabels, Idle
  <2>. QED
    BY <2>1 DEF WantInv, Idle
<1>. QED
  BY <1>1, <1>2, <1>3, <1>4, <1>5, <1>6, <1>7, <1>8 DEF InitScript

LEMMA MonitorWant ==
    ASSUME CallType, WantInv, Monitor PROVE WantInv'
<1>0. "init" \in Procs /\ "monitor" \in Procs
  BY DEF Procs
<1>1. UNCHANGED <<want, svcVars>>
  BY DEF Monitor, Look, LookAtPorts, PutRedirect, FollowDns, CountGone, TakeOut
<1>2. at'["init"] = at["init"] /\ then'["init"] = then["init"]
  BY <1>0 DEF Monitor, Look, LookAtPorts, PutRedirect, FollowDns, CountGone, TakeOut, GoTo,
              Dns, Firewall, CallType
<1>. QED
  BY <1>1, <1>2 DEF WantInv, svcVars

(* A step that does not touch dnsmasq, does not stop wanting it when DNS is *)
(* owed, and moves no process that is about to put things right.            *)
LEMMA LeftKept ==
    ASSUME LeftInv, UNCHANGED dnsVars,
           Owed' => Owed /\ ("dns" \in want => "dns" \in want'),
           \A p \in Procs : Pending(p) \/ at[p] = "off restart" => at'[p] = at[p]
    PROVE  LeftInv'
<1>1. snippet' = snippet /\ loaded' = loaded /\ changed' = changed
  BY DEF dnsVars
<1>2. \A p \in Procs : Pending(p) => Pending(p)'
  BY DEF Pending
<1>3. \A p \in Procs : Restarting(p) => Restarting(p)'
  BY <1>1 DEF Restarting
<1>. QED
  BY <1>1, <1>2, <1>3 DEF LeftInv

(* A script owes what it owed before. *)
LEMMA ScriptOwed ==
    ASSUME CallType, WantInv, NEW p \in Procs, Script(p) PROVE Owed' => Owed
<1>0. "init" \in Procs
  BY DEF Procs
<1>1. op' = op /\ at[p] \in ScriptLabels
  BY DEF Script, DnsScript, OffRemove, OffRestart, OnLook, OnWrite, OnRestart, OnLookAgain,
         FirewallScript, CoreMissing, HistoryFails, DeleteTable, DeleteRoutes, RemoveFile,
         WriteRules, CheckRules, WriteAgain, CheckAgain, LoadRules, Rejected, AddRoutes,
         ScriptLabels, svcVars
<1>2. Return(p) \/ \E l \in ScriptLabels : GoTo(p, l)
  BY DEF Script, DnsScript, OffRemove, OffRestart, OnLook, OnWrite, OnRestart, OnLookAgain,
         FirewallScript, CoreMissing, HistoryFails, DeleteTable, DeleteRoutes, RemoveFile,
         WriteRules, CheckRules, WriteAgain, CheckAgain, LoadRules, Rejected, AddRoutes,
         ScriptLabels
<1>3. at["init"] = "stop" => at'["init"] = "stop"
  BY <1>0, <1>1, <1>2 DEF Return, GoTo, CallType, ScriptLabels
<1>. QED
  BY <1>1, <1>3 DEF Owed

LEMMA OffRemoveLeft ==
    ASSUME CallType, DataType, LeftInv, Owed' => Owed, NEW p \in Procs, OffRemove(p)
    PROVE  LeftInv'
<1>1. /\ at[p] = "off" /\ at'[p] = "off restart" /\ ~snippet' /\ loaded' = loaded
      /\ changed'[p] = snippet
      /\ \A q \in Procs \ {p} : at'[q] = at[q] /\ changed'[q] = changed[q]
  BY DEF OffRemove, GoTo, CallType, DataType
<1>2. CASE snippet
  BY <1>1, <1>2 DEF LeftInv, Restarting
<1>3. CASE ~snippet
  BY <1>1, <1>3 DEF LeftInv, Restarting
<1>. QED
  BY <1>2, <1>3

LEMMA OffRestartLeft ==
    ASSUME CallType, DataType, LeftInv, Owed' => Owed, NEW p \in Procs, OffRestart(p)
    PROVE  LeftInv'
<1>1. /\ at[p] = "off restart" /\ UNCHANGED <<want, snippet>>
      /\ \A q \in Procs \ {p} : at'[q] = at[q] /\ changed'[q] = changed[q]
  BY DEF OffRestart, Return, CallType, DataType
<1>2. Owed' /\ snippet' /\ "dns" \notin want' => \E q \in Procs : Pending(q)'
  BY <1>1 DEF LeftInv, Pending
<1>3. CASE changed[p]
  <2>1. loaded' = snippet
    BY <1>3 DEF OffRestart
  <2>. QED
    BY <1>1, <1>2, <2>1 DEF LeftInv
<1>4. CASE ~changed[p]
  <2>1. loaded' = loaded
    BY <1>4 DEF OffRestart
  <2>2. \A q \in Procs : Restarting(q) => Restarting(q)'
    BY <1>1, <1>4 DEF Restarting
  <2>. QED
    BY <1>1, <1>2, <2>1, <2>2 DEF LeftInv
<1>. QED
  BY <1>3, <1>4

LEMMA OnWriteLeft ==
    ASSUME CallType, DataType, LeftInv, Owed' => Owed, NEW p \in Procs, OnWrite(p)
    PROVE  LeftInv'
<1>1. at'[p] = "on restart" /\ snippet'
  BY DEF OnWrite, GoTo, CallType
<1>. QED
  BY <1>1 DEF LeftInv, Pending

LEMMA OnRestartLeft ==
    ASSUME CallType, DataType, LeftInv, Owed' => Owed, NEW p \in Procs, OnRestart(p)
    PROVE  LeftInv'
<1>1. /\ at[p] = "on restart" /\ at'[p] = "on again" /\ UNCHANGED <<want, snippet>>
      /\ \A q \in Procs \ {p} : at'[q] = at[q] /\ changed'[q] = changed[q]
  BY DEF OnRestart, GoTo, CallType, DataType
<1>2. Owed' /\ snippet' /\ "dns" \notin want' => \E q \in Procs : Pending(q)'
  BY <1>1 DEF Pending
<1>3. CASE changed[p]
  <2>1. loaded' = snippet
    BY <1>3 DEF OnRestart
  <2>. QED
    BY <1>1, <1>2, <2>1 DEF LeftInv
<1>4. CASE ~changed[p]
  <2>1. loaded' = loaded
    BY <1>4 DEF OnRestart
  <2>2. \A q \in Procs : Restarting(q) => Restarting(q)'
    BY <1>1, <1>4 DEF Restarting
  <2>. QED
    BY <1>1, <1>2, <2>1, <2>2 DEF LeftInv
<1>. QED
  BY <1>3, <1>4

LEMMA OnLookAgainLeft ==
    ASSUME CallType, DataType, LeftInv, Owed' => Owed, NEW p \in Procs, OnLookAgain(p)
    PROVE  LeftInv'
<1>1. /\ at[p] = "on again" /\ UNCHANGED <<want, snippet, loaded, changed>>
      /\ "dns" \notin want => at'[p] = "off"
      /\ \A q \in Procs \ {p} : at'[q] = at[q]
  BY DEF OnLookAgain, GoTo, Return, CallType, dnsVars
<1>2. Owed' /\ snippet' /\ "dns" \notin want' => \E q \in Procs : Pending(q)'
  BY <1>1 DEF Pending
<1>3. loaded' /\ ~snippet' => \E q \in Procs : Restarting(q)'
  BY <1>1 DEF LeftInv, Restarting
<1>. QED
  BY <1>2, <1>3 DEF LeftInv

LEMMA ScriptLeft ==
    ASSUME CallType, DataType, WantInv, LeftInv, NEW p \in Procs, Script(p) PROVE LeftInv'
<1>0. Owed' => Owed
  BY ScriptOwed
<1>1. CASE OnLook(p) \/ FirewallScript(p)
  <2>1. at[p] \notin {"off", "on restart", "on again", "off restart"} /\ UNCHANGED <<want, dnsVars>>
    BY <1>1 DEF OnLook, FirewallScript, CoreMissing, HistoryFails, DeleteTable, DeleteRoutes,
       RemoveFile, WriteRules,
                CheckRules, WriteAgain, CheckAgain, LoadRules, Rejected, AddRoutes
  <2>2. Return(p) \/ \E l \in ScriptLabels : GoTo(p, l)
    BY <1>1 DEF OnLook, FirewallScript, CoreMissing, HistoryFails, DeleteTable, DeleteRoutes,
       RemoveFile, WriteRules,
                CheckRules, WriteAgain, CheckAgain, LoadRules, Rejected, AddRoutes, ScriptLabels
  <2>3. \A q \in Procs : Pending(q) \/ at[q] = "off restart" => at'[q] = at[q]
    BY <2>1, <2>2 DEF Return, GoTo, CallType, Pending
  <2>. QED
    BY <1>0, <2>1, <2>3, LeftKept
<1>. QED
  BY <1>0, <1>1, OffRemoveLeft, OffRestartLeft, OnWriteLeft, OnRestartLeft, OnLookAgainLeft
     DEF Script, DnsScript

(* What the monitor was about to do, its orphan is. *)
LEMMA EndMonitorLeft ==
    ASSUME CallType, DataType, LeftInv, NEW l \in {Idle, "start"}, EndMonitor(l),
           at["init"] \in {"kill", "commit"}, UNCHANGED <<want, op>>
    PROVE  LeftInv'
<1>0. Procs = {"init", "monitor", "orphan"}
  BY DEF Procs
<1>1. /\ at["orphan"] = Idle /\ UNCHANGED <<want, snippet, loaded>>
      /\ at["monitor"] \in ScriptLabels => at'["orphan"] = at["monitor"]
      /\ changed'["orphan"] = changed["monitor"]
  BY <1>0 DEF EndMonitor, CallType, DataType
<1>2. Pending("monitor") => Pending("orphan")'
  BY <1>1 DEF Pending, ScriptLabels
<1>3. Restarting("monitor") => Restarting("orphan")'
  BY <1>1 DEF Restarting, ScriptLabels
<1>4. ~Pending("init") /\ ~Pending("orphan") /\ ~Restarting("init") /\ ~Restarting("orphan")
  BY <1>1 DEF Pending, Restarting, Idle
<1>5. Owed' => Owed
  BY DEF Owed
<1>. QED
  BY <1>0, <1>1, <1>2, <1>3, <1>4, <1>5 DEF LeftInv

LEMMA InitLeft ==
    ASSUME CallType, DataType, WantInv, LeftInv,
           InitScript \/ \E o \in {"start", "stop", "restart"} : Called(o)
    PROVE  LeftInv'
<1>0. "init" \in Procs /\ "monitor" \in Procs
  BY DEF Procs
<1>1. CASE StopMarkers
  <2>1. at["init"] = "stop" /\ at'["init"] = "off" /\ UNCHANGED dnsVars
        /\ \A q \in Procs \ {"init"} : at'[q] = at[q]
    BY <1>0, <1>1 DEF StopMarkers, Dns, CallType
  <2>2. Pending("init")'
    BY <2>1 DEF Pending
  <2>3. loaded' /\ ~snippet' => \E q \in Procs : Restarting(q)'
    BY <2>1 DEF LeftInv, Restarting, dnsVars
  <2>. QED
    BY <1>0, <2>2, <2>3 DEF LeftInv
<1>2. CASE Kill
  BY <1>2, EndMonitorLeft DEF Kill
<1>3. CASE Commit
  <2>1. CASE "monitor" \notin plan
    BY <1>3, <2>1, EndMonitorLeft DEF Commit
  <2>2. CASE "monitor" \in plan
    <3>1. UNCHANGED <<want, op, dnsVars>> /\ at["init"] = "commit"
      BY <1>3, <2>2 DEF Commit
    <3>2. \A q \in Procs : Pending(q) \/ at[q] = "off restart" => at'[q] = at[q]
      BY <1>0, <1>3, <2>2, <3>1 DEF Commit, CallType, Pending, Idle
    <3>. QED
      BY <3>1, <3>2, LeftKept DEF Owed
  <2>. QED
    BY <2>1, <2>2
<1>4. ASSUME NEW o \in {"start", "stop", "restart"}, Called(o) PROVE LeftInv'
  <2>1. UNCHANGED dnsVars /\ at["init"] = Idle /\ ~Owed'
    BY <1>0, <1>4 DEF Called, GoTo, CallType, Owed
  <2>2. \A q \in Procs : Pending(q) \/ at[q] = "off restart" => at'[q] = at[q]
    BY <1>0, <1>4, <2>1 DEF Called, GoTo, CallType, Pending, Idle
  <2>. QED
    BY <2>1, <2>2, LeftKept
<1>5. CASE \/ StopFirewall \/ StartDns \/ StartNothing \/ StartSocks \/ StartTproxy
           \/ MarkTransparent \/ MarkDns
  <2>1. UNCHANGED <<dnsVars, op>> /\ at["init"] \in InitLabels \ {"stop"}
    BY <1>5 DEF StopFirewall, StartDns, StartNothing, StartSocks, StartTproxy,
                MarkTransparent, MarkDns, InitLabels, svcVars
  <2>2. \A q \in Procs \ {"init"} : at'[q] = at[q]
    BY <1>0, <1>5 DEF StopFirewall, StartDns, StartNothing, StartSocks, StartTproxy,
                MarkTransparent, MarkDns, GoTo, Dns, Firewall, CallType
  <2>3. op # "start" /\ "dns" \in want => "dns" \in want'
    BY <1>5 DEF StopFirewall, StartDns, StartNothing, StartSocks, StartTproxy,
                MarkTransparent, MarkDns, WantInv, Idle
  <2>4. ~Pending("init") /\ at["init"] # "off restart"
    BY <2>1 DEF Pending, InitLabels
  <2>5. Owed' => Owed /\ ("dns" \in want => "dns" \in want')
    BY <2>1, <2>3 DEF Owed
  <2>. QED
    BY <2>1, <2>2, <2>4, <2>5, LeftKept
<1>. QED
  BY <1>1, <1>2, <1>3, <1>4, <1>5 DEF InitScript

LEMMA MonitorLeft ==
    ASSUME CallType, DataType, LeftInv, Monitor PROVE LeftInv'
<1>0. "monitor" \in Procs
  BY DEF Procs
<1>1. UNCHANGED <<want, dnsVars>> /\ at["monitor"] \in MonitorLabels
  BY DEF Monitor, Look, LookAtPorts, PutRedirect, FollowDns, CountGone, TakeOut, MonitorLabels
<1>2. \A q \in Procs \ {"monitor"} : at'[q] = at[q]
  BY <1>0 DEF Monitor, Look, LookAtPorts, PutRedirect, FollowDns, CountGone, TakeOut, GoTo,
              Dns, Firewall, CallType
<1>3. ~Pending("monitor") /\ at["monitor"] # "off restart"
  BY <1>1 DEF Pending, MonitorLabels
<1>4. op' = op /\ at'["init"] = at["init"]
  BY <1>2 DEF Procs, Monitor, Look, LookAtPorts, PutRedirect, FollowDns, CountGone, TakeOut,
              svcVars
<1>. QED
  BY <1>1, <1>2, <1>3, <1>4, LeftKept DEF Owed

LEMMA DnsStep == DnsInv /\ [Next]_vars => DnsInv'
<1>. SUFFICES ASSUME DnsInv, [Next]_vars PROVE DnsInv'
  OBVIOUS
<1>0. (CallType /\ DataType)'
  BY TypeStep DEF DnsInv
<1>1. ASSUME NEW p \in Procs, Script(p) PROVE DnsInv'
  BY <1>0, <1>1, ScriptWant, ScriptLeft DEF DnsInv
<1>2. CASE InitScript \/ \E o \in {"start", "stop", "restart"} : Called(o)
  BY <1>0, <1>2, InitWant, InitLeft DEF DnsInv
<1>3. CASE Monitor
  BY <1>0, <1>3, MonitorWant, MonitorLeft DEF DnsInv
<1>4. CASE UNCHANGED vars \/ \E port \in Ports : PortOpens(port) \/ PortCloses(port)
  <2>1. UNCHANGED <<want, dnsVars, svcVars, at, then>>
    BY <1>4 DEF vars, PortOpens, PortCloses
  <2>2. WantInv'
    BY <2>1 DEF DnsInv, WantInv, svcVars
  <2>3. LeftInv'
    BY <2>1, LeftKept DEF DnsInv, Owed, svcVars
  <2>. QED
    BY <1>0, <2>2, <2>3 DEF DnsInv
<1>. QED
  BY <1>1, <1>2, <1>3, <1>4 DEF Next

LEMMA DnsInit == Init => DnsInv
BY TypeInit DEF Init, DnsInv, WantInv, LeftInv, Procs, Idle

(* When a stop, or a restart that starts nothing, and every script are      *)
(* over, dnsmasq has its own resolvers back, whatever the interleaving with *)
(* the monitor, with a dns.sh that outlives it and with what earlier starts *)
(* of a running service left behind: dns.sh looks at the marker again after *)
(* it has written the snippet, and the marker goes first.                   *)
THEOREM DnsIsGivenBack == Spec => []DnsGivenBack
<1>1. DnsInv => DnsGivenBack
  <2>. SUFFICES ASSUME DnsInv, Stopped, op # "start" PROVE ~snippet /\ ~loaded
    BY DEF DnsGivenBack
  <2>1. want = {} /\ Owed
    BY DEF DnsInv, WantInv, Stopped, Owed, Procs, Idle
  <2>2. \A p \in Procs : ~Pending(p) /\ ~Restarting(p)
    BY DEF Stopped, Pending, Restarting, Idle
  <2>. QED
    BY <2>1, <2>2 DEF DnsInv, LeftInv
<1>. QED
  BY <1>1, DnsInit, DnsStep, PTL DEF Spec
=============================================================================
