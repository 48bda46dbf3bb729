-------------------------- MODULE TransparentMode ---------------------------
(***************************************************************************)
(* Transparent mode on the router: the redirect of the LAN to sing-box and *)
(* dnsmasq's forwarding to it.  The init script (/etc/init.d/gozarbin)     *)
(* says what is wanted, monitor.sh puts it in when the ports behind it are *)
(* listening and takes it out when they are not, and both do it through    *)
(* firewall.sh and dns.sh, which they run as child processes.              *)
(*                                                                         *)
(* The init script is one process at a time (procd's lock); the monitor is *)
(* another; procd kills the monitor alone, and a script that the monitor   *)
(* was waiting for runs on as an orphan.  Every command that reads or      *)
(* changes shared state is a step of its own.  firewall.sh runs under      *)
(* `set -e': a command that fails ends it, and every caller goes on.  The  *)
(* model has the modes tproxy and socks, one dnsmasq, and accounting at    *)
(* its default, on.                                                        *)
(***************************************************************************)
EXTENDS Naturals

CONSTANTS
    Plans,    \* what start_service can come to: "off", "refused", "socks", "tproxy"
    Ports,    \* ports that matter, of "tproxy", "socks" and "dns"
    Checks,   \* failing checks in a row before the monitor takes all out: 3
    Failures  \* what may fail in firewall.sh: "sing-box" (no usable core),
              \* "flash" (no room for the history), "counters", "rules" (nft rejects)

ASSUME TransparentAssumption ==
    /\ Plans \subseteq {"off", "refused", "socks", "tproxy"}
    /\ Ports \subseteq {"tproxy", "socks", "dns"}
    /\ Checks \in Nat \ {0}
    /\ Failures \subseteq {"sing-box", "flash", "counters", "rules"}

VARIABLES
    want,      \* marker files: "transparent" (wanted), "dns" (dns-wanted)
    snippet,   \* is gozarbin.conf in dnsmasq's directory?
    loaded,    \* did dnsmasq read it when it last started?
    nft,       \* chains of the table gozarbin_proxy
    nftFile,   \* what $nft_file holds, with "file" when it is there at all
    routes,    \* is the policy rule for intercepted packets in?
    up,        \* the ports somebody listens on
    inst,      \* instances procd runs
    plan,      \* those that start_service has opened
    op,        \* what the init script is, or was last, called for
    at,        \* where each process is
    then,      \* where it goes on when its child script ends
    rules,     \* firewall.sh: which rules its child script makes, or "stop"
    changed,   \* dns.sh: $changed
    missing,   \* monitor.sh: $missing
    streak     \* history: looks in a row that found a port missing

dnsVars == <<snippet, loaded, changed>>
fwVars == <<nft, nftFile, routes>>
svcVars == <<inst, plan, op>>
monVars == <<missing, streak>>
vars == <<want, dnsVars, fwVars, svcVars, monVars, up, at, then, rules>>

-----------------------------------------------------------------------------
Procs == {"init", "monitor", "orphan"}
Chains == {"accounting", "redirect"}
Idle == "idle"

(* Places inside dns.sh and firewall.sh, and in the scripts that call them. *)
ScriptLabels == {"off", "off restart", "on", "on write", "on restart", "on again",
                 "delete table", "delete routes", "remove file", "write", "check",
                 "write again", "check again", "load", "add routes"}
InitLabels == {"stop", "stop firewall", "kill", "start", "configure", "mark", "mark dns",
               "commit"}
MonitorLabels == {"look", "ports", "redirect", "dns", "gone", "take out"}

Init ==
    /\ want = {} /\ snippet = FALSE /\ loaded = FALSE
    /\ nft = {} /\ nftFile = {} /\ routes = FALSE
    /\ up = {} /\ inst = {} /\ plan = {} /\ op = "stop"
    /\ at = [p \in Procs |-> Idle] /\ then = [p \in Procs |-> Idle]
    /\ rules = [p \in Procs |-> "stop"]
    /\ changed = [p \in Procs |-> FALSE]
    /\ missing = 0 /\ streak = 0

GoTo(p, label) == at' = [at EXCEPT ![p] = label] /\ UNCHANGED <<then, rules>>
Return(p) == /\ at' = [at EXCEPT ![p] = then[p]]
             /\ then' = [then EXCEPT ![p] = Idle]
             /\ rules' = [rules EXCEPT ![p] = "stop"]

(* Run dns.sh or firewall.sh, and go on at label. *)
Dns(p, entry, label) ==
    at' = [at EXCEPT ![p] = entry] /\ then' = [then EXCEPT ![p] = label] /\ UNCHANGED rules
Firewall(p, which, label) ==
    /\ at' = [at EXCEPT ![p] = "delete table"]
    /\ then' = [then EXCEPT ![p] = label]
    /\ rules' = [rules EXCEPT ![p] = which]

-----------------------------------------------------------------------------
(* dns.sh                                                                  *)

OffRemove(p) ==
    /\ at[p] = "off"
    /\ changed' = [changed EXCEPT ![p] = snippet]
    /\ snippet' = FALSE
    /\ GoTo(p, "off restart")
    /\ UNCHANGED <<want, loaded, fwVars, svcVars, monVars, up>>

OffRestart(p) ==
    /\ at[p] = "off restart"
    /\ loaded' = IF changed[p] THEN snippet ELSE loaded
    /\ changed' = [changed EXCEPT ![p] = FALSE]
    /\ Return(p)
    /\ UNCHANGED <<want, snippet, fwVars, svcVars, monVars, up>>

OnLook(p) ==
    /\ at[p] = "on"
    /\ IF "dns" \in want THEN GoTo(p, "on write") ELSE Return(p)
    /\ UNCHANGED <<want, dnsVars, fwVars, svcVars, monVars, up>>

OnWrite(p) ==
    /\ at[p] = "on write"
    /\ changed' = [changed EXCEPT ![p] = ~snippet]
    /\ snippet' = TRUE
    /\ GoTo(p, "on restart")
    /\ UNCHANGED <<want, loaded, fwVars, svcVars, monVars, up>>

OnRestart(p) ==
    /\ at[p] = "on restart"
    /\ loaded' = IF changed[p] THEN snippet ELSE loaded
    /\ changed' = [changed EXCEPT ![p] = FALSE]
    /\ GoTo(p, "on again")
    /\ UNCHANGED <<want, snippet, fwVars, svcVars, monVars, up>>

(* Variant: no second look. *)
OnLookOnce(p) ==
    /\ at[p] = "on again"
    /\ Return(p)
    /\ UNCHANGED <<want, dnsVars, fwVars, svcVars, monVars, up>>

OnLookAgain(p) ==
    /\ at[p] = "on again"
    /\ IF "dns" \in want THEN Return(p) ELSE GoTo(p, "off")
    /\ UNCHANGED <<want, dnsVars, fwVars, svcVars, monVars, up>>

DnsScript(p) == \/ OffRemove(p) \/ OffRestart(p)
                \/ OnLook(p) \/ OnWrite(p) \/ OnRestart(p) \/ OnLookAgain(p)

-----------------------------------------------------------------------------
(* firewall.sh: stop_rules, and start_rules, which begins with it          *)

(* No usable sing-box: the script ends before it has done anything,         *)
(* whatever it was called for.                                              *)
CoreMissing(p) ==
    /\ at[p] = "delete table" /\ "sing-box" \in Failures
    /\ Return(p)
    /\ UNCHANGED <<want, dnsVars, fwVars, svcVars, monVars, up>>

(* The traffic history cannot be written: start and stop end.  For          *)
(* accounting, start_rules is part of a list, where `set -e' is off.        *)
HistoryFails(p) ==
    /\ at[p] = "delete table" /\ "flash" \in Failures /\ rules[p] # "accounting"
    /\ Return(p)
    /\ UNCHANGED <<want, dnsVars, fwVars, svcVars, monVars, up>>

DeleteTable(p) ==
    /\ at[p] = "delete table"
    /\ nft' = {}
    /\ GoTo(p, "delete routes")
    /\ UNCHANGED <<want, dnsVars, nftFile, routes, svcVars, monVars, up>>

DeleteRoutes(p) ==
    /\ at[p] = "delete routes"
    /\ routes' = FALSE
    /\ GoTo(p, "remove file")
    /\ UNCHANGED <<want, dnsVars, nft, nftFile, svcVars, monVars, up>>

RemoveFile(p) ==
    /\ at[p] = "remove file"
    /\ nftFile' = {}
    /\ IF rules[p] = "stop" THEN Return(p) ELSE GoTo(p, "write")
    /\ UNCHANGED <<want, dnsVars, nft, routes, svcVars, monVars, up>>

(* write_rules *)
Written(which) == {"file"} \cup (IF which = "all" THEN {"redirect"} ELSE {})

WriteRules(p) ==
    /\ at[p] = "write"
    /\ nftFile' = Written(rules[p]) \cup {"accounting"}
    /\ GoTo(p, "check")
    /\ UNCHANGED <<want, dnsVars, nft, routes, svcVars, monVars, up>>

(* nft refuses a file that has been removed, counters that it is too old   *)
(* for, and rules that the settings made wrong.                            *)
Rejectable == \/ "file" \notin nftFile
              \/ "accounting" \in nftFile /\ "counters" \in Failures
              \/ "redirect" \in nftFile /\ "rules" \in Failures

CheckRules(p) ==
    /\ at[p] = "check"
    /\ \/ "file" \in nftFile /\ GoTo(p, "check again")
       \/ Rejectable /\ GoTo(p, "write again")
    /\ UNCHANGED <<want, dnsVars, fwVars, svcVars, monVars, up>>

(* Without the counters. *)
WriteAgain(p) ==
    /\ at[p] = "write again"
    /\ nftFile' = Written(rules[p])
    /\ GoTo(p, "check again")
    /\ UNCHANGED <<want, dnsVars, nft, routes, svcVars, monVars, up>>

CheckAgain(p) ==
    /\ at[p] = "check again"
    /\ "file" \in nftFile \/ rules[p] = "accounting"
    /\ GoTo(p, "load")
    /\ UNCHANGED <<want, dnsVars, fwVars, svcVars, monVars, up>>

(* nft -f adds what the file says to the table that is there. *)
LoadRules(p) ==
    /\ at[p] = "load" /\ "file" \in nftFile
    /\ nft' = nft \cup (nftFile \cap Chains)
    /\ IF rules[p] = "all" THEN GoTo(p, "add routes") ELSE Return(p)
    /\ UNCHANGED <<want, dnsVars, nftFile, routes, svcVars, monVars, up>>

(* A second refusal ends start; for accounting it is the load's that does. *)
Rejected(p) ==
    /\ Rejectable
    /\ at[p] \in {"load"} \cup (IF rules[p] = "accounting" THEN {} ELSE {"check again"})
    /\ Return(p)
    /\ UNCHANGED <<want, dnsVars, fwVars, svcVars, monVars, up>>

AddRoutes(p) ==
    /\ at[p] = "add routes"
    /\ routes' = TRUE
    /\ Return(p)
    /\ UNCHANGED <<want, dnsVars, nft, nftFile, svcVars, monVars, up>>

FirewallScript(p) == \/ CoreMissing(p) \/ HistoryFails(p)
                     \/ DeleteTable(p) \/ DeleteRoutes(p) \/ RemoveFile(p) \/ WriteRules(p)
                     \/ CheckRules(p) \/ WriteAgain(p) \/ CheckAgain(p) \/ LoadRules(p)
                     \/ Rejected(p) \/ AddRoutes(p)

Script(p) == DnsScript(p) \/ FirewallScript(p)

-----------------------------------------------------------------------------
(* The init script                                                         *)

(* start, running or not; stop; restart, and reload, which is the same.    *)
Called(o) ==
    /\ at["init"] = Idle
    /\ op' = o
    /\ GoTo("init", IF o = "start" THEN "start" ELSE "stop")
    /\ UNCHANGED <<want, dnsVars, fwVars, inst, plan, monVars, up>>

(* stop_service *)
StopMarkers ==
    /\ at["init"] = "stop"
    /\ want' = {}
    /\ Dns("init", "off", "stop firewall")
    /\ UNCHANGED <<dnsVars, fwVars, svcVars, monVars, up>>

StopFirewall ==
    /\ at["init"] = "stop firewall"
    /\ Firewall("init", "stop", "kill")
    /\ UNCHANGED <<want, dnsVars, fwVars, svcVars, monVars, up>>

(* procd ends the monitor; its child script goes on without it.  The init  *)
(* script goes on at label.  Bound: one orphan at a time.                  *)
EndMonitor(label) ==
    /\ at["orphan"] = Idle
    /\ at' = [at EXCEPT !["init"] = label, !["monitor"] = Idle,
                        !["orphan"] = IF at["monitor"] \in ScriptLabels THEN at["monitor"] ELSE Idle]
    /\ then' = [p \in Procs |-> Idle]
    /\ rules' = [rules EXCEPT !["orphan"] = rules["monitor"], !["monitor"] = "stop"]
    /\ changed' = [changed EXCEPT !["orphan"] = changed["monitor"], !["monitor"] = FALSE]
    /\ missing' = 0 /\ streak' = 0
    /\ UNCHANGED <<snippet, loaded>>

(* procd ends every instance. *)
Kill ==
    /\ at["init"] = "kill"
    /\ inst' = {}
    /\ EndMonitor(IF op = "restart" THEN "start" ELSE Idle)
    /\ UNCHANGED <<want, fwVars, plan, op, up>>

(* start_service *)
StartDns ==
    /\ at["init"] = "start"
    /\ Dns("init", "off", "configure")
    /\ UNCHANGED <<want, dnsVars, fwVars, svcVars, monVars, up>>

(* Not enabled, or beside another proxy: nothing.  Tor and Psiphon both:    *)
(* refused, after the markers are gone.                                     *)
StartNothing ==
    /\ at["init"] = "configure"
    /\ \E x \in Plans \cap {"off", "refused"} : want' = IF x = "off" THEN want ELSE {}
    /\ GoTo("init", "commit")
    /\ UNCHANGED <<dnsVars, fwVars, svcVars, monVars, up>>

(* SOCKS5 only, or transparent mode stands down: a dependency is missing,   *)
(* no usable sing-box, or its configuration cannot be made.                 *)
StartSocks ==
    /\ at["init"] = "configure" /\ "socks" \in Plans
    /\ want' = {}
    /\ plan' = {"core", "monitor"}
    /\ Firewall("init", "accounting", "commit")
    /\ UNCHANGED <<dnsVars, fwVars, inst, op, monVars, up>>

StartTproxy ==
    /\ at["init"] = "configure" /\ "tproxy" \in Plans
    /\ want' = {}
    /\ plan' = {"core", "monitor", "sing-box"}
    /\ Firewall("init", "accounting", "mark")
    /\ UNCHANGED <<dnsVars, fwVars, inst, op, monVars, up>>

MarkTransparent ==
    /\ at["init"] = "mark"
    /\ want' = {"transparent"}
    /\ GoTo("init", "mark dns")
    /\ UNCHANGED <<dnsVars, fwVars, svcVars, monVars, up>>

(* The dns setting, and no Passwall2. *)
MarkDns ==
    /\ at["init"] = "mark dns"
    /\ want' \in {want, want \cup {"dns"}}
    /\ GoTo("init", "commit")
    /\ UNCHANGED <<dnsVars, fwVars, svcVars, monVars, up>>

(* procd starts what has been opened and does not run yet, and ends what    *)
(* runs and has not been opened.                                            *)
Commit ==
    /\ at["init"] = "commit"
    /\ inst' = plan /\ plan' = {}
    /\ IF "monitor" \in plan
       THEN /\ at' = [at EXCEPT !["init"] = Idle,
                                !["monitor"] = IF at["monitor"] = Idle THEN "look" ELSE at["monitor"]]
            /\ UNCHANGED <<dnsVars, monVars, then, rules>>
       ELSE EndMonitor(Idle)
    /\ UNCHANGED <<want, fwVars, op, up>>

InitScript == \/ StopMarkers \/ StopFirewall \/ Kill
              \/ StartDns \/ StartNothing \/ StartSocks \/ StartTproxy
              \/ MarkTransparent \/ MarkDns \/ Commit

-----------------------------------------------------------------------------
(* monitor.sh: reconcile, every ten seconds                                *)

Served == Ports \ {"dns"} \subseteq up

(* Variant: any table of ours will do. *)
TableUp == nft # {}
RedirectUp == "redirect" \in nft

Look ==
    /\ at["monitor"] = "look" /\ "transparent" \in want
    /\ GoTo("monitor", "ports")
    /\ UNCHANGED <<want, dnsVars, fwVars, svcVars, monVars, up>>

(* Variant: a look that finds the ports does not begin the count again. *)
LookAtPortsOnly ==
    /\ at["monitor"] = "ports"
    /\ IF Served THEN streak' = 0 /\ UNCHANGED missing /\ GoTo("monitor", "redirect")
       ELSE streak' = (IF streak < Checks THEN streak + 1 ELSE streak)
            /\ UNCHANGED missing /\ GoTo("monitor", "gone")
    /\ UNCHANGED <<want, dnsVars, fwVars, svcVars, up>>

(* Bound: the history counts to Checks. *)
LookAtPorts ==
    /\ at["monitor"] = "ports"
    /\ IF Served THEN missing' = 0 /\ streak' = 0 /\ GoTo("monitor", "redirect")
       ELSE /\ streak' = IF streak < Checks THEN streak + 1 ELSE streak
            /\ UNCHANGED missing
            /\ GoTo("monitor", "gone")
    /\ UNCHANGED <<want, dnsVars, fwVars, svcVars, up>>

PutRedirect ==
    /\ at["monitor"] = "redirect"
    /\ IF RedirectUp THEN GoTo("monitor", "dns") ELSE Firewall("monitor", "all", "dns")
    /\ UNCHANGED <<want, dnsVars, fwVars, svcVars, monVars, up>>

FollowDns ==
    /\ at["monitor"] = "dns"
    /\ LET wanted == "dns" \in want /\ "dns" \in up
       IN  IF wanted = snippet THEN GoTo("monitor", "look")
           ELSE Dns("monitor", IF wanted THEN "on" ELSE "off", "look")
    /\ UNCHANGED <<want, dnsVars, fwVars, svcVars, monVars, up>>

(* Variant: one check more. *)
CountGoneLate ==
    /\ at["monitor"] = "gone"
    /\ IF ~(RedirectUp \/ snippet) THEN missing' = 0 /\ GoTo("monitor", "look")
       ELSE IF missing < Checks THEN missing' = missing + 1 /\ GoTo("monitor", "look")
       ELSE missing' = 0 /\ Dns("monitor", "off", "take out")
    /\ UNCHANGED <<want, dnsVars, fwVars, svcVars, streak, up>>

(* Variant: only the redirect is looked at. *)
CountGoneRedirect ==
    /\ at["monitor"] = "gone"
    /\ IF ~RedirectUp THEN missing' = 0 /\ GoTo("monitor", "look")
       ELSE IF missing + 1 < Checks THEN missing' = missing + 1 /\ GoTo("monitor", "look")
       ELSE missing' = 0 /\ Dns("monitor", "off", "take out")
    /\ UNCHANGED <<want, dnsVars, fwVars, svcVars, streak, up>>

CountGone ==
    /\ at["monitor"] = "gone"
    /\ IF ~(RedirectUp \/ snippet) THEN missing' = 0 /\ GoTo("monitor", "look")
       ELSE IF missing + 1 < Checks THEN missing' = missing + 1 /\ GoTo("monitor", "look")
       ELSE missing' = 0 /\ Dns("monitor", "off", "take out")
    /\ UNCHANGED <<want, dnsVars, fwVars, svcVars, streak, up>>

TakeOut ==
    /\ at["monitor"] = "take out"
    /\ Firewall("monitor", "accounting", "look")
    /\ UNCHANGED <<want, dnsVars, fwVars, svcVars, monVars, up>>

Monitor == Look \/ LookAtPorts \/ PutRedirect \/ FollowDns \/ CountGone \/ TakeOut

-----------------------------------------------------------------------------
(* The core and sing-box open their ports when they get there, and close   *)
(* them when they end, reconnect or crash.                                 *)
Behind(port) == IF port = "socks" THEN "core" ELSE "sing-box"

PortOpens(port) ==
    /\ Behind(port) \in inst /\ up' = up \cup {port}
    /\ UNCHANGED <<want, dnsVars, fwVars, svcVars, monVars, at, then, rules>>

PortCloses(port) ==
    /\ up' = up \ {port}
    /\ UNCHANGED <<want, dnsVars, fwVars, svcVars, monVars, at, then, rules>>

Next == \/ \E p \in Procs : Script(p)
        \/ \E o \in {"start", "stop", "restart"} : Called(o)
        \/ InitScript \/ Monitor
        \/ \E port \in Ports : PortOpens(port) \/ PortCloses(port)

(* A process that can go on does. *)
Fairness == /\ \A p \in Procs : WF_vars(Script(p))
            /\ WF_vars(InitScript) /\ WF_vars(Monitor)

Spec == Init /\ [][Next]_vars /\ Fairness

-----------------------------------------------------------------------------
(* Every variable has its type; the monitor's count stays below Checks.     *)
TypeOK ==
    /\ want \subseteq {"transparent", "dns"} /\ snippet \in BOOLEAN /\ loaded \in BOOLEAN
    /\ nft \subseteq Chains /\ nftFile \subseteq Chains \cup {"file"} /\ routes \in BOOLEAN
    /\ up \subseteq Ports /\ inst \subseteq {"core", "monitor", "sing-box"}
    /\ plan \subseteq {"core", "monitor", "sing-box"} /\ op \in {"start", "stop", "restart"}
    /\ at \in [Procs -> {Idle} \cup ScriptLabels \cup InitLabels \cup MonitorLabels]
    /\ then \in [Procs -> {Idle} \cup InitLabels \cup MonitorLabels]
    /\ rules \in [Procs -> {"all", "accounting", "stop"}] /\ changed \in [Procs -> BOOLEAN]
    /\ missing \in 0..Checks - 1 /\ streak \in 0..Checks

Redirected == "redirect" \in nft
Stopped == inst = {} /\ \A p \in Procs : at[p] = Idle

(* When stop, or a restart that starts nothing, is over and every script    *)
(* with it, dnsmasq has its own resolvers back: gozarbin.conf is gone and   *)
(* dnsmasq runs without it.  A start is left out: of a running service that *)
(* has been disabled or is in conflict it leaves the markers, so that the   *)
(* monitor may switch DNS on again before procd ends it.                    *)
DnsGivenBack == Stopped /\ op # "start" => ~snippet /\ ~loaded

(* When the service has stopped, the LAN is not redirected to a port that   *)
(* nobody listens on.                                                       *)
RedirectTakenOut == Stopped => ~Redirected

(* The monitor takes transparent mode out only after Checks looks in a row  *)
(* that found a port missing: a core that reconnects costs nothing.         *)
BlipsForgiven ==
    [][at["monitor"] = "gone" /\ at'["monitor"] = "off" => streak = Checks]_vars

Settled == at["init"] = Idle /\ "monitor" \in inst /\ "transparent" \in want

(* With the service up and both ports listening for good, and firewall.sh   *)
(* no longer failing, the LAN is redirected for good.                       *)
ComesOn ==
    (/\ <>[](Settled /\ Served)
     /\ <>[][\A p \in Procs : ~(CoreMissing(p) \/ HistoryFails(p) \/ Rejected(p))]_vars)
    => <>[]Redirected

(* With a port gone for good, and a sing-box that can be used, the redirect *)
(* and the DNS forwarding go out for good; a full flash or rules that nft   *)
(* rejects do not keep them in.  With none that can be used firewall.sh     *)
(* ends before it does anything, and the redirect stays.                    *)
GoesOut ==
    (/\ <>[](Settled /\ ~Served)
     /\ <>[][\A p \in Procs : ~CoreMissing(p)]_vars)
    => <>[](~Redirected /\ ~snippet /\ ~loaded)
=============================================================================
