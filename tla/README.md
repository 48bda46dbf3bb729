# Gozarbin in TLA+

Gozarbin is a proxy client for routers. Its core is a Rust program, `aether/`, that keeps a
tunnel (MASQUE over HTTP/3 or HTTP/2, or WireGuard) to a gateway and offers it as a SOCKS5 and
HTTP proxy. Around it, on OpenWrt, shell scripts (`openwrt/files`) start the core and sing-box,
redirect the LAN to them, update the packages and report to a web page (`luci-app-gozarbin`).

This directory models the parts of it whose correctness depends on order: several tasks or
processes that interleave, files that outlive a process, timeouts, and limits. Every module is
written from the source; `PROJECT.json` gives for each definition the lines it stands for.

## 1. Inventory

| Part | State it keeps | Operations | Meets | Hard because |
|---|---|---|---|---|
| TCP/IP stack, `netstack.rs` | connection table, pending uploads, one deferred datum, smoltcp sockets, a channel per app | open, send, half-close, drop, receive; loop: poll, service, retry, select | SOCKS relay (channels), tunnel (packets) | three parties, bounded queues everywhere, closes that race data |
| MASQUE run, `lib.rs` `run_masque`, `GatewayStrikes`, `lastconn.rs` | chosen, last good and resting gateways, strike count, file of gateways | verify, scan, tunnel, count, give up, rest, save, restart | prober, account, stack | the same gateway has several names (quick, last good, current); a file written in place |
| WireGuard run, `lib.rs` `run_wireguard` | last good endpoint, failure count, map of cooldown deadlines | verify, scan, tunnel, count, exclude, restart | prober, stack | deadlines pass while the run sleeps, scans or has a tunnel; the map is cleared in one place |
| Other runs: MASQUE in MASQUE, gool, and the carriers' loops, `lib.rs` `wireguard.rs` `masque.rs` `masque_h2.rs` `quic.rs` | session, peers, keepalives | connect, watch, reconnect | stack | two nested tunnels end in either order |
| Scanning, `prober.rs` `wg_prober.rs` `egress.rs` | candidates under probe | race probes, take the first | runs | late answers |
| SOCKS5/HTTP inbound, `socks.rs` `sniff.rs` `routing.rs` | a permit for each client of each listener, health of the gateway proxy, last activity of a relay, UDP associations | accept, read request, sniff, route, connect, relay, associate | stack, DNS, one tunnel after another | bytes read ahead, half-closes in both directions, idle limits, tunnels that end under their clients |
| Psiphon, Tor, bridges, upstreams | child processes, ports | start, watch, stop | runs | a child outlives its parent |
| Account, API, Zero Trust, config | credentials file | register, refresh | runs | I/O |
| TLS, HTTPS, DNS, obfuscation | none that lasts | encode, decode | all | formats |
| Embedding, `ffi.rs` | job table | start, stop, poll | runs | calls from foreign threads |
| Maintenance guard, `update.sh` `aether-core.sh` | lock directories, guard directory with owner, pid and state files | request, worker, clean up, status | web page, `singbox.sh`, `geo-update.sh` | every command is a step; workers die; status cleans up too |
| Transparent mode, `init.d/gozarbin` `monitor.sh` `firewall.sh` `dns.sh` | marker files, nft table, policy rules, dnsmasq snippet, failure count | start, stop, restart, reconcile | procd, core, sing-box, dnsmasq | a stop or a start runs beside the monitor; scripts outlive it; `firewall.sh` ends at its first failing command |
| Traffic history, `history.*` `traffic.sh` | totals file, last sample | sample, flush, reset | `firewall.sh` | counters restart at zero |
| Installation, `aether-core.sh` `singbox.sh` `delta.sh` `fetch.sh` | active symlink, previous core, chunk cache | download, swap, verify, roll back | guard | a stop between two renames |
| Status scripts, web interface | none | print | all | – |
| quiche | – | – | – | vendored |

What makes each modelled part correct:

* stack: no byte lost, repeated or reordered; a half-close of the app does not overtake its data
  (once the far end has closed, the stack closes at once, and nothing is claimed of what then still
  waits to go up); every open is answered once; a connection nobody holds goes; one full
  connection does not block the rest for good;
* run: a gateway that keeps failing is left and stays away while it rests; one named by hand is
  never left; the file is sound after any restart;
* WireGuard run: the same policy, and no endpoint stays excluded for good;
* inbound: what was read ahead of either side arrives once and in order; an answer that moves is
  not cut; a client that is done does not keep its place from one that waits, who is served, by the
  next tunnel if need be, as long as the far ends take what is sent to them;
* guard: no two operations work at once; a dead worker's lock comes free;
* installation: the active core is always whole, is only replaced by a newer one, and is what it
  was after any failure; the service does not go on with the old one;
* transparent mode: a stopped service leaves the LAN and its DNS as they were; with the ports
  up it comes on, with one gone it goes out, and a blip does neither. Several of these fail in the
  code, or hold only under a premise; section 3 says which and how.

`PROJECT.json` lists the hazards behind these, each at its line, with the property that would
show it, or why there is none yet.

## 2. Modules

| Module | Models | State and actions |
|---|---|---|
| `NetStack` | TCP side of `netstack.rs` | One variable per queue or table. The stack's task is cut where another task can see it: `PollDone`, `Service(c)` for each connection, `RetryDeferred`, `TakeData`, `DrainDone`, `HandleOpenTcp`, `Ingest`, `Tick`. Apps (`App…`) hold a `TcpConn`; the far end and smoltcp (`Syn…`, `Far…`, `SocketDies`) are external. A unit of data is a number, so order and loss are visible. |
| `MCNetStack` | – | `OpenSpec` starts with open connections, so that two of them with data fit in a run. |
| `GatewayRun` | `run_masque`, `GatewayStrikes`, `lastconn.rs` | `pc` is the place in `run_masque`. `forced` is the gateway named by hand or none. `Top` is `give_up`; `SaveTruncate`/`SaveWrite` are the two halves of a save; `Restart` kills the process anywhere and keeps only the file. Time moves by `Tick`. |
| `GatewayHistory` | – | A history of early ends, independent of the run's own count, so that it can judge it. |
| `PeerPolicy` | – (abstract) | What both runs promise about the far ends they use: `Begin`, `EndSoon`, `EndLate`, `GiveUp`, `Recover`, `Restart`, over six variables and no file, scan or verification. |
| `WireguardRun` | `run_wireguard`, `hunt_wg_peer` | As `GatewayRun`; `listed` are the keys of `endpoint_cooldowns` and `left` the time to each deadline, so that a key whose deadline has passed can be told from one still to come. |
| `Inbound` | `accept_clients`, the handlers and relays of `socks.rs`; `Listeners` of `lib.rs` | `pc[c]` is the place of a client's handler. `Accept` takes a permit of the listener the client dialled (`Door`), `Ends` gives it back; `TunnelEnds` drops every handler at once. Streams are sequences of numbered chunks, the replies `Ok` and `No`, and `Fin`. A chunk that has been read and not yet passed on is in one of the handler's two hands, `up` and `down`: so a send that is never taken is a state in which `up` stays full. `Greet` and `HeadFails` are the last writes of a handler, `BeginRelay` the call of the relay; `relay_tunneled`, `relay_tcp` and `relay_halves` are `UploadRead`, `UploadSent`, `UploadFails`, `Fetch`, `Deliver`, `DownloadEnds`, `LingerEnds`. The far end may close behind its answer, or be lost: reset, or removed from the stack as in the finding of `netstack_eof`. |
| `MaintenanceGuard` | `update.sh`, `aether-core.sh`: request, worker, cleanup, status | Every `mkdir`, `rm`, `cat`, `kill -0` is a step, and a redirection is two: `OpenPid` truncates, `WritePid` writes, into nothing when the file was removed in between. `Readable` is `-s` for `update.sh` and `-r` for `aether-core.sh`. `Killed` says who may be killed; where a run does not restrict it, anywhere. |
| `CoreInstall` | the workers of `aether-core.sh`, on top of `MaintenanceGuard` | Extends it: `Begin` is `WorkerStart`, every end of the work is `WorkEnds`, kills are `WorkerKilled`, so an installation runs with the very requests, locks and status that the guard has. Each command from `mv` to the second `restart` is a step. Workers of the other users do `OtherWork`: they are there for the guard. The service and its user are external. |
| `TransparentMode` | `init.d/gozarbin`, `monitor.sh`, `firewall.sh`, `dns.sh` | Processes `init`, `monitor` and `orphan` (a script whose monitor was ended) with a place each (`at`) and a return place (`then`). Every command that touches a marker, dnsmasq, nft, routes or the rules file is a step; `Kill` and `Commit` are procd; ports come and go. `start` may be called while the service runs. `firewall.sh` ends early (`CoreMissing`, `HistoryFails`, `Rejected`) when something in `Failures` happens, and its callers go on. |
| `…Proofs` | – | Theorems about the module they extend. |

Definitions headed "Variant" are wrong versions of the definition after them. They are no part
of a specification: each is the bug that shows that a property can fail.

## 3. Runs

| Run | Question | Bounds |
|---|---|---|
| `netstack_one` | One connection, whole life: `UploadIntact`, `DownloadIntact`, `NoEarlyFin`, `AnswerMatchesTable`, `ResetLeavesFirst`, and the liveness `ConnectAnswered`, `OrphanRemoved` | 3 units up in sends of 1 or 2, 2 down, every buffer of size 1: each queue fills, a send is taken in part, a close finds data in every queue |
| `netstack_two` | Two open connections share `data_in` and the deferred datum: `DeferredOnlyWhenFull`, `DeferredDrains` | 2 units up each |
| `netstack_eof` | violation of `DownloadWhole` | receive buffer of 2, channel of 1 |
| `gateway_run` | refinement of `PeerPolicy` (`KeepsPolicy`), `RestRespected`, `RingSound`, `ForcedStays`, `GatewayLeft`, `NotHeldForGood` | 3 addresses, one with two ports; a gateway named by hand or none; 3 strikes, rest 3 ticks; both carriers, an assigned endpoint that may not answer; the ring holds 2, so it overflows; the count may go to 4, so it saturates |
| `wireguard` | `KeepsPolicy`, `ExclusionLapses`, `NotHeldForGood` | 4 endpoints, one of which may be named by hand; 2 failures as in the code; a cooldown of 4 ticks, which outlives several tunnels, so that two endpoints cool at once |
| `inbound` | `UploadFaithful`, `AnswerFaithful`, `AnswerNotCut`, `WaitersServed` | one place at each listener and two clients, so that one waits; 2 chunks each way, so that one is read ahead of the relay and one is not, in both directions; requests that differ in when the client is told of success (`address` before the first chunk is read, `connect` behind the connection) and one that is refused; a linger of 1 tick. The theorems of section 5 are for every request |
| `inbound_reply` | violation of `OneReply` | as `inbound` |
| `maintenance_status` | `LockReclaimed`, both scripts' statuses asked for | 1 request, 2 workers, killed at any place up to the end of the work (a kill inside the cleanup can leave a lock for good, section 6) |
| `maintenance_polled` | violation of `Exclusive` with the status of `update.sh` | 3 workers, the fewest that can show it |
| `core_install` | `Exclusive`, `ActiveWhole`, `FailureHarmless`, `NeverOlder`, `ServiceKept`; no status is asked for, kills anywhere | 3 users, one of each kind of lock (`update`, the core, `geo`, whose own lock nobody watches), 2 requests at a time, 2 workers, 3 versions, a release from before or none; `InstallsExclude` proves the exclusion for any number, and `ActiveStaysWhole` also with the status and workers that overlap |
| `transparent` | `DnsGivenBack`, `BlipsForgiven`, `ComesOn`, `GoesOut` | all plans, a port for the redirect and one for DNS, 2 checks (the theorems are for any number; the code has 3), one orphan at a time, every failure of `firewall.sh`. `CalmSpec` does not call the init script while an orphan runs: `ComesOn` and `GoesOut` are about a service that is left alone in the end, by which time every orphan has ended, and the other two are proved of `Spec` |
| `transparent_stop` | violation of `RedirectTakenOut` | plan tproxy, 3 checks |

Each module's type invariant is checked with it. Those of `Inbound`, `MaintenanceGuard` and
`CoreInstall` also say something of the code: that free places and served clients add up, that a
pid file names a worker of its own user, that a link of its own exists only between `ln` and `mv`.

`CHECK_DEADLOCK FALSE` stands where the system may stop: a stack whose handles are all dropped
ends, and bounded numbers of units, workers and pids run out.

Bounds are small because the hazards are: each needs at most two actors and one full queue. A
queue of one place is full after one datum, so the case of a full queue is met in every order.

### What the violations show

* `DownloadWhole` (`netstack.rs:930`). The far end closes while the app's channel is full. The
  stack answers with its own close, the far end acknowledges, smoltcp reports Closed, and the
  socket is removed with the rest of the download in it. The app sees a clean end of stream.
* `OneReply` (`socks.rs:887`). With name rules set, a client that asks for an address is told of
  success before its first bytes are read for a name. When the connection then fails, it is told
  of failure as well, in what it takes for the far end's data. The refusals by rule and those of
  `handle_direct` look at `replied` first; the four on the way through the tunnel do not.
* `Exclusive` in `maintenance_polled` (`update.sh:40`). `status` acts on a pid it read earlier.
  When that worker has finished and another operation has begun, `status` takes the new one's lock
  and guard away. Without `status` the exclusion holds, and is proved (section 5).
  The status of `aether-core.sh` needs only two workers for the same (lines 154-157): it asks
  whether the pid file can be read, not whether there is anything in it. Between the truncation and
  the writing of the file by a redirection there is nothing, `kill -0` of nothing fails, and the lock
  and guard of a live worker are removed. With `aether` for `update` in `MCMaintenancePolled.cfg`
  the run shows it.
* `RedirectTakenOut` (`monitor.sh:52`). A stop deletes the table while the monitor's
  `firewall.sh start` is about to load it. `dns.sh` looks at its marker again after its work,
  and `DnsGivenBack` holds for that reason; `firewall.sh` does not.

### What the properties leave out on purpose

Three properties hold only because of what their premises say. Each premise names something the
code does not provide, and TLC refutes the property without it.

* `WaitersServed` has `FarTakes` (`socks.rs:1251`, `:1260`, `:1328`). The upload of a relay waits
  in a send, a close or a `write_all` that has no timeout, and the linger starts only behind the
  upload. A far end that stays connected and stops reading keeps a client that has finished sending,
  and its place, for good, although `Docs/DOCS.en.md:503` says how long such a connection may stay
  silent. The queue is that of the whole stack, so the far end may be another connection's.
* `DnsGivenBack` is about stop and restart (`init.d/gozarbin:86`). A start of a running service that
  has been disabled switches DNS off and returns before the markers are removed. The monitor can put
  DNS back before procd ends it, and sing-box with it, although lines 83-85 say that a disabled
  service never leaves the network's DNS pointed at it. (A start that comes to SOCKS5 only removes
  the markers behind its `dns.sh off`, so DNS that the monitor put back in between stays on as well,
  while the service runs.)
* `GoesOut` has a usable sing-box (`firewall.sh:14`). Without one the script ends at its first
  command, also when it is called to take the redirect out, the monitor takes no notice
  (`monitor.sh:76`), and the redirect stays, although `monitor.sh:15-17` says that it goes when
  either fact stops holding.

## 4. Fairness

* `NetStack`: the stack's task is a tokio task that is woken by its queues and by a timer, so
  weak fairness of its next step. The connect deadline and the linger of an orphan are clocks.
  Apps and far ends owe nothing, except in `OpenSpec`, where a far end that has been sent data
  acknowledges it again and again or its socket dies (smoltcp's timeout): a far end that keeps
  its window shut and still answers keepalives is left out, and can hold the deferred datum.
* `GatewayRun`: the run goes on and time passes. Tunnels, scans and verifications owe no outcome.
* `WireguardRun`: as `GatewayRun`.
* `Inbound`: every task goes on, and time passes. Reading a request, sniffing, resolving and
  connecting have timeouts in the code, so the handler's next step is fair whatever the client
  does; a first reply is taken to find room in the client's socket. There is no fairness of
  `UploadSent`, `UploadFails` or `HeadFails`, which wait for the far end, nor of `Deliver`, which
  waits for the client to read. `WaitersServed` states what it needs of far ends as a premise,
  `FarTakes`: what is sent to one does not wait for good. It then holds against a far end that is
  silent for good and a client that never reads. It also needs that the clients before finish.
* `MaintenanceGuard`, `CoreInstall`: a process that can go on does; the page asks for the status
  again and again (its poll timer). A killed process does nothing more.
* `TransparentMode`: each script and the monitor's loop go on. Ports and the administrator owe
  nothing; `ComesOn` and `GoesOut` assume in their premise that they settle, `ComesOn` that
  `firewall.sh` fails only finitely often, `GoesOut` only that sing-box is usable in the end.

## 5. Proofs

TLAPS checks the following for every value of the constants that the named assumptions allow.

**`GatewayRunProofs`** (`GatewayRunAssumption`).
`TypeCorrect`; `RestIsRespected`: `RestRespected` is not inductive, since it says nothing of the
quick choice or of a scan under way. `RestInv` adds that the last good gateway is the current
one, that a quick choice exists only before anything rests, that a chosen gateway does not
rest, and that a scan leaves out at least what rests now. `GatewayIsLeft` needs `HistInv`: the
run's count agrees with the history, or there is no history, or a tunnel through another
gateway has begun.

`ForcedIsKept` needs that the run never had another gateway (`ForcedInv`). `RingStaysSound`
rests on a lemma about sequences: leaving out an entry of a sequence without repetitions leaves
one without it and without repetitions, and capping keeps that. `RunKeepsPolicy` is the
refinement: under `RunInv` and `StrikeInv` (the count is below the limit wherever a tunnel can
start, and zero without a gateway) every step of the run is a step of `PeerPolicy` or leaves its
variables alone.

**`WireguardRunProofs`** (`WireguardRunAssumption`).
`TypeCorrect`, with the stronger fact that the count never passes `MaxFails`, and
`RunKeepsPolicy`. `CoolInv` carries both: a deadline still to come is always in the map, so a
scan that leaves out the keys leaves out enough, and what is in use, chosen or remembered has no
deadline.

**`PeerPolicyProofs`**. `PolicyIsSafe`: in the policy no tunnel runs through an excluded address
or a far end without strikes left. With the two refinements this holds of both runs.

**`CoreInstallProofs`** (`CoreInstallAssumption`, `MaintenanceAssumption`).
Some of these hold whether or not the guard keeps the workers apart. `ActiveStaysWhole`: `LinkInv`
says that whatever a worker has linked or remembered is whole, and that its own release is whole
from `CopyEnds` on; so it holds also when workers overlap as in `maintenance_polled`.
`CoreTypeCorrect`: a link of its own exists only between `ln` and `mv` (`LinkOwned`, which adds
that a worker not yet at work has none). `InstallKeepsGuard` is the composition: every step of the
work is a step of `MaintenanceGuard` or leaves its variables alone, so `GuardInv` carries over and
`InstallsExclude` follows for `Polled = {}`.

The others need the exclusion and say so: `FailuresHarmless`, `UpdatesNewer` and
`ServiceStaysKept` have the form `CoreSpec /\ []Exclusive => ...`. Without status polls
`InstallsExclude` gives the hypothesis, for any number of workers; with them it can fail
(`maintenance_polled`), and a worker may then act on what another one has changed.
They rest on `InstallsOnCourse`. `CourseInv` says of the worker at work (`PlanInv`) that what it
read is still so: `current` is what it began with until it switches and again once it has gone
back, `$previous` is that too, what it offers is newer than `current` and is the version in its
directory, and the service is stopped if it was and nobody has started it; and that only the end
of its copy fills a worker's directory (`FillInv`), so that `Copy` never changes the version of
the active core. `EndOf` then lists the steps at which an operation can end and what it says there.
`CoreInstallAssumption` asks that `"stopped"` names no directory and that there are at least two
versions, the bundled one and that of a release left from an earlier boot.

**`MaintenanceGuardProofs`** (`MaintenanceAssumption`).
`TypeCorrect`: that a pid file names a worker of its own user is not inductive, since a request
writes the pid of its child; `TypeInv` adds that a request under way has a user (`HasUser`), that a
worker is somebody's from its start on (`Owned`), and that the child of a request that is to write
its pid is a worker of the same user (`ChildOwned`).
`OperationsExclude`: with `Polled = {}`, `Exclusive` holds. The argument is that
the guard directory has at most one holder: a request between its `mkdir` and the start of its
worker, or a worker up to its `rmdir` (`OneHolder`), and no step makes a second one because
`mkdir` fails on a directory that is there. The assumption is needed: `maintenance_polled` refutes
the statement without it.

**`TransparentModeProofs`** (`TransparentAssumption`).
`TypeCorrect`; `BlipsAreForgiven`: the monitor's count never exceeds the number of failing looks
in a row, and is below it at the moment of counting (`CountInv`). `DnsIsGivenBack`: `WantInv`
says that after a stop or a restart a marker exists only for a service that runs or is being
started. `LeftInv` says that once a stop has removed the markers (`Owed`), a snippet nobody wants
has a process about to remove it or to look again; and that a dnsmasq running with a removed snippet
has one about to restart it, always. With everything stopped there is no such process. A start
suspends the first part, since it runs `dns.sh off` with the markers in place, and
the next stop establishes it anew: it may find any snippet, any orphan and any monitor.

**`NetStackProofs`** (`NetStackAssumption`: finitely many connections, sizes of at least one).
`StackCorrect` proves one inductive invariant, `StackInv`, and the rest are read off it:
`TypeCorrect`, `UploadCorrect`, `DownloadCorrect`, `FinCorrect`, `DeferredCorrect`,
`AnswerCorrect` and the action property `ResetCorrect`. None of the properties is inductive.
`LoopInv` says where the loop is: connections are to be visited only while it services them, they
are in the table, and none of their sockets owes a reset, which is what makes `ResetCorrect` true.
`OpenInv` and `CmdInv` say what an app that is not answered has done (nothing) and that a command
waits at most once; `FreshInv` that nothing exists yet of a connection not yet in the table.
`CloseInv` says that nothing of a connection follows its close in `deferred \o dataIn`, and that a
half-closed one has nothing there at all; `FinInv` that the stack closes first only with
`pending` empty. Together they give `NoEarlyFin`.
Upload is the hard part: a datum may be taken in part and pushed back, behind it stand data of
other connections, and the units must still line up across five queues. `UploadIntact` is therefore
stated without recursion: the units of one connection are those passed on, and then, at the
positions of the queues that hold a part of them, runs that follow one another without a gap
(`InLine`). Lemmas on `Append`, `Tail`, `SubSeq` and `\o` carry `InLine` through each operation
on a queue.

**`InboundProofs`** (`InboundAssumption`: finitely many clients).
`InboundCorrect` proves `InboundInv`; `TypeCorrect`, `UploadCorrect`, `AnswerCorrect` and the action
property `CutCorrect` follow. The accounting of places needs the cardinality of `Inside(d)`, which
each step leaves alone, or changes by one client. `UpInv` says how much may have been read ahead at
each place of the handler, and that a handler that is connected and whose upload goes on has
carried exactly what it took, but for what is in hand (`Waiting`).
`DownInv` gives the stream to a client a shape: `p` replies, `k` chunks, and `Fin` or not
(`Stream`), with what each place of the handler allows of `p` and `k`: at most one reply before the
relay, one at least in it unless the request was plain HTTP, and of what was fetched all is
delivered but what is in hand (`Fits`); and `Fin` stands behind the whole answer or the far end was
lost. (`p` can be 2: that is the finding of `inbound_reply`.) `ClockInv` compares
the two clocks: once the upload is over, `idle` is never ahead of `still`, so a linger that
has run out means that the client really got nothing for so long.
Order in a stream is stated by counting (`InOrder`, `Count`) and not with `SelectSeq`, of which the
prover knows nothing.

Only model-checked: every liveness property (`ConnectAnswered`, `OrphanRemoved`, `DeferredDrains`,
`NotHeldForGood`, `ExclusionLapses`, `WaitersServed`, `LockReclaimed`, `ComesOn`, `GoesOut`), since
liveness under fairness is out of the prover's reach; and `OpenSpec` of `MCNetStack`, whose initial
states are not those the theorems start from.
Every invariant and every action property of the passing runs is otherwise the subject of a theorem.

## 6. Left out

* `NetStack`: UDP sockets, `SetAddrs`, ports (a wrap of `alloc_port` cannot be seen), and the
  bias of the select towards packets.
* `GatewayRun`: what a scan or a tunnel does inside; the exact length of delays.
* `WireguardRun`: the obfuscation profiles, tried in turn within one verification, and the file
  of endpoints, which is written as in `GatewayRun`.
* `Inbound`: the datagrams of a UDP association and its latching to a client, the DNS client,
  parsing of requests and rules (a rule may say anything), and the listeners served by Tor and
  Psiphon. The routes differ in whether the client is greeted before or behind the first chunk to
  the far end, and the model allows both orders on each; the rewritten head of a plain HTTP request
  counts as sent with the connection. `Fin` is an explicit shutdown; what the kernel tells a peer
  when a socket is dropped is not in the streams. A relay through the tunnel shuts the client's
  side down cleanly whatever ended `from_stack`, so a lost connection looks to the client like the
  end of a whole answer: `AnswerFaithful` excepts it, and `DownloadWhole` shows one way to it. A
  client that is gone is one whose resets have arrived.
* `CoreInstall`: registration, the rule sets and the delta cache; the free space, which every
  release directory takes for good; reuse of a pid, whose stray link would make the next `ln`
  fail. `aether-upstream-version` is part of the package, so an older version is never offered.
  A kill between the switch and the restart leaves the old core running until the next restart.
  `ServiceKept` is about a service that nobody starts or stops during the operation: one that the
  user starts between the question (`aether-core.sh:301`) and the switch goes on with the old core,
  and a restart that returns 0 with nothing started (`init.d/gozarbin:88`) is taken for a running
  service, by the script and by the model.
* `MaintenanceGuard`: what `update.sh` and `geo-update.sh` download and install; reuse of a pid,
  by which a dead worker's lock would look held.
  A worker that ends between `cat` and `kill -0` of a status has its result replaced by
  "interrupted"; the step is in the model and no property is about it. A worker of
  `update.sh` that dies before it writes its pid, and one killed between `rm pid` and
  `rmdir lock`, leave the lock until the next boot: the code has no way back, and
  `LockReclaimed` does not claim one.
* `TransparentMode`: tun mode, accounting switched off, several dnsmasq instances, a rules file
  read half-written, the contents of sing-box's configuration. The three tests of one `if` in
  the monitor are one step. `firewall.sh stop` ends before it deletes the table when the history
  cannot be written to a full flash (`HistoryFails`), so such a stop leaves the redirect in; the
  step is in the model, and `RedirectTakenOut`, which is violated already without it, is the only
  property about it. Two `firewall.sh` that overlap can leave the redirect in without its policy
  rule, which the monitor does not look at; that takes an orphan that lives into the next
  service's checks, and no property is stated about it.
* Formats, cryptography, HTTP to external services, the web pages, quiche.

## 7. Plan

Done: `NetStack`, `GatewayRun`, `MaintenanceGuard`, `TransparentMode`; then `PeerPolicy` with
both refinements, `WireguardRun`, `Inbound`, and `CoreInstall` composed with the guard; then the
inductive invariants of `NetStack`, `Inbound` and `CoreInstall`.

1. `TrafficHistory`: counters that `firewall.sh` resets while `history.sh` samples them; composed
   with `DeleteTable` of `TransparentMode`.
2. `NetStack`: UDP, `SetAddrs` and ports; the UDP associations of `Inbound` on top of it.
3. The run of MASQUE in MASQUE as a third implementation of `PeerPolicy`, jobs of `ffi.rs`, the
   race of probes, supervision of Psiphon and Tor.
