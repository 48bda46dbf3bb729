----------------------------- MODULE CoreInstall -----------------------------
(***************************************************************************)
(* What the workers of aether-core.sh do between taking and giving back    *)
(* the guard: looking for a newer core, installing it beside the old one,  *)
(* switching the link current, restarting the service, going back when     *)
(* that fails; and clearing Psiphon's state.  The module composes the      *)
(* installation with the requests, the locks and the status of             *)
(* MaintenanceGuard: every step of the work is a step of a worker of it.   *)
(* The workers of the other scripts are there for the guard alone.         *)
(*                                                                         *)
(* A release directory is named after its worker's pid, so it is           *)
(* identified with it; First is one that an earlier boot has left.  The    *)
(* download, its checksum, the archive and the version the binary gives of *)
(* itself pass or fail in one step, all in the worker's own directory.     *)
(* The service is external: a restart or start works or fails, and its     *)
(* user starts and stops it at any time.                                   *)
(***************************************************************************)
EXTENDS MaintenanceGuard

CONSTANTS
    First,      \* the release directory there at boot, if any
    NoRelease,  \* no link current: the bundled core is the active one
    MaxVersion  \* bound: versions are 1..MaxVersion, and the bundled core is 1

ASSUME CoreInstallAssumption ==
    /\ First \notin Pids /\ NoRelease \notin Pids \cup {First}
    /\ "stopped" \notin Pids \cup {First, NoRelease}
    /\ MaxVersion \in Nat \ {0, 1}

VARIABLES
    current,    \* what $ROOT/current links to
    version,    \* the version of each release directory, 0 when there is none
    whole,      \* the directories that mv has filled
    service,    \* the directory the running core was started from, or "stopped"
    step,       \* where each worker is in its work
    newLink,    \* where $ROOT/current.new.$$ or rollback.$$ links to
    fresh,      \* $latest
    previous,   \* $previous
    was,        \* $was_running
    before,     \* history: current when its work began
    touched     \* history: the user has started or stopped the service since

disk == <<current, version, whole>>
history == <<before, touched>>
memory == <<fresh, previous, was, history>>
coreVars == <<disk, service, newLink, step, memory>>
allVars == <<vars, coreVars>>

Dirs == Pids \cup {First}
Targets == Dirs \cup {NoRelease}

(* core_path and the version of what it names. *)
VersionOf(t) == IF t = NoRelease THEN 1 ELSE version[t]

CoreInit ==
    /\ Init
    /\ current \in {NoRelease, First}
    /\ version = [d \in Dirs |-> IF d = current THEN 2 ELSE 0]
    /\ whole = Dirs \cap {current}
    /\ service \in {"stopped", current}
    /\ step = [p \in Pids |-> "none"]
    /\ fresh = [p \in Pids |-> 0]
    /\ newLink = [p \in Pids |-> NoRelease]
    /\ previous = [p \in Pids |-> NoRelease]
    /\ was = [p \in Pids |-> FALSE]
    /\ before = [p \in Pids |-> NoRelease]
    /\ touched = [p \in Pids |-> FALSE]

-----------------------------------------------------------------------------
(* A step of the work, the end of it with a state of its own (state done,  *)
(* fail), and the end that cleanup reports (set -e, a trapped signal).     *)

(* What the process knows goes with it. *)
Forget(p) ==
    /\ step' = [step EXCEPT ![p] = "none"]
    /\ fresh' = [fresh EXCEPT ![p] = 0]
    /\ previous' = [previous EXCEPT ![p] = NoRelease]
    /\ was' = [was EXCEPT ![p] = FALSE]
    /\ before' = [before EXCEPT ![p] = NoRelease]
    /\ touched' = [touched EXCEPT ![p] = FALSE]

At(p, s) == wrkAt[p] = "work" /\ step[p] = s
To(p, s) == step' = [step EXCEPT ![p] = s] /\ UNCHANGED vars
ToSaying(p, s) == step' = [step EXCEPT ![p] = s] /\ WorkGoesOn(p)

EndsSaying(p, s) ==
    WorkEnds(p) /\ Forget(p) /\ success'[p] /\ shown'[wrkUser[p]] = s

EndsSilent(p) ==
    WorkEnds(p) /\ Forget(p) /\ ~success'[p]

(* The work of another user is not the core's; if it restarts the service, *)
(* that is one more start of UserStarts.                                   *)
Tasks(u) == IF u = "aether" THEN {"look", "check", "clear"} ELSE {"other"}

Begin(p) ==
    /\ WorkerStart(p)
    /\ \E s \in Tasks(wrkUser[p]) : step' = [step EXCEPT ![p] = s]
    /\ before' = [before EXCEPT ![p] = current]
    /\ UNCHANGED <<disk, service, fresh, newLink, previous, was, touched>>

(* Variant: what upstream offers is taken, older or not. *)
WorthTakingAny(v) == v # VersionOf(current)

WorthTaking(v) == v > VersionOf(current)

(* The release list gives any version, or cannot be had.                   *)
Check(p) ==
    /\ At(p, "look") \/ At(p, "check")
    /\ \/ \E v \in 1..MaxVersion :
             IF WorthTaking(v) /\ step[p] = "check"
             THEN /\ fresh' = [fresh EXCEPT ![p] = v] /\ ToSaying(p, "download")
                  /\ UNCHANGED <<previous, was, history>>
             ELSE EndsSaying(p, "done")
       \/ EndsSaying(p, "failed")
    /\ UNCHANGED <<disk, service, newLink>>

(* Space, checksum, archive and the version the binary gives of itself.    *)
Download(p) ==
    /\ At(p, "download")
    /\ \/ ToSaying(p, "copy") /\ UNCHANGED memory
       \/ EndsSaying(p, "failed")
    /\ UNCHANGED <<disk, service, newLink>>

(* The working directory is in memory and releases are on flash: mv copies. *)
Copy(p) ==
    /\ At(p, "copy")
    /\ version' = [version EXCEPT ![p] = fresh[p]]
    /\ To(p, "copying")
    /\ UNCHANGED <<current, whole, service, newLink, memory>>

(* Variant: a copy that fails does not end the work. *)
CopyEndsAnyway(p) ==
    /\ At(p, "copying")
    /\ whole' \in {whole, whole \cup {p}}
    /\ To(p, "read")
    /\ UNCHANGED <<current, version, service, newLink, memory>>

CopyEnds(p) ==
    /\ At(p, "copying")
    /\ \/ whole' = whole \cup {p} /\ To(p, "read") /\ UNCHANGED memory
       \/ UNCHANGED whole /\ EndsSilent(p)
    /\ UNCHANGED <<current, version, service, newLink>>

ReadPrevious(p) ==
    /\ At(p, "read")
    /\ previous' = [previous EXCEPT ![p] = current]
    /\ To(p, "ask")
    /\ UNCHANGED <<disk, service, newLink, fresh, was, history>>

(* Variant: the service is taken to be stopped. *)
AskRunningNot(p) == UNCHANGED was

(* "$SERVICE" running *)
AskRunning(p) == was' = [was EXCEPT ![p] = service # "stopped"]

Ask(p) ==
    /\ At(p, "ask")
    /\ AskRunning(p)
    /\ ToSaying(p, "link")
    /\ UNCHANGED <<disk, service, newLink, fresh, previous, history>>

Link(p) ==
    /\ At(p, "link")
    /\ newLink' = [newLink EXCEPT ![p] = p]
    /\ To(p, "swap")
    /\ UNCHANGED <<disk, service, memory>>

(* Variant: the link is copied and its own name left behind. *)
MoveLinkKept(p) == current' = newLink[p] /\ UNCHANGED newLink

(* mv -fT: current is the old link or the new one, never none.             *)
MoveLink(p) == current' = newLink[p] /\ newLink' = [newLink EXCEPT ![p] = NoRelease]

Swap(p) ==
    /\ At(p, "swap")
    /\ MoveLink(p)
    /\ To(p, "restart")
    /\ UNCHANGED <<version, whole, service, memory>>

Restart(p) ==
    /\ At(p, "restart")
    /\ \/ service' = (IF was[p] THEN current ELSE service) /\ EndsSaying(p, "done")
       \/ was[p] /\ service' = "stopped" /\ To(p, "undo") /\ UNCHANGED memory
    /\ UNCHANGED <<disk, newLink>>

(* With no release before, the link is removed.                            *)
Undo(p) ==
    /\ At(p, "undo")
    /\ IF previous[p] = NoRelease
       THEN current' = NoRelease /\ UNCHANGED newLink /\ To(p, "again")
       ELSE UNCHANGED current /\ newLink' = [newLink EXCEPT ![p] = previous[p]] /\ To(p, "back")
    /\ UNCHANGED <<version, whole, service, memory>>

(* Variant: the link is left as it is when the restart fails. *)
GoBackNot(p) ==
    /\ At(p, "back")
    /\ To(p, "again")
    /\ UNCHANGED <<disk, service, newLink, memory>>

GoBack(p) ==
    /\ At(p, "back")
    /\ MoveLink(p)
    /\ To(p, "again")
    /\ UNCHANGED <<version, whole, service, memory>>

RestartAgain(p) ==
    /\ At(p, "again")
    /\ service' \in {current, "stopped"}
    /\ EndsSaying(p, "failed")
    /\ UNCHANGED <<disk, newLink>>

-----------------------------------------------------------------------------
(* worker-clear-psiphon                                                    *)

ClearAsk(p) ==
    /\ At(p, "clear")
    /\ AskRunning(p)
    /\ ToSaying(p, "stop")
    /\ UNCHANGED <<disk, service, newLink, fresh, previous, history>>

ClearStop(p) ==
    /\ At(p, "stop")
    /\ \/ service' = (IF was[p] THEN "stopped" ELSE service) /\ To(p, "start") /\ UNCHANGED memory
       \/ was[p] /\ UNCHANGED service /\ EndsSaying(p, "failed")
    /\ UNCHANGED <<disk, newLink>>

ClearStart(p) ==
    /\ At(p, "start")
    /\ \/ service' = (IF was[p] THEN current ELSE service) /\ EndsSaying(p, "done")
       \/ was[p] /\ service' = "stopped" /\ EndsSaying(p, "failed")
    /\ UNCHANGED <<disk, newLink>>

OtherWork(p) ==
    /\ At(p, "other")
    /\ \/ ToSaying(p, "other") /\ UNCHANGED memory
       \/ EndsSaying(p, "done") \/ EndsSaying(p, "failed")
    /\ UNCHANGED <<disk, service, newLink>>

-----------------------------------------------------------------------------
(* A signal that is trapped ends the work where it is, and cleanup follows; *)
(* one that is not leaves the link of the moment behind.                   *)
Terminated(p) ==
    /\ wrkAt[p] = "work"
    /\ EndsSilent(p)
    /\ UNCHANGED <<disk, service, newLink>>

Dies(p) ==
    /\ WorkerKilled(p)
    /\ Forget(p)
    /\ UNCHANGED <<disk, service, newLink>>

Seen == touched' = [p \in Pids |-> wrkAt[p] = "work"]

UserStarts ==
    /\ service = "stopped" /\ service' = current
    /\ Seen
    /\ UNCHANGED <<vars, disk, newLink, step, fresh, previous, was, before>>

UserStops ==
    /\ service # "stopped" /\ service' = "stopped"
    /\ Seen
    /\ UNCHANGED <<vars, disk, newLink, step, fresh, previous, was, before>>

-----------------------------------------------------------------------------
Work(p) ==
    \/ Begin(p) \/ Check(p) \/ Download(p) \/ Copy(p) \/ CopyEnds(p) \/ ReadPrevious(p)
    \/ Ask(p) \/ Link(p) \/ Swap(p) \/ Restart(p) \/ Undo(p) \/ GoBack(p) \/ RestartAgain(p)
    \/ ClearAsk(p) \/ ClearStop(p) \/ ClearStart(p) \/ OtherWork(p)

(* Before the work and after it. *)
Around(p) ==
    /\ \/ WorkerOpens(p) \/ CleanupTest(p) \/ CleanupOwner(p) \/ CleanupGuard(p)
       \/ CleanupResult(p) \/ CleanupPid(p) \/ CleanupLock(p)
    /\ UNCHANGED coreVars

Others ==
    /\ \/ \E r \in Requests : Request(r) \/ RequestKilled(r) \/ \E u \in Users : Start(r, u)
       \/ \E u \in Users : Status(u)
    /\ UNCHANGED coreVars

CoreNext ==
    \/ \E p \in Pids : Work(p) \/ Around(p) \/ Terminated(p) \/ Dies(p)
    \/ UserStarts \/ UserStops \/ Others

(* A process that can go on does; the page goes on asking for the status.  *)
CoreFairness ==
    /\ \A r \in Requests : WF_allVars(Request(r) /\ UNCHANGED coreVars)
    /\ \A p \in Pids : WF_allVars(Work(p) \/ Around(p))
    /\ \A u \in Users : WF_allVars(Status(u) /\ UNCHANGED coreVars)

CoreSpec == CoreInit /\ [][CoreNext]_allVars /\ CoreFairness

-----------------------------------------------------------------------------
(* Every variable has its type, with those of the guard, and a worker has  *)
(* a link of its own only between making it and moving it.                 *)
CoreTypeOK ==
    /\ TypeOK
    /\ current \in Targets /\ version \in [Dirs -> 0..MaxVersion] /\ whole \subseteq Dirs
    /\ service \in Targets \cup {"stopped"}
    /\ step \in [Pids -> {"none", "look", "check", "download", "copy", "copying", "read", "ask",
                          "link", "swap", "restart", "undo", "back", "again", "clear", "stop",
                          "start", "other"}]
    /\ fresh \in [Pids -> 0..MaxVersion]
    /\ newLink \in [Pids -> Targets] /\ previous \in [Pids -> Targets]
    /\ was \in [Pids -> BOOLEAN] /\ touched \in [Pids -> BOOLEAN]
    /\ before \in [Pids -> Targets]
    /\ \A p \in Pids : wrkAt[p] = "work" /\ newLink[p] # NoRelease => step[p] \in {"swap", "back"}

(* The active core is always one that was checked and copied whole, or the *)
(* bundled one: at every instant, after a kill between any two commands,   *)
(* and after every failure.                                                *)
ActiveWhole == current \in whole \cup {NoRelease} /\ service \in whole \cup {NoRelease, "stopped"}

Ends(p) == wrkAt[p] = "work" /\ wrkAt'[p] = "test"
EndsWell(p) == Ends(p) /\ success'[p] /\ shown'[wrkUser[p]] = "done"

(* The link is switched and the end of the work not yet said.              *)
Switched(p) == step[p] \in {"restart", "undo", "back", "again"}

(* An operation that ends by itself with anything but an installed core    *)
(* leaves the active core as it found it, also when it has switched and    *)
(* gone back.  A signal after the switch is the exception.                 *)
FailureHarmless ==
    [][\A p \in Pids :
          Ends(p) /\ ~(Switched(p) /\ (EndsWell(p) \/ ~success'[p])) => current' = before[p]]_allVars

(* The active core is replaced only by a newer one, except by going back.  *)
NeverOlder ==
    [][VersionOf(current)' < VersionOf(current) => \E p \in Pids : step[p] \in {"undo", "back"}]_allVars

(* An installation or a clearing that ends well, and in whose course       *)
(* nobody else started or stopped the service, leaves no old core running, *)
(* and leaves the service running if it found it so.                       *)
ServiceKept ==
    [][\A p \in Pids :
          EndsWell(p) /\ step[p] \in {"restart", "start"} /\ ~touched[p] =>
              service' \in {current', "stopped"} /\ (was[p] => service' # "stopped")]_allVars
=============================================================================
