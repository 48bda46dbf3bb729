-------------------------- MODULE MaintenanceGuard --------------------------
(***************************************************************************)
(* The locks that keep maintenance operations apart on the router:         *)
(* update.sh (the application) and aether-core.sh (the cores and the rule  *)
(* sets), in /usr/libexec/gozarbin.                                        *)
(*                                                                         *)
(* Each user of the guard has a run directory with a lock directory and a  *)
(* pid file; all share one guard directory with an owner file in it.  A    *)
(* request takes its lock, claims the guard and leaves a detached worker   *)
(* behind; the worker does the work and cleans up.  The pages ask for the  *)
(* status every few seconds, and status reclaims what a dead worker left.  *)
(* Every command on the file system is a step of its own.                  *)
(***************************************************************************)
EXTENDS Naturals, FiniteSets

CONSTANTS
    Users,      \* run directories: "update", "aether", "singbox", "geo"
    Polled,     \* those whose status is asked for, by one page at a time
    Requests,   \* processes that start an operation, each again and again
    Pids,       \* bound: workers that may be started, a process id each
    NoPid,      \* no pid file
    Empty,      \* a pid file that a redirection has truncated and nobody has written
    Killed      \* which may be killed: "request", "worker", or "work": workers
                \* that have not begun to clean up

ASSUME MaintenanceAssumption ==
    /\ Users \subseteq {"update", "aether", "singbox", "geo"} /\ Polled \subseteq Users
    /\ IsFiniteSet(Pids) /\ IsFiniteSet(Requests) /\ Requests \cap Pids = {}
    /\ NoPid \notin Pids /\ Empty \notin Pids \cup {NoPid}
    /\ Killed \subseteq {"request", "worker", "work"}

VARIABLES
    dirs,    \* the directories that exist: $RUN/lock of a user, $MAINTENANCE
    pid,     \* what $RUN/pid says,
    opened,  \* the processes that have it open to write, unless it was removed since
    shown,   \* the state in $RUN/state.json; "busy": starting, checking, downloading...
    owner,   \* what $MAINTENANCE/owner says
    reqAt,   \* where each process of check, install, geo-update... is,
    reqUser, \* whose operation it starts,
    left,    \* the locks of others it has still to look at,
    child,   \* and the worker it has started
    wrkAt,   \* where each worker is,
    wrkUser, \* whose it is,
    success, \* and its $success or $finished
    pollAt,  \* where the process of status of each user is,
    seen     \* and the pid it has read

fileVars == <<dirs, pid, opened, shown, owner>>
reqVars == <<reqAt, reqUser, left, child>>
wrkVars == <<wrkAt, wrkUser, success>>
pollVars == <<pollAt, seen>>
vars == <<fileVars, reqVars, wrkVars, pollVars>>

-----------------------------------------------------------------------------
None == "none"
Guard == "maintenance"   \* $MAINTENANCE; a user stands for its lock directory

(* The locks of others that keep an operation from starting. *)
Watched(u) == IF u = "update" THEN {"aether", "singbox"}
              ELSE {"update", "aether", "singbox"} \ {u}

Unused == {p \in Pids : wrkAt[p] = "unused"}
Alive(p) == p \in Pids /\ wrkAt[p] \notin {"unused", "dead"}

Init ==
    /\ dirs = {}
    /\ pid = [u \in Users |-> NoPid]
    /\ opened = {}
    /\ shown = [u \in Users |-> "idle"]
    /\ owner = None
    /\ reqAt = [r \in Requests |-> "idle"]
    /\ reqUser = [r \in Requests |-> None]
    /\ left = [r \in Requests |-> {}]
    /\ child = [r \in Requests |-> NoPid]
    /\ wrkAt = [p \in Pids |-> "unused"]
    /\ wrkUser = [p \in Pids |-> None]
    /\ success = [p \in Pids |-> FALSE]
    /\ pollAt = [u \in Users |-> "idle"]
    /\ seen = [u \in Users |-> NoPid]

-----------------------------------------------------------------------------
(* The request                                                             *)

(* echo > $RUN/pid: the file is created or truncated, then written.  What   *)
(* is written to a file that was removed in between is lost.                *)
OpenPid(x, u) == pid' = [pid EXCEPT ![u] = Empty] /\ opened' = opened \cup {x}
WritePid(x, u, p) ==
    /\ pid' = IF x \in opened THEN [pid EXCEPT ![u] = p] ELSE pid
    /\ opened' = opened \ {x}

(* rm -f $RUN/pid *)
RemovePid(u) ==
    /\ pid' = [pid EXCEPT ![u] = NoPid]
    /\ opened' = opened \ ({r \in Requests : reqUser[r] = u} \cup {p \in Pids : wrkUser[p] = u})

GoOn(r, at) == reqAt' = [reqAt EXCEPT ![r] = at] /\ UNCHANGED <<reqUser, left, child>>
Exit(r) == /\ reqAt' = [reqAt EXCEPT ![r] = "idle"]
           /\ reqUser' = [reqUser EXCEPT ![r] = None]
           /\ left' = [left EXCEPT ![r] = {}]
           /\ child' = [child EXCEPT ![r] = NoPid]

(* Bound: a request starts only when a pid is left for its worker. *)
Start(r, u) ==
    /\ reqAt[r] = "idle"
    /\ Cardinality(Unused) > Cardinality({q \in Requests : reqAt[q] # "idle"})
    /\ reqAt' = [reqAt EXCEPT ![r] = "check"]
    /\ reqUser' = [reqUser EXCEPT ![r] = u]
    /\ left' = [left EXCEPT ![r] = Watched(u) \cap Users]
    /\ UNCHANGED <<fileVars, child, wrkVars, pollVars>>

CheckOther(r) ==
    /\ reqAt[r] = "check"
    /\ \/ \E o \in left[r] :
            IF o \in dirs THEN Exit(r)
            ELSE left' = [left EXCEPT ![r] = @ \ {o}] /\ UNCHANGED <<reqAt, reqUser, child>>
       \/ left[r] = {} /\ GoOn(r, "lock")
    /\ UNCHANGED <<fileVars, wrkVars, pollVars>>

TakeLock(r) ==
    /\ reqAt[r] = "lock"
    /\ IF reqUser[r] \in dirs THEN Exit(r) /\ UNCHANGED dirs
       ELSE GoOn(r, "claim") /\ dirs' = dirs \cup {reqUser[r]}
    /\ UNCHANGED <<pid, opened, shown, owner, wrkVars, pollVars>>

(* Variant: the claim does not fail when the directory is there (mkdir -p). *)
ClaimAnyway(r) ==
    /\ reqAt[r] = "claim"
    /\ GoOn(r, "own") /\ dirs' = dirs \cup {Guard}
    /\ UNCHANGED <<pid, opened, shown, owner, wrkVars, pollVars>>

(* claim_guard: mkdir, *)
Claim(r) ==
    /\ reqAt[r] = "claim"
    /\ IF Guard \in dirs THEN GoOn(r, "back out") /\ UNCHANGED dirs
       ELSE GoOn(r, "own") /\ dirs' = dirs \cup {Guard}
    /\ UNCHANGED <<pid, opened, shown, owner, wrkVars, pollVars>>

BackOut(r) ==
    /\ reqAt[r] = "back out"
    /\ dirs' = dirs \ {reqUser[r]}
    /\ Exit(r)
    /\ UNCHANGED <<pid, opened, shown, owner, wrkVars, pollVars>>

(* then the owner file, which cannot be written when the directory is gone. *)
Own(r) ==
    /\ reqAt[r] = "own"
    /\ IF Guard \in dirs THEN owner' = reqUser[r] /\ GoOn(r, "show")
       ELSE UNCHANGED owner /\ GoOn(r, "back out")
    /\ UNCHANGED <<dirs, pid, opened, shown, wrkVars, pollVars>>

ShowStarting(r) ==
    /\ reqAt[r] = "show"
    /\ shown' = [shown EXCEPT ![reqUser[r]] = "busy"]
    /\ GoOn(r, "spawn")
    /\ UNCHANGED <<dirs, pid, opened, owner, wrkVars, pollVars>>

(* setsid: the worker is a process group of its own. *)
Spawn(r) ==
    /\ reqAt[r] = "spawn"
    /\ \E p \in Unused :
           /\ wrkAt' = [wrkAt EXCEPT ![p] = "start"]
           /\ wrkUser' = [wrkUser EXCEPT ![p] = reqUser[r]]
           /\ IF reqUser[r] = "update" THEN Exit(r)
              ELSE /\ reqAt' = [reqAt EXCEPT ![r] = "name"]
                   /\ child' = [child EXCEPT ![r] = p]
                   /\ UNCHANGED <<reqUser, left>>
    /\ UNCHANGED <<fileVars, success, pollVars>>

(* aether-core.sh writes the pid of its child too. *)
NameOpens(r) ==
    /\ reqAt[r] = "name"
    /\ OpenPid(r, reqUser[r])
    /\ GoOn(r, "naming")
    /\ UNCHANGED <<dirs, shown, owner, wrkVars, pollVars>>

NameChild(r) ==
    /\ reqAt[r] = "naming"
    /\ WritePid(r, reqUser[r], child[r])
    /\ Exit(r)
    /\ UNCHANGED <<dirs, shown, owner, wrkVars, pollVars>>

-----------------------------------------------------------------------------
(* release_guard, for the process of user u: what the test, the rm of the  *)
(* owner file and the rmdir do.                                            *)

WithoutGuard == IF owner = None THEN dirs \ {Guard} ELSE dirs

-----------------------------------------------------------------------------
(* The worker: its pid, the work, and cleanup on exit                      *)

WorkOn(p, at) == wrkAt' = [wrkAt EXCEPT ![p] = at] /\ UNCHANGED wrkUser

WorkerOpens(p) ==
    /\ wrkAt[p] = "start"
    /\ OpenPid(p, wrkUser[p])
    /\ WorkOn(p, "open")
    /\ UNCHANGED <<dirs, shown, owner, success, reqVars, pollVars>>

(* Variant: the run directory of the rule sets does not reach the worker,   *)
(* which writes its pid where a worker of the core would.                   *)
WorkerStartAstray(p) ==
    /\ wrkAt[p] = "open"
    /\ WritePid(p, IF wrkUser[p] = "geo" THEN "aether" ELSE wrkUser[p], p)
    /\ WorkOn(p, "work")
    /\ UNCHANGED <<dirs, shown, owner, success, reqVars, pollVars>>

WorkerStart(p) ==
    /\ wrkAt[p] = "open"
    /\ WritePid(p, wrkUser[p], p)
    /\ WorkOn(p, "work")
    /\ UNCHANGED <<dirs, shown, owner, success, reqVars, pollVars>>

(* The work says how far it is. *)
WorkGoesOn(p) ==
    /\ wrkAt[p] = "work"
    /\ shown' = [shown EXCEPT ![wrkUser[p]] = "busy"]
    /\ UNCHANGED <<dirs, pid, opened, owner, reqVars, wrkVars, pollVars>>

(* The work ends: with a result or an error that it names itself, written  *)
(* before success=1, or with one that cleanup reports.                      *)
WorkEnds(p) ==
    /\ wrkAt[p] = "work"
    /\ WorkOn(p, "test")
    /\ \/ \E s \in {"done", "failed"} :
             /\ shown' = [shown EXCEPT ![wrkUser[p]] = s]
             /\ success' = [success EXCEPT ![p] = TRUE]
       \/ UNCHANGED <<shown, success>>
    /\ UNCHANGED <<dirs, pid, opened, owner, reqVars, pollVars>>

CleanupTest(p) ==
    /\ wrkAt[p] = "test"
    /\ WorkOn(p, IF owner = wrkUser[p] THEN "rm owner" ELSE "result")
    /\ UNCHANGED <<fileVars, success, reqVars, pollVars>>

CleanupOwner(p) ==
    /\ wrkAt[p] = "rm owner"
    /\ owner' = None
    /\ WorkOn(p, "rmdir")
    /\ UNCHANGED <<dirs, pid, opened, shown, success, reqVars, pollVars>>

CleanupGuard(p) ==
    /\ wrkAt[p] = "rmdir"
    /\ dirs' = WithoutGuard
    /\ WorkOn(p, "result")
    /\ UNCHANGED <<pid, opened, shown, owner, success, reqVars, pollVars>>

CleanupResult(p) ==
    /\ wrkAt[p] = "result"
    /\ shown' = IF success[p] THEN shown ELSE [shown EXCEPT ![wrkUser[p]] = "failed"]
    /\ WorkOn(p, "rm pid")
    /\ UNCHANGED <<dirs, pid, opened, owner, success, reqVars, pollVars>>

CleanupPid(p) ==
    /\ wrkAt[p] = "rm pid"
    /\ RemovePid(wrkUser[p])
    /\ WorkOn(p, "unlock")
    /\ UNCHANGED <<dirs, shown, owner, success, reqVars, pollVars>>

CleanupLock(p) ==
    /\ wrkAt[p] = "unlock"
    /\ dirs' = dirs \ {wrkUser[p]}
    /\ WorkOn(p, "dead")
    /\ UNCHANGED <<pid, opened, shown, owner, success, reqVars, pollVars>>

-----------------------------------------------------------------------------
(* status: a lock whose pid file names no process is reclaimed             *)

PollOn(u, at) == pollAt' = [pollAt EXCEPT ![u] = at] /\ UNCHANGED seen
PollDone(u) == pollAt' = [pollAt EXCEPT ![u] = "idle"] /\ seen' = [seen EXCEPT ![u] = NoPid]

PollLock(u) ==
    /\ u \in Polled /\ pollAt[u] = "idle" /\ u \in dirs
    /\ PollOn(u, "pid")
    /\ UNCHANGED <<fileVars, reqVars, wrkVars>>

(* update.sh wants a pid file with something in it (-s), aether-core.sh one *)
(* that can be read (-r).                                                   *)
Readable(u) == pid[u] \notin (IF u = "update" THEN {NoPid, Empty} ELSE {NoPid})

PollFile(u) ==
    /\ pollAt[u] = "pid"
    /\ IF Readable(u) THEN PollOn(u, "read") ELSE PollDone(u)
    /\ UNCHANGED <<fileVars, reqVars, wrkVars>>

(* cat: a file removed since ends the script (set -e).                      *)
PollRead(u) ==
    /\ pollAt[u] = "read"
    /\ IF pid[u] = NoPid THEN PollDone(u)
       ELSE pollAt' = [pollAt EXCEPT ![u] = "kill -0"] /\ seen' = [seen EXCEPT ![u] = pid[u]]
    /\ UNCHANGED <<fileVars, reqVars, wrkVars>>

PollSignal(u) ==
    /\ pollAt[u] = "kill -0"
    /\ IF Alive(seen[u]) THEN PollDone(u) ELSE PollOn(u, "result")
    /\ UNCHANGED <<fileVars, reqVars, wrkVars>>

PollResult(u) ==
    /\ pollAt[u] = "result"
    /\ shown' = [shown EXCEPT ![u] = "interrupted"]
    /\ PollOn(u, "test")
    /\ UNCHANGED <<dirs, pid, opened, owner, reqVars, wrkVars>>

PollTest(u) ==
    /\ pollAt[u] = "test"
    /\ PollOn(u, IF owner = u THEN "rm owner" ELSE "rm pid")
    /\ UNCHANGED <<fileVars, reqVars, wrkVars>>

PollOwner(u) ==
    /\ pollAt[u] = "rm owner"
    /\ owner' = None
    /\ PollOn(u, "rmdir")
    /\ UNCHANGED <<dirs, pid, opened, shown, reqVars, wrkVars>>

PollGuard(u) ==
    /\ pollAt[u] = "rmdir"
    /\ dirs' = WithoutGuard
    /\ PollOn(u, "rm pid")
    /\ UNCHANGED <<pid, opened, shown, owner, reqVars, wrkVars>>

(* Variant: the lock directory is forgotten. *)
PollPidOnly(u) ==
    /\ pollAt[u] = "rm pid"
    /\ RemovePid(u)
    /\ PollDone(u)
    /\ UNCHANGED <<dirs, shown, owner, reqVars, wrkVars>>

PollPid(u) ==
    /\ pollAt[u] = "rm pid"
    /\ RemovePid(u)
    /\ PollOn(u, "unlock")
    /\ UNCHANGED <<dirs, shown, owner, reqVars, wrkVars>>

PollUnlock(u) ==
    /\ pollAt[u] = "unlock"
    /\ dirs' = dirs \ {u}
    /\ PollDone(u)
    /\ UNCHANGED <<pid, opened, shown, owner, reqVars, wrkVars>>

-----------------------------------------------------------------------------
(* rpcd ends the process group of a request that takes too long.           *)
RequestKilled(r) ==
    /\ "request" \in Killed /\ reqAt[r] # "idle"
    /\ Exit(r)
    /\ opened' = opened \ {r}
    /\ UNCHANGED <<dirs, pid, shown, owner, wrkVars, pollVars>>

(* A worker dies without its trap: SIGKILL, out of memory, or a failing    *)
(* mktemp before the trap is set.                                          *)
WorkerKilled(p) ==
    /\ Alive(p)
    /\ \/ "worker" \in Killed
       \/ "work" \in Killed /\ wrkAt[p] \in {"start", "open", "work"}
    /\ WorkOn(p, "dead")
    /\ opened' = opened \ {p}
    /\ UNCHANGED <<dirs, pid, shown, owner, success, reqVars, pollVars>>

-----------------------------------------------------------------------------
Request(r) == \/ CheckOther(r) \/ TakeLock(r) \/ Claim(r) \/ BackOut(r) \/ Own(r)
              \/ ShowStarting(r) \/ Spawn(r) \/ NameOpens(r) \/ NameChild(r)

Worker(p) == \/ WorkerOpens(p) \/ WorkerStart(p) \/ WorkGoesOn(p) \/ WorkEnds(p)
             \/ CleanupTest(p) \/ CleanupOwner(p) \/ CleanupGuard(p) \/ CleanupResult(p)
             \/ CleanupPid(p) \/ CleanupLock(p)

Status(u) == \/ PollLock(u) \/ PollFile(u) \/ PollRead(u) \/ PollSignal(u) \/ PollResult(u)
             \/ PollTest(u) \/ PollOwner(u) \/ PollGuard(u) \/ PollPid(u) \/ PollUnlock(u)

Next == \/ \E r \in Requests : Request(r) \/ RequestKilled(r) \/ \E u \in Users : Start(r, u)
        \/ \E p \in Pids : Worker(p) \/ WorkerKilled(p)
        \/ \E u \in Users : Status(u)

(* A process that can go on does; the page goes on asking for the status.  *)
Fairness == /\ \A r \in Requests : WF_vars(Request(r))
            /\ \A p \in Pids : WF_vars(Worker(p))
            /\ \A u \in Users : WF_vars(Status(u))

Spec == Init /\ [][Next]_vars /\ Fairness

-----------------------------------------------------------------------------
Working(p) == wrkAt[p] = "work"

(* Every variable has its type, and a pid file names a worker of its own    *)
(* user: what status reads of one operation is never said of another's.     *)
TypeOK ==
    /\ dirs \subseteq Users \cup {Guard} /\ pid \in [Users -> Pids \cup {NoPid, Empty}]
    /\ opened \subseteq Requests \cup Pids
    /\ shown \in [Users -> {"idle", "busy", "done", "failed", "interrupted"}]
    /\ owner \in Users \cup {None}
    /\ reqAt \in [Requests -> {"idle", "check", "lock", "claim", "back out", "own", "show",
                              "spawn", "name", "naming"}]
    /\ reqUser \in [Requests -> Users \cup {None}]
    /\ left \in [Requests -> SUBSET Users]
    /\ child \in [Requests -> Pids \cup {NoPid}]
    /\ wrkAt \in [Pids -> {"unused", "start", "open", "work", "test", "rm owner", "rmdir",
                          "result", "rm pid", "unlock", "dead"}]
    /\ wrkUser \in [Pids -> Users \cup {None}]
    /\ success \in [Pids -> BOOLEAN]
    /\ pollAt \in [Users -> {"idle", "pid", "read", "kill -0", "result", "test", "rm owner",
                            "rmdir", "rm pid", "unlock"}]
    /\ seen \in [Users -> Pids \cup {NoPid, Empty}]
    /\ \A u \in Users : pid[u] \in Pids => wrkUser[pid[u]] = u

(* Maintenance operations exclude each other: no two workers work at the    *)
(* same time, whichever users they are of.                                  *)
Exclusive == \A p, q \in Pids : Working(p) /\ Working(q) => p = q

(* A lock whose worker died is given back: when status can read the pid     *)
(* file and it names no live process, it releases the lock, unless a live   *)
(* worker writes its own pid first.                                         *)
LockReclaimed ==
    \A u \in Polled :
        (u \in dirs /\ Readable(u) /\ ~Alive(pid[u])) ~> (u \notin dirs \/ Alive(pid[u]))
=============================================================================
