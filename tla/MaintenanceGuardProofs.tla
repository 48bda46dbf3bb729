----------------------- MODULE MaintenanceGuardProofs -----------------------
(***************************************************************************)
(* Proofs about MaintenanceGuard for any set of users, requests and        *)
(* workers: the type invariant with status and kills, and mutual exclusion *)
(* where no status interferes.                                             *)
(***************************************************************************)
EXTENDS MaintenanceGuard, TLAPS

(* A request that is under way has a user, a worker is somebody's from the  *)
(* moment it is started, and a request that is to write a pid has the pid   *)
(* of a worker of its user: without these the type invariant, with what it  *)
(* says of the pid files, is not inductive.                                 *)
HasUser == \A r \in Requests : reqAt[r] # "idle" => reqUser[r] \in Users
Owned == \A p \in Pids : wrkAt[p] = "unused" <=> wrkUser[p] = None
ChildOwned == \A r \in Requests : reqAt[r] \in {"name", "naming"} =>
                  child[r] \in Pids /\ wrkUser[child[r]] = reqUser[r]

TypeInv == TypeOK /\ HasUser /\ Owned /\ ChildOwned

(* The guard directory is not the lock of a user, and no pid is nobody's. *)
LEMMA GuardIsNoUser == Guard \notin Users /\ None # Guard /\ None \notin Users
BY MaintenanceAssumption DEF Guard, None

LEMMA NoPidIsNone == NoPid \notin Pids /\ Empty \notin Pids
BY MaintenanceAssumption

LEMMA TypeInit == Init => TypeInv
BY NoPidIsNone DEF Init, TypeInv, TypeOK, HasUser, Owned, ChildOwned, None

LEMMA RequestType ==
    ASSUME TypeInv, NEW r \in Requests, Request(r) PROVE TypeInv'
<1>. USE GuardIsNoUser, NoPidIsNone
     DEF TypeInv, TypeOK, HasUser, Owned, ChildOwned, Exit, GoOn, fileVars, reqVars, wrkVars,
         pollVars
<1>1. CASE CheckOther(r)
  <2>0. UNCHANGED <<fileVars, wrkVars, pollVars>>
    BY <1>1 DEF CheckOther
  <2>1. CASE Exit(r)
    BY <2>0, <2>1
  <2>2. CASE GoOn(r, "lock")
    BY <1>1, <2>0, <2>2 DEF CheckOther
  <2>3. ASSUME NEW o \in left[r], left' = [left EXCEPT ![r] = @ \ {o}],
               UNCHANGED <<reqAt, reqUser, child>>
        PROVE  TypeInv'
    <3>1. left' \in [Requests -> SUBSET Users]
      BY <2>3
    <3>. QED
      BY <2>0, <2>3, <3>1
  <2>. QED
    BY <1>1, <2>1, <2>2, <2>3 DEF CheckOther
<1>2. CASE TakeLock(r)
  <2>0. UNCHANGED <<pid, opened, shown, owner, wrkVars, pollVars>>
    BY <1>2 DEF TakeLock
  <2>1. CASE Exit(r) /\ UNCHANGED dirs
    BY <2>0, <2>1
  <2>2. CASE GoOn(r, "claim") /\ dirs' = dirs \cup {reqUser[r]}
    <3>1. reqUser[r] \in Users
      BY <1>2 DEF TakeLock
    <3>. QED
      BY <2>0, <2>2, <3>1
  <2>. QED
    BY <1>2, <2>1, <2>2 DEF TakeLock
<1>3. CASE Claim(r)
  <2>0. UNCHANGED <<pid, opened, shown, owner, wrkVars, pollVars>> /\ reqAt[r] # "idle"
    BY <1>3 DEF Claim
  <2>1. CASE GoOn(r, "back out") /\ UNCHANGED dirs
    BY <2>0, <2>1
  <2>2. CASE GoOn(r, "own") /\ dirs' = dirs \cup {Guard}
    BY <2>0, <2>2
  <2>. QED
    BY <1>3, <2>1, <2>2 DEF Claim
<1>4. CASE BackOut(r)
  BY <1>4 DEF BackOut
<1>5. CASE Own(r)
  <2>0. UNCHANGED <<dirs, pid, opened, shown, wrkVars, pollVars>> /\ reqAt[r] # "idle"
    BY <1>5 DEF Own
  <2>1. CASE owner' = reqUser[r] /\ GoOn(r, "show")
    BY <2>0, <2>1
  <2>2. CASE UNCHANGED owner /\ GoOn(r, "back out")
    BY <2>0, <2>2
  <2>. QED
    BY <1>5, <2>1, <2>2 DEF Own
<1>6. CASE ShowStarting(r)
  BY <1>6 DEF ShowStarting
<1>7. CASE Spawn(r)
  <2>1. PICK p \in Pids : /\ wrkAt[p] = "unused"
                         /\ wrkAt' = [wrkAt EXCEPT ![p] = "start"]
                         /\ wrkUser' = [wrkUser EXCEPT ![p] = reqUser[r]]
                         /\ \/ Exit(r)
                            \/ /\ reqAt' = [reqAt EXCEPT ![r] = "name"]
                               /\ child' = [child EXCEPT ![r] = p]
                               /\ UNCHANGED <<reqUser, left>>
    BY <1>7 DEF Spawn, Unused
  <2>2. UNCHANGED <<fileVars, success, pollVars>>
    BY <1>7 DEF Spawn
  <2>3. reqUser[r] \in Users
    BY <1>7 DEF Spawn
  <2>6. wrkUser[p] = None /\ wrkUser'[p] = reqUser[r]
    BY <2>1
  <2>7. \A q \in Pids : q # p => wrkAt'[q] = wrkAt[q] /\ wrkUser'[q] = wrkUser[q]
    BY <2>1
  <2>8. Owned'
    <3>1. wrkAt'[p] = "start"
      BY <2>1
    <3>2. ASSUME NEW q \in Pids PROVE wrkAt'[q] = "unused" <=> wrkUser'[q] = None
      BY <2>3, <2>6, <2>7, <3>1
    <3>. QED
      BY <3>2
  <2>9. \A u \in Users : pid'[u] \in Pids => wrkUser'[pid'[u]] = u
    BY <2>2, <2>6, <2>7
  <2>10. \A s \in Requests : reqAt[s] \in {"name", "naming"} =>
             child[s] \in Pids /\ wrkUser'[child[s]] = reqUser[s]
    <3>1. ASSUME NEW s \in Requests, reqAt[s] \in {"name", "naming"}
          PROVE  child[s] \in Pids /\ wrkUser'[child[s]] = reqUser[s]
      <4>1. child[s] \in Pids /\ wrkUser[child[s]] = reqUser[s] /\ reqUser[s] \in Users
        BY <3>1
      <4>. QED
        BY <2>6, <2>7, <4>1
    <3>. QED
      BY <3>1
  <2>11. wrkAt' \in [Pids -> {"unused", "start", "open", "work", "test", "rm owner", "rmdir",
                             "result", "rm pid", "unlock", "dead"}]
         /\ wrkUser' \in [Pids -> Users \cup {None}]
    BY <2>1, <2>3
  <2>4. CASE Exit(r)
    <3>1. HasUser' /\ ChildOwned'
      BY <2>4, <2>10
    <3>2. TypeOK'
      BY <2>2, <2>4, <2>9, <2>11
    <3>. QED
      BY <2>8, <3>1, <3>2
  <2>5. CASE /\ reqAt' = [reqAt EXCEPT ![r] = "name"]
             /\ child' = [child EXCEPT ![r] = p]
             /\ UNCHANGED <<reqUser, left>>
    <3>1. HasUser'
      BY <2>3, <2>5
    <3>2. ChildOwned'
      BY <2>3, <2>5, <2>6, <2>10
    <3>3. TypeOK'
      BY <2>2, <2>5, <2>9, <2>11
    <3>. QED
      BY <2>8, <3>1, <3>2, <3>3
  <2>. QED
    BY <2>1, <2>4, <2>5
<1>8. CASE NameChild(r)
  BY <1>8 DEF NameChild, WritePid
<1>9. CASE NameOpens(r)
  BY <1>9 DEF NameOpens, OpenPid
<1>. QED
  BY <1>1, <1>2, <1>3, <1>4, <1>5, <1>6, <1>7, <1>8, <1>9 DEF Request

LEMMA WorkerType ==
    ASSUME TypeInv, NEW p \in Pids, Worker(p) PROVE TypeInv'
<1>. USE GuardIsNoUser, NoPidIsNone
     DEF TypeInv, TypeOK, HasUser, Owned, ChildOwned, WorkOn, fileVars, reqVars, wrkVars, pollVars
<1>0. CASE WorkerOpens(p)
  BY <1>0 DEF WorkerOpens, OpenPid
<1>1. CASE WorkerStart(p)
  BY <1>1 DEF WorkerStart, WritePid
<1>2. CASE WorkEnds(p)
  <2>1. /\ wrkAt[p] = "work" /\ wrkAt' = [wrkAt EXCEPT ![p] = "test"]
        /\ UNCHANGED <<dirs, pid, opened, owner, reqVars, wrkUser, pollVars>>
    BY <1>2 DEF WorkEnds
  <2>2. ASSUME NEW s \in {"done", "failed"}, shown' = [shown EXCEPT ![wrkUser[p]] = s],
               success' = [success EXCEPT ![p] = TRUE]
        PROVE  TypeInv'
    BY <2>1, <2>2
  <2>3. CASE UNCHANGED <<shown, success>>
    BY <2>1, <2>3
  <2>. QED
    BY <1>2, <2>2, <2>3 DEF WorkEnds
<1>3. CASE CleanupTest(p)
  BY <1>3 DEF CleanupTest
<1>4. CASE CleanupOwner(p)
  BY <1>4 DEF CleanupOwner
<1>5. CASE CleanupGuard(p)
  BY <1>5 DEF CleanupGuard, WithoutGuard
<1>6. CASE CleanupResult(p)
  BY <1>6 DEF CleanupResult
<1>7. CASE CleanupPid(p)
  BY <1>7 DEF CleanupPid, RemovePid
<1>8. CASE CleanupLock(p)
  BY <1>8 DEF CleanupLock
<1>9. CASE WorkGoesOn(p)
  BY <1>9 DEF WorkGoesOn
<1>. QED
  BY <1>9, <1>0, <1>1, <1>2, <1>3, <1>4, <1>5, <1>6, <1>7, <1>8 DEF Worker

LEMMA StatusType ==
    ASSUME TypeInv, NEW u \in Users, Status(u) PROVE TypeInv'
<1>. USE GuardIsNoUser, NoPidIsNone
     DEF TypeInv, TypeOK, HasUser, Owned, ChildOwned, PollOn, PollDone, fileVars, reqVars,
         wrkVars, pollVars
<1>1. CASE PollLock(u)
  BY <1>1 DEF PollLock
<1>2. CASE PollRead(u)
  <2>1. UNCHANGED <<fileVars, reqVars, wrkVars>>
    BY <1>2 DEF PollRead
  <2>2. /\ pollAt' \in [Users -> {"idle", "pid", "read", "kill -0", "result", "test",
                                "rm owner", "rmdir", "rm pid", "unlock"}]
        /\ seen' \in [Users -> Pids \cup {NoPid, Empty}]
    <3>1. CASE pid[u] = NoPid
      <4>1. PollDone(u)
        BY <1>2, <3>1 DEF PollRead
      <4>. QED
        BY <4>1
    <3>2. CASE pid[u] # NoPid
      <4>1. /\ pollAt' = [pollAt EXCEPT ![u] = "kill -0"]
            /\ seen' = [seen EXCEPT ![u] = pid[u]]
        BY <1>2, <3>2 DEF PollRead
      <4>2. pid[u] \in Pids \cup {NoPid, Empty}
        OBVIOUS
      <4>. QED
        BY <4>1, <4>2
    <3>. QED
      BY <3>1, <3>2
  <2>. QED
    BY <2>1, <2>2
<1>3. CASE PollSignal(u)
  BY <1>3 DEF PollSignal
<1>4. CASE PollResult(u)
  BY <1>4 DEF PollResult
<1>5. CASE PollTest(u)
  BY <1>5 DEF PollTest
<1>6. CASE PollOwner(u)
  BY <1>6 DEF PollOwner
<1>7. CASE PollGuard(u)
  BY <1>7 DEF PollGuard, WithoutGuard
<1>8. CASE PollPid(u)
  BY <1>8 DEF PollPid, RemovePid
<1>9. CASE PollUnlock(u)
  BY <1>9 DEF PollUnlock
<1>10. CASE PollFile(u)
  BY <1>10 DEF PollFile
<1>. QED
  BY <1>1, <1>2, <1>3, <1>4, <1>5, <1>6, <1>7, <1>8, <1>9, <1>10 DEF Status

LEMMA TypeStep == TypeInv /\ [Next]_vars => TypeInv'
<1>. SUFFICES ASSUME TypeInv, [Next]_vars PROVE TypeInv'
  OBVIOUS
<1>1. ASSUME NEW r \in Requests, NEW u \in Users, Start(r, u) PROVE TypeInv'
  <2>1. Watched(u) \cap Users \in SUBSET Users
    OBVIOUS
  <2>. QED
    BY <1>1, <2>1 DEF Start, TypeInv, TypeOK, HasUser, Owned, ChildOwned, fileVars, wrkVars,
       pollVars
<1>2. ASSUME NEW r \in Requests, RequestKilled(r) PROVE TypeInv'
  BY <1>2 DEF RequestKilled, TypeInv, TypeOK, HasUser, Owned, ChildOwned, Exit, fileVars, wrkVars,
     pollVars
<1>3. ASSUME NEW p \in Pids, WorkerKilled(p) PROVE TypeInv'
  BY <1>3 DEF WorkerKilled, Alive, TypeInv, TypeOK, HasUser, Owned, ChildOwned, WorkOn,
              fileVars, reqVars, pollVars
<1>4. CASE UNCHANGED vars
  BY <1>4 DEF vars, fileVars, reqVars, wrkVars, pollVars, TypeInv, TypeOK, HasUser, Owned,
     ChildOwned
<1>. QED
  BY <1>1, <1>2, <1>3, <1>4, RequestType, WorkerType, StatusType DEF Next

(* Every variable keeps its type in every run of the scripts, and a pid     *)
(* file never names a worker of another user, status and kills included.    *)
THEOREM TypeCorrect == Spec => []TypeOK
<1>1. TypeInv => TypeOK
  BY DEF TypeInv
<1>. QED
  BY <1>1, TypeInit, TypeStep, PTL DEF Spec

-----------------------------------------------------------------------------
(* Who has made the guard directory and not removed it yet. *)
HoldR(r) == reqAt[r] \in {"own", "show", "spawn"}
HoldW(p) == wrkAt[p] \in {"start", "open", "work", "test", "rm owner", "rmdir"}

(* The holder is one process, and while there is one the directory is there. *)
OneHolder ==
    /\ \A r \in Requests : HoldR(r) => Guard \in dirs
    /\ \A p \in Pids : HoldW(p) => Guard \in dirs
    /\ \A r, s \in Requests : HoldR(r) /\ HoldR(s) => r = s
    /\ \A p, q \in Pids : HoldW(p) /\ HoldW(q) => p = q
    /\ \A r \in Requests, p \in Pids : ~(HoldR(r) /\ HoldW(p))

NoPolls == \A u \in Users : pollAt[u] = "idle"

GuardInv == TypeInv /\ NoPolls /\ OneHolder

LEMMA GuardInit == Init => GuardInv
BY TypeInit DEF Init, GuardInv, NoPolls, OneHolder, HoldR, HoldW

(* A step that makes no new holder and leaves the directory alone is safe.  *)
LEMMA NoNewHolder ==
    ASSUME OneHolder,
           \A r \in Requests : HoldR(r)' => HoldR(r),
           \A p \in Pids : HoldW(p)' => HoldW(p),
           Guard \in dirs => Guard \in dirs'
    PROVE  OneHolder'
BY DEF OneHolder

LEMMA RequestKeepsHolder ==
    ASSUME GuardInv, NEW r \in Requests, Request(r) PROVE OneHolder'
<1>a. /\ OneHolder /\ HasUser
      /\ DOMAIN reqAt = Requests /\ DOMAIN wrkAt = Pids
      /\ wrkUser \in [Pids -> Users \cup {None}]
  BY DEF GuardInv, TypeInv, TypeOK
<1>. USE <1>a DEF GoOn, Exit, fileVars, wrkVars
<1>1. CASE CheckOther(r)
  <2>1. UNCHANGED <<dirs, wrkAt>>
    BY <1>1 DEF CheckOther
  <2>2. ASSUME NEW s \in Requests, HoldR(s)' PROVE HoldR(s)
    BY <1>1, <2>2 DEF CheckOther, HoldR
  <2>. QED
    BY <2>1, <2>2, NoNewHolder DEF HoldW
<1>2. CASE TakeLock(r)
  <2>1. wrkAt' = wrkAt /\ (Guard \in dirs => Guard \in dirs')
    BY <1>2 DEF TakeLock
  <2>2. ASSUME NEW s \in Requests, HoldR(s)' PROVE HoldR(s)
    BY <1>2, <2>2 DEF TakeLock, HoldR
  <2>. QED
    BY <2>1, <2>2, NoNewHolder DEF HoldW
<1>3. CASE Claim(r)
  <2>0. wrkAt' = wrkAt
    BY <1>3 DEF Claim
  <2>1. CASE Guard \in dirs
    <3>1. dirs' = dirs
      BY <1>3, <2>1 DEF Claim
    <3>2. ASSUME NEW s \in Requests, HoldR(s)' PROVE HoldR(s)
      BY <1>3, <2>1, <3>2 DEF Claim, HoldR
    <3>. QED
      BY <2>0, <3>1, <3>2, NoNewHolder DEF HoldW
  <2>2. CASE Guard \notin dirs
    <3>1. Guard \in dirs'
      BY <1>3, <2>2 DEF Claim
    <3>2. \A s \in Requests : HoldR(s)' => s = r
      BY <1>3, <2>2 DEF Claim, HoldR, OneHolder
    <3>3. \A p \in Pids : ~HoldW(p)'
      BY <2>0, <2>2 DEF HoldW, OneHolder
    <3>. QED
      BY <3>1, <3>2, <3>3 DEF OneHolder
  <2>. QED
    BY <2>1, <2>2
<1>4. CASE BackOut(r)
  <2>1. wrkAt' = wrkAt /\ (Guard \in dirs => Guard \in dirs')
    BY <1>4, GuardIsNoUser DEF BackOut, HasUser
  <2>2. ASSUME NEW s \in Requests, HoldR(s)' PROVE HoldR(s)
    BY <1>4, <2>2 DEF BackOut, HoldR
  <2>. QED
    BY <2>1, <2>2, NoNewHolder DEF HoldW
<1>5. CASE Own(r)
  <2>1. UNCHANGED <<dirs, wrkAt>>
    BY <1>5 DEF Own
  <2>2. ASSUME NEW s \in Requests, HoldR(s)' PROVE HoldR(s)
    BY <1>5, <2>2 DEF Own, HoldR
  <2>. QED
    BY <2>1, <2>2, NoNewHolder DEF HoldW
<1>6. CASE ShowStarting(r)
  <2>1. UNCHANGED <<dirs, wrkAt>>
    BY <1>6 DEF ShowStarting
  <2>2. ASSUME NEW s \in Requests, HoldR(s)' PROVE HoldR(s)
    BY <1>6, <2>2 DEF ShowStarting, HoldR
  <2>. QED
    BY <2>1, <2>2, NoNewHolder DEF HoldW
<1>7. CASE Spawn(r)
  <2>1. dirs' = dirs
    BY <1>7 DEF Spawn
  <2>2. PICK p \in Pids : wrkAt' = [wrkAt EXCEPT ![p] = "start"]
    BY <1>7 DEF Spawn, Unused
  <2>3. HoldR(r)
    BY <1>7 DEF Spawn, HoldR
  <2>4. \A s \in Requests : ~HoldR(s)'
    <3>1. reqAt' \in {[reqAt EXCEPT ![r] = "idle"], [reqAt EXCEPT ![r] = "name"]}
      BY <1>7 DEF Spawn
    <3>. QED
      BY <2>3, <3>1 DEF HoldR, OneHolder
  <2>5. \A q \in Pids : HoldW(q)' => q = p
    BY <2>2, <2>3 DEF HoldW, OneHolder
  <2>. QED
    BY <2>1, <2>3, <2>4, <2>5 DEF OneHolder
<1>8. CASE NameOpens(r) \/ NameChild(r)
  <2>1. UNCHANGED <<dirs, wrkAt>>
    BY <1>8 DEF NameOpens, NameChild
  <2>2. ASSUME NEW s \in Requests, HoldR(s)' PROVE HoldR(s)
    BY <1>8, <2>2 DEF NameOpens, NameChild, HoldR
  <2>. QED
    BY <2>1, <2>2, NoNewHolder DEF HoldW
<1>. QED
  BY <1>1, <1>2, <1>3, <1>4, <1>5, <1>6, <1>7, <1>8 DEF Request

LEMMA WorkerKeepsHolder ==
    ASSUME GuardInv, NEW p \in Pids, Worker(p) PROVE OneHolder'
<1>a. /\ OneHolder /\ HasUser
      /\ DOMAIN reqAt = Requests /\ DOMAIN wrkAt = Pids
      /\ wrkUser \in [Pids -> Users \cup {None}]
  BY DEF GuardInv, TypeInv, TypeOK
<1>. USE <1>a DEF WorkOn, fileVars, reqVars
<1>0. reqAt' = reqAt
  BY DEF Worker, WorkerOpens, WorkerStart, WorkGoesOn, WorkEnds, CleanupTest, CleanupOwner,
     CleanupGuard,
         CleanupResult, CleanupPid, CleanupLock
<1>1. CASE CleanupGuard(p)
  <2>1. HoldW(p) /\ wrkAt' = [wrkAt EXCEPT ![p] = "result"]
    BY <1>1 DEF CleanupGuard, HoldW
  <2>2. \A s \in Requests : ~HoldR(s)'
    BY <1>0, <2>1 DEF HoldR, OneHolder
  <2>3. \A q \in Pids : ~HoldW(q)'
    BY <2>1 DEF HoldW, OneHolder
  <2>. QED
    BY <2>2, <2>3 DEF OneHolder
<1>2. CASE CleanupLock(p)
  <2>1. Guard \in dirs => Guard \in dirs'
    <3>1. wrkUser[p] # Guard
      BY GuardIsNoUser
    <3>. QED
      BY <1>2, <3>1 DEF CleanupLock
  <2>2. ASSUME NEW q \in Pids, HoldW(q)' PROVE HoldW(q)
    BY <1>2, <2>2 DEF CleanupLock, HoldW
  <2>. QED
    BY <1>0, <2>1, <2>2, NoNewHolder DEF HoldR
<1>3. CASE WorkGoesOn(p)
  BY <1>0, <1>3, NoNewHolder DEF WorkGoesOn, wrkVars, HoldR, HoldW
<1>4. CASE WorkerOpens(p) \/ WorkerStart(p) \/ WorkEnds(p) \/ CleanupTest(p) \/ CleanupOwner(p)
           \/ CleanupResult(p) \/ CleanupPid(p)
  <2>1. dirs' = dirs
    BY <1>4 DEF WorkerOpens, WorkerStart, WorkEnds, CleanupTest, CleanupOwner, CleanupResult,
       CleanupPid
  <2>2. /\ wrkAt[p] \in {"start", "open", "work", "test", "rm owner"}
           \/ wrkAt'[p] \in {"rm pid", "unlock"}
        /\ \A q \in Pids \ {p} : wrkAt'[q] = wrkAt[q]
    BY <1>4 DEF WorkerOpens, WorkerStart, WorkEnds, CleanupTest, CleanupOwner, CleanupResult,
       CleanupPid
  <2>3. ASSUME NEW q \in Pids, HoldW(q)' PROVE HoldW(q)
    BY <2>2, <2>3 DEF HoldW
  <2>. QED
    BY <1>0, <2>1, <2>3, NoNewHolder DEF HoldR
<1>. QED
  BY <1>1, <1>2, <1>3, <1>4 DEF Worker

LEMMA GuardStep == ASSUME Polled = {} PROVE GuardInv /\ [Next]_vars => GuardInv'
<1>. SUFFICES ASSUME GuardInv, [Next]_vars PROVE GuardInv'
  OBVIOUS
<1>0. TypeInv'
  BY TypeStep DEF GuardInv
<1>1. ASSUME NEW u \in Users PROVE ~Status(u)
  BY DEF GuardInv, NoPolls, Status, PollLock, PollFile, PollRead, PollSignal, PollResult, PollTest,
         PollOwner, PollGuard, PollPid, PollUnlock
<1>2. ASSUME NEW r \in Requests, Request(r) PROVE NoPolls' /\ OneHolder'
  <2>1. UNCHANGED pollVars
    BY <1>2 DEF Request, CheckOther, TakeLock, Claim, BackOut, Own, ShowStarting, Spawn,
                NameOpens, NameChild
  <2>. QED
    BY <1>2, <2>1, RequestKeepsHolder DEF GuardInv, NoPolls, pollVars
<1>3. ASSUME NEW p \in Pids, Worker(p) PROVE NoPolls' /\ OneHolder'
  <2>1. UNCHANGED pollVars
    BY <1>3 DEF Worker, WorkerOpens, WorkerStart, WorkGoesOn, WorkEnds, CleanupTest, CleanupOwner,
       CleanupGuard,
                CleanupResult, CleanupPid, CleanupLock
  <2>. QED
    BY <1>3, <2>1, WorkerKeepsHolder DEF GuardInv, NoPolls, pollVars
<1>4. ASSUME NEW r \in Requests, NEW u \in Users, Start(r, u) PROVE NoPolls' /\ OneHolder'
  <2>1. UNCHANGED <<dirs, wrkAt, pollAt>> /\ reqAt' = [reqAt EXCEPT ![r] = "check"]
    BY <1>4 DEF Start, fileVars, wrkVars, pollVars
  <2>2. ASSUME NEW s \in Requests, HoldR(s)' PROVE HoldR(s)
    BY <2>1, <2>2 DEF HoldR, GuardInv, TypeInv, TypeOK
  <2>. QED
    BY <2>1, <2>2, NoNewHolder DEF HoldW, GuardInv, NoPolls
<1>5. ASSUME NEW r \in Requests, RequestKilled(r) PROVE NoPolls' /\ OneHolder'
  <2>1. UNCHANGED <<dirs, wrkAt, pollAt>> /\ reqAt' = [reqAt EXCEPT ![r] = "idle"]
    BY <1>5 DEF RequestKilled, Exit, fileVars, wrkVars, pollVars
  <2>2. ASSUME NEW s \in Requests, HoldR(s)' PROVE HoldR(s)
    BY <2>1, <2>2 DEF HoldR, GuardInv, TypeInv, TypeOK
  <2>. QED
    BY <2>1, <2>2, NoNewHolder DEF HoldW, GuardInv, NoPolls
<1>6. ASSUME NEW p \in Pids, WorkerKilled(p) PROVE NoPolls' /\ OneHolder'
  <2>1. UNCHANGED <<dirs, reqAt, pollAt>> /\ wrkAt' = [wrkAt EXCEPT ![p] = "dead"]
    BY <1>6 DEF WorkerKilled, WorkOn, fileVars, reqVars, pollVars
  <2>2. ASSUME NEW q \in Pids, HoldW(q)' PROVE HoldW(q)
    BY <2>1, <2>2 DEF HoldW, GuardInv, TypeInv, TypeOK
  <2>. QED
    BY <2>1, <2>2, NoNewHolder DEF HoldR, GuardInv, NoPolls
<1>7. CASE UNCHANGED vars
  BY <1>0, <1>7 DEF vars, fileVars, GuardInv, NoPolls, OneHolder, HoldR, HoldW,
              reqVars, wrkVars, pollVars
<1>. QED
  BY <1>0, <1>1, <1>2, <1>3, <1>4, <1>5, <1>6, <1>7 DEF Next, GuardInv

(* Where no status is asked for, no two maintenance operations of any users *)
(* work at the same time, whatever requests and workers are killed: the     *)
(* mkdir of claim_guard lets one process in, and only it takes the          *)
(* directory away.                                                          *)
THEOREM OperationsExclude == ASSUME Polled = {} PROVE Spec => []Exclusive
<1>1. GuardInv => Exclusive
  BY DEF GuardInv, OneHolder, Exclusive, Working, HoldW
<1>. QED
  BY <1>1, GuardInit, GuardStep, PTL DEF Spec
=============================================================================
