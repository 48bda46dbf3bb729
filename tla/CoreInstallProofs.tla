-------------------------- MODULE CoreInstallProofs --------------------------
(***************************************************************************)
(* Proofs about CoreInstall for any number of workers, requests and        *)
(* versions, wherever they are killed.  That the active core is a whole    *)
(* one holds whether or not the locks keep the workers apart; what an      *)
(* installation leaves behind holds where they do.                         *)
(***************************************************************************)
EXTENDS CoreInstall, MaintenanceGuardProofs, TLAPS

Steps == {"none", "look", "check", "download", "copy", "copying", "read", "ask", "link", "swap",
          "restart", "undo", "back", "again", "clear", "stop", "start", "other"}

(* What current may link to without harm. *)
Good == whole \cup {NoRelease}

(* Whatever a worker holds in its links and variables is whole or the       *)
(* bundled core, and one that has its own release to offer has filled it.   *)
LinkInv ==
    /\ step \in [Pids -> Steps]
    /\ newLink \in [Pids -> Good] /\ previous \in [Pids -> Good]
    /\ \A p \in Pids : step[p] \in {"read", "ask", "link"} => p \in whole

WholeInv == ActiveWhole /\ LinkInv

-----------------------------------------------------------------------------
(* A step that forgets, or leaves the links alone, keeps the invariant.     *)
LEMMA ForgetKeeps ==
    ASSUME WholeInv, NEW p \in Pids, Forget(p), UNCHANGED <<disk, newLink>>,
           service' \in {service, current, "stopped"}
    PROVE  WholeInv'
<1>1. UNCHANGED <<current, whole, newLink>>
  BY DEF disk
<1>2. Good' = Good
  BY <1>1 DEF Good
<1>3. ActiveWhole'
  BY <1>1 DEF WholeInv, ActiveWhole
<1>4. step' \in [Pids -> Steps] /\ previous' \in [Pids -> Good]
  BY DEF Forget, WholeInv, LinkInv, Steps, Good
<1>5. \A q \in Pids : step'[q] \in {"read", "ask", "link"} => q \in whole
  BY DEF Forget, WholeInv, LinkInv
<1>. QED
  BY <1>1, <1>2, <1>3, <1>4, <1>5 DEF WholeInv, LinkInv

LEMMA MovesKeep ==
    ASSUME WholeInv, NEW p \in Pids, NEW s \in Steps, step' = [step EXCEPT ![p] = s],
           UNCHANGED <<disk, newLink, previous>>,
           s \in {"read", "ask", "link"} => p \in whole,
           service' \in {service, current, "stopped"}
    PROVE  WholeInv'
<1>1. UNCHANGED <<current, whole, newLink, previous>>
  BY DEF disk
<1>2. Good' = Good
  BY <1>1 DEF Good
<1>3. ActiveWhole'
  BY <1>1 DEF WholeInv, ActiveWhole
<1>4. step' \in [Pids -> Steps]
  BY DEF WholeInv, LinkInv
<1>5. \A q \in Pids : step'[q] \in {"read", "ask", "link"} => q \in whole
  BY DEF WholeInv, LinkInv
<1>. QED
  BY <1>1, <1>2, <1>3, <1>4, <1>5 DEF WholeInv, LinkInv

(* One step of a worker's work.                                             *)
LEMMA WorkKeeps ==
    ASSUME WholeInv, NEW p \in Pids, Work(p)
    PROVE  WholeInv'
<1>. USE DEF Steps
<1>1. CASE Begin(p)
  BY <1>1, MovesKeep DEF Begin, Tasks
<1>2. CASE Check(p)
  <2>1. CASE Forget(p)
    BY <1>2, <2>1, ForgetKeeps DEF Check
  <2>2. CASE step' = [step EXCEPT ![p] = "download"] /\ UNCHANGED previous
    BY <1>2, <2>2, MovesKeep DEF Check
  <2>. QED
    BY <1>2, <2>1, <2>2 DEF Check, ToSaying, EndsSaying
<1>3. CASE Download(p)
  <2>1. CASE Forget(p)
    BY <1>3, <2>1, ForgetKeeps DEF Download
  <2>2. CASE step' = [step EXCEPT ![p] = "copy"] /\ UNCHANGED memory
    BY <1>3, <2>2, MovesKeep DEF Download, memory
  <2>. QED
    BY <1>3, <2>1, <2>2 DEF Download, ToSaying, EndsSaying
<1>4. CASE Copy(p)
  <2>1. /\ UNCHANGED <<current, whole, service, newLink, previous>>
        /\ step' = [step EXCEPT ![p] = "copying"]
    BY <1>4 DEF Copy, To, memory
  <2>2. step' \in [Pids -> Steps]
        /\ \A q \in Pids : step'[q] \in {"read", "ask", "link"} => q \in whole
    BY <2>1 DEF WholeInv, LinkInv
  <2>. QED
    BY <2>1, <2>2 DEF WholeInv, LinkInv, ActiveWhole, Good
<1>5. CASE CopyEnds(p)
  <2>1. CASE whole' = whole \cup {p} /\ To(p, "read") /\ UNCHANGED memory
    <3>1. UNCHANGED <<current, service, newLink, previous>>
      BY <1>5, <2>1 DEF CopyEnds, memory
    <3>2. step' \in [Pids -> Steps]
          /\ \A q \in Pids : step'[q] \in {"read", "ask", "link"} => q \in whole'
      BY <2>1 DEF To, WholeInv, LinkInv
    <3>3. Good \subseteq Good'
      BY <2>1 DEF Good
    <3>4. newLink' \in [Pids -> Good'] /\ previous' \in [Pids -> Good']
      BY <3>1, <3>3 DEF WholeInv, LinkInv
    <3>5. ActiveWhole'
      BY <2>1, <3>1 DEF WholeInv, ActiveWhole
    <3>. QED
      BY <3>2, <3>4, <3>5 DEF WholeInv, LinkInv
  <2>2. CASE UNCHANGED whole /\ EndsSilent(p)
    BY <1>5, <2>2, ForgetKeeps DEF CopyEnds, EndsSilent, disk
  <2>. QED
    BY <1>5, <2>1, <2>2 DEF CopyEnds
<1>6. CASE ReadPrevious(p)
  <2>1. /\ UNCHANGED <<current, whole, service, newLink>>
        /\ previous' = [previous EXCEPT ![p] = current]
        /\ step[p] = "read" /\ step' = [step EXCEPT ![p] = "ask"]
    BY <1>6 DEF ReadPrevious, To, At, disk
  <2>2. step' \in [Pids -> Steps]
        /\ \A q \in Pids : step'[q] \in {"read", "ask", "link"} => q \in whole
    BY <2>1 DEF WholeInv, LinkInv
  <2>3. previous' \in [Pids -> Good]
    BY <2>1 DEF WholeInv, LinkInv, ActiveWhole, Good
  <2>. QED
    BY <2>1, <2>2, <2>3 DEF WholeInv, LinkInv, ActiveWhole, Good
<1>7. CASE Ask(p)
  <2>1. p \in whole
    BY <1>7 DEF Ask, At, WholeInv, LinkInv
  <2>. QED
    BY <1>7, <2>1, MovesKeep DEF Ask, ToSaying
<1>8. CASE Link(p)
  <2>1. /\ UNCHANGED <<current, whole, service, previous>>
        /\ newLink' = [newLink EXCEPT ![p] = p]
        /\ step[p] = "link" /\ step' = [step EXCEPT ![p] = "swap"]
    BY <1>8 DEF Link, To, At, disk, memory
  <2>2. step' \in [Pids -> Steps]
        /\ \A q \in Pids : step'[q] \in {"read", "ask", "link"} => q \in whole
    BY <2>1 DEF WholeInv, LinkInv
  <2>3. newLink' \in [Pids -> Good]
    BY <2>1 DEF WholeInv, LinkInv, Good
  <2>. QED
    BY <2>1, <2>2, <2>3 DEF WholeInv, LinkInv, ActiveWhole, Good
<1>9. CASE Swap(p) \/ GoBack(p)
  <2>1. /\ UNCHANGED <<whole, service, previous>> /\ MoveLink(p)
        /\ \E s \in {"restart", "again"} : step' = [step EXCEPT ![p] = s]
    BY <1>9 DEF Swap, GoBack, To, memory
  <2>2. step' \in [Pids -> Steps]
        /\ \A q \in Pids : step'[q] \in {"read", "ask", "link"} => q \in whole
    BY <2>1 DEF WholeInv, LinkInv
  <2>3. newLink' \in [Pids -> Good] /\ current' \in Good
    BY <2>1 DEF WholeInv, LinkInv, MoveLink, Good
  <2>. QED
    BY <2>1, <2>2, <2>3 DEF WholeInv, LinkInv, ActiveWhole, Good
<1>10. CASE Restart(p)
  <2>1. CASE Forget(p)
    BY <1>10, <2>1, ForgetKeeps DEF Restart
  <2>2. CASE step' = [step EXCEPT ![p] = "undo"] /\ UNCHANGED memory
    BY <1>10, <2>2, MovesKeep DEF Restart, memory
  <2>. QED
    BY <1>10, <2>1, <2>2 DEF Restart, To, EndsSaying
<1>11. CASE Undo(p)
  <2>1. /\ UNCHANGED <<whole, service, previous>>
        /\ current' \in {current, NoRelease}
        /\ newLink' = newLink \/ newLink' = [newLink EXCEPT ![p] = previous[p]]
        /\ \E s \in {"back", "again"} : step' = [step EXCEPT ![p] = s]
    BY <1>11 DEF Undo, To, memory
  <2>2. step' \in [Pids -> Steps]
        /\ \A q \in Pids : step'[q] \in {"read", "ask", "link"} => q \in whole
    BY <2>1 DEF WholeInv, LinkInv
  <2>3. newLink' \in [Pids -> Good] /\ current' \in Good
    BY <2>1 DEF WholeInv, LinkInv, ActiveWhole, Good
  <2>. QED
    BY <2>1, <2>2, <2>3 DEF WholeInv, LinkInv, ActiveWhole, Good
<1>12. CASE RestartAgain(p)
  BY <1>12, ForgetKeeps DEF RestartAgain, EndsSaying
<1>13. CASE ClearAsk(p)
  BY <1>13, MovesKeep DEF ClearAsk, ToSaying
<1>14. CASE ClearStop(p)
  <2>1. CASE Forget(p)
    BY <1>14, <2>1, ForgetKeeps DEF ClearStop
  <2>2. CASE step' = [step EXCEPT ![p] = "start"] /\ UNCHANGED memory
    BY <1>14, <2>2, MovesKeep DEF ClearStop, memory
  <2>. QED
    BY <1>14, <2>1, <2>2 DEF ClearStop, To, EndsSaying
<1>15. CASE ClearStart(p)
  BY <1>15, ForgetKeeps DEF ClearStart, EndsSaying
<1>16. CASE OtherWork(p)
  <2>1. CASE Forget(p)
    BY <1>16, <2>1, ForgetKeeps DEF OtherWork
  <2>2. CASE step' = [step EXCEPT ![p] = "other"] /\ UNCHANGED memory
    BY <1>16, <2>2, MovesKeep DEF OtherWork, memory
  <2>. QED
    BY <1>16, <2>1, <2>2 DEF OtherWork, ToSaying, EndsSaying
<1>. QED
  BY <1>1, <1>2, <1>3, <1>4, <1>5, <1>6, <1>7, <1>8, <1>9, <1>10, <1>11, <1>12, <1>13,
     <1>14, <1>15, <1>16 DEF Work

LEMMA WholeStep == WholeInv /\ [CoreNext]_allVars => WholeInv'
<1>. SUFFICES ASSUME WholeInv, [CoreNext]_allVars PROVE WholeInv'
  OBVIOUS
<1>1. ASSUME NEW p \in Pids, Work(p) PROVE WholeInv'
  BY <1>1, WorkKeeps
<1>2. ASSUME NEW p \in Pids, Terminated(p) \/ Dies(p) PROVE WholeInv'
  BY <1>2, ForgetKeeps DEF Terminated, EndsSilent, Dies
<1>3. CASE UserStarts \/ UserStops
  BY <1>3 DEF UserStarts, UserStops, disk, WholeInv, ActiveWhole, LinkInv, Good
<1>4. CASE UNCHANGED coreVars
  BY <1>4 DEF coreVars, disk, memory, WholeInv, ActiveWhole, LinkInv, Good
<1>5. (\E p \in Pids : Around(p)) \/ Others \/ UNCHANGED allVars => UNCHANGED coreVars
  BY DEF Around, Others, allVars
<1>. QED
  BY <1>1, <1>2, <1>3, <1>4, <1>5 DEF CoreNext

(* The active core, and the one the service runs, was checked and copied    *)
(* whole or is the bundled one: at every instant of every installation, for *)
(* any number of workers and versions, wherever workers are killed.         *)
THEOREM ActiveStaysWhole == CoreSpec => []ActiveWhole
<1>1. CoreInit => WholeInv
  <2>. SUFFICES ASSUME CoreInit PROVE WholeInv
    OBVIOUS
  <2>1. /\ current \in {NoRelease, First} /\ whole = Dirs \cap {current}
        /\ service \in {"stopped", current}
        /\ step = [p \in Pids |-> "none"]
        /\ newLink = [p \in Pids |-> NoRelease] /\ previous = [p \in Pids |-> NoRelease]
    BY DEF CoreInit
  <2>2. current \in Good
    BY <2>1 DEF Good, Dirs
  <2>. QED
    BY <2>1, <2>2 DEF WholeInv, ActiveWhole, LinkInv, Good, Steps
<1>2. WholeInv => ActiveWhole
  BY DEF WholeInv
<1>. QED
  BY <1>1, <1>2, WholeStep, PTL DEF CoreSpec

-----------------------------------------------------------------------------
(* The work is a worker's of MaintenanceGuard                               *)

LEMMA WorkIsWorker ==
    ASSUME NEW p \in Pids, Work(p)
    PROVE  Worker(p) \/ UNCHANGED vars
BY DEF Work, Worker, Begin, Check, Download, Copy, CopyEnds, ReadPrevious, Ask, Link, Swap, Restart,
       Undo, GoBack, RestartAgain, ClearAsk, ClearStop, ClearStart, OtherWork, To, ToSaying,
       EndsSaying, EndsSilent

LEMMA StepIsGuarded ==
    ASSUME [CoreNext]_allVars
    PROVE  [Next]_vars
<1>1. ASSUME NEW p \in Pids, Work(p) PROVE [Next]_vars
  BY <1>1, WorkIsWorker DEF Next
<1>2. ASSUME NEW p \in Pids, Around(p) PROVE [Next]_vars
  BY <1>2 DEF Around, Worker, Next
<1>3. ASSUME NEW p \in Pids, Terminated(p) \/ Dies(p) PROVE [Next]_vars
  BY <1>3 DEF Terminated, Dies, EndsSilent, Worker, Next
<1>4. CASE UserStarts \/ UserStops \/ UNCHANGED allVars
  BY <1>4 DEF UserStarts, UserStops, allVars
<1>5. CASE Others
  BY <1>5 DEF Others, Next
<1>. QED
  BY <1>1, <1>2, <1>3, <1>4, <1>5 DEF CoreNext

(* Whatever a worker of aether-core.sh does between taking and giving back  *)
(* the guard, it takes no step with the locks, the pid file or the state    *)
(* that MaintenanceGuard does not know: what is proved of the guard holds   *)
(* of the installation.                                                     *)
THEOREM InstallKeepsGuard == CoreSpec => Init /\ [][Next]_vars
<1>1. CoreInit => Init
  BY DEF CoreInit
<1>. QED
  BY <1>1, StepIsGuarded, PTL DEF CoreSpec

(* Where no status is asked for, no two installations, checks or clearings  *)
(* are at work at the same time.                                            *)
THEOREM InstallsExclude == ASSUME Polled = {} PROVE CoreSpec => []Exclusive
<1>1. GuardInv => Exclusive
  BY DEF GuardInv, OneHolder, Exclusive, Working, HoldW
<1>2. GuardInv /\ [Next]_vars => GuardInv'
  BY GuardStep
<1>3. Init => GuardInv
  BY GuardInit
<1>. QED
  BY <1>1, <1>2, <1>3, InstallKeepsGuard, PTL

-----------------------------------------------------------------------------
(* The course of the work                                                   *)

(* A worker has a link of its own only at two steps, or has died with it.   *)
LinkOwned ==
    \A p \in Pids : newLink[p] # NoRelease =>
        /\ wrkAt[p] \notin {"unused", "start", "open"}
        /\ wrkAt[p] = "work" => step[p] \in {"swap", "back"}

CoreTyped ==
    /\ current \in Targets /\ version \in [Dirs -> 0..MaxVersion] /\ whole \subseteq Dirs
    /\ service \in Targets \cup {"stopped"}
    /\ step \in [Pids -> Steps]
    /\ fresh \in [Pids -> 0..MaxVersion]
    /\ newLink \in [Pids -> Targets] /\ previous \in [Pids -> Targets]
    /\ was \in [Pids -> BOOLEAN] /\ touched \in [Pids -> BOOLEAN]
    /\ before \in [Pids -> Targets]

(* The steps up to the switch, those of them that have a version to offer,  *)
(* and those that have it on disk.                                          *)
Ahead == {"look", "check", "download", "copy", "copying", "read", "ask", "link", "swap",
          "clear", "stop", "start", "other"}
Offers == {"download", "copy", "copying", "read", "ask", "link", "swap"}
Stored == {"copying", "read", "ask", "link", "swap"}

(* A worker's directory is filled only by the end of its copy. *)
Unfilled(p) ==
    \/ wrkAt[p] \in {"unused", "start", "open"}
    \/ wrkAt[p] = "work" /\ step[p] \in {"look", "check", "download", "copy", "copying"}

FillInv == \A p \in Pids : Unfilled(p) => p \notin whole

(* What a worker remembers is still so: the active core is the one it began *)
(* with until it switches and again when it has gone back, what it offers   *)
(* is newer, and the service is stopped if it was and nobody started it.    *)
PlanInv(p) ==
    /\ step[p] # "none"
    /\ step[p] \in Ahead \cup {"again"} => current = before[p]
    /\ step[p] \in {"ask", "link", "swap", "restart", "undo", "back"} => previous[p] = before[p]
    /\ step[p] = "swap" => newLink[p] = p
    /\ step[p] = "back" => newLink[p] = before[p]
    /\ step[p] \in Offers => fresh[p] > VersionOf(current)
    /\ step[p] \in Stored => version[p] = fresh[p]
    /\ step[p] \in {"link", "swap", "restart", "stop", "start"} /\ ~touched[p] /\ ~was[p] =>
          service = "stopped"

CourseInv ==
    /\ TypeInv /\ CoreTyped /\ LinkOwned /\ WholeInv /\ FillInv
    /\ \A p \in Pids : wrkAt[p] = "work" => PlanInv(p)

OwnStep(p) == Work(p) \/ Terminated(p) \/ Dies(p)

LEMMA Names ==
    /\ Targets = Pids \cup {First, NoRelease} /\ Dirs = Pids \cup {First}
    /\ MaxVersion \in Nat /\ MaxVersion >= 2 /\ NoRelease \notin Pids
    /\ "stopped" \notin Targets
BY CoreInstallAssumption DEF Targets, Dirs

(* The end of the work, one way or another. *)
Over(p) ==
    /\ Forget(p) /\ UNCHANGED <<disk, newLink>>
    /\ service' \in {service, current, "stopped"}

LEMMA TypedOver ==
    ASSUME CoreTyped, NEW p \in Pids, Over(p)
    PROVE  CoreTyped'
<1>1. UNCHANGED <<current, version, whole, newLink>> /\ service' \in Targets \cup {"stopped"}
  BY DEF Over, disk, CoreTyped
<1>2. step' \in [Pids -> Steps] /\ fresh' \in [Pids -> 0..MaxVersion]
  BY Names DEF Over, Forget, CoreTyped, Steps
<1>3. previous' \in [Pids -> Targets] /\ before' \in [Pids -> Targets]
  BY Names DEF Over, Forget, CoreTyped
<1>4. was' \in [Pids -> BOOLEAN] /\ touched' \in [Pids -> BOOLEAN]
  BY DEF Over, Forget, CoreTyped
<1>. QED
  BY <1>1, <1>2, <1>3, <1>4 DEF CoreTyped

LEMMA TypedStep ==
    ASSUME CoreTyped, NEW p \in Pids, OwnStep(p)
    PROVE  CoreTyped'
<1>1. 0 \in 0..MaxVersion /\ 1..MaxVersion \subseteq 0..MaxVersion
  BY Names
<1>2. CASE Begin(p)
  BY <1>2, <1>1, Names DEF CoreTyped, Steps, Begin, Tasks, To, ToSaying, At, EndsSaying, EndsSilent,
     Forget, AskRunning, MoveLink, disk, memory, history
<1>3. CASE Check(p)
  <2>1. CASE Over(p)
    BY <2>1, TypedOver
  <2>2. ASSUME NEW v \in 1..MaxVersion, fresh' = [fresh EXCEPT ![p] = v], ToSaying(p, "download"),
               UNCHANGED <<previous, was, history>>
        PROVE  CoreTyped'
    BY <1>3, <2>2, <1>1 DEF CoreTyped, Steps, Check, ToSaying, disk, history
  <2>. QED
    BY <1>3, <2>1, <2>2 DEF Check, Over, EndsSaying
<1>4. CASE Download(p)
  <2>1. CASE Over(p)
    BY <2>1, TypedOver
  <2>2. CASE ToSaying(p, "copy") /\ UNCHANGED memory
    BY <1>4, <2>2, <1>1, Names DEF CoreTyped, Steps, Download, To, ToSaying, At, AskRunning,
       MoveLink, disk, memory, history
  <2>. QED
    BY <1>4, <2>1, <2>2 DEF Download, Over, EndsSaying, EndsSilent, disk
<1>5. CASE Copy(p)
  BY <1>5, <1>1, Names DEF CoreTyped, Steps, Copy, To, ToSaying, At, EndsSaying, EndsSilent, Forget,
     AskRunning, MoveLink, disk, memory, history
<1>6. CASE CopyEnds(p)
  <2>1. CASE Over(p)
    BY <2>1, TypedOver
  <2>2. CASE whole' = whole \cup {p} /\ To(p, "read") /\ UNCHANGED memory
    BY <1>6, <2>2, <1>1, Names DEF CoreTyped, Steps, CopyEnds, To, ToSaying, At, AskRunning,
       MoveLink, disk, memory, history
  <2>. QED
    BY <1>6, <2>1, <2>2 DEF CopyEnds, Over, EndsSaying, EndsSilent, disk
<1>7. CASE ReadPrevious(p)
  BY <1>7, <1>1, Names DEF CoreTyped, Steps, ReadPrevious, To, ToSaying, At, EndsSaying, EndsSilent,
     Forget, AskRunning, MoveLink, disk, memory, history
<1>8. CASE Ask(p)
  BY <1>8, <1>1, Names DEF CoreTyped, Steps, Ask, To, ToSaying, At, EndsSaying, EndsSilent, Forget,
     AskRunning, MoveLink, disk, memory, history
<1>9. CASE Link(p)
  BY <1>9, <1>1, Names DEF CoreTyped, Steps, Link, To, ToSaying, At, EndsSaying, EndsSilent, Forget,
     AskRunning, MoveLink, disk, memory, history
<1>10. CASE Swap(p)
  BY <1>10, <1>1, Names DEF CoreTyped, Steps, Swap, To, ToSaying, At, EndsSaying, EndsSilent,
     Forget, AskRunning, MoveLink, disk, memory, history
<1>11. CASE Restart(p)
  <2>1. CASE Over(p)
    BY <2>1, TypedOver
  <2>2. CASE service' = "stopped" /\ To(p, "undo") /\ UNCHANGED memory
    BY <1>11, <2>2, <1>1, Names DEF CoreTyped, Steps, Restart, To, ToSaying, At, AskRunning,
       MoveLink, disk, memory, history
  <2>. QED
    BY <1>11, <2>1, <2>2 DEF Restart, Over, EndsSaying, EndsSilent, disk
<1>12. CASE Undo(p)
  BY <1>12, <1>1, Names DEF CoreTyped, Steps, Undo, To, ToSaying, At, EndsSaying, EndsSilent,
     Forget, AskRunning, MoveLink, disk, memory, history
<1>13. CASE GoBack(p)
  BY <1>13, <1>1, Names DEF CoreTyped, Steps, GoBack, To, ToSaying, At, EndsSaying, EndsSilent,
     Forget, AskRunning, MoveLink, disk, memory, history
<1>14. CASE RestartAgain(p)
  BY <1>14, TypedOver DEF RestartAgain, Over, EndsSaying, EndsSilent
<1>15. CASE ClearAsk(p)
  BY <1>15, <1>1, Names DEF CoreTyped, Steps, ClearAsk, To, ToSaying, At, EndsSaying, EndsSilent,
     Forget, AskRunning, MoveLink, disk, memory, history
<1>16. CASE ClearStop(p)
  <2>1. CASE Over(p)
    BY <2>1, TypedOver
  <2>2. CASE service' \in {service, "stopped"} /\ To(p, "start") /\ UNCHANGED memory
    BY <1>16, <2>2, <1>1, Names DEF CoreTyped, Steps, ClearStop, To, ToSaying, At, AskRunning,
       MoveLink, disk, memory, history
  <2>. QED
    BY <1>16, <2>1, <2>2 DEF ClearStop, Over, EndsSaying, EndsSilent, disk
<1>17. CASE ClearStart(p)
  BY <1>17, TypedOver DEF ClearStart, Over, EndsSaying, EndsSilent
<1>18. CASE Terminated(p)
  BY <1>18, TypedOver DEF Terminated, Over, EndsSaying, EndsSilent
<1>19. CASE Dies(p)
  BY <1>19, TypedOver DEF Dies, Over, EndsSaying, EndsSilent
<1>20. CASE OtherWork(p)
  <2>1. CASE Over(p)
    BY <2>1, TypedOver
  <2>2. CASE ToSaying(p, "other") /\ UNCHANGED memory
    BY <1>20, <2>2, <1>1, Names DEF CoreTyped, Steps, OtherWork, ToSaying, disk, memory, history
  <2>. QED
    BY <1>20, <2>1, <2>2 DEF OtherWork, Over, EndsSaying, disk
<1>. QED
  BY <1>2, <1>3, <1>4, <1>5, <1>6, <1>7, <1>8, <1>9, <1>10, <1>11, <1>12, <1>13, <1>14, <1>15,
     <1>16, <1>17, <1>18, <1>19, <1>20 DEF OwnStep, Work

(* What a step of one worker leaves of the others. *)
Same(q) ==
    /\ step'[q] = step[q] /\ newLink'[q] = newLink[q] /\ fresh'[q] = fresh[q]
    /\ previous'[q] = previous[q] /\ was'[q] = was[q] /\ before'[q] = before[q]
    /\ touched'[q] = touched[q]

LEMMA SameOver ==
    ASSUME CoreTyped, NEW p \in Pids, Over(p)
    PROVE  \A q \in Pids : q # p => Same(q)
BY DEF Over, CoreTyped, Forget, Same

LEMMA OthersSame ==
    ASSUME CoreTyped, NEW p \in Pids, OwnStep(p)
    PROVE  \A q \in Pids : q # p => Same(q)
<1>1. CASE Begin(p)
  BY <1>1 DEF CoreTyped, Same, Begin, To, ToSaying, AskRunning, MoveLink, memory, history
<1>2. CASE Check(p)
  <2>1. CASE Over(p)
    BY <2>1, SameOver
  <2>2. ASSUME NEW v, fresh' = [fresh EXCEPT ![p] = v], ToSaying(p, "download"),
               UNCHANGED <<previous, was, history>>
        PROVE  \A q \in Pids : q # p => Same(q)
    BY <1>2, <2>2 DEF CoreTyped, Same, Check, ToSaying, history
  <2>. QED
    BY <1>2, <2>1, <2>2 DEF Check, Over, EndsSaying
<1>3. CASE Download(p)
  <2>1. CASE Over(p)
    BY <2>1, SameOver
  <2>2. CASE ToSaying(p, "copy") /\ UNCHANGED memory
    BY <1>3, <2>2 DEF CoreTyped, Same, Download, To, ToSaying, memory, history
  <2>. QED
    BY <1>3, <2>1, <2>2 DEF Download, Over, EndsSaying, EndsSilent, disk
<1>4. CASE Copy(p)
  BY <1>4 DEF CoreTyped, Same, Copy, To, ToSaying, AskRunning, MoveLink, memory, history
<1>5. CASE CopyEnds(p)
  <2>1. CASE Over(p)
    BY <2>1, SameOver
  <2>2. CASE To(p, "read") /\ UNCHANGED memory
    BY <1>5, <2>2 DEF CoreTyped, Same, CopyEnds, To, ToSaying, memory, history
  <2>. QED
    BY <1>5, <2>1, <2>2 DEF CopyEnds, Over, EndsSaying, EndsSilent, disk
<1>6. CASE ReadPrevious(p)
  BY <1>6 DEF CoreTyped, Same, ReadPrevious, To, ToSaying, AskRunning, MoveLink, memory, history
<1>7. CASE Ask(p)
  BY <1>7 DEF CoreTyped, Same, Ask, To, ToSaying, AskRunning, MoveLink, memory, history
<1>8. CASE Link(p)
  BY <1>8 DEF CoreTyped, Same, Link, To, ToSaying, AskRunning, MoveLink, memory, history
<1>9. CASE Swap(p)
  BY <1>9 DEF CoreTyped, Same, Swap, To, ToSaying, AskRunning, MoveLink, memory, history
<1>10. CASE Restart(p)
  <2>1. CASE Over(p)
    BY <2>1, SameOver
  <2>2. CASE To(p, "undo") /\ UNCHANGED memory
    BY <1>10, <2>2 DEF CoreTyped, Same, Restart, To, ToSaying, memory, history
  <2>. QED
    BY <1>10, <2>1, <2>2 DEF Restart, Over, EndsSaying, EndsSilent, disk
<1>11. CASE Undo(p)
  BY <1>11 DEF CoreTyped, Same, Undo, To, ToSaying, AskRunning, MoveLink, memory, history
<1>12. CASE GoBack(p)
  BY <1>12 DEF CoreTyped, Same, GoBack, To, ToSaying, AskRunning, MoveLink, memory, history
<1>13. CASE RestartAgain(p)
  BY <1>13, SameOver DEF RestartAgain, Over, EndsSaying, EndsSilent
<1>14. CASE ClearAsk(p)
  BY <1>14 DEF CoreTyped, Same, ClearAsk, To, ToSaying, AskRunning, MoveLink, memory, history
<1>15. CASE ClearStop(p)
  <2>1. CASE Over(p)
    BY <2>1, SameOver
  <2>2. CASE To(p, "start") /\ UNCHANGED memory
    BY <1>15, <2>2 DEF CoreTyped, Same, ClearStop, To, ToSaying, memory, history
  <2>. QED
    BY <1>15, <2>1, <2>2 DEF ClearStop, Over, EndsSaying, EndsSilent, disk
<1>16. CASE ClearStart(p)
  BY <1>16, SameOver DEF ClearStart, Over, EndsSaying, EndsSilent
<1>17. CASE Terminated(p)
  BY <1>17, SameOver DEF Terminated, Over, EndsSaying, EndsSilent
<1>18. CASE Dies(p)
  BY <1>18, SameOver DEF Dies, Over, EndsSaying, EndsSilent
<1>19. CASE OtherWork(p)
  <2>1. CASE Over(p)
    BY <2>1, SameOver
  <2>2. CASE ToSaying(p, "other") /\ UNCHANGED memory
    BY <1>19, <2>2 DEF CoreTyped, Same, OtherWork, ToSaying, memory, history
  <2>. QED
    BY <1>19, <2>1, <2>2 DEF OtherWork, Over, EndsSaying, disk
<1>. QED
  BY <1>1, <1>2, <1>3, <1>4, <1>5, <1>6, <1>7, <1>8, <1>9, <1>10, <1>11, <1>12, <1>13, <1>14, <1>15,
     <1>16, <1>17, <1>18, <1>19 DEF OwnStep, Work

(* Where a worker's step leaves the workers: it begins, goes on, ends or    *)
(* dies, and nobody else moves.                                             *)
LEMMA WorkersAt ==
    ASSUME TypeInv, NEW p \in Pids, OwnStep(p)
    PROVE  /\ \A q \in Pids : q # p => wrkAt'[q] = wrkAt[q]
           /\ \/ Begin(p) /\ wrkAt[p] = "open" /\ wrkAt'[p] = "work"
              \/ wrkAt[p] = "work" /\ wrkAt'[p] = "work"
              \/ wrkAt[p] = "work" /\ wrkAt'[p] = "test" /\ Forget(p)
              \/ Dies(p) /\ wrkAt[p] # "unused" /\ wrkAt'[p] = "dead" /\ Forget(p)
<1>1. wrkAt \in [Pids -> {"unused", "start", "open", "work", "test", "rm owner", "rmdir", "result",
                         "rm pid", "unlock", "dead"}]
  BY DEF TypeInv, TypeOK
<1>2. CASE Begin(p)
  BY <1>1, <1>2 DEF Begin, WorkerStart, WorkOn
<1>3. CASE Dies(p)
  BY <1>1, <1>3 DEF Dies, WorkerKilled, Alive, WorkOn
<1>4. CASE WorkEnds(p) /\ Forget(p)
  BY <1>1, <1>4 DEF WorkEnds, WorkOn
<1>5. CASE wrkAt[p] = "work" /\ UNCHANGED wrkAt
  BY <1>5
<1>6. \/ Begin(p) \/ Dies(p) \/ (WorkEnds(p) /\ Forget(p))
      \/ (wrkAt[p] = "work" /\ UNCHANGED wrkAt)
  <2>1. UNCHANGED vars \/ WorkGoesOn(p) => UNCHANGED wrkAt
    BY DEF vars, wrkVars, WorkGoesOn
  <2>. QED
    BY <2>1 DEF OwnStep, Work, Check, Download, Copy, CopyEnds, ReadPrevious, Ask, Link, Swap,
                Restart, Undo, GoBack, RestartAgain, ClearAsk, ClearStop, ClearStart, OtherWork,
                Terminated, At, To, ToSaying, EndsSaying, EndsSilent
<1>. QED
  BY <1>2, <1>3, <1>4, <1>5, <1>6

Early == {"look", "check", "download", "copy", "copying"}

(* What CourseInv says of a worker that is at work. *)
OnCourse(p) ==
    /\ newLink[p] # NoRelease => step[p] \in {"swap", "back"}
    /\ step[p] \in Early => p \notin whole
    /\ PlanInv(p)

LEMMA CourseOf ==
    ASSUME CourseInv, NEW p \in Pids
    PROVE  /\ wrkAt[p] = "work" => OnCourse(p)
           /\ wrkAt[p] = "open" => newLink[p] = NoRelease /\ p \notin whole
BY DEF CourseInv, OnCourse, LinkOwned, FillInv, Unfilled, Early

(* A worker that goes on is still on its course. *)
LEMMA OwnCourse ==
    ASSUME CourseInv, NEW p \in Pids, OwnStep(p), wrkAt'[p] = "work"
    PROVE  OnCourse(p)'
<1>1. /\ \A s : ~EndsSaying(p, s)
      /\ ~EndsSilent(p) /\ ~Dies(p)
  <2>1. wrkAt \in [Pids -> {"unused", "start", "open", "work", "test", "rm owner", "rmdir", "result",
                           "rm pid", "unlock", "dead"}]
    BY DEF CourseInv, TypeInv, TypeOK
  <2>2. ~WorkEnds(p) /\ ~Dies(p)
    BY <2>1 DEF WorkEnds, Dies, WorkerKilled, WorkOn
  <2>. QED
    BY <2>2 DEF EndsSaying, EndsSilent
<1>2. CoreTyped /\ ActiveWhole
  BY DEF CourseInv, WholeInv
<1>3. wrkAt[p] = "work" => OnCourse(p)
  BY CourseOf
<1>4. /\ current \in Targets /\ version \in [Dirs -> 0..MaxVersion] /\ whole \subseteq Dirs
      /\ step \in [Pids -> Steps] /\ fresh \in [Pids -> 0..MaxVersion]
      /\ newLink \in [Pids -> Targets] /\ previous \in [Pids -> Targets]
      /\ was \in [Pids -> BOOLEAN] /\ touched \in [Pids -> BOOLEAN]
      /\ before \in [Pids -> Targets]
  BY <1>2 DEF CoreTyped
<1>5. CASE Begin(p)
  <2>1. newLink[p] = NoRelease /\ p \notin whole
    BY <1>5, CourseOf DEF Begin, WorkerStart
  <2>2. /\ step'[p] \in {"look", "check", "clear", "other"} /\ before'[p] = current
        /\ UNCHANGED <<current, whole, newLink>>
    BY <1>5, <1>4 DEF Begin, Tasks, disk
  <2>. QED
    BY <2>1, <2>2 DEF OnCourse, Early, PlanInv, Ahead, Offers, Stored
<1>6. CASE Check(p)
  <2>1. PICK v \in 1..MaxVersion :
          /\ WorthTaking(v) /\ step[p] = "check" /\ wrkAt[p] = "work"
          /\ fresh' = [fresh EXCEPT ![p] = v] /\ step' = [step EXCEPT ![p] = "download"]
          /\ UNCHANGED <<previous, was, history>>
    BY <1>6, <1>1 DEF Check, ToSaying, At
  <2>2. /\ step'[p] = "download" /\ fresh'[p] > VersionOf(current) /\ before'[p] = before[p]
        /\ UNCHANGED <<current, version, whole, newLink>>
    BY <1>6, <1>4, <2>1 DEF Check, disk, history, WorthTaking
  <2>3. VersionOf(current)' = VersionOf(current)
    BY <2>2 DEF VersionOf
  <2>4. newLink[p] = NoRelease /\ p \notin whole /\ current = before[p]
    BY <1>3, <2>1 DEF OnCourse, Early, PlanInv, Ahead
  <2>. QED
    BY <2>2, <2>3, <2>4 DEF OnCourse, Early, PlanInv, Ahead, Offers, Stored
<1>7. CASE Download(p)
  BY <1>7, <1>1, <1>3, <1>4, Names DEF Download, At, OnCourse, Early, PlanInv, Ahead, Offers,
     Stored, VersionOf, To, ToSaying, disk, memory, history, AskRunning, MoveLink
<1>8. CASE Copy(p)
  <2>1. /\ step[p] = "copy" /\ OnCourse(p) /\ step'[p] = "copying"
        /\ version' = [version EXCEPT ![p] = fresh[p]] /\ fresh'[p] = fresh[p]
        /\ before'[p] = before[p] /\ UNCHANGED <<current, whole, newLink>>
    BY <1>8, <1>3, <1>4 DEF Copy, At, To, memory, history
  <2>2. newLink[p] = NoRelease /\ p \notin whole /\ current = before[p] /\ fresh[p] > VersionOf(current)
    BY <2>1 DEF OnCourse, Early, PlanInv, Ahead, Offers
  <2>3. current # p
    BY <1>2, <2>2, Names DEF ActiveWhole
  <2>4. VersionOf(current)' = VersionOf(current) /\ version'[p] = fresh[p]
    BY <1>4, <2>1, <2>3, Names DEF VersionOf
  <2>. QED
    BY <2>1, <2>2, <2>4 DEF OnCourse, Early, PlanInv, Ahead, Offers, Stored
<1>9. CASE CopyEnds(p)
  BY <1>9, <1>1, <1>3, <1>4, Names DEF CopyEnds, At, OnCourse, Early, PlanInv, Ahead, Offers,
     Stored, VersionOf, To, ToSaying, disk, memory, history, AskRunning, MoveLink
<1>10. CASE ReadPrevious(p)
  BY <1>10, <1>1, <1>3, <1>4, Names DEF ReadPrevious, At, OnCourse, Early, PlanInv, Ahead, Offers,
     Stored, VersionOf, To, ToSaying, disk, memory, history, AskRunning, MoveLink
<1>11. CASE Ask(p)
  BY <1>11, <1>1, <1>3, <1>4, Names DEF Ask, At, OnCourse, Early, PlanInv, Ahead, Offers, Stored,
     VersionOf, To, ToSaying, disk, memory, history, AskRunning, MoveLink
<1>12. CASE Link(p)
  BY <1>12, <1>1, <1>3, <1>4, Names DEF Link, At, OnCourse, Early, PlanInv, Ahead, Offers, Stored,
     VersionOf, To, ToSaying, disk, memory, history, AskRunning, MoveLink
<1>13. CASE Swap(p)
  BY <1>13, <1>1, <1>3, <1>4, Names DEF Swap, At, OnCourse, Early, PlanInv, Ahead, Offers, Stored,
     VersionOf, To, ToSaying, disk, memory, history, AskRunning, MoveLink
<1>14. CASE Restart(p)
  BY <1>14, <1>1, <1>3, <1>4, Names DEF Restart, At, OnCourse, Early, PlanInv, Ahead, Offers,
     Stored, VersionOf, To, ToSaying, disk, memory, history, AskRunning, MoveLink
<1>15. CASE Undo(p)
  BY <1>15, <1>1, <1>3, <1>4, Names DEF Undo, At, OnCourse, Early, PlanInv, Ahead, Offers, Stored,
     VersionOf, To, ToSaying, disk, memory, history, AskRunning, MoveLink
<1>16. CASE GoBack(p)
  BY <1>16, <1>1, <1>3, <1>4, Names DEF GoBack, At, OnCourse, Early, PlanInv, Ahead, Offers, Stored,
     VersionOf, To, ToSaying, disk, memory, history, AskRunning, MoveLink
<1>17. CASE RestartAgain(p)
  BY <1>17, <1>1, <1>3, <1>4, Names DEF RestartAgain, At, OnCourse, Early, PlanInv, Ahead, Offers,
     Stored, VersionOf, To, ToSaying, disk, memory, history, AskRunning, MoveLink
<1>18. CASE ClearAsk(p)
  BY <1>18, <1>1, <1>3, <1>4, Names DEF ClearAsk, At, OnCourse, Early, PlanInv, Ahead, Offers,
     Stored, VersionOf, To, ToSaying, disk, memory, history, AskRunning, MoveLink
<1>19. CASE ClearStop(p)
  BY <1>19, <1>1, <1>3, <1>4, Names DEF ClearStop, At, OnCourse, Early, PlanInv, Ahead, Offers,
     Stored, VersionOf, To, ToSaying, disk, memory, history, AskRunning, MoveLink
<1>20. CASE ClearStart(p)
  BY <1>20, <1>1, <1>3, <1>4, Names DEF ClearStart, At, OnCourse, Early, PlanInv, Ahead, Offers,
     Stored, VersionOf, To, ToSaying, disk, memory, history, AskRunning, MoveLink
<1>21. CASE Terminated(p)
  BY <1>21, <1>1 DEF Terminated
<1>22. CASE Dies(p)
  BY <1>22, <1>1
<1>23. CASE OtherWork(p)
  BY <1>23, <1>1, <1>3, <1>4, Names DEF OtherWork, At, OnCourse, Early, PlanInv, Ahead, Offers,
     Stored, VersionOf, To, ToSaying, disk, memory, history, AskRunning, MoveLink
<1>. QED
  BY <1>5, <1>6, <1>7, <1>8, <1>9, <1>10, <1>11, <1>12, <1>13, <1>14, <1>15, <1>16, <1>17, <1>18,
     <1>19, <1>20, <1>21, <1>22, <1>23 DEF OwnStep, Work

LEMMA FilledByOwner ==
    ASSUME NEW p \in Pids, OwnStep(p)
    PROVE  \A q \in Pids : q # p /\ q \in whole' => q \in whole
<1>1. whole' = whole \/ whole' = whole \cup {p}
  BY DEF OwnStep, Work, Begin, Check, Download, Copy, CopyEnds, ReadPrevious, Ask, Link, Swap,
         Restart, Undo, GoBack, RestartAgain, ClearAsk, ClearStop, ClearStart, OtherWork, Terminated, Dies,
         disk
<1>. QED
  BY <1>1

LEMMA CourseOwn ==
    ASSUME CourseInv, Exclusive, NEW p \in Pids, OwnStep(p)
    PROVE  CourseInv'
<1>1. TypeInv /\ CoreTyped /\ LinkOwned /\ WholeInv /\ FillInv
  BY DEF CourseInv
<1>2. [CoreNext]_allVars
  BY DEF CoreNext, OwnStep
<1>3. TypeInv' /\ WholeInv' /\ CoreTyped'
  BY <1>1, <1>2, StepIsGuarded, TypeStep, WholeStep, TypedStep
<1>4. /\ \A q \in Pids : q # p => Same(q) /\ wrkAt'[q] = wrkAt[q]
      /\ wrkAt'[p] \in {"work", "test", "dead"}
  BY <1>1, OthersSame, WorkersAt
<1>5. wrkAt'[p] = "work" => OnCourse(p)'
  BY OwnCourse
<1>6. LinkOwned'
  <2>. SUFFICES ASSUME NEW q \in Pids, newLink'[q] # NoRelease
                PROVE  /\ wrkAt'[q] \notin {"unused", "start", "open"}
                       /\ wrkAt'[q] = "work" => step'[q] \in {"swap", "back"}
    BY DEF LinkOwned
  <2>1. CASE q = p
    BY <1>4, <1>5, <2>1 DEF OnCourse
  <2>2. CASE q # p
    BY <1>1, <1>4, <2>2 DEF LinkOwned, Same
  <2>. QED
    BY <2>1, <2>2
<1>7. FillInv'
  <2>. SUFFICES ASSUME NEW q \in Pids, Unfilled(q)'
                PROVE  q \notin whole'
    BY DEF FillInv
  <2>1. CASE q = p
    BY <1>4, <1>5, <2>1 DEF OnCourse, Unfilled, Early
  <2>2. CASE q # p
    <3>1. Unfilled(q)
      BY <1>4, <2>2 DEF Unfilled, Same
    <3>. QED
      BY <1>1, <2>2, <3>1, FilledByOwner DEF FillInv
  <2>. QED
    BY <2>1, <2>2
<1>8. ASSUME NEW q \in Pids, wrkAt'[q] = "work"
      PROVE  PlanInv(q)'
  <2>1. CASE q = p
    BY <1>5, <1>8, <2>1 DEF OnCourse
  <2>2. CASE q # p
    <3>1. wrkAt[q] = "work" /\ PlanInv(q) /\ Same(q)
      BY <1>4, <1>8, <2>2 DEF CourseInv
    <3>2. wrkAt[p] # "work"
      BY <2>2, <3>1 DEF Exclusive, Working
    <3>3. Begin(p) \/ Dies(p)
      BY <1>1, <3>2, WorkersAt
    <3>4. UNCHANGED <<current, version, service>>
      BY <3>3 DEF Begin, Dies, disk
    <3>5. VersionOf(current)' = VersionOf(current)
      BY <3>4 DEF VersionOf
    <3>. QED
      BY <3>1, <3>4, <3>5 DEF PlanInv, Same
  <2>. QED
    BY <2>1, <2>2
<1>. QED
  BY <1>3, <1>6, <1>7, <1>8 DEF CourseInv

(* The locks, the requests and the status set nobody to work. *)
LEMMA QuietAt ==
    ASSUME TypeInv, (\E p \in Pids : Around(p)) \/ Others, NEW q \in Pids
    PROVE  \/ wrkAt'[q] = wrkAt[q]
           \/ wrkAt[q] \in {"unused", "start"} /\ wrkAt'[q] \in {"start", "open"}
           \/ wrkAt'[q] \notin {"unused", "start", "open", "work"}
<1>1. wrkAt \in [Pids -> {"unused", "start", "open", "work", "test", "rm owner", "rmdir", "result",
                         "rm pid", "unlock", "dead"}]
  BY DEF TypeInv, TypeOK
<1>2. ASSUME NEW p \in Pids, Around(p)
      PROVE  \E at : /\ wrkAt' = [wrkAt EXCEPT ![p] = at]
                     /\ \/ at \notin {"unused", "start", "open", "work"}
                        \/ wrkAt[p] = "start" /\ at = "open"
  <2>1. \E at \in {"open", "rm owner", "rmdir", "result", "rm pid", "unlock", "dead"} : WorkOn(p, at)
    BY <1>2 DEF Around, WorkerOpens, CleanupTest, CleanupOwner, CleanupGuard, CleanupResult,
       CleanupPid,
                CleanupLock
  <2>2. PICK at \in {"open", "rm owner", "rmdir", "result", "rm pid", "unlock", "dead"} : WorkOn(p, at)
    BY <2>1
  <2>3. wrkAt' = [wrkAt EXCEPT ![p] = at]
    BY <2>2 DEF WorkOn
  <2>4. \/ at \notin {"unused", "start", "open", "work"}
        \/ wrkAt[p] = "start" /\ at = "open"
    <3>1. wrkAt'[p] = at
      BY <1>1, <2>3
    <3>. QED
      BY <1>1, <1>2, <2>2, <3>1 DEF Around, WorkerOpens, CleanupTest, CleanupOwner, CleanupGuard,
                             CleanupResult, CleanupPid, CleanupLock, WorkOn
  <2>. QED
    BY <2>3, <2>4
<1>3. ASSUME NEW r \in Requests, Request(r)
      PROVE  wrkAt' = wrkAt \/ \E p \in Unused : wrkAt' = [wrkAt EXCEPT ![p] = "start"]
  BY <1>3 DEF Request, CheckOther, TakeLock, Claim, BackOut, Own, ShowStarting, Spawn, NameOpens,
     NameChild,
              wrkVars
<1>4. ASSUME NEW r \in Requests, RequestKilled(r) \/ \E u \in Users : Start(r, u)
      PROVE  wrkAt' = wrkAt
  BY <1>4 DEF RequestKilled, Start, wrkVars
<1>5. ASSUME NEW u \in Users, Status(u)
      PROVE  wrkAt' = wrkAt
  BY <1>5 DEF Status, PollLock, PollFile, PollRead, PollSignal, PollResult, PollTest, PollOwner,
     PollGuard,
              PollPid, PollUnlock, wrkVars
<1>6. CASE \E p \in Pids : Around(p)
  BY <1>1, <1>2, <1>6
<1>7. CASE Others
  BY <1>1, <1>3, <1>4, <1>5, <1>7 DEF Others, Unused
<1>. QED
  BY <1>6, <1>7

LEMMA CourseRest ==
    ASSUME CourseInv, NEW q \in Pids,
           UNCHANGED <<disk, newLink, step, fresh, previous, was, before>>,
           \/ wrkAt'[q] = wrkAt[q]
           \/ wrkAt[q] \in {"unused", "start"} /\ wrkAt'[q] \in {"start", "open"}
           \/ wrkAt'[q] \notin {"unused", "start", "open", "work"},
           wrkAt'[q] = "work" =>
              touched'[q] \/ (service' = service /\ (touched'[q] <=> touched[q]))
    PROVE  /\ newLink'[q] # NoRelease =>
                /\ wrkAt'[q] \notin {"unused", "start", "open"}
                /\ wrkAt'[q] = "work" => step'[q] \in {"swap", "back"}
           /\ Unfilled(q)' => q \notin whole'
           /\ wrkAt'[q] = "work" => PlanInv(q)'
<1>1. UNCHANGED <<current, version, whole>>
  BY DEF disk
<1>2. VersionOf(current)' = VersionOf(current)
  BY <1>1 DEF VersionOf
<1>3. newLink'[q] # NoRelease =>
                /\ wrkAt'[q] \notin {"unused", "start", "open"}
                /\ wrkAt'[q] = "work" => step'[q] \in {"swap", "back"}
  BY DEF CourseInv, LinkOwned
<1>4. Unfilled(q)' => q \notin whole'
  BY <1>1 DEF CourseInv, FillInv, Unfilled
<1>5. ASSUME wrkAt'[q] = "work" PROVE PlanInv(q)'
  <2>1. PlanInv(q)
    BY <1>5 DEF CourseInv
  <2>. QED
    BY <1>1, <1>2, <1>5, <2>1 DEF PlanInv
<1>. QED
  BY <1>3, <1>4, <1>5

LEMMA CourseStep ==
    ASSUME CourseInv, Exclusive, [CoreNext]_allVars
    PROVE  CourseInv'
<1>1. TypeInv /\ CoreTyped /\ WholeInv
  BY DEF CourseInv
<1>2. TypeInv' /\ WholeInv'
  BY <1>1, StepIsGuarded, TypeStep, WholeStep
<1>3. CASE \E p \in Pids : OwnStep(p)
  BY <1>3, CourseOwn
<1>4. CASE (\E p \in Pids : Around(p)) \/ Others
  <2>1. UNCHANGED coreVars
    BY <1>4 DEF Around, Others
  <2>2. UNCHANGED <<disk, newLink, step, fresh, previous, was, before, service, touched>>
    BY <2>1 DEF coreVars, memory, history
  <2>3. CoreTyped'
    BY <1>1, <2>2 DEF CoreTyped, disk
  <2>4. \A q \in Pids : \/ wrkAt'[q] = wrkAt[q]
                        \/ wrkAt[q] \in {"unused", "start"} /\ wrkAt'[q] \in {"start", "open"}
                        \/ wrkAt'[q] \notin {"unused", "start", "open", "work"}
    BY <1>1, <1>4, QuietAt
  <2>. QED
    BY <1>2, <2>2, <2>3, <2>4, CourseRest DEF CourseInv, LinkOwned, FillInv
<1>5. CASE UserStarts \/ UserStops
  <2>1. UNCHANGED <<vars, disk, newLink, step, fresh, previous, was, before>> /\ Seen
    BY <1>5 DEF UserStarts, UserStops
  <2>2. wrkAt' = wrkAt /\ \A q \in Pids : touched'[q] = (wrkAt[q] = "work")
    BY <2>1 DEF vars, wrkVars, Seen
  <2>3. CoreTyped'
    <3>1. service' \in Targets \cup {"stopped"} /\ touched' \in [Pids -> BOOLEAN]
      BY <1>1, <1>5, <2>1 DEF UserStarts, UserStops, Seen, CoreTyped
    <3>. QED
      BY <1>1, <2>1, <3>1 DEF CoreTyped, disk
  <2>4. \A q \in Pids : wrkAt'[q] = wrkAt[q] /\ (wrkAt'[q] = "work" => touched'[q])
    BY <2>2
  <2>. QED
    BY <1>2, <2>1, <2>3, <2>4, CourseRest DEF CourseInv, LinkOwned, FillInv
<1>6. CASE UNCHANGED allVars
  <2>1. /\ UNCHANGED <<disk, newLink, step, fresh, previous, was, before, service, touched>>
        /\ wrkAt' = wrkAt
    BY <1>6 DEF allVars, coreVars, memory, history, vars, wrkVars
  <2>2. CoreTyped'
    BY <1>1, <2>1 DEF CoreTyped, disk
  <2>. QED
    BY <1>2, <2>1, <2>2, CourseRest DEF CourseInv, LinkOwned, FillInv
<1>. QED
  BY <1>3, <1>4, <1>5, <1>6 DEF CoreNext, OwnStep

LEMMA CourseInit == CoreInit => CourseInv
<1>. SUFFICES ASSUME CoreInit PROVE CourseInv
  OBVIOUS
<1>1. TypeInv /\ wrkAt = [p \in Pids |-> "unused"]
  BY TypeInit DEF CoreInit, Init
<1>2. /\ current \in {NoRelease, First} /\ whole = Dirs \cap {current}
      /\ version = [d \in Dirs |-> IF d = current THEN 2 ELSE 0]
      /\ service \in {"stopped", current}
      /\ step = [p \in Pids |-> "none"] /\ fresh = [p \in Pids |-> 0]
      /\ newLink = [p \in Pids |-> NoRelease] /\ previous = [p \in Pids |-> NoRelease]
      /\ was = [p \in Pids |-> FALSE] /\ before = [p \in Pids |-> NoRelease]
      /\ touched = [p \in Pids |-> FALSE]
  BY DEF CoreInit
<1>3. 0 \in 0..MaxVersion /\ 2 \in 0..MaxVersion
  BY Names
<1>4. CoreTyped
  BY <1>2, <1>3, Names DEF CoreTyped, Steps
<1>5. WholeInv
  BY <1>2, Names DEF WholeInv, ActiveWhole, LinkInv, Good, Steps
<1>6. FillInv
  BY <1>2, CoreInstallAssumption DEF FillInv
<1>. QED
  BY <1>1, <1>2, <1>4, <1>5, <1>6 DEF CourseInv, LinkOwned

(* While operations exclude each other, every worker of aether-core.sh is   *)
(* on its course: what it read before a command is so when it uses it.      *)
THEOREM InstallsOnCourse == CoreSpec /\ []Exclusive => []CourseInv
<1>1. CourseInv /\ Exclusive /\ [CoreNext]_allVars => CourseInv'
  BY CourseStep
<1>. QED
  BY <1>1, CourseInit, PTL DEF CoreSpec

-----------------------------------------------------------------------------
(* How an operation ends                                                    *)

(* The steps that an operation ends at, and what it says then. *)
LEMMA EndOf ==
    ASSUME CourseInv, [CoreNext]_allVars, NEW p \in Pids, Ends(p)
    PROVE  /\ OnCourse(p) /\ UNCHANGED disk
           /\ \/ ~success'[p]
              \/ step[p] \in {"look", "check", "download", "stop", "other"} /\ UNCHANGED service
              \/ /\ step[p] \in {"restart", "start"} /\ shown'[wrkUser[p]] = "done"
                 /\ service' = IF was[p] THEN current ELSE service
              \/ step[p] \in {"start", "again"} /\ shown'[wrkUser[p]] = "failed"
<1>1. TypeInv /\ CoreTyped /\ OnCourse(p) /\ wrkAt[p] = "work" /\ wrkAt'[p] = "test"
  BY CourseOf DEF Ends, CourseInv
<1>2. ASSUME NEW q \in Pids, OwnStep(q) PROVE q = p
  BY <1>1, <1>2, WorkersAt
<1>3. ASSUME NEW q \in Pids, Around(q) PROVE FALSE
  <2>1. wrkAt[q] \in {"start", "test", "rm owner", "rmdir", "result", "rm pid", "unlock"}
    BY <1>3 DEF Around, WorkerOpens, CleanupTest, CleanupOwner, CleanupGuard, CleanupResult,
       CleanupPid,
                CleanupLock
  <2>2. \E at : wrkAt' = [wrkAt EXCEPT ![q] = at]
    BY <1>3 DEF Around, WorkerOpens, CleanupTest, CleanupOwner, CleanupGuard, CleanupResult,
       CleanupPid,
                CleanupLock, WorkOn
  <2>. QED
    BY <1>1, <2>1, <2>2 DEF TypeInv, TypeOK
<1>4. CASE UserStarts \/ UserStops \/ UNCHANGED allVars
  BY <1>1, <1>4 DEF UserStarts, UserStops, allVars, vars, wrkVars
<1>5. CASE Others
  <2>1. \/ wrkAt' = wrkAt
        \/ \E q \in Unused : wrkAt' = [wrkAt EXCEPT ![q] = "start"]
    BY <1>5 DEF Others, Request, CheckOther, TakeLock, Claim, BackOut, Own, ShowStarting, Spawn,
                NameOpens, NameChild, RequestKilled, Start, Status, PollLock, PollFile, PollRead, PollSignal,
                PollResult, PollTest, PollOwner, PollGuard, PollPid, PollUnlock, wrkVars
  <2>. QED
    BY <1>1, <2>1 DEF TypeInv, TypeOK, Unused
<1>6. CASE OwnStep(p)
  <2>1. ~Begin(p) /\ ~Dies(p)
    BY <1>1 DEF Begin, WorkerStart, Dies, WorkerKilled, WorkOn, TypeInv, TypeOK
  <2>2. /\ ~UNCHANGED vars /\ ~WorkGoesOn(p)
    BY <1>1 DEF vars, wrkVars, WorkGoesOn
  <2>3. \A s : ~To(p, s) /\ ~ToSaying(p, s)
    BY <2>2 DEF To, ToSaying
  <2>4. CASE Check(p) \/ Download(p)
    BY <1>1, <2>3, <2>4 DEF Check, Download, At, EndsSaying
  <2>5. CASE CopyEnds(p) \/ Terminated(p)
    BY <1>1, <2>3, <2>5 DEF CopyEnds, Terminated, EndsSilent, disk
  <2>6. CASE Restart(p)
    BY <1>1, <2>3, <2>6 DEF Restart, At, EndsSaying
  <2>7. CASE RestartAgain(p)
    BY <1>1, <2>3, <2>7 DEF RestartAgain, At, EndsSaying
  <2>8. CASE ClearStop(p)
    BY <1>1, <2>3, <2>8 DEF ClearStop, At, EndsSaying
  <2>9. CASE ClearStart(p)
    BY <1>1, <2>3, <2>9 DEF ClearStart, At, EndsSaying
  <2>10. CASE Copy(p) \/ ReadPrevious(p) \/ Ask(p) \/ Link(p) \/ Swap(p) \/ Undo(p) \/ GoBack(p)
              \/ ClearAsk(p)
    BY <2>3, <2>10 DEF Copy, ReadPrevious, Ask, Link, Swap, Undo, GoBack, ClearAsk
  <2>11. CASE OtherWork(p)
    BY <1>1, <2>3, <2>11 DEF OtherWork, At, EndsSaying
  <2>. QED
    BY <1>6, <2>1, <2>4, <2>5, <2>6, <2>7, <2>8, <2>9, <2>10, <2>11 DEF OwnStep, Work
<1>. QED
  BY <1>2, <1>3, <1>4, <1>5, <1>6 DEF CoreNext, OwnStep

(* Where operations exclude each other, an update that fails by itself, in  *)
(* the download, the copy or the restart, leaves current as it found it,    *)
(* for any number of operations and whatever is killed: the link is moved   *)
(* back to $previous, and $previous is what the worker began with.          *)
THEOREM FailuresHarmless == CoreSpec /\ []Exclusive => FailureHarmless
<1>1. ASSUME CourseInv, [CoreNext]_allVars, NEW p \in Pids, Ends(p),
             ~(Switched(p) /\ (EndsWell(p) \/ ~success'[p]))
      PROVE  current' = before[p]
  <2>1. OnCourse(p) /\ current' = current
    BY <1>1, EndOf DEF disk
  <2>2. CASE ~Switched(p)
    <3>1. step[p] \in Steps /\ step[p] # "none"
      BY <1>1, <2>1 DEF CourseInv, CoreTyped, OnCourse, PlanInv
    <3>2. step[p] \in Ahead
      BY <2>2, <3>1 DEF Switched, Steps, Ahead
    <3>. QED
      BY <2>1, <3>2 DEF OnCourse, PlanInv
  <2>3. CASE Switched(p)
    <3>1. success'[p] /\ ~EndsWell(p)
      BY <1>1, <2>3
    <3>2. step[p] \notin {"look", "check", "download", "stop", "start", "other"}
      BY <2>3 DEF Switched
    <3>3. step[p] = "again"
      BY <1>1, <3>1, <3>2, EndOf DEF EndsWell
    <3>. QED
      BY <2>1, <3>3 DEF OnCourse, PlanInv
  <2>. QED
    BY <2>2, <2>3
<1>2. CourseInv /\ [CoreNext]_allVars =>
        [\A p \in Pids :
          Ends(p) /\ ~(Switched(p) /\ (EndsWell(p) \/ ~success'[p])) => current' = before[p]]_allVars
  BY <1>1
<1>. QED
  BY <1>2, InstallsOnCourse, PTL DEF CoreSpec, FailureHarmless

(* Where operations exclude each other, the active core is replaced by a    *)
(* newer one only: the version that was compared with the active one is the *)
(* one that is switched to, and the active one is still the same.  Going    *)
(* back after a failed restart is the exception.                            *)
THEOREM UpdatesNewer == CoreSpec /\ []Exclusive => NeverOlder
<1>1. ASSUME CourseInv, [CoreNext]_allVars, VersionOf(current)' < VersionOf(current)
      PROVE  \E p \in Pids : step[p] \in {"undo", "back"}
  <2>1. CoreTyped /\ ActiveWhole /\ VersionOf(current) \in Nat
    <3>1. CoreTyped /\ ActiveWhole
      BY <1>1 DEF CourseInv, WholeInv
    <3>. QED
      BY <3>1, Names DEF CoreTyped, VersionOf
  <2>2. CASE UNCHANGED <<current, version>>
    BY <1>1, <2>1, <2>2 DEF VersionOf
  <2>3. ASSUME NEW p \in Pids, Copy(p)
        PROVE  UNCHANGED VersionOf(current)
    <3>1. p \notin whole
      BY <1>1, <2>3, CourseOf DEF Copy, At, OnCourse, Early
    <3>2. current # p
      BY <2>1, <3>1, Names DEF ActiveWhole
    <3>. QED
      BY <2>1, <2>3, <3>2, Names DEF Copy, VersionOf, CoreTyped
  <2>4. ASSUME NEW p \in Pids, Swap(p)
        PROVE  VersionOf(current)' > VersionOf(current)
    <3>1. /\ newLink[p] = p /\ version[p] = fresh[p] /\ fresh[p] > VersionOf(current)
      BY <1>1, <2>4, CourseOf DEF Swap, At, OnCourse, PlanInv, Offers, Stored
    <3>2. current' = p /\ version' = version
      BY <2>4, <3>1 DEF Swap, MoveLink
    <3>. QED
      BY <3>1, <3>2, Names DEF VersionOf
  <2>5. ASSUME NEW p \in Pids, Undo(p) \/ GoBack(p)
        PROVE  step[p] \in {"undo", "back"}
    BY <2>5 DEF Undo, GoBack, At
  <2>6. \/ UNCHANGED <<current, version>>
        \/ \E p \in Pids : Copy(p) \/ Swap(p) \/ Undo(p) \/ GoBack(p)
    <3>1. UNCHANGED disk \/ UNCHANGED coreVars \/ UNCHANGED allVars => UNCHANGED <<current, version>>
      BY DEF disk, coreVars, allVars
    <3>2. ASSUME NEW p \in Pids, OwnStep(p)
          PROVE  UNCHANGED <<current, version>> \/ Copy(p) \/ Swap(p) \/ Undo(p) \/ GoBack(p)
      BY <3>1, <3>2 DEF OwnStep, Work, Begin, Check, Download, CopyEnds, ReadPrevious, Ask, Link,
             Restart, RestartAgain, ClearAsk, ClearStop, ClearStart, OtherWork, Terminated, Dies
    <3>. QED
      BY <1>1, <3>1, <3>2 DEF CoreNext, OwnStep, Around, Others, UserStarts, UserStops
  <2>7. ASSUME NEW p \in Pids, Copy(p) \/ Swap(p) PROVE FALSE
    <3>1. CoreTyped'
      BY <2>1, <2>7, TypedStep DEF OwnStep, Work
    <3>2. VersionOf(current)' \in Nat
      BY <3>1, Names DEF CoreTyped, VersionOf
    <3>3. VersionOf(current)' >= VersionOf(current)
      BY <2>1, <2>3, <2>4, <2>7, <3>2
    <3>. QED
      BY <1>1, <2>1, <3>2, <3>3
  <2>. QED
    BY <2>2, <2>5, <2>6, <2>7
<1>2. CourseInv /\ [CoreNext]_allVars =>
        [VersionOf(current)' < VersionOf(current) => \E p \in Pids : step[p] \in {"undo", "back"}]_allVars
  BY <1>1
<1>. QED
  BY <1>2, InstallsOnCourse, PTL DEF CoreSpec, NeverOlder

(* Where operations exclude each other and the user leaves the service      *)
(* alone, an installation or a clearing that ends well leaves no old core   *)
(* running, and leaves the service running if it found it so: what          *)
(* "$SERVICE" running said is still so when the service is restarted.       *)
THEOREM ServiceStaysKept == CoreSpec /\ []Exclusive => ServiceKept
<1>1. ASSUME CourseInv, [CoreNext]_allVars, NEW p \in Pids, EndsWell(p),
             step[p] \in {"restart", "start"}, ~touched[p]
      PROVE  service' \in {current', "stopped"} /\ (was[p] => service' # "stopped")
  <2>1. OnCourse(p) /\ current' = current /\ service' = IF was[p] THEN current ELSE service
    <3>1. Ends(p) /\ success'[p] /\ shown'[wrkUser[p]] = "done"
      BY <1>1 DEF EndsWell
    <3>. QED
      BY <1>1, <3>1, EndOf DEF disk
  <2>2. ~was[p] => service = "stopped"
    BY <1>1, <2>1 DEF OnCourse, PlanInv
  <2>3. current # "stopped"
    BY <1>1, Names DEF CourseInv, CoreTyped
  <2>. QED
    BY <2>1, <2>2, <2>3
<1>2. CourseInv /\ [CoreNext]_allVars =>
        [\A p \in Pids :
          EndsWell(p) /\ step[p] \in {"restart", "start"} /\ ~touched[p] =>
              service' \in {current', "stopped"} /\ (was[p] => service' # "stopped")]_allVars
  BY <1>1
<1>. QED
  BY <1>2, InstallsOnCourse, PTL DEF CoreSpec, ServiceKept

-----------------------------------------------------------------------------
(* The types, whether or not operations exclude each other                  *)

TypedInv == TypeInv /\ CoreTyped /\ LinkOwned

(* A worker that goes on has a link of its own only to move it next. *)
LEMMA OwnLink ==
    ASSUME TypedInv, NEW p \in Pids, OwnStep(p), wrkAt'[p] = "work", newLink'[p] # NoRelease
    PROVE  step'[p] \in {"swap", "back"}
<1>1. /\ step \in [Pids -> Steps] /\ newLink \in [Pids -> Targets]
      /\ wrkAt[p] = "open" => newLink[p] = NoRelease
      /\ wrkAt[p] = "work" /\ newLink[p] # NoRelease => step[p] \in {"swap", "back"}
  BY DEF TypedInv, CoreTyped, LinkOwned
<1>2. Begin(p) \/ wrkAt[p] = "work"
  BY WorkersAt DEF TypedInv
<1>3. /\ \A s : ~EndsSaying(p, s)
      /\ ~EndsSilent(p) /\ ~Dies(p)
  <2>1. ~WorkEnds(p) /\ ~Dies(p)
    BY DEF WorkEnds, Dies, WorkerKilled, WorkOn, TypedInv, TypeInv, TypeOK
  <2>. QED
    BY <2>1 DEF EndsSaying, EndsSilent
<1>4. CASE Begin(p)
  BY <1>1, <1>4 DEF Begin, WorkerStart
<1>5. CASE Link(p) \/ Undo(p)
  BY <1>1, <1>5 DEF Link, Undo, To, At
<1>6. CASE Swap(p) \/ GoBack(p)
  BY <1>1, <1>6 DEF Swap, GoBack, MoveLink
<1>7. CASE UNCHANGED newLink /\ wrkAt[p] = "work" /\ step[p] \notin {"swap", "back"}
  BY <1>1, <1>7
<1>8. \/ Begin(p) \/ Link(p) \/ Undo(p) \/ Swap(p) \/ GoBack(p)
      \/ UNCHANGED newLink /\ wrkAt[p] = "work" /\ step[p] \notin {"swap", "back"}
  BY <1>3 DEF OwnStep, Work, Check, Download, Copy, CopyEnds, ReadPrevious, Ask, Restart,
              RestartAgain, ClearAsk, ClearStop, ClearStart, OtherWork, Terminated, At
<1>. QED
  BY <1>4, <1>5, <1>6, <1>7, <1>8

LEMMA TypedInvStep ==
    ASSUME TypedInv, [CoreNext]_allVars
    PROVE  TypedInv'
<1>1. TypeInv /\ CoreTyped /\ LinkOwned
  BY DEF TypedInv
<1>2. TypeInv'
  BY <1>1, StepIsGuarded, TypeStep
<1>3. ASSUME NEW p \in Pids, OwnStep(p) PROVE CoreTyped' /\ LinkOwned'
  <2>1. CoreTyped'
    BY <1>1, <1>3, TypedStep
  <2>2. /\ \A q \in Pids : q # p => Same(q) /\ wrkAt'[q] = wrkAt[q]
        /\ wrkAt'[p] \in {"work", "test", "dead"}
    BY <1>1, <1>3, OthersSame, WorkersAt
  <2>3. wrkAt'[p] = "work" /\ newLink'[p] # NoRelease => step'[p] \in {"swap", "back"}
    BY <1>3, OwnLink
  <2>. QED
    BY <1>1, <2>1, <2>2, <2>3 DEF LinkOwned, Same
<1>4. ASSUME UNCHANGED <<newLink, step>>,
             \A q \in Pids : \/ wrkAt'[q] = wrkAt[q]
                             \/ wrkAt[q] \in {"unused", "start"} /\ wrkAt'[q] \in {"start", "open"}
                             \/ wrkAt'[q] \notin {"unused", "start", "open", "work"}
      PROVE  LinkOwned'
  BY <1>1, <1>4 DEF LinkOwned
<1>5. CASE (\E p \in Pids : Around(p)) \/ Others
  <2>1. UNCHANGED <<disk, newLink, step, fresh, previous, was, before, service, touched>>
    BY <1>5 DEF Around, Others, coreVars, memory, history
  <2>2. CoreTyped'
    BY <1>1, <2>1 DEF CoreTyped, disk
  <2>3. LinkOwned'
    BY <1>1, <1>4, <1>5, <2>1, QuietAt
  <2>. QED
    BY <1>2, <2>2, <2>3 DEF TypedInv
<1>6. CASE UserStarts \/ UserStops
  <2>1. UNCHANGED <<vars, disk, newLink, step, fresh, previous, was, before>> /\ Seen
    BY <1>6 DEF UserStarts, UserStops
  <2>2. service' \in Targets \cup {"stopped"} /\ touched' \in [Pids -> BOOLEAN]
    BY <1>1, <1>6, <2>1 DEF UserStarts, UserStops, Seen, CoreTyped
  <2>3. CoreTyped'
    BY <1>1, <2>1, <2>2 DEF CoreTyped, disk
  <2>4. wrkAt' = wrkAt
    BY <2>1 DEF vars, wrkVars
  <2>. QED
    BY <1>2, <1>4, <2>1, <2>3, <2>4 DEF TypedInv
<1>7. CASE UNCHANGED allVars
  <2>1. /\ UNCHANGED <<disk, newLink, step, fresh, previous, was, before, service, touched>>
        /\ wrkAt' = wrkAt
    BY <1>7 DEF allVars, coreVars, memory, history, vars, wrkVars
  <2>2. CoreTyped'
    BY <1>1, <2>1 DEF CoreTyped, disk
  <2>. QED
    BY <1>2, <1>4, <2>1, <2>2 DEF TypedInv
<1>. QED
  BY <1>2, <1>3, <1>5, <1>6, <1>7 DEF CoreNext, OwnStep, TypedInv

(* Every variable of an installation keeps its type, and a worker has a     *)
(* link of its own only between making it and moving it, whether or not the *)
(* locks keep the workers apart: no worker writes what another one holds.   *)
THEOREM CoreTypeCorrect == CoreSpec => []CoreTypeOK
<1>1. CoreInit => TypedInv
  BY CourseInit DEF CourseInv, TypedInv
<1>2. TypedInv => CoreTypeOK
  BY DEF TypedInv, TypeInv, CoreTyped, LinkOwned, CoreTypeOK, Steps
<1>. QED
  BY <1>1, <1>2, TypedInvStep, PTL DEF CoreSpec
=============================================================================
