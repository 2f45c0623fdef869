-------------------------- MODULE SupervisorProofs --------------------------
(***************************************************************************)
(* Theorems about Supervisor, for every set of runs and every platform,    *)
(* and about the runtime it starts (RuntimeMain), for every setup and all  *)
(* limits of the health policy: how a run that ends is taken down, and for *)
(* what a process is replaced while it lasts.                              *)
(***************************************************************************)
EXTENDS Supervisor, RuntimeMain, SequenceTheorems, TLAPS

\* What the lock, the memory and the child have to do with each other.
Sound ==
    /\ pc.at = "idle" => pc = Idle
    /\ up = "down" => pc = Idle /\ mem = Fresh /\ child = None
    /\ child # None => mem.pid = child /\ mem.rt \in {"RUNNING", "STOPPING"} /\ ~mem.orphan
    /\ child = None => mem.pid = None \/ mem.orphan
    /\ mem.orphan => disk = mem /\ mem.pid # None /\ mem.rt = "FAILED"
    /\ pc.at \in {"schedule", "spawn", "record", "kill", "settle"} => ~mem.orphan
    /\ pc.at \in {"schedule", "launch", "spawn"} => child = None
    /\ pc.at \in {"kill", "settle"} => child # None
    /\ pc.at = "settle" => child \notin Alive \ unconfirmed

\* After a completed stop there is neither a child nor a backoff to act on.
Quiet ==
    wanted = "stop" =>
        /\ child = None /\ mem.rt \in {"STOPPED", "FAILED"}
        /\ pc.op \notin {"start", "restart", "backoff"}
        /\ pc.at \notin {"schedule", "launch", "spawn", "record"}

\* A live runtime that is not excused is the child or the fenced process.
Owned ==
    up # "down" =>
        \A r \in Alive \ Excused : r = child \/ (mem.orphan /\ mem.pid = r)

IInv == TypeOK /\ Sound /\ Quiet /\ Owned /\ Recoverable

USE DEF Alive, Unused
-----------------------------------------------------------------------------
LEMMA InitIInv == Init => IInv
<1> SUFFICES ASSUME Init PROVE IInv
    OBVIOUS
<1> USE SupervisorAssumption DEF Init, Fresh, Idle
<1>1. TypeOK
    BY DEF TypeOK, Record, RuntimeStates
<1>2. Alive = {}
    OBVIOUS
<1>3. Sound /\ Quiet
    BY DEF Sound, Quiet
<1>4. Owned /\ Recoverable
    BY <1>2 DEF Owned, Recoverable
<1> QED BY <1>1, <1>3, <1>4 DEF IInv

LEMMA RecordStep ==
    /\ Fresh \in Record
    /\ \A s \in Record, rt \in RuntimeStates, pid \in Runs \cup {None} :
        /\ [s EXCEPT !.rt = rt] \in Record
        /\ [s EXCEPT !.rt = rt, !.pid = pid] \in Record
BY DEF Fresh, Record, RuntimeStates

LEMMA StepIInv == IInv /\ [Next]_vars => IInv'
<1> SUFFICES ASSUME IInv, [Next]_vars PROVE IInv'
    OBVIOUS
<1> USE SupervisorAssumption DEF IInv, TypeOK, Sound, Quiet, Owned, Recoverable, Excused,
        Fresh, Idle, Record, RuntimeStates, ACTIVE_STATES, Ops, Places, Stopping,
        procVars, threadVars, vars, CanFail, Fails, NoFault, Persist, NoWrite, At, Moves,
        Leaves, Raises, Returns, Stopped, Takes, Waits, NotesError, Dies
<1>1. CASE Start
    BY <1>1 DEF Start, Request
<1>2. CASE Restart
    BY <1>2 DEF Restart, Request
<1>3. CASE Stop
    BY <1>3 DEF Stop, Request
<1>4. CASE Status
    BY <1>4 DEF Status, Looks
<1>5. CASE Monitor
    BY <1>5 DEF Monitor, Looks
<1>6. CASE Relaunch
    BY <1>6 DEF Relaunch, MayRelaunch, BackoffEnds
<1>7. CASE BackoffMoot
    BY <1>7 DEF BackoffMoot
<1>8. CASE RefreshQuiet
    BY <1>8 DEF RefreshQuiet
<1>9. CASE RefreshExited
  <2> USE <1>9 DEF RefreshExited, Ended
  <2>1. TypeOK'
    <3> HIDE DEF Record, Fresh
    <3>0. [mem EXCEPT !.rt = Ended, !.pid = None] \in Record
        BY RecordStep
    <3>1. mem' \in Record /\ disk' \in Record
        BY RecordStep, <3>0
    <3>2. faults' \in Nat /\ attempts' \in Nat /\ asleep' \in Nat /\ woken' \in Nat
        OBVIOUS
    <3> QED BY <3>1, <3>2
  <2>2. Sound'
      OBVIOUS
  <2>3. Quiet'
      OBVIOUS
  <2>4. Owned'
      OBVIOUS
  <2>5. Recoverable'
      OBVIOUS
  <2> QED BY <2>1, <2>2, <2>3, <2>4, <2>5
<1>10. CASE Schedule
  <2> USE <1>10 DEF Schedule
  <2>1. TypeOK'
    <3> HIDE DEF Record, Fresh
    <3>0. mem \in Record /\ disk \in Record
        OBVIOUS
    <3>a. [mem EXCEPT !.rt = "BACKOFF"] \in Record
        BY <3>0, RecordStep, "BACKOFF" \in RuntimeStates DEF RuntimeStates
    <3>1. mem' \in Record /\ disk' \in Record
        BY <3>0, <3>a
    <3>2. faults' \in Nat /\ attempts' \in Nat /\ asleep' \in Nat /\ woken' \in Nat
        OBVIOUS
    <3>3. pc' \in [op : Ops, at : Places] \cup {Idle}
        OBVIOUS
    <3> QED BY <3>1, <3>2, <3>3
  <2>2. Sound'
      OBVIOUS
  <2>3. Quiet'
      OBVIOUS
  <2>4. Owned'
      OBVIOUS
  <2>5. Recoverable'
      OBVIOUS
  <2> QED BY <2>1, <2>2, <2>3, <2>4, <2>5
<1>11. CASE DecideLook
  <2> USE <1>11 DEF DecideLook
  <2>1. TypeOK'
    <3> HIDE DEF Record, Fresh
    <3>1. mem' \in Record /\ disk' \in Record
        BY RecordStep
    <3>2. faults' \in Nat /\ attempts' \in Nat /\ asleep' \in Nat /\ woken' \in Nat
        OBVIOUS
    <3> QED BY <3>1, <3>2
  <2>2. Sound'
      OBVIOUS
  <2>3. Quiet'
      OBVIOUS
  <2>4. Owned'
      OBVIOUS
  <2>5. Recoverable'
      OBVIOUS
  <2> QED BY <2>1, <2>2, <2>3, <2>4, <2>5
<1>12. CASE DecideStart
    BY <1>12 DEF DecideStart
<1>13. CASE DecideStopOrphan
    BY <1>13 DEF DecideStopOrphan
<1>14. CASE DecideStopNothing
  <2> USE <1>14 DEF DecideStopNothing
  <2>1. TypeOK'
    <3> HIDE DEF Record, Fresh
    <3>0. [mem EXCEPT !.rt = "STOPPED", !.pid = None] \in Record
        BY RecordStep
    <3>1. mem' \in Record /\ disk' \in Record
        BY RecordStep, <3>0
    <3>2. faults' \in Nat /\ attempts' \in Nat /\ asleep' \in Nat /\ woken' \in Nat
        OBVIOUS
    <3> QED BY <3>1, <3>2
  <2>2. Sound'
      OBVIOUS
  <2>3. Quiet'
      OBVIOUS
  <2>4. Owned'
      OBVIOUS
  <2>5. Recoverable'
      OBVIOUS
  <2> QED BY <2>1, <2>2, <2>3, <2>4, <2>5
<1>15. CASE DecideStopChild
    BY <1>15 DEF DecideStopChild
<1>16. CASE Kill
    BY <1>16 DEF Kill
<1>17. CASE KillRaises
    BY <1>17 DEF KillRaises
<1>18. CASE KillUnconfirmed
    BY <1>18 DEF KillUnconfirmed
<1>19. CASE Settle
  <2> USE <1>19 DEF Settle
  <2>1. TypeOK'
    <3> HIDE DEF Record, Fresh
    <3>0. [mem EXCEPT !.rt = "STOPPED", !.pid = None] \in Record
        BY RecordStep
    <3>1. mem' \in Record /\ disk' \in Record
        BY RecordStep, <3>0
    <3>2. faults' \in Nat /\ attempts' \in Nat /\ asleep' \in Nat /\ woken' \in Nat
        OBVIOUS
    <3> QED BY <3>1, <3>2
  <2>2. Sound'
      OBVIOUS
  <2>3. Quiet'
      OBVIOUS
  <2>4. Owned'
      OBVIOUS
  <2>5. Recoverable'
      OBVIOUS
  <2> QED BY <2>1, <2>2, <2>3, <2>4, <2>5
<1>20. CASE LaunchRefused
    BY <1>20 DEF LaunchRefused
<1>21. CASE Launch
  <2> USE <1>21 DEF Launch
  <2>1. TypeOK'
    <3> HIDE DEF Record, Fresh
    <3>0. mem \in Record /\ disk \in Record
        OBVIOUS
    <3>a. [Fresh EXCEPT !.rt = "STARTING"] \in Record
        BY RecordStep, "STARTING" \in RuntimeStates DEF RuntimeStates
    <3>1. mem' \in Record /\ disk' \in Record
        BY <3>0, <3>a
    <3>2. faults' \in Nat /\ attempts' \in Nat /\ asleep' \in Nat /\ woken' \in Nat
        OBVIOUS
    <3> QED BY <3>1, <3>2
  <2>2. Sound'
      OBVIOUS
  <2>3. Quiet'
      OBVIOUS
  <2>4. Owned'
      OBVIOUS
  <2>5. Recoverable'
      OBVIOUS
  <2> QED BY <2>1, <2>2, <2>3, <2>4, <2>5
<1>22. CASE Popen
  <2> USE <1>22 DEF Popen
  <2>1. TypeOK'
    <3> HIDE DEF Record, Fresh
    <3>0. PICK r \in Runs : mem' = [mem EXCEPT !.rt = "RUNNING", !.pid = r]
        OBVIOUS
    <3>01. [mem EXCEPT !.rt = "RUNNING", !.pid = r] \in Record
        BY RecordStep
    <3>1. mem' \in Record /\ disk' \in Record
        BY <3>0, <3>01
    <3>2. faults' \in Nat /\ attempts' \in Nat /\ asleep' \in Nat /\ woken' \in Nat
        OBVIOUS
    <3> QED BY <3>1, <3>2
  <2>2. Sound'
      OBVIOUS
  <2>3. Quiet'
      OBVIOUS
  <2>4. Owned'
      OBVIOUS
  <2>5. Recoverable'
      OBVIOUS
  <2> QED BY <2>1, <2>2, <2>3, <2>4, <2>5
<1>23. CASE PopenFails
    BY <1>23 DEF PopenFails
<1>24. CASE LaunchRecorded
    BY <1>24 DEF LaunchRecorded
<1>25. CASE Wake
    BY <1>25 DEF Wake
<1>26. CASE LogFails
    BY <1>26 DEF LogFails
<1>27. ASSUME NEW r \in Runs, Exits(r) PROVE IInv'
    BY <1>27 DEF Exits
<1>28. CASE Crash
  <2> USE <1>28 DEF Crash
  <2>1. TypeOK'
    <3> HIDE DEF Record, Fresh
    <3>1. mem' \in Record /\ disk' \in Record
        BY RecordStep
    <3>2. faults' \in Nat /\ attempts' \in Nat /\ asleep' \in Nat /\ woken' \in Nat
        OBVIOUS
    <3> QED BY <3>1, <3>2
  <2>2. Sound'
      OBVIOUS
  <2>3. Quiet'
      OBVIOUS
  <2>4. Owned'
      OBVIOUS
  <2>5. Recoverable'
      OBVIOUS
  <2> QED BY <2>1, <2>2, <2>3, <2>4, <2>5
<1>29. CASE Exit
    BY <1>29 DEF Exit
<1>30. CASE Shutdown
    BY <1>30 DEF Shutdown
<1>31. CASE Close
    BY <1>31 DEF Close
<1>32. CASE Boot
    BY <1>32 DEF Boot, Boots, Reconciled, Suspect
<1>33. CASE BootReused
    BY <1>33 DEF BootReused, Boots, Reconciled, Suspect
<1>34. CASE BootFails
  <2> USE <1>34 DEF BootFails, Reconciled, Suspect
  <2>1. TypeOK'
    <3> HIDE DEF Record, Fresh
    <3>0. Reconciled(TRUE) \in Record \/ disk.pid = None
        BY RecordStep DEF Record
    <3>1. mem' \in Record /\ disk' \in Record
        BY RecordStep, <3>0
    <3>2. faults' \in Nat /\ attempts' \in Nat /\ asleep' \in Nat /\ woken' \in Nat
        OBVIOUS
    <3> QED BY <3>1, <3>2
  <2>2. Sound'
      OBVIOUS
  <2>3. Quiet'
      OBVIOUS
  <2>4. Owned'
      OBVIOUS
  <2>5. Recoverable'
      OBVIOUS
  <2> QED BY <2>1, <2>2, <2>3, <2>4, <2>5
<1>35. CASE UNCHANGED vars
    BY <1>35
<1> QED
    BY <1>1, <1>2, <1>3, <1>4, <1>5, <1>6, <1>7, <1>8, <1>9, <1>10, <1>11, <1>12, <1>13, <1>14, <1>15, <1>16, <1>17, <1>18, <1>19, <1>20, <1>21, <1>22, <1>23, <1>24, <1>25, <1>26, <1>27, <1>28, <1>29, <1>30, <1>31, <1>32, <1>33, <1>34, <1>35 DEF Next, OpStep

\* Only Popen makes a process.
LEMMA OnlyPopenLaunches == IInv /\ Next /\ ~At("spawn") => Unused' = Unused
<1> SUFFICES ASSUME IInv, Next, ~At("spawn") PROVE Unused' = Unused
    OBVIOUS
<1>1. CASE Kill
    BY <1>1 DEF Kill, IInv, TypeOK
<1>2. ASSUME NEW r \in Runs, Exits(r) PROVE Unused' = Unused
    BY <1>2 DEF Exits, IInv, TypeOK
<1>3. CASE Start \/ Restart \/ Stop \/ Status \/ Monitor \/ Relaunch \/ BackoffMoot
    BY <1>3 DEF Start, Restart, Stop, Status, Monitor, Relaunch, BackoffMoot, Request, Looks,
                BackoffEnds, Takes, procVars
<1>4. CASE OpStep /\ ~Kill
    BY <1>4 DEF OpStep, RefreshQuiet, RefreshExited, Schedule, DecideLook, DecideStart,
                DecideStopOrphan, DecideStopNothing, DecideStopChild, KillRaises,
                KillUnconfirmed, Settle, LaunchRefused, Launch, Popen, PopenFails,
                LaunchRecorded, Waits, procVars
<1>5. CASE Wake \/ LogFails \/ Crash \/ Exit \/ Shutdown \/ Close \/ Boot \/ BootReused \/ BootFails
    BY <1>5 DEF Wake, LogFails, Crash, Exit, Shutdown, Close, Boot, BootReused, BootFails,
                Boots, Dies, Takes, procVars
<1> QED BY <1>1, <1>2, <1>3, <1>4, <1>5 DEF Next

\* Every state of the supervisor, its file and the processes.
THEOREM Invariance == Spec => []IInv
<1>1. Init => IInv
    BY InitIInv
<1>2. IInv /\ [Next]_vars => IInv'
    BY StepIInv
<1> QED BY <1>1, <1>2, PTL DEF Spec

-----------------------------------------------------------------------------
\* Types: TypeOK holds of every state.
THEOREM TypeCorrect == Spec => []TypeOK
<1>1. IInv => TypeOK
    BY DEF IInv
<1> QED BY <1>1, Invariance, PTL

\* _reconcile_persisted_state can find every live runtime that was ever written
\* down and not given up on: the file still names it, in a state looked into.
THEOREM FileNamesTheRuntime == Spec => []Recoverable
<1>1. IInv => Recoverable
    BY DEF IInv
<1> QED BY <1>1, Invariance, PTL

\* One supervisor after the other, whatever faults happen to them, never has two
\* live runtimes but for the excused ones.
THEOREM OneOwned == Spec => []AtMostOne
<1>1. IInv => AtMostOne
  <2> SUFFICES ASSUME IInv, NEW r \in Alive \ Excused, NEW s \in Alive \ Excused
               PROVE r = s
      BY DEF AtMostOne
  <2>1. CASE up = "down"
    \* Without a child, both are what the file names.
    <3>1. Excused = unconfirmed \cup unwritten
        BY <2>1, SupervisorAssumption DEF IInv, TypeOK, Sound, Excused, Idle
    <3> QED BY <3>1 DEF IInv, Recoverable
  <2>2. CASE up # "down"
    <3>1. child # None => ~mem.orphan
        BY DEF IInv, Sound
    <3>2. (r = child \/ (mem.orphan /\ mem.pid = r)) /\ (s = child \/ (mem.orphan /\ mem.pid = s))
        BY <2>2 DEF IInv, Owned
    <3>3. r # None /\ s # None
        BY SupervisorAssumption
    <3> QED BY <3>1, <3>2, <3>3
  <2> QED BY <2>1, <2>2
<1> QED BY <1>1, Invariance, PTL

\* stop() is the last word: no backoff thread relaunches the runtime after it.
THEOREM StopIsAuthoritative == Spec => StopHolds
<1>1. IInv /\ [Next]_vars => [StopStep]_vars
  <2> SUFFICES ASSUME IInv, Next, wanted = "stop" PROVE StopStep
      BY DEF StopStep
  <2>1. ~At("spawn")
      BY DEF IInv, Quiet, At
  <2> QED BY <2>1, OnlyPopenLaunches DEF StopStep
<1> QED BY <1>1, Invariance, PTL DEF Spec, StopHolds

\* An unverified process stays fenced, and nothing is launched beside it, until
\* another supervisor looks into it again.
THEOREM FenceIsKept == Spec => FenceHolds
<1>1. IInv /\ [Next]_vars => [FenceStep]_vars
  <2> SUFFICES ASSUME IInv, Next, mem.orphan, up' # "down"
               PROVE FenceStep
      BY DEF FenceStep
  <2>1. /\ child = None /\ up # "down" /\ disk = mem
        /\ pc.at \notin {"schedule", "spawn", "record", "kill", "settle"}
      BY DEF IInv, Sound, Fresh
  <2>2. Unused' = Unused
      BY <2>1, OnlyPopenLaunches DEF At
  <2>3. CASE Start \/ Restart \/ Stop \/ Status \/ Monitor \/ Relaunch \/ BackoffMoot
      BY <2>1, <2>2, <2>3 DEF FenceStep, Start, Restart, Stop, Status, Monitor, Relaunch, BackoffMoot, Request,
                Looks, BackoffEnds, Takes
  <2>4. CASE OpStep
      BY <2>1, <2>2, <2>4 DEF FenceStep, OpStep, RefreshQuiet, RefreshExited, Schedule, DecideLook, DecideStart,
                DecideStopOrphan, DecideStopNothing, DecideStopChild, Kill, KillRaises,
                KillUnconfirmed, Settle, LaunchRefused, Launch, Popen, PopenFails,
                LaunchRecorded, At, Persist, NoWrite
  <2>5. CASE Wake \/ LogFails \/ (\E r \in Runs : Exits(r)) \/ Crash \/ Exit \/ Shutdown
             \/ Close \/ Boot \/ BootReused \/ BootFails
      BY <2>1, <2>2, <2>5 DEF FenceStep, Wake, LogFails, Exits, Crash, Exit, Shutdown, Close, Boot, BootReused,
                BootFails, Boots, Dies, Takes
  <2> QED BY <2>2, <2>3, <2>4, <2>5 DEF Next
<1> QED BY <1>1, Invariance, PTL DEF Spec, FenceHolds

\* The two invariants together.
THEOREM OneIsOwnedOrFound == Spec => []OwnedOrFound
<1>1. AtMostOne /\ Recoverable => OwnedOrFound
    BY DEF OwnedOrFound
<1> QED BY <1>1, OneOwned, FileNamesTheRuntime, PTL

\* The two step properties together.
THEOREM DecisionsAreKept == Spec => DecisionsHold
<1>1. [StopStep]_vars /\ [FenceStep]_vars => [StopStep /\ FenceStep]_vars
    OBVIOUS
<1> QED BY <1>1, StopIsAuthoritative, FenceIsKept, PTL DEF StopHolds, FenceHolds, DecisionsHold

-----------------------------------------------------------------------------
(************************* the runtime parent ******************************)
Loop == {"top", "services", "afterServices", "retries", "poll", "observe", "judge", "snapshot", "eof"}
TakenDown == {"offline", "close", "finalize", "incident", "stopped", "reporter", "summary", "exited"}
LastPlaces == {"reporter", "summary", "exited"}

ItemStates == {"ONLINE", "RECONNECTING", "FAILED", "STOPPED"}
WorkerStates == {"run", "hung", "left", "killed"}
RowKinds == {"stage3", "incident", "forgone", "stopped", "sentinel"}

\* The records the parent keeps have their fields.
RecordInv ==
    /\ setup \in Setups
    /\ item \in [failed : BOOLEAN, waiting : BOOLEAN, done : BOOLEAN, state : ItemStates, restarts : Nat]
    /\ bundle \in [attempts : Nat, retrying : BOOLEAN, failed : BOOLEAN]
    /\ stage3 \in [at : WorkerStates, job : BOOLEAN]

\* A file is never taken up again: one that failed has no consumer, one that is
\* done has none that runs, and without a worker the bundle has been given up.
FileInv ==
    setup.file =>
        /\ ~item.waiting /\ ~bundle.retrying
        /\ item.failed => fight \in {"none", "gone"}
        /\ item.done => fight \notin AliveStates
        /\ pose = "none" => bundle.failed

\* A bundle that was given up is seen before anything else is done.
GivenUpInv == bundle.failed /\ step \in Loop => step = "afterServices"

\* Until the cameras are fenced every candidate is in one place.
InWork == IF stage3.job THEN 1 ELSE 0
FlowInv ==
    /\ made \in Nat /\ stage3Q \in Nat /\ incidentQ \in Nat /\ filed \in Nat /\ dropped \in Nat
    /\ step \notin TakenDown => made = stage3Q + InWork + incidentQ + filed + dropped
    /\ fenced => step \in TakenDown

\* A run that ends by itself has no consumer and nothing at Stage3; and once it
\* has settled, nothing at the incident worker.
EofInv ==
    cause = "eof" =>
        /\ step \notin Loop /\ setup.file
        /\ fight \notin AliveStates /\ stage3Q = 0 /\ ~stage3.job
        /\ step # "settle" => incidentQ = 0 /\ made = filed + dropped

\* How far the take-down has come says who is gone.
GoneInv ==
    /\ step \in TakenDown => ingest = "gone" /\ fight = "gone" /\ preview = "gone"
    /\ step \in TakenDown \ {"offline", "close", "finalize"} =>
           pose = "gone" /\ stage3.at \in {"left", "killed"}
    /\ step \in {"stopped", "reporter", "summary", "exited"} => incident \in {"left", "killed"}
    /\ step \in {"summary", "exited"} => reporter \in {"left", "killed"}

\* A row is on its way or written, and the sentinel is behind every other.
Queued(p) == \E i \in 1 .. Len(rows) : rows[i] = p
Said(p) == p \in written \/ Queued(p)
LastOnly == \A i \in 1 .. Len(rows) : rows[i] = "sentinel" => i = Len(rows) /\ step \in LastPlaces
RowsInv ==
    /\ rows \in Seq(RowKinds)
    /\ stage3.at = "left" => Said("stage3")
    /\ incident = "left" => Said("incident")
    /\ step \in LastPlaces => Said("stopped")
    /\ dropped > 0 => Said("forgone")
    /\ LastOnly
    /\ reporter = "left" => rows = <<>> /\ step \in LastPlaces

ExitInv == RecordInv /\ FileInv /\ GivenUpInv /\ FlowInv /\ EofInv /\ GoneInv /\ RowsInv

-----------------------------------------------------------------------------
LEMMA MainInitInv == MainInit => ExitInv
<1> SUFFICES ASSUME MainInit PROVE ExitInv
    OBVIOUS
<1> USE DEF MainInit, HealthInit
<1>1. RecordInv
    <2>1. /\ setup \in Setups /\ stage3 = [at |-> "run", job |-> FALSE]
          /\ item = [failed |-> FALSE, waiting |-> FALSE, done |-> FALSE, state |-> "ONLINE", restarts |-> 0]
          /\ bundle = [attempts |-> 0, retrying |-> FALSE, failed |-> FALSE]
        OBVIOUS
    <2> HIDE DEF MainInit, HealthInit
    <2> QED BY <2>1 DEF RecordInv, ItemStates, WorkerStates
<1>2. FileInv /\ GivenUpInv
    BY DEF FileInv, GivenUpInv, AliveStates
<1>3. FlowInv
    <2>1. InWork = 0 /\ ~fenced
        BY DEF InWork
    <2>2. made = 0 /\ stage3Q = 0 /\ incidentQ = 0 /\ filed = 0 /\ dropped = 0
        OBVIOUS
    <2> HIDE DEF MainInit
    <2> QED BY <2>1, <2>2 DEF FlowInv
<1>4. EofInv /\ GoneInv
    BY DEF EofInv, GoneInv, TakenDown
<1>5. rows = <<>> /\ Len(rows) = 0 /\ rows \in Seq(RowKinds) /\ dropped = 0
    OBVIOUS
<1>6. RowsInv
    BY <1>5 DEF RowsInv, LastOnly, LastPlaces
<1> QED BY <1>1, <1>2, <1>3, <1>4, <1>6 DEF ExitInv

\* Inside the loop nothing is done to the workers or to what they have.
InLoop ==
    /\ step \in Loop /\ step' \in Loop \cup {"settle", "stopAll"}
    /\ UNCHANGED <<flowVars, workerVars>>

LoopActions ==
    \/ Between /\ UNCHANGED mainVars
    \/ Clock /\ UNCHANGED mainVars
    \/ Top \/ Services \/ AfterServices \/ Retries \/ Polls \/ Observes \/ Judges \/ Snapshot \/ EofCheck

LEMMA LoopSteps == LoopActions => InLoop
<1> USE DEF InLoop, Loop
<1>1. ASSUME Between /\ UNCHANGED mainVars PROVE InLoop
    BY <1>1 DEF Between, mainVars
<1>2. ASSUME Clock /\ UNCHANGED mainVars PROVE InLoop
    BY <1>2 DEF Clock, mainVars
<1>3. ASSUME Top PROVE InLoop
    BY <1>3 DEF Top
<1>4. ASSUME Services \/ Retries \/ Polls \/ Observes PROVE InLoop
    BY <1>4 DEF Services, Retries, Polls, Observes, Step
<1>5. ASSUME AfterServices PROVE InLoop
    BY <1>5 DEF AfterServices
<1>6. ASSUME Judges PROVE InLoop
    BY <1>6 DEF Judges
<1>7. ASSUME Snapshot PROVE InLoop
    BY <1>7 DEF Snapshot, Step, workerVars
<1>8. ASSUME EofCheck PROVE InLoop
    BY <1>8 DEF EofCheck
<1> QED BY <1>1, <1>2, <1>3, <1>4, <1>5, <1>6, <1>7, <1>8 DEF LoopActions

-----------------------------------------------------------------------------
\* The take-down and the workers, each on its own.
EndActions ==
    \/ Settles \/ StopAll \/ OfflineClose \/ ServicesClose \/ Finalize
    \/ IncidentEnds \/ SayStopped \/ ReporterEnds \/ Concludes

LEMMA NextSteps ==
    [MainNext]_runtimeVars <=>
        LoopActions \/ EndActions \/ Workers \/ Signal \/ Candidate \/ IncidentFails \/ WorkerBreaks \/ UNCHANGED runtimeVars
BY DEF MainNext, LoopActions, EndActions, Parent

-----------------------------------------------------------------------------
LEMMA FlowStep == RecordInv /\ FlowInv /\ [MainNext]_runtimeVars => FlowInv'
<1> SUFFICES ASSUME RecordInv, FlowInv, [MainNext]_runtimeVars PROVE FlowInv'
    OBVIOUS
<1> USE DEF FlowInv
<1>0. stage3 \in [at : WorkerStates, job : BOOLEAN]
    BY DEF RecordInv
<1>1. CASE LoopActions
    <2>1. InLoop
        BY <1>1, LoopSteps
    <2>2. step \notin TakenDown /\ step' \notin TakenDown
        BY <2>1 DEF InLoop, Loop, TakenDown
    <2> QED BY <2>1, <2>2 DEF InLoop, flowVars, workerVars, InWork
<1>2. CASE EndActions
    <2>1. CASE Settles \/ OfflineClose \/ ServicesClose \/ IncidentEnds \/ SayStopped \/ ReporterEnds \/ Concludes
        <3>1. UNCHANGED <<flowVars, stage3, fenced>> /\ (step \in TakenDown => step' \in TakenDown)
              /\ (step \notin TakenDown => step = "settle" /\ step' \notin TakenDown)
            BY <2>1 DEF Settles, OfflineClose, ServicesClose, IncidentEnds, SayStopped, ReporterEnds, Concludes,
                Step, TakenDown, workerVars
        <3> QED BY <3>1 DEF flowVars, InWork
    <2>2. CASE StopAll
        <3>1. step' \in TakenDown /\ UNCHANGED <<incidentQ, filed, dropped>>
            BY <2>2 DEF StopAll, Step, TakenDown
        <3>2. PICK last \in {0, 1} : made' = made + last /\ stage3Q' = stage3Q + last
            BY <2>2 DEF StopAll
        <3> QED BY <3>1, <3>2
    <2>3. CASE Finalize
        <3>1. step \in TakenDown /\ step' \in TakenDown /\ UNCHANGED flowVars
            BY <2>3 DEF Finalize, Step, TakenDown
        <3> QED BY <3>1 DEF flowVars
    <2> QED BY <1>2, <2>1, <2>2, <2>3 DEF EndActions
<1>3. CASE Workers
    <2>1. UNCHANGED <<step, fenced>> /\ made' = made
        BY <1>3 DEF Workers, Stage3Takes, Stage3Gives, Stage3Drops, Stage3Leaves, IncidentTakes, IncidentDrops, IncidentLeaves, Row, ReporterWrites,
            flowVars, workerVars
    <2>2. CASE Stage3Takes
        <3>1. /\ stage3Q' = stage3Q - 1 /\ stage3Q > 0 /\ UNCHANGED <<incidentQ, filed, dropped>>
              /\ stage3' = [stage3 EXCEPT !.job = TRUE] /\ ~stage3.job
            BY <2>2 DEF Stage3Takes
        <3>2. InWork = 0 /\ InWork' = 1
            BY <1>0, <3>1 DEF InWork
        <3> QED BY <2>1, <3>1, <3>2
    <2>3. CASE Stage3Gives
        <3>1. /\ incidentQ' = incidentQ + 1 /\ UNCHANGED <<stage3Q, filed, dropped>>
              /\ stage3' = [stage3 EXCEPT !.job = FALSE] /\ stage3.job
            BY <2>3 DEF Stage3Gives
        <3>2. InWork = 1 /\ InWork' = 0
            BY <1>0, <3>1 DEF InWork
        <3> QED BY <2>1, <3>1, <3>2
    <2>4. CASE Stage3Leaves
        <3>1. stage3' = [stage3 EXCEPT !.at = "left"] /\ UNCHANGED flowVars
            BY <2>4 DEF Stage3Leaves
        <3>2. InWork' = InWork
            BY <1>0, <3>1 DEF InWork
        <3> QED BY <2>1, <3>1, <3>2 DEF flowVars
    <2>5. CASE IncidentTakes
        <3>1. /\ incidentQ > 0 /\ incidentQ' = incidentQ - 1 /\ UNCHANGED <<stage3Q, stage3, dropped>>
              /\ filed' = IF fenced THEN filed ELSE filed + 1
            BY <2>5 DEF IncidentTakes, workerVars
        <3>2. InWork' = InWork /\ InWork \in Nat
            BY <3>1 DEF InWork
        <3> QED BY <2>1, <3>1, <3>2
    <2>6. CASE IncidentLeaves \/ ReporterWrites
        <3>1. UNCHANGED <<flowVars, stage3>>
            BY <2>6 DEF IncidentLeaves, ReporterWrites
        <3> QED BY <2>1, <3>1 DEF flowVars, InWork
    <2>7. CASE Stage3Drops
        <3>1. /\ dropped' = dropped + 1 /\ UNCHANGED <<stage3Q, incidentQ, filed>>
              /\ stage3' = [stage3 EXCEPT !.job = FALSE] /\ stage3.job
            BY <2>7 DEF Stage3Drops
        <3>2. InWork = 1 /\ InWork' = 0
            BY <1>0, <3>1 DEF InWork
        <3> QED BY <2>1, <3>1, <3>2
    <2>8. CASE IncidentDrops
        <3>1. /\ incidentQ > 0 /\ incidentQ' = incidentQ - 1 /\ dropped' = dropped + 1
              /\ UNCHANGED <<stage3Q, stage3, filed>>
            BY <2>8 DEF IncidentDrops
        <3>2. InWork' = InWork /\ InWork \in Nat
            BY <3>1 DEF InWork
        <3> QED BY <2>1, <3>1, <3>2
    <2> QED BY <1>3, <2>2, <2>3, <2>4, <2>5, <2>6, <2>7, <2>8 DEF Workers
<1>6. CASE IncidentFails
    <2>1. /\ incidentQ > 0 /\ incidentQ' = incidentQ - 1 /\ dropped' = dropped + 1
          /\ UNCHANGED <<step, fenced, made, stage3Q, stage3, filed>>
        BY <1>6 DEF IncidentFails
    <2>2. InWork' = InWork /\ InWork \in Nat
        BY <2>1 DEF InWork
    <2> QED BY <2>1, <2>2
<1>4. CASE Candidate
    <2>1. made' = made + 1 /\ stage3Q' = stage3Q + 1 /\ UNCHANGED <<step, fenced, incidentQ, filed, dropped, stage3>>
        BY <1>4 DEF Candidate, workerVars
    <2>2. InWork' = InWork /\ InWork \in Nat
        BY <2>1 DEF InWork
    <2> QED BY <2>1, <2>2
<1>5. CASE Signal \/ WorkerBreaks \/ UNCHANGED runtimeVars
    <2>1. UNCHANGED <<step, flowVars, fenced>> /\ stage3'.job = stage3.job
        BY <1>5 DEF Signal, WorkerBreaks, runtimeVars, mainVars, workerVars
    <2> QED BY <2>1 DEF flowVars, InWork
<1> QED BY <1>1, <1>2, <1>3, <1>4, <1>5, <1>6, NextSteps

-----------------------------------------------------------------------------
\* What the parent does with a consumer, in any of its handlers.
Kept == UNCHANGED <<fight, item>>
Withdrawn == fight' = "none" /\ item' = [item EXCEPT !.failed = TRUE]
Respawned ==
    /\ ~item.waiting /\ ~item.done /\ ~setup.file
    /\ \E restarts \in Nat : item' = [item EXCEPT !.failed = FALSE, !.restarts = restarts]
Renewed ==
    /\ ~item.done
    /\ item' = [failed |-> FALSE, waiting |-> bundle.retrying, done |-> FALSE, state |-> "ONLINE", restarts |-> 0]
Over ==
    /\ UNCHANGED fight
    /\ \/ item' = [item EXCEPT !.state = "RECONNECTING"] \/ item' = [item EXCEPT !.state = "FAILED"]
       \/ /\ item' = [item EXCEPT !.done = TRUE, !.state = "FAILED"] /\ item.failed
       \/ /\ item' = [item EXCEPT !.done = TRUE, !.state = "STOPPED"] /\ fight \notin AliveStates
Handled == Kept \/ Withdrawn \/ Respawned \/ Renewed \/ Over

\* What the shared worker and the bundle go through.
Failed ==
    /\ fight' = IF item.waiting THEN fight ELSE "none"
    /\ item' = IF item.waiting THEN item ELSE [item EXCEPT !.waiting = Live, !.failed = setup.file]
    /\ \E over \in BOOLEAN :
          /\ setup.file /\ ~item.waiting => over
          /\ bundle' = [bundle EXCEPT !.retrying = ~over, !.failed = over]
Resumed ==
    /\ bundle.retrying /\ pose' = "idle" /\ item.waiting
    /\ bundle' = [bundle EXCEPT !.attempts = @ + 1, !.retrying = FALSE]
    /\ item' = [item EXCEPT !.waiting = FALSE, !.failed = FALSE]

\* What the processes do: no consumer comes back and no worker goes away.
Happens ==
    /\ UNCHANGED <<setup, item, bundle>>
    /\ fight \in {"none", "gone"} => fight' \in {"none", "gone"}
    /\ fight \notin AliveStates => fight' \notin AliveStates
    /\ pose' = "none" => pose = "none"

LEMMA RestartFightHandles == RecordInv /\ RestartFight => Handled
<1> SUFFICES ASSUME RecordInv, RestartFight PROVE Handled
    OBVIOUS
<1>1. CASE item.waiting \/ item.done
    BY <1>1 DEF RestartFight, Handled, Kept
<1>2. CASE ~(item.waiting \/ item.done) /\ (setup.file \/ item.restarts >= RestartLimit \/ age["fightRestart"] < Cooldown)
    BY <1>2 DEF RestartFight, Handled, Withdrawn, FightWithdrawn
<1>3. CASE ~(item.waiting \/ item.done) /\ ~(setup.file \/ item.restarts >= RestartLimit \/ age["fightRestart"] < Cooldown)
    <2>1. item' = [item EXCEPT !.failed = FALSE, !.restarts = item.restarts + 1]
        BY <1>3 DEF RestartFight
    <2>2. item.restarts + 1 \in Nat
        BY DEF RecordInv
    <2> QED BY <1>3, <2>1, <2>2 DEF Handled, Respawned
<1> QED BY <1>1, <1>2, <1>3

LEMMA PollHandles == RecordInv /\ Poll => Handled
<1> SUFFICES ASSUME RecordInv, Poll PROVE Handled
    OBVIOUS
<1>1. CASE item.done
    BY <1>1 DEF Poll, Handled, Kept
<1>2. CASE PollsFight
    BY <1>2, RestartFightHandles DEF PollsFight
<1>3. CASE PollsFile
    <2>1. CASE item.failed /\ ~fileEof
        BY <1>3, <2>1 DEF PollsFile, Handled, Over
    <2>2. CASE ~(item.failed /\ ~fileEof)
        BY <1>3, <2>2 DEF PollsFile, Handled, Over, Kept
    <2> QED BY <2>1, <2>2
<1>4. CASE PollsIngest /\ ~item.done
    <2>1. CASE age["pollRestart"] < 1
        BY <1>4, <2>1 DEF PollsIngest, Handled, Over
    <2>2. CASE ~(age["pollRestart"] < 1)
        BY <1>4, <2>2 DEF PollsIngest, RestartCamera, Handled, Renewed
    <2> QED BY <2>1, <2>2
<1>5. CASE PollsPreview
    BY <1>5 DEF PollsPreview, Handled, Kept
<1> QED BY <1>1, <1>2, <1>3, <1>4, <1>5 DEF Poll

LEMMA JudgeHandles == RecordInv /\ Judge => Handled
<1> SUFFICES ASSUME RecordInv, Judge PROVE Handled
    OBVIOUS
<1>1. CASE Verdict = "restart_camera"
    <2>1. JudgesCamera /\ ~item.done
        BY <1>1 DEF Judge, Verdict, Finished
    <2>2. CASE RestartDue
        BY <2>1, <2>2 DEF JudgesCamera, RestartCamera, Handled, Renewed
    <2>3. CASE ~RestartDue /\ watch >= RestartLimit
        BY <2>1, <2>3 DEF JudgesCamera, Handled, Over
    <2>4. CASE ~RestartDue /\ ~(watch >= RestartLimit)
        BY <2>1, <2>4 DEF JudgesCamera, Handled, Kept
    <2> QED BY <2>2, <2>3, <2>4
<1>2. CASE Verdict = "restart_fight"
    BY <1>2, RestartFightHandles DEF Judge, JudgesFight
<1>3. CASE Verdict = "restart_preview"
    BY <1>3 DEF Judge, JudgesPreview, Handled, Kept
<1>4. CASE Verdict = "none"
    BY <1>4 DEF Judge, Handled, Kept
<1>5. Verdict \in {"restart_camera", "restart_fight", "restart_preview", "none"}
    BY DEF Verdict, Stalled
<1> QED BY <1>1, <1>2, <1>3, <1>4, <1>5

LEMMA ServicesHandle ==
    RecordInv /\ ServicesTick =>
        /\ setup' = setup
        /\ \/ Failed \/ Resumed
           \/ UNCHANGED <<fight, item, bundle, pose>>
<1> SUFFICES ASSUME RecordInv, ServicesTick
             PROVE  Failed \/ Resumed \/ UNCHANGED <<fight, item, bundle, pose>>
    BY DEF ServicesTick
<1>1. CASE pose # "none" /\ PoseFailed
    <2>1. FightFailure
        BY <1>1 DEF ServicesTick
    <2> DEFINE affected == setup.file /\ ~item.waiting
               over == affected \/ bundle.attempts >= setup.budget
    <2>2. /\ bundle' = [bundle EXCEPT !.retrying = ~over, !.failed = over]
          /\ fight' = IF item.waiting THEN fight ELSE "none"
          /\ item' = IF item.waiting THEN item ELSE [item EXCEPT !.waiting = Live, !.failed = setup.file]
        BY <2>1 DEF FightFailure
    <2>3. over \in BOOLEAN /\ (setup.file /\ ~item.waiting => over)
        OBVIOUS
    <2> HIDE DEF affected, over
    <2> QED BY <2>2, <2>3 DEF Failed
<1>2. CASE ~(pose # "none" /\ PoseFailed) /\ pose = "none" /\ bundle.retrying /\ age["retry"] >= 1
    <2>1. FightResumed
        BY <1>2 DEF ServicesTick
    <2> QED BY <1>2, <2>1 DEF FightResumed, Resumed
<1>3. CASE ~(pose # "none" /\ PoseFailed) /\ ~(pose = "none" /\ bundle.retrying /\ age["retry"] >= 1)
    BY <1>3 DEF ServicesTick
<1> QED BY <1>1, <1>2, <1>3

LEMMA WorldHappens == World => Happens
<1> USE DEF Happens, AliveStates, parentVars
<1>1. ASSUME NEW how \in {"hung", "dead"}, Breaks(how) PROVE Happens
    BY <1>1 DEF Breaks
<1>2. ASSUME SourceGoes \/ SourceOpens \/ FileEnds \/ FirstFrame PROVE Happens
    BY <1>2 DEF SourceGoes, SourceOpens, FileEnds, FirstFrame
<1>3. ASSUME FightAsks PROVE Happens
    <2>1. fight = "run" /\ fight' \in {"wait", "queued"} /\ pose' # "none" /\ UNCHANGED <<setup, item, bundle>>
        BY <1>3 DEF FightAsks
    <2> QED BY <2>1
<1>4. ASSUME PoseAnswers PROVE Happens
    <2>1. fight' = (IF fight \in {"wait", "queued"} THEN "run" ELSE fight) /\ pose' = "idle"
          /\ UNCHANGED <<setup, item, bundle>>
        BY <1>4 DEF PoseAnswers
    <2> QED BY <2>1
<1>5. ASSUME Drains PROVE Happens
    BY <1>5 DEF Drains
<1> QED BY <1>1, <1>2, <1>3, <1>4, <1>5 DEF World, Awaited

\* A step is one of the parent's handlers, or something that happens.
Managed ==
    \/ Happens /\ (step' = step \/ step' \notin Loop \/ ~bundle.failed)
    \/ UNCHANGED bundle /\ Handled /\ UNCHANGED pose /\ step \in Loop \ {"afterServices"}
    \/ (Failed \/ Resumed) /\ step = "services" /\ step' = "afterServices"

LEMMA ManagedSteps ==
    RecordInv /\ [MainNext]_runtimeVars => setup' = setup /\ Managed
<1> SUFFICES ASSUME RecordInv, [MainNext]_runtimeVars PROVE setup' = setup /\ Managed
    OBVIOUS
<1> USE DEF Managed
<1>1. CASE Between /\ UNCHANGED mainVars
    <2>1. Happens /\ step' = step
        BY <1>1, WorldHappens DEF Between, mainVars
    <2> QED BY <2>1 DEF Happens
<1>2. CASE Clock /\ UNCHANGED mainVars
    <2>1. UNCHANGED <<setup, item, bundle, fight, pose, step>>
        BY <1>2 DEF Clock, Pass, worldVars, parentVars, mainVars
    <2> QED BY <2>1 DEF Happens
<1>3. CASE Services
    <2>1. step = "services" /\ step' = "afterServices" /\ step \in Loop \ {"afterServices"}
        BY <1>3 DEF Services, Step, Loop
    <2>2. CASE stop
        <3>1. UNCHANGED <<setup, item, bundle, fight, pose>>
            BY <1>3, <2>2 DEF Services, healthVars, worldVars, parentVars
        <3> QED BY <2>1, <3>1 DEF Handled, Kept
    <2>3. CASE ~stop
        <3>1. ServicesTick
            BY <1>3, <2>3 DEF Services
        <3>2. setup' = setup /\ (Failed \/ Resumed \/ UNCHANGED <<fight, item, bundle, pose>>)
            BY <3>1, ServicesHandle
        <3> QED BY <2>1, <3>2 DEF Handled, Kept
    <2> QED BY <2>2, <2>3
<1>4. CASE Retries
    <2>1. step \in Loop \ {"afterServices"}
        BY <1>4 DEF Retries, Step, Loop
    <2>2. CASE stop
        <3>1. UNCHANGED <<setup, item, bundle, fight, pose>>
            BY <1>4, <2>2 DEF Retries, healthVars, worldVars, parentVars
        <3> QED BY <2>1, <3>1 DEF Handled, Kept
    <2>3. CASE ~stop
        <3>1. PollRetries
            BY <1>4, <2>3 DEF Retries
        <3>2. UNCHANGED <<setup, bundle, pose>> /\ (RestartFight \/ UNCHANGED <<fight, item>>)
            BY <3>1 DEF PollRetries
        <3> QED BY <2>1, <3>2, RestartFightHandles DEF Handled, Kept
    <2> QED BY <2>2, <2>3
<1>5. CASE Polls
    <2>1. step \in Loop \ {"afterServices"}
        BY <1>5 DEF Polls, Step, Loop
    <2>2. CASE stop
        <3>1. UNCHANGED <<setup, item, bundle, fight, pose>>
            BY <1>5, <2>2 DEF Polls, healthVars, worldVars, parentVars
        <3> QED BY <2>1, <3>1 DEF Handled, Kept
    <2>3. CASE ~stop
        <3>1. Poll
            BY <1>5, <2>3 DEF Polls
        <3>2. UNCHANGED <<setup, bundle, pose>>
            BY <3>1 DEF Poll
        <3> QED BY <2>1, <3>1, <3>2, PollHandles
    <2> QED BY <2>2, <2>3
<1>6. CASE Judges
    <2>1. step \in Loop \ {"afterServices"}
        BY <1>6 DEF Judges, Loop
    <2>2. CASE UNCHANGED healthVars
        <3>1. UNCHANGED <<setup, item, bundle, fight, pose>>
            BY <2>2 DEF healthVars, worldVars, parentVars
        <3> QED BY <2>1, <3>1 DEF Handled, Kept
    <2>3. CASE Judge
        <3>1. UNCHANGED <<setup, bundle, pose>>
            BY <2>3 DEF Judge
        <3> QED BY <2>1, <2>3, <3>1, JudgeHandles
    <2> QED BY <1>6, <2>2, <2>3 DEF Judges
<1>7. CASE Top \/ Observes \/ EofCheck \/ Snapshot
    <2>1. step \in Loop \ {"afterServices"} /\ UNCHANGED <<setup, item, bundle, fight, pose>>
        BY <1>7 DEF Top, Observes, Observe, EofCheck, Snapshot, Step, Loop, healthVars, worldVars, parentVars
    <2> QED BY <2>1 DEF Handled, Kept
<1>8. CASE AfterServices
    <2>1. UNCHANGED <<setup, item, bundle, fight, pose>> /\ (bundle.failed => step' = "stopAll")
        BY <1>8 DEF AfterServices, parentVars
    <2> QED BY <2>1 DEF Happens, Loop
<1>9. CASE EndActions
    <2>1. step' \notin Loop
        BY <1>9 DEF EndActions, Settles, OfflineClose, ServicesClose, IncidentEnds, SayStopped, ReporterEnds, Concludes,
            StopAll, Finalize, Step, Loop
    <2>2. CASE Settles \/ OfflineClose \/ ServicesClose \/ IncidentEnds \/ SayStopped \/ ReporterEnds \/ Concludes
        <3>1. UNCHANGED <<setup, item, bundle, fight, pose>>
            BY <2>2 DEF Settles, OfflineClose, ServicesClose, IncidentEnds, SayStopped, ReporterEnds, Concludes,
                healthVars, worldVars, parentVars
        <3> QED BY <2>1, <3>1 DEF Happens
    <2>3. CASE StopAll
        <3>1. fight' = "gone" /\ UNCHANGED <<setup, item, bundle, pose>>
            BY <2>3 DEF StopAll, parentVars
        <3> QED BY <2>1, <3>1 DEF Happens, AliveStates
    <2>4. CASE Finalize
        <3>1. pose' = "gone" /\ UNCHANGED <<setup, item, bundle, fight>>
            BY <2>4 DEF Finalize, parentVars
        <3> QED BY <2>1, <3>1 DEF Happens
    <2> QED BY <1>9, <2>2, <2>3, <2>4 DEF EndActions
<1>10. CASE Workers \/ Signal \/ Candidate \/ IncidentFails \/ WorkerBreaks \/ UNCHANGED runtimeVars
    <2>1. UNCHANGED <<step, setup, item, bundle, fight, pose>>
        BY <1>10 DEF Workers, Stage3Takes, Stage3Gives, Stage3Drops, Stage3Leaves, IncidentTakes, IncidentDrops, IncidentLeaves, Row, ReporterWrites,
            Signal, Candidate, IncidentFails, WorkerBreaks, runtimeVars, mainVars, healthVars, worldVars, parentVars
    <2> QED BY <2>1 DEF Happens
<1> QED BY <1>1, <1>2, <1>3, <1>4, <1>5, <1>6, <1>7, <1>8, <1>9, <1>10, NextSteps DEF LoopActions

-----------------------------------------------------------------------------
LEMMA ItemHandled ==
    ASSUME RecordInv, Handled
    PROVE  /\ item' \in [failed : BOOLEAN, waiting : BOOLEAN, done : BOOLEAN, state : ItemStates, restarts : Nat]
           /\ setup.file /\ FileInv =>
                 /\ ~item'.waiting
                 /\ item'.failed => fight' \in {"none", "gone"}
                 /\ item'.done => fight' \notin AliveStates
<1>1. /\ item \in [failed : BOOLEAN, waiting : BOOLEAN, done : BOOLEAN, state : ItemStates, restarts : Nat]
      /\ bundle.retrying \in BOOLEAN
    BY DEF RecordInv
<1>2. setup.file /\ FileInv =>
          /\ ~item.waiting /\ ~bundle.retrying
          /\ item.failed => fight \in {"none", "gone"}
          /\ item.done => fight \notin AliveStates
    BY DEF FileInv
<1>3. "none" \notin AliveStates /\ "gone" \notin AliveStates
    BY DEF AliveStates
<1>4. CASE Kept
    BY <1>1, <1>2, <1>4 DEF Kept
<1>5. CASE Withdrawn
    BY <1>1, <1>2, <1>3, <1>5 DEF Withdrawn
<1>6. CASE Respawned
    <2>1. PICK restarts \in Nat : item' = [item EXCEPT !.failed = FALSE, !.restarts = restarts]
        BY <1>6 DEF Respawned
    <2> QED BY <1>1, <1>6, <2>1 DEF Respawned
<1>7. CASE Renewed
    <2>1. item' = [failed |-> FALSE, waiting |-> bundle.retrying, done |-> FALSE, state |-> "ONLINE", restarts |-> 0]
        BY <1>7 DEF Renewed
    <2>2. "ONLINE" \in ItemStates
        BY DEF ItemStates
    <2> QED BY <1>1, <1>2, <2>1, <2>2
<1>8. CASE Over
    <2>1. "RECONNECTING" \in ItemStates /\ "FAILED" \in ItemStates /\ "STOPPED" \in ItemStates
        BY DEF ItemStates
    <2>2. fight' = fight
        BY <1>8 DEF Over
    <2>3. CASE \E state \in ItemStates : item' = [item EXCEPT !.state = state]
        BY <1>1, <1>2, <2>2, <2>3
    <2>4. CASE item' = [item EXCEPT !.done = TRUE, !.state = "FAILED"] /\ item.failed
        BY <1>1, <1>2, <1>3, <2>1, <2>2, <2>4
    <2>5. CASE item' = [item EXCEPT !.done = TRUE, !.state = "STOPPED"] /\ fight \notin AliveStates
        BY <1>1, <1>2, <2>1, <2>2, <2>5
    <2> QED BY <1>8, <2>1, <2>3, <2>4, <2>5 DEF Over
<1> QED BY <1>4, <1>5, <1>6, <1>7, <1>8 DEF Handled

LEMMA RecordStepMain == RecordInv /\ [MainNext]_runtimeVars => RecordInv'
<1> SUFFICES ASSUME RecordInv, [MainNext]_runtimeVars PROVE RecordInv'
    OBVIOUS
<1>1. setup' = setup /\ Managed
    BY ManagedSteps
<1>2. setup \in Setups /\ setup.file \in BOOLEAN
    BY HealthAssumption DEF RecordInv
<1>3. stage3' \in [at : WorkerStates, job : BOOLEAN]
    <2>0. stage3 \in [at : WorkerStates, job : BOOLEAN]
        BY DEF RecordInv
    <2>1. CASE LoopActions
        BY <2>0, <2>1, LoopSteps DEF InLoop, workerVars
    <2>2. CASE Finalize
        <3>1. stage3' = stage3 \/ stage3' = [at |-> "killed", job |-> FALSE]
            BY <2>2 DEF Finalize
        <3>2. [at |-> "killed", job |-> FALSE] \in [at : WorkerStates, job : BOOLEAN]
            BY DEF WorkerStates
        <3> QED BY <2>0, <3>1, <3>2
    <2>3. CASE EndActions /\ ~Finalize
        <3>1. stage3' = stage3
            BY <2>3 DEF EndActions, Settles, OfflineClose, ServicesClose, IncidentEnds, SayStopped, ReporterEnds,
                Concludes, StopAll, workerVars
        <3> QED BY <2>0, <3>1
    <2>4. CASE Workers \/ Signal \/ Candidate \/ IncidentFails \/ WorkerBreaks \/ UNCHANGED runtimeVars
        <3>1. \/ stage3' = stage3 \/ stage3' = [stage3 EXCEPT !.job = TRUE] \/ stage3' = [stage3 EXCEPT !.job = FALSE]
              \/ stage3' = [stage3 EXCEPT !.at = "left"] \/ stage3' = [at |-> "hung", job |-> stage3.job]
            BY <2>4 DEF Workers, Stage3Takes, Stage3Gives, Stage3Drops, Stage3Leaves, IncidentTakes, IncidentDrops, IncidentLeaves, Row,
                ReporterWrites, Signal, Candidate, IncidentFails, WorkerBreaks, runtimeVars, mainVars, workerVars
        <3>2. [at |-> "hung", job |-> stage3.job] \in [at : WorkerStates, job : BOOLEAN]
            BY <2>0 DEF WorkerStates
        <3>3. /\ [stage3 EXCEPT !.job = TRUE] \in [at : WorkerStates, job : BOOLEAN]
              /\ [stage3 EXCEPT !.job = FALSE] \in [at : WorkerStates, job : BOOLEAN]
            BY <2>0
        <3>4. [stage3 EXCEPT !.at = "left"] \in [at : WorkerStates, job : BOOLEAN]
            BY <2>0 DEF WorkerStates
        <3> QED BY <2>0, <3>1, <3>2, <3>3, <3>4
    <2> QED BY <2>1, <2>2, <2>3, <2>4, NextSteps
<1>4. item \in [failed : BOOLEAN, waiting : BOOLEAN, done : BOOLEAN, state : ItemStates, restarts : Nat]
      /\ bundle \in [attempts : Nat, retrying : BOOLEAN, failed : BOOLEAN]
    BY DEF RecordInv
<1>5. item' \in [failed : BOOLEAN, waiting : BOOLEAN, done : BOOLEAN, state : ItemStates, restarts : Nat]
    <2>1. CASE Happens
        BY <1>4, <2>1 DEF Happens
    <2>2. CASE Handled
        BY <2>2, ItemHandled
    <2>3. CASE Failed
        <3>1. Live \in BOOLEAN
            BY <1>2 DEF Live
        <3> QED BY <1>2, <1>4, <2>3, <3>1 DEF Failed
    <2>4. CASE Resumed
        BY <1>4, <2>4 DEF Resumed
    <2> QED BY <1>1, <2>1, <2>2, <2>3, <2>4 DEF Managed
<1>6. bundle' \in [attempts : Nat, retrying : BOOLEAN, failed : BOOLEAN]
    <2>1. CASE Happens \/ UNCHANGED bundle
        BY <1>4, <2>1 DEF Happens
    <2>2. CASE Failed
        <3>1. PICK over \in BOOLEAN : bundle' = [bundle EXCEPT !.retrying = ~over, !.failed = over]
            BY <2>2 DEF Failed
        <3> QED BY <1>4, <3>1
    <2>3. CASE Resumed
        <3>1. bundle' = [bundle EXCEPT !.attempts = bundle.attempts + 1, !.retrying = FALSE]
            BY <2>3 DEF Resumed
        <3>2. bundle.attempts + 1 \in Nat
            BY <1>4
        <3> QED BY <1>4, <3>1, <3>2
    <2> QED BY <1>1, <2>1, <2>2, <2>3 DEF Managed
<1> QED BY <1>1, <1>2, <1>3, <1>5, <1>6 DEF RecordInv

LEMMA FileStep == RecordInv /\ FileInv /\ [MainNext]_runtimeVars => FileInv'
<1> SUFFICES ASSUME RecordInv, FileInv, [MainNext]_runtimeVars, setup'.file PROVE FileInv'
    BY DEF FileInv
<1>1. setup' = setup /\ setup.file /\ Managed
    BY ManagedSteps
<1>2. /\ ~item.waiting /\ ~bundle.retrying
      /\ item.failed => fight \in {"none", "gone"}
      /\ item.done => fight \notin AliveStates
      /\ pose = "none" => bundle.failed
    BY <1>1 DEF FileInv
<1>3. CASE Happens
    BY <1>2, <1>3 DEF Happens, FileInv
<1>4. CASE UNCHANGED bundle /\ Handled /\ UNCHANGED pose
    BY <1>1, <1>2, <1>4, ItemHandled DEF FileInv
<1>5. CASE Failed
    <2>1. /\ item \in [failed : BOOLEAN, waiting : BOOLEAN, done : BOOLEAN, state : ItemStates, restarts : Nat]
          /\ bundle \in [attempts : Nat, retrying : BOOLEAN, failed : BOOLEAN]
        BY DEF RecordInv
    <2>2. /\ fight' = "none" /\ item' = [item EXCEPT !.waiting = Live, !.failed = setup.file]
          /\ bundle' = [bundle EXCEPT !.retrying = FALSE, !.failed = TRUE]
        BY <1>1, <1>2, <1>5 DEF Failed
    <2>3. ~Live /\ "none" \notin AliveStates
        BY <1>1 DEF Live, AliveStates
    <2> QED BY <2>1, <2>2, <2>3 DEF FileInv
<1>6. CASE Resumed
    BY <1>2, <1>6 DEF Resumed
<1> QED BY <1>1, <1>3, <1>4, <1>5, <1>6 DEF Managed

LEMMA GivenUpStep == RecordInv /\ GivenUpInv /\ [MainNext]_runtimeVars => GivenUpInv'
<1> SUFFICES ASSUME RecordInv, GivenUpInv, [MainNext]_runtimeVars PROVE GivenUpInv'
    OBVIOUS
<1>1. Managed
    BY ManagedSteps
<1> QED BY <1>1 DEF Managed, Happens, GivenUpInv

-----------------------------------------------------------------------------
\* The end of a file run is only seen with Stage3 empty, and stays so.
LEMMA EofStep ==
    ExitInv /\ [MainNext]_runtimeVars => EofInv'
<1> SUFFICES ASSUME ExitInv, [MainNext]_runtimeVars PROVE EofInv'
    OBVIOUS
<1>0. RecordInv /\ FileInv /\ GivenUpInv /\ FlowInv /\ EofInv /\ FlowInv'
    BY FlowStep DEF ExitInv
<1>1. setup' = setup
    BY <1>0, ManagedSteps
<1>2. CASE step \in Loop
    <2>1. cause # "eof"
        BY <1>0, <1>2 DEF EofInv
    <2>2. CASE EofCheck /\ cause' = "eof"
        <3>1. /\ step = "eof" /\ step' = "settle" /\ setup.file /\ item.done /\ (Drained \/ pose = "none")
              /\ UNCHANGED <<healthVars, flowVars, workerVars>>
            BY <2>1, <2>2 DEF EofCheck
        <3>2. pose # "none"
            BY <1>0, <1>2, <3>1 DEF FileInv, GivenUpInv
        <3>3. stage3Q = 0 /\ ~stage3.job
            BY <3>1, <3>2 DEF Drained
        <3>4. fight \notin AliveStates
            BY <1>0, <3>1 DEF FileInv
        <3>5. fight' = fight /\ stage3' = stage3 /\ stage3Q' = stage3Q
            BY <3>1 DEF healthVars, worldVars, flowVars, workerVars
        <3> QED BY <1>1, <3>1, <3>3, <3>4, <3>5 DEF EofInv, Loop
    <2>3. CASE LoopActions /\ ~EofCheck
        <3>1. cause' # "eof"
            BY <2>1, <2>3 DEF LoopActions, mainVars, runVars, Top, Services, AfterServices, Retries, Polls, Observes,
                Judges, Snapshot, Quits
        <3> QED BY <3>1 DEF EofInv
    <2>4. CASE Workers \/ Signal \/ Candidate \/ IncidentFails \/ WorkerBreaks \/ UNCHANGED runtimeVars
        <3>1. cause' \in {cause, "signal"}
            BY <2>4 DEF Workers, Stage3Takes, Stage3Gives, Stage3Drops, Stage3Leaves, IncidentTakes, IncidentDrops, IncidentLeaves, Row, ReporterWrites,
                Signal, Candidate, IncidentFails, WorkerBreaks, runtimeVars, mainVars, runVars
        <3> QED BY <2>1, <3>1 DEF EofInv
    <2>5. CASE EndActions
        BY <1>2, <2>5 DEF EndActions, Settles, OfflineClose, ServicesClose, IncidentEnds, SayStopped, ReporterEnds,
            Concludes, StopAll, Finalize, Step, Loop
    <2> QED BY <2>2, <2>3, <2>4, <2>5, NextSteps DEF EofInv
<1>3. CASE step \notin Loop
    <2>1. CASE cause' # "eof"
        BY <2>1 DEF EofInv
    <2>2. CASE cause' = "eof"
        <3>1. ~LoopActions
            BY <1>3, LoopSteps DEF InLoop
        <3>2. cause = "eof"
            BY <1>3, <2>2, <3>1, NextSteps DEF EndActions, Settles, OfflineClose, ServicesClose, IncidentEnds, SayStopped,
                ReporterEnds, Concludes, StopAll, Finalize, Workers, Stage3Takes, Stage3Gives, Stage3Drops, Stage3Leaves, IncidentTakes,
                IncidentDrops, IncidentLeaves, Row, ReporterWrites, Signal, Candidate, IncidentFails, WorkerBreaks, runtimeVars, mainVars, runVars
        <3>3. /\ setup.file /\ fight \notin AliveStates /\ stage3Q = 0 /\ ~stage3.job
              /\ step # "settle" => incidentQ = 0 /\ made = filed + dropped
            BY <1>0, <3>2 DEF EofInv
        <3>4. "run" \in AliveStates /\ "gone" \notin AliveStates
            BY DEF AliveStates
        <3>5. CASE Signal \/ Candidate \/ IncidentFails \/ WorkerBreaks \/ UNCHANGED runtimeVars
            <4>1. ~Candidate
                BY <3>3, <3>4 DEF Candidate
            <4>5. ASSUME IncidentFails
                  PROVE  /\ UNCHANGED <<step, fight, made, stage3Q, stage3, filed>>
                         /\ step = "settle"
                <5>1. incidentQ > 0
                    BY <4>5 DEF IncidentFails
                <5> QED BY <3>3, <4>5, <5>1 DEF IncidentFails
            <4>2. ASSUME Signal \/ UNCHANGED runtimeVars
                  PROVE  UNCHANGED <<step, fight, flowVars>> /\ stage3'.job = stage3.job
                BY <4>2 DEF Signal, runtimeVars, mainVars, healthVars, worldVars, workerVars
            <4>3. ASSUME WorkerBreaks
                  PROVE  UNCHANGED <<step, fight, flowVars>> /\ stage3'.job = stage3.job
                BY <4>3 DEF WorkerBreaks
            <4>4. \/ UNCHANGED <<step, fight, flowVars>> /\ stage3'.job = stage3.job
                  \/ UNCHANGED <<step, fight, stage3Q, stage3>> /\ step = "settle"
                BY <3>5, <4>1, <4>2, <4>3, <4>5
            <4> QED BY <1>1, <1>3, <3>3, <4>4 DEF EofInv, flowVars
        <3>6. CASE Workers
            <4>1. UNCHANGED <<step, made, fight, stage3Q>> /\ stage3'.job = stage3.job
                BY <1>0, <3>3, <3>6 DEF Workers, Stage3Takes, Stage3Gives, Stage3Drops, Stage3Leaves, IncidentTakes, IncidentDrops, IncidentLeaves, Row,
                    ReporterWrites, flowVars, workerVars, healthVars, worldVars, RecordInv, FlowInv
            <4>2. step # "settle" => UNCHANGED <<incidentQ, filed, dropped>>
                BY <1>0, <3>3, <3>6 DEF Workers, Stage3Takes, Stage3Gives, Stage3Drops, Stage3Leaves, IncidentTakes, IncidentDrops, IncidentLeaves, Row,
                    ReporterWrites, flowVars, FlowInv
            <4> QED BY <1>1, <1>3, <3>3, <4>1, <4>2 DEF EofInv
        <3>7. CASE Settles
            <4>1. step = "settle" /\ step' = "stopAll" /\ stage3Q + incidentQ = 0
                  /\ UNCHANGED <<fight, stage3, flowVars>>
                BY <2>2, <3>7 DEF Settles, Step, workerVars
            <4>2. incidentQ = 0 /\ made = filed + dropped
                <5>1. made = stage3Q + InWork + incidentQ + filed + dropped
                    BY <1>0, <4>1 DEF FlowInv, TakenDown
                <5>2. InWork = 0
                    BY <3>3 DEF InWork
                <5> QED BY <1>0, <3>3, <4>1, <5>1, <5>2 DEF FlowInv
            <4> QED BY <1>1, <3>3, <4>1, <4>2 DEF EofInv, flowVars, Loop
        <3>8. CASE StopAll
            <4>1. fight' = "gone" /\ made' = made /\ stage3Q' = stage3Q /\ UNCHANGED <<incidentQ, filed, dropped, stage3>>
                  /\ step = "stopAll" /\ step' = "offline"
                BY <1>0, <3>3, <3>4, <3>8 DEF StopAll, Step, FlowInv
            <4> QED BY <1>1, <3>3, <3>4, <4>1 DEF EofInv, Loop
        <3>9. CASE OfflineClose \/ ServicesClose \/ IncidentEnds \/ SayStopped \/ ReporterEnds \/ Concludes \/ Finalize
            <4>1. UNCHANGED <<fight, flowVars>> /\ step # "settle" /\ step' \notin Loop
                  /\ (stage3' = stage3 \/ ~stage3'.job)
                BY <3>9 DEF OfflineClose, ServicesClose, IncidentEnds, SayStopped, ReporterEnds, Concludes, Finalize,
                    Step, Loop, workerVars, healthVars, worldVars
            <4> QED BY <1>1, <3>3, <4>1 DEF EofInv, flowVars
        <3> QED BY <3>1, <3>5, <3>6, <3>7, <3>8, <3>9, NextSteps DEF EndActions
    <2> QED BY <2>1, <2>2
<1> QED BY <1>2, <1>3

-----------------------------------------------------------------------------
LEMMA GoneStep == RecordInv /\ GoneInv /\ [MainNext]_runtimeVars => GoneInv'
<1> SUFFICES ASSUME RecordInv, GoneInv, [MainNext]_runtimeVars PROVE GoneInv'
    OBVIOUS
<1> USE DEF GoneInv, TakenDown
<1>1. CASE LoopActions
    BY <1>1, LoopSteps DEF InLoop, Loop
<1>2. CASE Settles \/ StopAll \/ OfflineClose \/ ServicesClose \/ Finalize
    <2>1. CASE Settles
        BY <2>1 DEF Settles, Step
    <2>2. CASE StopAll
        BY <2>2 DEF StopAll, Step
    <2>3. CASE OfflineClose
        BY <2>3 DEF OfflineClose, Step
    <2>4. CASE ServicesClose
        BY <2>4 DEF ServicesClose, Step, healthVars, worldVars
    <2>5. CASE Finalize
        <3>1. /\ step = "finalize" /\ step' = "incident" /\ pose' = "gone"
              /\ UNCHANGED <<ingest, fight, preview>>
              /\ stage3'.at \in {"left", "killed"}
            BY <2>5 DEF Finalize, Step
        <3> QED BY <3>1
    <2> QED BY <1>2, <2>1, <2>2, <2>3, <2>4, <2>5
<1>3. CASE IncidentEnds \/ SayStopped \/ ReporterEnds \/ Concludes
    <2>1. UNCHANGED <<ingest, fight, preview, pose, stage3>>
        BY <1>3 DEF IncidentEnds, SayStopped, ReporterEnds, Concludes, healthVars, worldVars, workerVars
    <2>2. CASE IncidentEnds
        BY <2>1, <2>2 DEF IncidentEnds, Step
    <2>3. CASE SayStopped
        BY <2>1, <2>3 DEF SayStopped, Step
    <2>4. CASE ReporterEnds
        BY <2>1, <2>4 DEF ReporterEnds, Step
    <2>5. CASE Concludes
        BY <2>1, <2>5 DEF Concludes, Step, workerVars
    <2> QED BY <1>3, <2>2, <2>3, <2>4, <2>5
<1>4. CASE Workers \/ Signal \/ Candidate \/ IncidentFails \/ WorkerBreaks \/ UNCHANGED runtimeVars
    <2>1. UNCHANGED <<step, ingest, fight, preview, pose>>
        BY <1>4 DEF Workers, Stage3Takes, Stage3Gives, Stage3Drops, Stage3Leaves, IncidentTakes, IncidentDrops, IncidentLeaves, Row, ReporterWrites,
            Signal, Candidate, IncidentFails, WorkerBreaks, runtimeVars, mainVars, healthVars, worldVars
    <2>2. stage3.at \in {"left", "killed"} => stage3'.at = stage3.at
        <3>1. stage3 \in [at : WorkerStates, job : BOOLEAN]
            BY DEF RecordInv
        <3>2. stage3.at = "run" \/ stage3' = stage3
            BY <1>4 DEF Workers, Stage3Takes, Stage3Gives, Stage3Drops, Stage3Leaves, IncidentTakes, IncidentDrops, IncidentLeaves, Row, ReporterWrites,
                Signal, Candidate, IncidentFails, WorkerBreaks, runtimeVars, mainVars, workerVars
        <3> QED BY <3>1, <3>2
    <2>3. incident \in {"left", "killed"} => incident' = incident
        BY <1>4 DEF Workers, Stage3Takes, Stage3Gives, Stage3Drops, Stage3Leaves, IncidentTakes, IncidentDrops, IncidentLeaves, Row, ReporterWrites,
            Signal, Candidate, IncidentFails, WorkerBreaks, runtimeVars, mainVars, workerVars
    <2>4. reporter \in {"left", "killed"} => reporter' = reporter
        BY <1>4 DEF Workers, Stage3Takes, Stage3Gives, Stage3Drops, Stage3Leaves, IncidentTakes, IncidentDrops, IncidentLeaves, Row, ReporterWrites,
            Signal, Candidate, IncidentFails, WorkerBreaks, runtimeVars, mainVars, workerVars
    <2> QED BY <2>1, <2>2, <2>3, <2>4
<1> QED BY <1>1, <1>2, <1>3, <1>4, NextSteps DEF EndActions

-----------------------------------------------------------------------------
\* Nothing is put, and nobody leaves.
Unsaid ==
    /\ UNCHANGED <<rows, written, dropped>>
    /\ step \in LastPlaces <=> step' \in LastPlaces
    /\ stage3'.at = "left" => stage3.at = "left"
    /\ incident' = "left" => incident = "left"
    /\ reporter' = "left" => reporter = "left"

LEMMA UnsaidKeeps == RowsInv /\ Unsaid => RowsInv'
<1> SUFFICES ASSUME RowsInv, Unsaid PROVE RowsInv'
    OBVIOUS
<1>1. \A p : Said(p) => Said(p)'
    BY DEF Said, Queued, Unsaid
<1>2. LastOnly'
    BY DEF RowsInv, LastOnly, Unsaid
<1>3. rows' \in Seq(RowKinds) /\ (reporter' = "left" => rows' = <<>> /\ step' \in LastPlaces)
    BY DEF RowsInv, Unsaid
<1> QED BY <1>1, <1>2, <1>3 DEF RowsInv, Unsaid

\* A row that is put is said, and takes nothing back.
LEMMA PutSays ==
    ASSUME RowsInv, NEW p \in RowKinds, Row(p), written' = written
    PROVE  /\ rows' \in Seq(RowKinds) /\ Said(p)'
           /\ \A q : Said(q) => Said(q)'
           /\ \A i \in 1 .. Len(rows') : rows'[i] = p \/ (i \in 1 .. Len(rows) /\ rows'[i] = rows[i])
<1>1. rows \in Seq(RowKinds) /\ rows' = Append(rows, p)
    BY DEF RowsInv, Row
<1>2. /\ rows' \in Seq(RowKinds) /\ Len(rows') = Len(rows) + 1 /\ Len(rows) \in Nat
      /\ rows'[Len(rows) + 1] = p
      /\ \A i \in 1 .. Len(rows) : rows'[i] = rows[i]
    BY <1>1, AppendProperties, LenProperties
<1>3. Said(p)'
    BY <1>2 DEF Said, Queued
<1>4. \A q : Said(q) => Said(q)'
    BY <1>2 DEF Said, Queued
<1> QED BY <1>2, <1>3, <1>4

LEMMA RowsStep == RecordInv /\ GoneInv /\ RowsInv /\ [MainNext]_runtimeVars => RowsInv'
<1> SUFFICES ASSUME RecordInv, GoneInv, RowsInv, [MainNext]_runtimeVars PROVE RowsInv'
    OBVIOUS
<1>0. stage3 \in [at : WorkerStates, job : BOOLEAN]
    BY DEF RecordInv
<1>1. CASE LoopActions
    <2>1. Unsaid
        BY <1>1, LoopSteps DEF InLoop, Loop, LastPlaces, flowVars, workerVars, Unsaid
    <2> QED BY <2>1, UnsaidKeeps
<1>2. CASE EndActions /\ ~SayStopped
    <2>1. Unsaid
        BY <1>2 DEF EndActions, Settles, StopAll, OfflineClose, ServicesClose, Finalize, IncidentEnds, ReporterEnds,
            Concludes, Step, LastPlaces, flowVars, workerVars, Unsaid
    <2> QED BY <2>1, UnsaidKeeps
<1>3. CASE Signal \/ Candidate \/ WorkerBreaks \/ UNCHANGED runtimeVars
    <2>1. Unsaid
        BY <1>3 DEF Signal, Candidate, WorkerBreaks, runtimeVars, mainVars, flowVars, workerVars, Unsaid
    <2> QED BY <2>1, UnsaidKeeps
<1>4. CASE Stage3Takes \/ Stage3Gives \/ IncidentTakes
    <2>1. Unsaid
        BY <1>0, <1>4 DEF Stage3Takes, Stage3Gives, IncidentTakes, workerVars, Unsaid
    <2> QED BY <2>1, UnsaidKeeps
<1>5. ASSUME NEW p \in RowKinds \ {"sentinel"}, Row(p), UNCHANGED <<step, written, reporter>>, step \notin LastPlaces,
             stage3'.at = "left" => stage3.at = "left" \/ p = "stage3",
             incident' = "left" => incident = "left" \/ p = "incident",
             dropped' = dropped \/ p = "forgone"
      PROVE  RowsInv'
    <2>1. /\ rows' \in Seq(RowKinds) /\ Said(p)'
          /\ \A q : Said(q) => Said(q)'
          /\ \A i \in 1 .. Len(rows') : rows'[i] = p \/ (i \in 1 .. Len(rows) /\ rows'[i] = rows[i])
        BY <1>5, PutSays
    <2>2. LastOnly'
        BY <1>5, <2>1 DEF RowsInv, LastOnly
    <2>3. reporter' # "left"
        BY <1>5 DEF RowsInv
    <2> QED BY <1>5, <2>1, <2>2, <2>3 DEF RowsInv
<1>6. CASE Stage3Leaves
    <2>1. step \notin LastPlaces
        BY <1>6 DEF Stage3Leaves, GoneInv, LastPlaces, TakenDown
    <2>2. Row("stage3") /\ UNCHANGED <<step, written, reporter, incident, dropped>>
        BY <1>6 DEF Stage3Leaves, flowVars
    <2> QED BY <1>5, <2>1, <2>2 DEF RowKinds
<1>7. CASE IncidentLeaves
    <2>1. step \notin LastPlaces
        BY <1>7 DEF IncidentLeaves, GoneInv, LastPlaces
    <2>2. Row("incident") /\ UNCHANGED <<step, written, reporter, stage3, dropped>>
        BY <1>7 DEF IncidentLeaves, flowVars
    <2> QED BY <1>5, <2>1, <2>2 DEF RowKinds
<1>8. CASE ReporterWrites
    <2>1. /\ rows # <<>> /\ rows' = Tail(rows) /\ UNCHANGED <<step, stage3, incident, dropped>> /\ reporter = "run"
          /\ \/ Head(rows) = "sentinel" /\ reporter' = "left" /\ written' = written
             \/ Head(rows) # "sentinel" /\ written' = written \cup {Head(rows)} /\ reporter' = reporter
        BY <1>8 DEF ReporterWrites, flowVars
    <2>2. rows \in Seq(RowKinds)
        BY DEF RowsInv
    <2>3. /\ rows' \in Seq(RowKinds) /\ Len(rows) \in Nat /\ Len(rows) >= 1 /\ Len(rows') = Len(rows) - 1
          /\ \A i \in 1 .. Len(rows') : rows'[i] = rows[i + 1]
          /\ Head(rows) = rows[1]
        BY <2>1, <2>2, HeadTailProperties, LenProperties
    <2>4. LastOnly'
        <3> SUFFICES ASSUME NEW i \in 1 .. Len(rows'), rows'[i] = "sentinel"
                     PROVE  i = Len(rows') /\ step' \in LastPlaces
            BY DEF LastOnly
        <3>1. i + 1 \in 1 .. Len(rows) /\ rows[i + 1] = "sentinel"
            BY <2>3
        <3>2. i + 1 = Len(rows) /\ step \in LastPlaces
            BY <3>1 DEF RowsInv, LastOnly
        <3>3. i = Len(rows')
            BY <2>3, <3>2
        <3> QED BY <2>1, <3>2, <3>3
    <2>5. \A q : q # "sentinel" /\ Said(q) => Said(q)'
        <3> SUFFICES ASSUME NEW q, q # "sentinel", Said(q) PROVE Said(q)'
            OBVIOUS
        <3>1. CASE q \in written
            BY <2>1, <3>1 DEF Said
        <3>2. CASE q \notin written
            <4>1. PICK i \in 1 .. Len(rows) : rows[i] = q
                BY <3>2 DEF Said, Queued
            <4>2. CASE i = 1
                BY <2>1, <2>3, <4>1, <4>2 DEF Said
            <4>3. CASE i # 1
                <5>1. i - 1 \in 1 .. Len(rows') /\ rows'[i - 1] = q
                    BY <2>3, <4>1, <4>3
                <5> QED BY <5>1 DEF Said, Queued
            <4> QED BY <4>2, <4>3
        <3> QED BY <3>1, <3>2
    <2>6. reporter' = "left" => rows' = <<>> /\ step' \in LastPlaces
        <3> SUFFICES ASSUME reporter' = "left" PROVE rows' = <<>> /\ step' \in LastPlaces
            OBVIOUS
        <3>1. rows[1] = "sentinel" /\ 1 \in 1 .. Len(rows)
            BY <2>1, <2>3
        <3>2. Len(rows) = 1 /\ step \in LastPlaces
            BY <3>1 DEF RowsInv, LastOnly
        <3>3. Len(rows') = 0
            BY <2>3, <3>2
        <3> QED BY <2>1, <2>3, <3>2, <3>3, EmptySeq
    <2> QED BY <2>1, <2>3, <2>4, <2>5, <2>6 DEF RowsInv
<1>9. CASE SayStopped
    <2>1. /\ step = "stopped" /\ step' = "reporter" /\ rows' = rows \o LastRows
          /\ UNCHANGED <<stage3, incident, reporter, written, dropped>>
        BY <1>9 DEF SayStopped, Step, flowVars
    <2>2. /\ LastRows \in Seq(RowKinds) /\ Len(LastRows) \in 1 .. 2 /\ LastRows[1] = "stopped"
          /\ Len(LastRows) = 2 => LastRows[2] = "sentinel"
        <3>1. <<"stopped">> \in Seq(RowKinds) /\ <<"stopped", "sentinel">> \in Seq(RowKinds)
            BY DEF RowKinds
        <3>2. LastRows = <<"stopped">> \/ LastRows = <<"stopped", "sentinel">>
            BY DEF LastRows
        <3>3. Len(<<"stopped">>) = 1 /\ Len(<<"stopped", "sentinel">>) = 2
            OBVIOUS
        <3>4. <<"stopped">>[1] = "stopped" /\ <<"stopped", "sentinel">>[1] = "stopped"
              /\ <<"stopped", "sentinel">>[2] = "sentinel"
            OBVIOUS
        <3>5. 1 \in 1 .. 2 /\ 2 \in 1 .. 2 /\ 1 # 2
            OBVIOUS
        <3>6. CASE LastRows = <<"stopped">>
            BY <3>1, <3>3, <3>4, <3>5, <3>6
        <3>7. CASE LastRows = <<"stopped", "sentinel">>
            BY <3>1, <3>3, <3>4, <3>5, <3>7
        <3> QED BY <3>2, <3>6, <3>7
    <2>3. /\ rows \in Seq(RowKinds) /\ step \notin LastPlaces /\ step' \in LastPlaces
          /\ \A i \in 1 .. Len(rows) : rows[i] # "sentinel"
        BY <2>1 DEF RowsInv, LastPlaces, LastOnly
    <2> DEFINE extra == LastRows
    <2> HIDE DEF extra
    <2>4. /\ rows' \in Seq(RowKinds) /\ Len(rows) \in Nat /\ Len(rows') = Len(rows) + Len(extra)
          /\ \A i \in 1 .. Len(rows') : rows'[i] = IF i <= Len(rows) THEN rows[i] ELSE extra[i - Len(rows)]
        BY <2>1, <2>2, <2>3, ConcatProperties, LenProperties DEF extra
    <2>5. \A q : Said(q) => Said(q)'
        BY <2>1, <2>2, <2>4 DEF Said, Queued, extra
    <2>6. Said("stopped")'
        <3>1. Len(rows) + 1 \in 1 .. Len(rows') /\ rows'[Len(rows) + 1] = "stopped"
            BY <2>2, <2>4 DEF extra
        <3> QED BY <3>1 DEF Said, Queued
    <2>7. LastOnly'
        <3> SUFFICES ASSUME NEW i \in 1 .. Len(rows'), rows'[i] = "sentinel" PROVE i = Len(rows')
            BY <2>3 DEF LastOnly
        <3>1. i > Len(rows) /\ extra[i - Len(rows)] = "sentinel" /\ i - Len(rows) \in 1 .. 2
            <4>1. ~(i <= Len(rows))
                BY <2>3, <2>4
            <4>2. Len(extra) \in 1 .. 2 /\ i \in Int /\ i <= Len(rows) + Len(extra)
                BY <2>2, <2>4 DEF extra
            <4>3. extra[i - Len(rows)] = "sentinel"
                BY <2>4, <4>1
            <4> QED BY <2>4, <4>1, <4>2, <4>3
        <3>2. i - Len(rows) # 1
            BY <2>2, <3>1 DEF extra
        <3> QED BY <2>2, <2>4, <3>1, <3>2 DEF extra
    <2>8. reporter' # "left"
        BY <2>1, <2>3 DEF RowsInv
    <2> QED BY <2>1, <2>3, <2>4, <2>5, <2>6, <2>7, <2>8 DEF RowsInv
<1>10. CASE Stage3Drops
    <2>1. step \notin LastPlaces
        BY <1>10 DEF Stage3Drops, GoneInv, LastPlaces, TakenDown
    <2>2. Row("forgone") /\ UNCHANGED <<step, written, reporter, incident>> /\ stage3'.at = stage3.at
        BY <1>0, <1>10 DEF Stage3Drops
    <2> QED BY <1>5, <2>1, <2>2 DEF RowKinds
<1>11. CASE IncidentDrops
    <2>1. step \notin LastPlaces
        BY <1>11 DEF IncidentDrops, GoneInv, LastPlaces
    <2>2. Row("forgone") /\ UNCHANGED <<step, written, reporter, incident, stage3>>
        BY <1>11 DEF IncidentDrops
    <2> QED BY <1>5, <2>1, <2>2 DEF RowKinds
<1>12. CASE IncidentFails
    <2>1. step \notin LastPlaces
        BY <1>12 DEF IncidentFails, GoneInv, LastPlaces
    <2>2. /\ rows' = rows \o <<"forgone", "incident">> /\ incident' = "dead"
          /\ UNCHANGED <<step, written, reporter, stage3>>
        BY <1>12 DEF IncidentFails
    <2>3. rows \in Seq(RowKinds) /\ reporter # "left"
        BY <2>1 DEF RowsInv
    <2> DEFINE extra == <<"forgone", "incident">>
    <2>4. /\ extra \in Seq(RowKinds) /\ Len(extra) = 2 /\ extra[1] = "forgone" /\ extra[2] = "incident"
        BY DEF RowKinds
    <2> HIDE DEF extra
    <2>5. /\ rows' \in Seq(RowKinds) /\ Len(rows) \in Nat /\ Len(rows') = Len(rows) + 2
          /\ \A i \in 1 .. Len(rows') : rows'[i] = IF i <= Len(rows) THEN rows[i] ELSE extra[i - Len(rows)]
        <3>1. rows' = rows \o extra
            BY <2>2 DEF extra
        <3>2. /\ rows \o extra \in Seq(RowKinds) /\ Len(rows \o extra) = Len(rows) + Len(extra)
              /\ \A i \in 1 .. Len(rows) + Len(extra) :
                     (rows \o extra)[i] = IF i <= Len(rows) THEN rows[i] ELSE extra[i - Len(rows)]
            BY <2>3, <2>4, ConcatProperties
        <3>3. Len(rows) \in Nat
            BY <2>3, LenProperties
        <3> QED BY <2>4, <3>1, <3>2, <3>3
    <2>6. \A q : Said(q) => Said(q)'
        BY <2>2, <2>5 DEF Said, Queued
    <2>7. Said("forgone")'
        <3>1. Len(rows) + 1 \in 1 .. Len(rows') /\ rows'[Len(rows) + 1] = "forgone"
            BY <2>4, <2>5
        <3> QED BY <3>1 DEF Said, Queued
    <2>8. LastOnly'
        <3> SUFFICES ASSUME NEW i \in 1 .. Len(rows') PROVE rows'[i] # "sentinel"
            BY DEF LastOnly
        <3>1. CASE i <= Len(rows)
            <4>1. i \in 1 .. Len(rows) /\ rows'[i] = rows[i]
                BY <2>5, <3>1
            <4> QED BY <2>1, <4>1 DEF RowsInv, LastOnly
        <3>2. CASE ~(i <= Len(rows))
            <4>1. i - Len(rows) = 1 \/ i - Len(rows) = 2
                BY <2>5, <3>2
            <4> QED BY <2>4, <2>5, <3>2, <4>1
        <3> QED BY <3>1, <3>2
    <2> QED BY <2>1, <2>2, <2>3, <2>5, <2>6, <2>7, <2>8 DEF RowsInv
<1> QED BY <1>1, <1>2, <1>3, <1>4, <1>6, <1>7, <1>8, <1>9, <1>10, <1>11, <1>12, NextSteps DEF Workers

-----------------------------------------------------------------------------
LEMMA ExitInvStep == ExitInv /\ [MainNext]_runtimeVars => ExitInv'
BY RecordStepMain, FileStep, GivenUpStep, FlowStep, EofStep, GoneStep, RowsStep DEF ExitInv

LEMMA ExitInvExit == ExitInv => ExitComplete
<1> SUFFICES ASSUME ExitInv, step = "exited" PROVE EndDelivered /\ ExitIsWhole
    BY DEF ExitComplete, EndDelivered, ExitIsWhole
<1>1. ASSUME cause = "eof" PROVE made = filed + dropped /\ filed \in Nat /\ dropped \in Nat
    BY <1>1 DEF ExitInv, EofInv, FlowInv
<1>2. /\ ingest = "gone" /\ fight = "gone" /\ preview = "gone" /\ pose = "gone"
      /\ stage3.at \in {"left", "killed"} /\ incident \in {"left", "killed"} /\ reporter \in {"left", "killed"}
    BY DEF ExitInv, GoneInv, TakenDown
<1>3. ASSUME reporter = "left"
      PROVE  /\ "stopped" \in written
             /\ stage3.at = "left" => "stage3" \in written
             /\ incident = "left" => "incident" \in written
             /\ dropped > 0 => "forgone" \in written
    <2>1. rows = <<>>
        BY <1>3 DEF ExitInv, RowsInv
    <2>2. \A q : Said(q) => q \in written
        BY <2>1 DEF Said, Queued
    <2> QED BY <2>2 DEF ExitInv, RowsInv, LastPlaces
<1>4. ExitIsWhole
    BY <1>2, <1>3 DEF ExitIsWhole
<1>5. EndDelivered
    BY <1>1, <1>3 DEF EndDelivered
<1> QED BY <1>4, <1>5

\* The end of a run is whole: every event of a file is with the incidents or given up
\* and said to be, whoever left is in the report, and nobody is left behind (_run_dynamic's take-down).
THEOREM ExitCompleteHolds == MainSpec => []ExitComplete
<1>1. MainInit => ExitInv
    BY MainInitInv
<1>2. ExitInv /\ [MainNext]_runtimeVars => ExitInv'
    BY ExitInvStep
<1>3. ExitInv => ExitComplete
    BY ExitInvExit
<1> QED BY <1>1, <1>2, <1>3, PTL DEF MainSpec

-----------------------------------------------------------------------------
(************************* the watchdog and its clocks *********************)
\* What a policy must grant for a running process not to be blamed: a camera may be
\* silent for more than one unit, and an inference in time is over before either limit.
PolicyGrants ==
    /\ StallFail > 1
    /\ \A s \in Setups : s.slow < InferenceFail /\ (s.file => s.slow < StallFail)

Ages == [Clocks -> Int]
HeardStates == {"registered", "asked", "capacity_wait", "frame_consumed"}
AgeInv ==
    /\ age \in Ages /\ (\A c \in Clocks : age[c] >= Never /\ age[c] <= MaxAge)
    /\ heard \in [fight : HeardStates]
    /\ failures \in Nat /\ setup.slow \in Nat

\* Who is not there, and why.
AbsentInv ==
    /\ fileEof => setup.file
    /\ setup.file \/ outages = 0 => source \in {"opening", "up"}
    /\ outages \in Nat
    /\ item.failed \/ item.waiting => fight \in {"none", "gone"}
    /\ bundle.retrying => pose \in {"none", "gone"}

\* Between the two halves of the watchdog's tick nobody comes back.
SeenInv ==
    step = "judge" =>
        /\ ingest = "run" => seen.ingest = "run"
        /\ seen.fight \notin AliveStates => fight \notin AliveStates

\* The request in work is as old as the consumer that waits for it is silent.
RequestInv ==
    /\ pose = "busy" => age["request"] \in 0 .. setup.slow
    /\ fight = "wait" /\ pose = "busy" => heard.fight = "asked" /\ age["fightBeat"] = age["request"]

\* The ingest of a live camera that was never out has been heard of within a unit.
ReaderInv ==
    ~setup.file /\ outages = 0 /\ ingest = "run" =>
        IF source = "up" THEN age["ingestBeat"] = 0 /\ age["frame"] = 0
        ELSE age["frame"] = Never /\ age["ingestBeat"] \in 0 .. 1 /\ age["born"] = age["ingestBeat"]

\* A file nothing has gone wrong with: what may have become of its processes.
Clean == setup.file /\ failures = 0 /\ step \notin TakenDown
CleanInv ==
    Clean =>
        /\ ingest \in {"run", "drained"} /\ pose \in {"idle", "busy"}
        /\ fight \in {"run", "wait", "queued", "drained", "none"}
        /\ ingest = "drained" \/ fight = "drained" => fileEof
        /\ fileEof => source = "up"
        /\ fight = "none" => item.failed
        /\ pose = "idle" => age["request"] = Never /\ age["poseBeat"] = 0

\* What its consumer was last heard of, while the watchdog takes it for a running one.
Consuming == fight = "run" \/ (fight = "drained" /\ step = "judge" /\ seen.fight # "drained")
Lately == IF setup.slow > 1 THEN setup.slow ELSE 1
ConsumerInv ==
    Clean /\ ~item.failed =>
        /\ source = "opening" => /\ fight = "run" /\ heard.fight = "registered"
                                 /\ age["firstFrame"] = Never /\ age["fightFrame"] = Never
        /\ source = "up" => age["firstFrame"] # Never
        /\ fight = "wait" => pose = "busy" /\ age["fightFrame"] = age["request"]
        /\ fight = "queued" => heard.fight = "capacity_wait" /\ age["fightBeat"] = 0 /\ age["fightFrame"] # Never
        /\ Consuming /\ heard.fight = "capacity_wait" => age["fightBeat"] = 0 /\ age["fightFrame"] # Never
        /\ Consuming /\ heard.fight # "capacity_wait" =>
               /\ age["fightBeat"] \in 0 .. Lately /\ age["fightFrame"] \in Never .. Lately
               /\ age["fightFrame"] = Never /\ source = "up" => age["firstFrame"] = 0
CleanSeenInv ==
    Clean /\ step = "judge" =>
        /\ seen.ingest \in {"run", "drained"} /\ (seen.ingest = "drained" => fileEof)
        /\ ~item.failed => seen.fight \in AliveStates \cup {"drained"}
        /\ ~item.failed /\ seen.fight = "drained" => fight = "drained"

CauseInv ==
    /\ AgeInv /\ AbsentInv /\ SeenInv /\ RequestInv /\ ReaderInv
    /\ CleanInv /\ ConsumerInv /\ CleanSeenInv

-----------------------------------------------------------------------------
LEMMA PolicyFacts ==
    /\ StallFail \in 1 .. MaxAge /\ InferenceFail \in 1 .. MaxAge /\ StartupGrace \in 1 .. MaxAge
    /\ SharedTimeout \in 1 .. MaxAge /\ MaxAge \in Nat /\ MaxAge >= 1
BY HealthAssumption

LEMMA SetupFacts ==
    ASSUME setup \in Setups
    PROVE  setup.file \in BOOLEAN /\ setup.slow \in Nat
BY HealthAssumption

LEMMA HeardAges ==
    ASSUME AgeInv, NEW now
    PROVE  /\ Heard(now) \in Ages
           /\ \A c \in Clocks : Heard(now)[c] = IF c \in now THEN 0 ELSE age[c]
           /\ \A c \in Clocks : Heard(now)[c] >= Never /\ Heard(now)[c] <= MaxAge
<1>1. \A c \in Clocks : age[c] \in Int /\ age[c] >= Never /\ age[c] <= MaxAge
    BY DEF AgeInv, Ages
<1>2. \A c \in Clocks : Heard(now)[c] = IF c \in now THEN 0 ELSE age[c]
    BY DEF Heard
<1>3. Heard(now) \in Ages
    BY <1>1 DEF Heard, Ages
<1> QED BY <1>1, <1>2, <1>3, PolicyFacts DEF Never

LEMMA OlderAges ==
    ASSUME NEW a \in Int, a >= Never, a <= MaxAge
    PROVE  /\ Older(a) \in Int /\ Older(a) >= Never /\ Older(a) <= MaxAge
           /\ a = Never => Older(a) = Never
           /\ a >= 0 => Older(a) >= 0 /\ Older(a) <= a + 1
           /\ a = 0 => Older(a) = 1
BY PolicyFacts DEF Older, Never

-----------------------------------------------------------------------------
\* What the parent can do about a camera and its service.
Watched == {"born", "ingestBeat", "frame", "firstFrame", "fightBorn", "fightBeat", "fightFrame", "request", "poseBeat"}
Same(cs) == \A c \in cs : age'[c] = age[c]
WellAged == age' \in Ages /\ (\A c \in Clocks : age'[c] >= Never /\ age'[c] <= MaxAge)

Rests ==
    /\ UNCHANGED <<ingest, source, fight, pose, fileEof, gen, opens, heard>>
    /\ bundle'.retrying = bundle.retrying
    /\ item'.failed = item.failed /\ item'.waiting = item.waiting
    /\ Same(Watched) /\ WellAged
FightTaken ==
    /\ fight' = "none" /\ item'.failed = TRUE /\ ~item.waiting /\ item'.waiting = item.waiting
    /\ UNCHANGED <<ingest, source, pose, fileEof, gen, opens, heard, bundle>>
    /\ Same(Watched) /\ WellAged
FightNew ==
    /\ ~setup.file
    /\ fight' = "run" /\ item'.failed = FALSE /\ item'.waiting = FALSE
    /\ heard' = [fight |-> "registered"]
    /\ UNCHANGED <<ingest, source, pose, fileEof, gen, opens, bundle>>
    /\ Same(Watched \ {"fightBeat", "fightBorn", "fightFrame"}) /\ WellAged
CameraNew ==
    /\ ingest' = "run" /\ fileEof' = FALSE /\ source' = (IF source = "down" THEN "down" ELSE "opening")
    /\ fight' = (IF bundle.retrying THEN "none" ELSE "run")
    /\ heard' = [fight |-> "registered"] /\ UNCHANGED <<pose, bundle>>
    /\ item'.failed = FALSE /\ item'.waiting = bundle.retrying
    /\ age'["ingestBeat"] = 0 /\ age'["fightBeat"] = 0 /\ age'["born"] = 0
    /\ age'["frame"] = Never /\ age'["firstFrame"] = Never /\ age'["fightFrame"] = Never
    /\ Same({"request", "poseBeat"}) /\ WellAged
BundleFails ==
    /\ PoseFailed /\ pose' = "none"
    /\ fight' = IF item.waiting THEN fight ELSE "none"
    /\ IF item.waiting THEN item' = item
       ELSE item'.waiting = Live /\ item'.failed = setup.file
    /\ UNCHANGED <<ingest, source, fileEof, gen, opens, heard>>
    /\ Same(Watched) /\ WellAged
BundleNew ==
    /\ item.waiting /\ bundle.retrying /\ pose = "none" /\ pose' = "idle" /\ fight' = "run"
    /\ item'.failed = FALSE /\ item'.waiting = FALSE /\ bundle'.retrying = FALSE
    /\ heard' = [fight |-> "registered"]
    /\ UNCHANGED <<ingest, source, fileEof, gen, opens>>
    /\ age'["request"] = Never /\ age'["poseBeat"] = 0
    /\ Same({"born", "ingestBeat", "frame", "firstFrame"}) /\ WellAged

\* No action of the parent by itself: neither the item nor the ages it watches change.
Untouched == UNCHANGED <<ingest, source, fight, pose, fileEof, gen, opens, heard, age, item, bundle>>
LEMMA UntouchedRests ==
    ASSUME AgeInv, Untouched
    PROVE  Rests
BY DEF AgeInv, Untouched, Rests, Same, WellAged, Ages

\* What is left alone while an item is marked, or a clock of the parent's own is set.
ParentClocks == {"watchRestart", "previewRestart", "fightRestart", "pollRestart", "retry"}
LEMMA ClockNames ==
    /\ Watched \subseteq Clocks /\ ParentClocks \subseteq Clocks /\ Watched \cap ParentClocks = {}
    /\ {"ingestBeat", "fightBeat", "born", "frame", "firstFrame", "fightFrame", "fightBorn", "request", "poseBeat"} = Watched
BY DEF Watched, ParentClocks, Clocks

LEMMA SetAges ==
    ASSUME AgeInv, NEW c \in ParentClocks, NEW n \in 0 .. MaxAge
    PROVE  /\ [age EXCEPT ![c] = n] \in Ages
           /\ \A d \in Clocks : [age EXCEPT ![c] = n][d] >= Never /\ [age EXCEPT ![c] = n][d] <= MaxAge
           /\ \A d \in Watched : [age EXCEPT ![c] = n][d] = age[d]
<1>1. c \in Clocks /\ c \notin Watched /\ Watched \subseteq Clocks
    BY ClockNames
<1>2. age \in Ages /\ \A d \in Clocks : age[d] >= Never /\ age[d] <= MaxAge
    BY DEF AgeInv
<1>3. \A d \in Clocks : [age EXCEPT ![c] = n][d] = IF d = c THEN n ELSE age[d]
    BY <1>2 DEF Ages
<1>4. [age EXCEPT ![c] = n] \in Ages
    BY <1>1, <1>2 DEF Ages
<1> QED BY <1>1, <1>2, <1>3, <1>4, PolicyFacts DEF Never

LEMMA RestartFightTakes ==
    ASSUME RecordInv, AgeInv, RestartFight, UNCHANGED <<ingest, source, pose, fileEof, gen, opens, bundle>>
    PROVE  \/ Rests
           \/ FightTaken
           \/ FightNew
<1>0. item \in [failed : BOOLEAN, waiting : BOOLEAN, done : BOOLEAN, state : ItemStates, restarts : Nat]
    BY DEF RecordInv
<1>1. CASE item.waiting \/ item.done
    <2>1. Untouched
        BY <1>1 DEF RestartFight, Untouched
    <2> QED BY <2>1, UntouchedRests
<1>2. CASE ~(item.waiting \/ item.done) /\ (setup.file \/ item.restarts >= RestartLimit \/ age["fightRestart"] < Cooldown)
    <2>1. fight' = "none" /\ item' = [item EXCEPT !.failed = TRUE] /\ UNCHANGED <<heard, age>>
        BY <1>2 DEF RestartFight, FightWithdrawn
    <2>2. item'.failed = TRUE /\ item'.waiting = item.waiting
        BY <1>0, <2>1
    <2>3. Same(Watched) /\ WellAged
        BY <2>1 DEF AgeInv, Same, WellAged, Ages
    <2> QED BY <1>2, <2>1, <2>2, <2>3 DEF FightTaken
<1>3. CASE ~(item.waiting \/ item.done) /\ ~(setup.file \/ item.restarts >= RestartLimit \/ age["fightRestart"] < Cooldown)
    <2>1. /\ fight' = "run" /\ heard' = [fight |-> "registered"]
          /\ age' = FightRegistered([age EXCEPT !["fightRestart"] = 0])
          /\ item' = [item EXCEPT !.failed = FALSE, !.restarts = @ + 1]
        BY <1>3 DEF RestartFight, FightSpawned
    <2>2. item'.failed = FALSE /\ item'.waiting = FALSE
        BY <1>0, <1>3, <2>1
    <2> DEFINE a == [age EXCEPT !["fightRestart"] = 0]
    <2>3. /\ a \in Ages /\ (\A d \in Clocks : a[d] >= Never /\ a[d] <= MaxAge)
          /\ \A d \in Watched : a[d] = age[d]
        BY SetAges, PolicyFacts DEF ParentClocks
    <2>4. age' = [a EXCEPT !["fightBeat"] = 0, !["fightBorn"] = 0, !["fightFrame"] = Never]
        BY <2>1 DEF FightRegistered
    <2> HIDE DEF a
    <2>5. \A d \in Clocks : age'[d] = IF d \in {"fightBeat", "fightBorn"} THEN 0 ELSE IF d = "fightFrame" THEN Never ELSE a[d]
        BY <2>3, <2>4 DEF Ages
    <2>6. age' \in Ages
        <3>1. age' = [d \in Clocks |-> age'[d]]
            BY <2>3, <2>4 DEF Ages
        <3>2. \A d \in Clocks : age'[d] \in Int
            BY <2>3, <2>5 DEF Never, Ages
        <3> QED BY <3>1, <3>2 DEF Ages
    <2>7. WellAged
        BY <2>3, <2>5, <2>6, PolicyFacts DEF WellAged, Never
    <2>8. Same(Watched \ {"fightBeat", "fightBorn", "fightFrame"})
        BY <2>3, <2>5, ClockNames DEF Same
    <2> QED BY <1>3, <2>1, <2>2, <2>7, <2>8 DEF FightNew
<1> QED BY <1>1, <1>2, <1>3

LEMMA RestartCameraRenews ==
    ASSUME RecordInv, AgeInv, UNCHANGED <<pose, bundle>>, NEW a \in Ages, RestartCamera(a),
           \A d \in Clocks : a[d] >= Never /\ a[d] <= MaxAge,
           \A d \in Watched : a[d] = age[d]
    PROVE  CameraNew
<1>1. item' = [failed |-> FALSE, waiting |-> bundle.retrying, done |-> FALSE, state |-> "ONLINE", restarts |-> 0]
    BY DEF RestartCamera
<1>2. item'.failed = FALSE /\ item'.waiting = bundle.retrying
    BY <1>1
<1>3. age' = Registered(a)
    BY DEF RestartCamera
<1>4. \A d \in Clocks : age'[d] = IF d \in CameraClocks THEN 0 ELSE IF d \in CameraUnknown THEN Never ELSE a[d]
    BY <1>3 DEF Registered
<1>5. age' \in Ages
    BY <1>3 DEF Registered, Ages, Never
<1>6. WellAged
    BY <1>4, <1>5, PolicyFacts DEF WellAged, Never
<1>7. /\ age'["ingestBeat"] = 0 /\ age'["fightBeat"] = 0 /\ age'["born"] = 0
      /\ age'["frame"] = Never /\ age'["firstFrame"] = Never /\ age'["fightFrame"] = Never
    BY <1>4 DEF Clocks, CameraClocks, CameraUnknown
<1>8. age'["request"] = a["request"] /\ age'["poseBeat"] = a["poseBeat"]
    BY <1>4 DEF Clocks, CameraClocks, CameraUnknown
<1>9. Same({"request", "poseBeat"})
    BY <1>8 DEF Same, Watched
<1>10. /\ ingest' = "run" /\ fileEof' = FALSE /\ source' = (IF source = "down" THEN "down" ELSE "opening")
       /\ fight' = (IF bundle.retrying THEN "none" ELSE "run") /\ heard' = [fight |-> "registered"]
    BY DEF RestartCamera
<1> QED BY <1>2, <1>6, <1>7, <1>9, <1>10 DEF CameraNew

LEMMA ServicesEffect ==
    ASSUME RecordInv, AgeInv, ServicesTick
    PROVE  Rests \/ BundleFails \/ BundleNew
<1>0. /\ item \in [failed : BOOLEAN, waiting : BOOLEAN, done : BOOLEAN, state : ItemStates, restarts : Nat]
      /\ bundle \in [attempts : Nat, retrying : BOOLEAN, failed : BOOLEAN]
    BY DEF RecordInv
<1>1. UNCHANGED <<ingest, source, fileEof, gen, opens>>
    BY DEF ServicesTick
<1>2. CASE pose # "none" /\ PoseFailed
    <2>1. FightFailure
        BY <1>2 DEF ServicesTick
    <2>2. /\ pose' = "none" /\ fight' = (IF item.waiting THEN fight ELSE "none")
          /\ item' = (IF item.waiting THEN item ELSE [item EXCEPT !.waiting = Live, !.failed = setup.file])
          /\ age' = Heard({"retry"}) /\ UNCHANGED heard
        BY <2>1 DEF FightFailure
    <2>3. IF item.waiting THEN item' = item ELSE item'.waiting = Live /\ item'.failed = setup.file
        BY <1>0, <2>2
    <2>4. Same(Watched) /\ WellAged
        BY <2>2, HeardAges, ClockNames DEF Same, WellAged, ParentClocks
    <2> QED BY <1>1, <1>2, <2>2, <2>3, <2>4 DEF BundleFails
<1>3. CASE ~(pose # "none" /\ PoseFailed) /\ pose = "none" /\ bundle.retrying /\ age["retry"] >= 1
    <2>1. FightResumed
        BY <1>3 DEF ServicesTick
    <2>2. /\ bundle' = [bundle EXCEPT !.attempts = @ + 1, !.retrying = FALSE] /\ pose' = "idle" /\ item.waiting
          /\ item' = [item EXCEPT !.waiting = FALSE, !.failed = FALSE]
          /\ fight' = "run" /\ heard' = [fight |-> "registered"]
          /\ age' = FightRegistered([age EXCEPT !["poseBeat"] = 0, !["poseBorn"] = 0, !["request"] = Never])
        BY <2>1 DEF FightResumed, FightSpawned
    <2>3. item'.failed = FALSE /\ item'.waiting = FALSE /\ bundle'.retrying = FALSE
        BY <1>0, <2>2
    <2>4. age \in Ages /\ \A d \in Clocks : age[d] >= Never /\ age[d] <= MaxAge
        BY DEF AgeInv
    <2>5. age' = [age EXCEPT !["poseBeat"] = 0, !["poseBorn"] = 0, !["request"] = Never,
                             !["fightBeat"] = 0, !["fightBorn"] = 0, !["fightFrame"] = Never]
        BY <2>2, <2>4 DEF FightRegistered, Ages
    <2>6. \A d \in Clocks : age'[d] = IF d \in {"poseBeat", "poseBorn", "fightBeat", "fightBorn"} THEN 0
                                      ELSE IF d \in {"request", "fightFrame"} THEN Never ELSE age[d]
        BY <2>4, <2>5 DEF Ages
    <2>7. age' \in Ages
        <3>1. age' = [d \in Clocks |-> age'[d]]
            BY <2>4, <2>5 DEF Ages
        <3>2. \A d \in Clocks : age'[d] \in Int
            BY <2>4, <2>6 DEF Never, Ages
        <3> QED BY <3>1, <3>2 DEF Ages
    <2>8. WellAged
        BY <2>4, <2>6, <2>7, PolicyFacts DEF WellAged, Never
    <2>9. /\ age'["request"] = Never /\ age'["poseBeat"] = 0
          /\ Same({"born", "ingestBeat", "frame", "firstFrame"})
        BY <2>6 DEF Same, Clocks
    <2> QED BY <1>1, <1>3, <2>2, <2>3, <2>8, <2>9 DEF BundleNew
<1>4. CASE ~(pose # "none" /\ PoseFailed) /\ ~(pose = "none" /\ bundle.retrying /\ age["retry"] >= 1)
    <2>1. Untouched
        BY <1>1, <1>4 DEF ServicesTick, Untouched
    <2> QED BY <2>1, UntouchedRests
<1> QED BY <1>2, <1>3, <1>4

LEMMA PollEffect ==
    ASSUME RecordInv, AgeInv, Poll
    PROVE  \/ Rests
           \/ (FightTaken \/ FightNew) /\ FightLost
           \/ CameraNew /\ gen' = gen + 1 /\ IngestLost /\ (setup.file => ~(ingest = "drained" /\ fileEof))
<1>0. /\ item \in [failed : BOOLEAN, waiting : BOOLEAN, done : BOOLEAN, state : ItemStates, restarts : Nat]
      /\ UNCHANGED <<pose, bundle>>
    BY DEF RecordInv, Poll
<1>1. CASE item.done
    <2>1. Untouched
        BY <1>0, <1>1 DEF Poll, Untouched
    <2> QED BY <2>1, UntouchedRests
<1>2. CASE PollsFight
    BY <1>0, <1>2, RestartFightTakes DEF PollsFight
<1>3. CASE PollsFile
    <2>1. UNCHANGED <<ingest, source, fight, pose, fileEof, gen, opens, heard, age, bundle>>
        BY <1>0, <1>3 DEF PollsFile
    <2>2. item'.failed = item.failed /\ item'.waiting = item.waiting
        BY <1>0, <1>3 DEF PollsFile
    <2>3. Same(Watched) /\ WellAged
        BY <2>1 DEF AgeInv, Same, WellAged, Ages
    <2> QED BY <2>1, <2>2, <2>3 DEF Rests
<1>4. CASE PollsIngest
    <2>1. CASE age["pollRestart"] < 1
        <3>1. /\ UNCHANGED <<ingest, source, fight, pose, fileEof, gen, opens, heard, age, bundle>>
              /\ item' = [item EXCEPT !.state = "RECONNECTING"]
            BY <1>0, <1>4, <2>1 DEF PollsIngest
        <3>2. item'.failed = item.failed /\ item'.waiting = item.waiting
            BY <1>0, <3>1
        <3>3. Same(Watched) /\ WellAged
            BY <3>1 DEF AgeInv, Same, WellAged, Ages
        <3> QED BY <3>1, <3>2, <3>3 DEF Rests
    <2>2. CASE ~(age["pollRestart"] < 1)
        <3> DEFINE a == [age EXCEPT !["pollRestart"] = 0, !["watchRestart"] = MaxAge]
        <3>1. RestartCamera(a) /\ IngestLost /\ (setup.file => ~(ingest = "drained" /\ fileEof))
            BY <1>4, <2>2 DEF PollsIngest
        <3>2. gen' = gen + 1
            BY <3>1 DEF RestartCamera
        <3>3. age \in Ages /\ \A d \in Clocks : age[d] \in Int /\ age[d] >= Never /\ age[d] <= MaxAge
            BY DEF AgeInv, Ages
        <3>4. \A d \in Clocks : a[d] = IF d = "pollRestart" THEN 0 ELSE IF d = "watchRestart" THEN MaxAge ELSE age[d]
            BY <3>3 DEF Ages, Clocks
        <3>5. a = [d \in Clocks |-> a[d]]
            BY <3>3 DEF Ages
        <3> HIDE DEF a
        <3>6. \A d \in Clocks : a[d] \in Int /\ a[d] >= Never /\ a[d] <= MaxAge
            BY <3>3, <3>4, PolicyFacts DEF Never
        <3>7. a \in Ages
            BY <3>5, <3>6 DEF Ages
        <3>8. \A d \in Watched : a[d] = age[d]
            BY <3>4, ClockNames DEF ParentClocks
        <3> QED BY <1>0, <3>1, <3>2, <3>6, <3>7, <3>8, RestartCameraRenews
    <2> QED BY <2>1, <2>2
<1>5. CASE PollsPreview
    <2>1. Untouched
        BY <1>0, <1>5 DEF PollsPreview, Untouched
    <2> QED BY <2>1, UntouchedRests
<1> QED BY <1>1, <1>2, <1>3, <1>4, <1>5 DEF Poll

LEMMA JudgeEffect ==
    ASSUME RecordInv, AgeInv, Judge
    PROVE  \/ Rests
           \/ (FightTaken \/ FightNew) /\ Verdict = "restart_fight"
           \/ CameraNew /\ gen' = gen + 1 /\ Verdict = "restart_camera"
<1>0. /\ item \in [failed : BOOLEAN, waiting : BOOLEAN, done : BOOLEAN, state : ItemStates, restarts : Nat]
      /\ UNCHANGED <<pose, bundle>>
    BY DEF RecordInv, Judge
<1>1. CASE Verdict = "restart_camera"
    <2>1. JudgesCamera
        BY <1>1 DEF Judge
    <2>2. CASE RestartDue
        <3> DEFINE a == [age EXCEPT !["watchRestart"] = 0]
        <3>1. RestartCamera(a)
            BY <2>1, <2>2 DEF JudgesCamera
        <3>2. gen' = gen + 1
            BY <3>1 DEF RestartCamera
        <3>3. /\ a \in Ages /\ (\A d \in Clocks : a[d] >= Never /\ a[d] <= MaxAge)
              /\ \A d \in Watched : a[d] = age[d]
            BY SetAges, PolicyFacts DEF ParentClocks
        <3> HIDE DEF a
        <3> QED BY <1>0, <1>1, <3>1, <3>2, <3>3, RestartCameraRenews
    <2>3. CASE ~RestartDue
        <3>1. /\ UNCHANGED <<ingest, source, fight, pose, fileEof, gen, opens, heard, age, bundle>>
              /\ item' \in {item, [item EXCEPT !.state = "FAILED"]}
            BY <1>0, <2>1, <2>3 DEF JudgesCamera
        <3>2. item'.failed = item.failed /\ item'.waiting = item.waiting
            BY <1>0, <3>1
        <3>3. Same(Watched) /\ WellAged
            BY <3>1 DEF AgeInv, Same, WellAged, Ages
        <3> QED BY <3>1, <3>2, <3>3 DEF Rests
    <2> QED BY <2>2, <2>3
<1>2. CASE Verdict = "restart_fight"
    <2>1. RestartFight /\ UNCHANGED <<ingest, source, fileEof, gen, opens>>
        BY <1>2 DEF Judge, JudgesFight
    <2> QED BY <1>0, <1>2, <2>1, RestartFightTakes
<1>3. CASE Verdict = "restart_preview"
    <2>1. /\ UNCHANGED <<ingest, source, fight, pose, fileEof, gen, opens, heard, item, bundle>>
          /\ age' = age \/ age' = Heard({"previewRestart"})
        BY <1>0, <1>3 DEF Judge, JudgesPreview
    <2>2. CASE age' = age
        BY <2>1, <2>2, UntouchedRests DEF Untouched
    <2>3. CASE age' = Heard({"previewRestart"})
        <3>1. Same(Watched) /\ WellAged
            BY <2>3, HeardAges, ClockNames DEF Same, WellAged, ParentClocks
        <3> QED BY <2>1, <3>1 DEF Rests
    <2> QED BY <2>1, <2>2, <2>3
<1>4. CASE Verdict = "none"
    <2>1. Untouched
        BY <1>0, <1>4 DEF Judge, Untouched
    <2> QED BY <2>1, UntouchedRests
<1>5. Verdict \in {"restart_camera", "restart_fight", "restart_preview", "none"}
    BY DEF Verdict, Stalled
<1> QED BY <1>1, <1>2, <1>3, <1>4, <1>5

-----------------------------------------------------------------------------
\* Every step of the runtime, by what it does to a camera and its service.
Sees ==
    /\ step' = "judge" /\ seen' = [ingest |-> ingest, fight |-> fight, preview |-> preview]
    /\ Rests /\ UNCHANGED failures
Passes == Pass /\ step \in {"top", "retries"}
Lives == World /\ step \in {"top", "retries", "judge"}
Tends ==
    /\ UNCHANGED failures /\ step' # "judge" /\ step \notin TakenDown
    /\ \/ BundleFails \/ BundleNew
       \/ (FightTaken \/ FightNew) /\ (item.failed \/ FightLost \/ (step = "judge" /\ Verdict = "restart_fight"))
       \/ CameraNew /\ gen' = gen + 1
             /\ \/ IngestLost /\ (setup.file => ~(ingest = "drained" /\ fileEof))
                \/ step = "judge" /\ Verdict = "restart_camera"
Idles ==
    /\ Rests /\ (failures' = failures \/ failures' = failures + 1)
    /\ step' = "judge" => step = "judge" /\ seen' = seen
TakesDown ==
    /\ step' \in TakenDown
    /\ ingest' \in {ingest, "gone"} /\ fight' \in {fight, "gone"} /\ pose' \in {pose, "gone"}
    /\ UNCHANGED <<source, fileEof, gen, opens, heard, age, item, bundle>>
    /\ failures' = failures \/ failures' = failures + 1
Turn ==
    /\ setup' = setup
    /\ \/ Lives /\ UNCHANGED <<step, seen>>
       \/ Passes /\ UNCHANGED <<step, seen>>
       \/ UNCHANGED outages /\ (Sees \/ Tends \/ Idles \/ TakesDown)
    /\ step \in TakenDown => step' \in TakenDown

LEMMA Turns == RecordInv /\ AgeInv /\ [MainNext]_runtimeVars => Turn
<1> SUFFICES ASSUME RecordInv, AgeInv, [MainNext]_runtimeVars PROVE Turn
    OBVIOUS
<1>0. UNCHANGED healthVars => Untouched /\ UNCHANGED <<setup, outages, failures, seen>>
    BY DEF healthVars, worldVars, registryVars, parentVars, Untouched
<1>1. setup' = setup
    BY ManagedSteps
<1>2. step \in TakenDown => step' \in TakenDown
    <2>1. CASE LoopActions
        BY <2>1, LoopSteps DEF InLoop, Loop, TakenDown
    <2>2. CASE EndActions
        BY <2>2 DEF EndActions, Settles, OfflineClose, ServicesClose, IncidentEnds, SayStopped, ReporterEnds,
            Concludes, StopAll, Finalize, Step, TakenDown
    <2>3. CASE Workers \/ Signal \/ Candidate \/ IncidentFails \/ WorkerBreaks \/ UNCHANGED runtimeVars
        BY <2>3 DEF Workers, Stage3Takes, Stage3Gives, Stage3Drops, Stage3Leaves, IncidentTakes, IncidentDrops, IncidentLeaves, Row, ReporterWrites,
            Signal, Candidate, IncidentFails, WorkerBreaks, runtimeVars, mainVars
    <2> QED BY <2>1, <2>2, <2>3, NextSteps
<1> DEFINE Effect == \/ Lives /\ UNCHANGED <<step, seen>>
                     \/ Passes /\ UNCHANGED <<step, seen>>
                     \/ UNCHANGED outages /\ (Sees \/ Tends \/ Idles \/ TakesDown)
<1> SUFFICES Effect
    BY <1>1, <1>2 DEF Turn
<1>3. ASSUME Untouched, UNCHANGED <<outages, seen>>, failures' = failures \/ failures' = failures + 1,
             step' = "judge" => step = "judge"
      PROVE  Effect
    BY <1>3, UntouchedRests DEF Idles
<1>4. CASE Between /\ UNCHANGED mainVars
    <2>1. World /\ step \in {"top", "retries", "judge"} /\ step' = step
        BY <1>4 DEF Between, mainVars
    <2>2. seen' = seen
        BY <2>1 DEF World, Awaited, Breaks, SourceGoes, SourceOpens, FightAsks, FileEnds, FirstFrame, PoseAnswers, Drains,
            parentVars
    <2> QED BY <2>1, <2>2 DEF Lives
<1>5. CASE Clock /\ UNCHANGED mainVars
    BY <1>5 DEF Clock, Pass, mainVars, parentVars, Passes
<1>6. CASE Services
    <2>1. step \notin TakenDown /\ step' = "afterServices"
        BY <1>6 DEF Services, Step, TakenDown
    <2>2. CASE stop
        BY <1>0, <1>3, <1>6, <2>1, <2>2 DEF Services
    <2>3. CASE ~stop
        <3>1. ServicesTick
            BY <1>6, <2>3 DEF Services
        <3>2. UNCHANGED <<failures, outages>>
            BY <3>1 DEF ServicesTick
        <3> QED BY <2>1, <3>1, <3>2, ServicesEffect DEF Tends, Idles
    <2> QED BY <2>2, <2>3
<1>7. CASE Retries
    <2>1. step \notin TakenDown /\ step' = "poll"
        BY <1>7 DEF Retries, Step, TakenDown
    <2>2. CASE stop
        BY <1>0, <1>3, <1>7, <2>1, <2>2 DEF Retries
    <2>3. CASE ~stop
        <3>1. PollRetries
            BY <1>7, <2>3 DEF Retries
        <3>2. UNCHANGED <<failures, outages, seen, ingest, source, pose, fileEof, gen, opens, bundle>>
            BY <3>1 DEF PollRetries
        <3>3. CASE item.failed
            <4>1. RestartFight
                BY <3>1, <3>3 DEF PollRetries
            <4> QED BY <2>1, <3>2, <3>3, <4>1, RestartFightTakes DEF Tends, Idles
        <3>4. CASE ~item.failed
            BY <1>3, <2>1, <3>1, <3>2, <3>4 DEF PollRetries, Untouched
        <3> QED BY <3>3, <3>4
    <2> QED BY <2>2, <2>3
<1>8. CASE Polls
    <2>1. step \notin TakenDown /\ step' = "observe"
        BY <1>8 DEF Polls, Step, TakenDown
    <2>2. CASE stop
        BY <1>0, <1>3, <1>8, <2>1, <2>2 DEF Polls
    <2>3. CASE ~stop
        <3>1. Poll
            BY <1>8, <2>3 DEF Polls
        <3>2. UNCHANGED <<failures, outages>>
            BY <3>1 DEF Poll
        <3> QED BY <2>1, <3>1, <3>2, PollEffect DEF Tends, Idles
    <2> QED BY <2>2, <2>3
<1>9. CASE Observes
    <2>1. /\ step' = "judge" /\ seen' = [ingest |-> ingest, fight |-> fight, preview |-> preview]
          /\ UNCHANGED <<worldVars, registryVars, gen, opens, item, bundle>>
        BY <1>9 DEF Observes, Observe, Step
    <2>2. Untouched /\ UNCHANGED <<failures, outages>>
        BY <2>1 DEF Untouched, worldVars, registryVars
    <2> QED BY <2>1, <2>2, UntouchedRests DEF Sees
<1>10. CASE Judges
    <2>1. step = "judge" /\ step \notin TakenDown /\ step' # "judge"
        BY <1>10 DEF Judges, TakenDown
    <2>2. CASE UNCHANGED healthVars
        BY <1>0, <1>3, <2>1, <2>2
    <2>3. CASE Judge
        <3>1. UNCHANGED <<failures, outages>>
            BY <2>3 DEF Judge
        <3> QED BY <2>1, <2>3, <3>1, JudgeEffect DEF Tends, Idles
    <2> QED BY <1>10, <2>2, <2>3 DEF Judges
<1>11. CASE Top \/ EofCheck
    BY <1>0, <1>3, <1>11 DEF Top, EofCheck
<1>12. CASE AfterServices \/ Snapshot \/ Settles
    <2>1. Untouched /\ UNCHANGED <<outages, seen>> /\ step' # "judge"
          /\ (failures' = failures \/ failures' = failures + 1)
        BY <1>12 DEF AfterServices, Snapshot, Settles, Step, Fault, registryVars, parentVars, Untouched
    <2> QED BY <1>3, <2>1
<1>13. CASE EndActions /\ ~Settles
    <2>1. step' \in TakenDown
        BY <1>13 DEF EndActions, OfflineClose, ServicesClose, IncidentEnds, SayStopped, ReporterEnds,
            Concludes, StopAll, Finalize, Step, TakenDown
    <2>2. CASE OfflineClose \/ StopAll \/ Finalize
        <3>1. /\ ingest' \in {ingest, "gone"} /\ fight' \in {fight, "gone"} /\ pose' \in {pose, "gone"}
              /\ UNCHANGED <<source, fileEof, gen, opens, heard, age, item, bundle, outages>>
              /\ failures' = failures \/ failures' = failures + 1
            BY <2>2 DEF OfflineClose, StopAll, Finalize, Fault, registryVars, parentVars
        <3> QED BY <2>1, <3>1 DEF TakesDown
    <2>3. CASE ServicesClose \/ IncidentEnds \/ SayStopped \/ ReporterEnds \/ Concludes
        <3>1. UNCHANGED healthVars
            BY <2>3 DEF ServicesClose, IncidentEnds, SayStopped, ReporterEnds, Concludes
        <3> QED BY <1>0, <2>1, <3>1 DEF Untouched, TakesDown
    <2> QED BY <1>13, <2>2, <2>3 DEF EndActions
<1>14. CASE Workers \/ Signal \/ Candidate \/ UNCHANGED runtimeVars
    <2>1. UNCHANGED <<healthVars, step>>
        BY <1>14 DEF Workers, Stage3Takes, Stage3Gives, Stage3Drops, Stage3Leaves, IncidentTakes, IncidentDrops, IncidentLeaves, Row, ReporterWrites,
            Signal, Candidate, runtimeVars, mainVars
    <2> QED BY <1>0, <1>3, <2>1
<1>15. CASE IncidentFails \/ WorkerBreaks
    <2>1. Untouched /\ UNCHANGED <<outages, seen, step>> /\ failures' = failures + 1
        BY <1>15 DEF IncidentFails, WorkerBreaks, Fault, registryVars, parentVars, Untouched
    <2> QED BY <1>3, <2>1
<1> HIDE DEF Effect
<1> QED BY <1>4, <1>5, <1>6, <1>7, <1>8, <1>9, <1>10, <1>11, <1>12, <1>13, <1>14, <1>15, NextSteps
        DEF LoopActions, EndActions

-----------------------------------------------------------------------------
\* What a step of the processes leaves alone.
Alone == UNCHANGED <<setup, item, bundle, gen, opens>> /\ WellAged

LEMMA AgeFacts ==
    ASSUME AgeInv
    PROVE  /\ age' = age => WellAged
           /\ \A c \in Clocks : age[c] \in Int /\ age[c] >= Never /\ age[c] <= MaxAge
           /\ Never \in Int /\ Never < 0
BY DEF AgeInv, WellAged, Ages, Never

LEMMA BreaksDo ==
    ASSUME AgeInv, NEW how \in {"hung", "dead"}, Breaks(how)
    PROVE  /\ Alone /\ failures' = failures + 1
           /\ UNCHANGED <<outages, source, fileEof, age, heard>>
           /\ ingest' = ingest \/ ingest' \in {"hung", "dead"}
           /\ fight' = fight \/ (fight \in {"run", "wait", "queued"} /\ fight' \in {"hung", "dead"})
           /\ pose' = pose \/ (pose \in {"idle", "busy"} /\ pose' \in {"hung", "dead"})
<1>1. UNCHANGED <<setup, outages, source, fileEof, age, heard, item, bundle, gen, opens>> /\ failures' = failures + 1
    BY DEF Breaks, Fault, registryVars, parentVars
<1>2. WellAged
    BY <1>1, AgeFacts
<1>3. /\ ingest' = ingest \/ ingest' \in {"hung", "dead"}
      /\ fight' = fight \/ (fight \in {"run", "wait", "queued"} /\ fight' \in {"hung", "dead"})
      /\ pose' = pose \/ (pose \in {"idle", "busy"} /\ pose' \in {"hung", "dead"})
    BY DEF Breaks
<1> QED BY <1>1, <1>2, <1>3 DEF Alone

LEMMA SourceDoes ==
    ASSUME AgeInv, SourceGoes \/ SourceOpens
    PROVE  /\ Alone /\ UNCHANGED <<failures, ingest, fight, pose, fileEof, heard>>
           /\ Same({"born", "firstFrame", "fightBeat", "fightFrame", "request", "poseBeat"})
           /\ \/ ~setup.file /\ outages' = outages + 1 /\ source' = "down"
              \/ source = "down" /\ outages' = outages /\ source' = "opening"
<1>1. CASE SourceGoes
    <2>1. age' = Heard({"ingestBeat", "reconnect"})
        BY <1>1 DEF SourceGoes
    <2>2. WellAged /\ Same({"born", "firstFrame", "fightBeat", "fightFrame", "request", "poseBeat"})
        BY <2>1, HeardAges DEF WellAged, Same, Clocks
    <2> QED BY <1>1, <2>2 DEF SourceGoes, Alone, Live, parentVars
<1>2. CASE SourceOpens
    <2>1. age' = Heard({"ingestBeat"})
        BY <1>2 DEF SourceOpens
    <2>2. WellAged /\ Same({"born", "firstFrame", "fightBeat", "fightFrame", "request", "poseBeat"})
        BY <2>1, HeardAges DEF WellAged, Same, Clocks
    <2> QED BY <1>2, <2>2 DEF SourceOpens, Alone, parentVars
<1> QED BY <1>1, <1>2

LEMMA FirstFrameDoes ==
    ASSUME AgeInv, FirstFrame
    PROVE  /\ Alone /\ UNCHANGED <<failures, outages, ingest, fight, pose, fileEof, heard>>
           /\ ingest = "run" /\ source = "opening" /\ source' = "up"
           /\ Same({"born", "fightBeat", "fightFrame", "request", "poseBeat"})
           /\ age'["ingestBeat"] = 0 /\ age'["frame"] = 0
           /\ age'["firstFrame"] # Never /\ (age["firstFrame"] = Never => age'["firstFrame"] = 0)
<1> DEFINE b == Heard({"ingestBeat", "frame"})
<1>1. age' = [b EXCEPT !["firstFrame"] = IF @ = Never THEN 0 ELSE @]
    BY DEF FirstFrame
<1>2. /\ b \in Ages
      /\ \A c \in Clocks : b[c] = IF c \in {"ingestBeat", "frame"} THEN 0 ELSE age[c]
      /\ \A c \in Clocks : b[c] >= Never /\ b[c] <= MaxAge
    BY HeardAges
<1> HIDE DEF b
<1>3. \A c \in Clocks : age'[c] = IF c = "firstFrame" /\ b[c] = Never THEN 0 ELSE b[c]
    BY <1>1, <1>2 DEF Ages
<1>4. age' = [c \in Clocks |-> age'[c]]
    BY <1>1, <1>2 DEF Ages
<1>5. \A c \in Clocks : b[c] \in Int
    BY <1>2 DEF Ages
<1>6. WellAged
    BY <1>2, <1>3, <1>4, <1>5, PolicyFacts DEF WellAged, Ages, Never
<1>7. Same({"born", "fightBeat", "fightFrame", "request", "poseBeat"}) /\ age'["ingestBeat"] = 0 /\ age'["frame"] = 0
    BY <1>2, <1>3 DEF Same, Clocks
<1>8. age'["firstFrame"] # Never /\ (age["firstFrame"] = Never => age'["firstFrame"] = 0)
    BY <1>2, <1>3 DEF Clocks, Never
<1> QED BY <1>6, <1>7, <1>8 DEF FirstFrame, Alone, parentVars

LEMMA FightAsksDoes ==
    ASSUME AgeInv, FightAsks
    PROVE  /\ Alone /\ UNCHANGED <<failures, outages, ingest, source, fileEof>>
           /\ fight = "run" /\ source = "up" /\ pose \in {"idle", "busy", "hung"}
           /\ Same({"born", "ingestBeat", "frame", "firstFrame"})
           /\ age'["fightBeat"] = 0 /\ age'["fightFrame"] = 0
           /\ \/ fight' = "wait" /\ heard' = [fight |-> "asked"] /\ pose = "idle"
              \/ fight' = "queued" /\ heard' = [fight |-> "capacity_wait"]
           /\ IF pose = "idle" THEN pose' = "busy" /\ age'["request"] = 0
              ELSE pose' = pose /\ Same({"request", "poseBeat"})
<1>1. CASE pose = "idle"
    <2>1. age' = Heard({"fightBeat", "fightFrame", "request", "poseBeat"}) /\ pose' = "busy"
        BY <1>1 DEF FightAsks
    <2>2. /\ WellAged /\ Same({"born", "ingestBeat", "frame", "firstFrame"})
          /\ age'["fightBeat"] = 0 /\ age'["fightFrame"] = 0 /\ age'["request"] = 0
        BY <2>1, HeardAges DEF WellAged, Same, Clocks
    <2>3. \/ fight' = "wait" /\ heard' = [fight |-> "asked"] /\ pose = "idle"
          \/ fight' = "queued" /\ heard' = [fight |-> "capacity_wait"]
        BY <1>1 DEF FightAsks
    <2> QED BY <1>1, <2>1, <2>2, <2>3 DEF FightAsks, Alone, parentVars
<1>2. CASE pose # "idle"
    <2>1. age' = Heard({"fightBeat", "fightFrame"}) /\ pose' = pose
        BY <1>2 DEF FightAsks
    <2>2. /\ WellAged /\ Same({"born", "ingestBeat", "frame", "firstFrame"}) /\ Same({"request", "poseBeat"})
          /\ age'["fightBeat"] = 0 /\ age'["fightFrame"] = 0
        BY <2>1, HeardAges DEF WellAged, Same, Clocks
    <2>3. fight' = "queued" /\ heard' = [fight |-> "capacity_wait"]
        BY <1>2 DEF FightAsks
    <2> QED BY <1>2, <2>1, <2>2, <2>3 DEF FightAsks, Alone, parentVars
<1> QED BY <1>1, <1>2

LEMMA PoseAnswersDoes ==
    ASSUME AgeInv, PoseAnswers
    PROVE  /\ Alone /\ UNCHANGED <<failures, outages, ingest, source, fileEof, heard>>
           /\ pose = "busy" /\ pose' = "idle" /\ fight' = (IF fight \in {"wait", "queued"} THEN "run" ELSE fight)
           /\ Same({"born", "ingestBeat", "frame", "firstFrame", "fightBeat", "fightFrame"})
           /\ age'["request"] = Never /\ age'["poseBeat"] = 0
<1> DEFINE b == Heard({"poseBeat"})
<1>1. age' = [b EXCEPT !["request"] = Never]
    BY DEF PoseAnswers, Closes
<1>2. /\ b \in Ages
      /\ \A c \in Clocks : b[c] = IF c \in {"poseBeat"} THEN 0 ELSE age[c]
      /\ \A c \in Clocks : b[c] >= Never /\ b[c] <= MaxAge
    BY HeardAges
<1> HIDE DEF b
<1>3. \A c \in Clocks : age'[c] = IF c = "request" THEN Never ELSE b[c]
    BY <1>1, <1>2 DEF Ages
<1>4. age' = [c \in Clocks |-> age'[c]]
    BY <1>1, <1>2 DEF Ages
<1>5. \A c \in Clocks : b[c] \in Int
    BY <1>2 DEF Ages
<1>6. WellAged
    BY <1>2, <1>3, <1>4, <1>5, PolicyFacts DEF WellAged, Ages, Never
<1>7. /\ Same({"born", "ingestBeat", "frame", "firstFrame", "fightBeat", "fightFrame"})
      /\ age'["request"] = Never /\ age'["poseBeat"] = 0
    BY <1>2, <1>3 DEF Same, Clocks
<1> QED BY <1>6, <1>7 DEF PoseAnswers, Alone, parentVars

LEMMA FileEndsDoes ==
    ASSUME AgeInv, FileEnds
    PROVE  /\ Alone /\ UNCHANGED <<failures, outages, ingest, source, fight, pose, heard>>
           /\ setup.file /\ Flowing /\ fileEof' = TRUE
           /\ Same({"born", "frame", "firstFrame", "fightBeat", "fightFrame", "request", "poseBeat"})
<1>1. age' = Heard({"ingestBeat"})
    BY DEF FileEnds
<1>2. WellAged /\ Same({"born", "frame", "firstFrame", "fightBeat", "fightFrame", "request", "poseBeat"})
    BY <1>1, HeardAges DEF WellAged, Same, Clocks
<1> QED BY <1>2 DEF FileEnds, Alone, parentVars

LEMMA DrainsDoes ==
    ASSUME AgeInv, Drains
    PROVE  /\ Alone /\ UNCHANGED <<failures, outages, source, pose, fileEof, age, heard>> /\ fileEof
           /\ ingest' = ingest \/ (ingest = "run" /\ ingest' = "drained")
           /\ fight' = fight \/ (fight = "run" /\ fight' = "drained")
<1>1. age' = age
    BY DEF Drains, registryVars
<1>2. WellAged
    BY <1>1, AgeFacts
<1> QED BY <1>1, <1>2 DEF Drains, Alone, registryVars, parentVars

\* Time: who emitted is young again, everything else is older.
LEMMA PassDoes ==
    ASSUME AgeInv, Pass
    PROVE  /\ Alone /\ UNCHANGED <<failures, outages, ingest, source, fight, pose, fileEof>>
           /\ \A c \in Clocks : age'[c] \in {0, Older(age[c])}
           /\ \A c \in {"born", "firstFrame", "request"} : age'[c] = Older(age[c])
           /\ ~setup.file /\ Flowing => age'["ingestBeat"] = 0 /\ age'["frame"] = 0
           /\ ~setup.file /\ ingest = "run" /\ source = "opening" =>
                  age["ingestBeat"] = 0 /\ age'["ingestBeat"] = Older(0) /\ age'["frame"] = Older(age["frame"])
           /\ fight = "run" => age'["fightBeat"] = 0
           /\ fight = "run" /\ Flowing => age'["fightFrame"] = 0 /\ heard' = [fight |-> "frame_consumed"]
           /\ ~(fight = "run" /\ Flowing) => age'["fightFrame"] = Older(age["fightFrame"]) /\ heard' = heard
           /\ fight = "queued" /\ pose # "dead" => age'["fightBeat"] = 0
           /\ fight = "wait" => age'["fightBeat"] = Older(age["fightBeat"])
           /\ pose = "idle" => age'["poseBeat"] = 0
           /\ pose = "busy" => age["request"] < setup.slow
           /\ fileEof /\ fight = "run" => age["fightFrame"] = 0
<1>1. PICK more \in (IF Blocked /\ age["frame"] = 0 THEN BOOLEAN ELSE {FALSE}) :
          age' = [c \in Clocks |-> IF c \in Emitted(more) THEN 0 ELSE Older(age[c])]
    BY DEF Pass
<1>2. \A c \in Clocks : age'[c] = IF c \in Emitted(more) THEN 0 ELSE Older(age[c])
    BY <1>1
<1>3. \A c \in Clocks : /\ age'[c] \in Int /\ age'[c] >= Never /\ age'[c] <= MaxAge
                        /\ age'[c] \in {0, Older(age[c])}
    BY <1>2, AgeFacts, OlderAges, PolicyFacts
<1>4. WellAged
    BY <1>1, <1>3 DEF WellAged, Ages
<1>5. more => setup.file
    BY <1>1 DEF Blocked
<1>6. {"born", "firstFrame", "request", "ingestBeat", "frame", "fightBeat", "fightFrame", "poseBeat"} \subseteq Clocks
    BY DEF Clocks
<1>7. \A c \in {"born", "firstFrame", "request"} : c \notin Emitted(more)
    BY DEF Emitted
<1>8. /\ ~setup.file /\ Flowing => "ingestBeat" \in Emitted(more) /\ "frame" \in Emitted(more)
      /\ ~setup.file /\ ingest = "run" /\ source = "opening" => "ingestBeat" \notin Emitted(more) /\ "frame" \notin Emitted(more)
    BY <1>5 DEF Emitted, Flowing
<1>9. /\ fight = "run" => "fightBeat" \in Emitted(more)
      /\ fight = "run" /\ Flowing => "fightFrame" \in Emitted(more)
      /\ ~(fight = "run" /\ Flowing) => "fightFrame" \notin Emitted(more)
      /\ fight = "queued" /\ pose # "dead" => "fightBeat" \in Emitted(more)
      /\ fight = "wait" => "fightBeat" \notin Emitted(more)
      /\ pose = "idle" => "poseBeat" \in Emitted(more)
    BY DEF Emitted
<1>10. /\ pose = "busy" => age["request"] < setup.slow
       /\ ingest = "run" /\ source = "opening" => age["ingestBeat"] = 0
       /\ fileEof /\ fight = "run" => age["fightFrame"] = 0
       /\ heard' = IF fight = "run" /\ Flowing THEN [fight |-> "frame_consumed"] ELSE heard
       /\ UNCHANGED <<setup, item, bundle, gen, opens, failures, outages, ingest, source, fight, pose, fileEof>>
    BY DEF Pass, worldVars, parentVars
<1>11. /\ \A c \in {"born", "firstFrame", "request"} : age'[c] = Older(age[c])
       /\ ~setup.file /\ Flowing => age'["ingestBeat"] = 0 /\ age'["frame"] = 0
       /\ ~setup.file /\ ingest = "run" /\ source = "opening" =>
              age["ingestBeat"] = 0 /\ age'["ingestBeat"] = Older(0) /\ age'["frame"] = Older(age["frame"])
    BY <1>2, <1>6, <1>7, <1>8, <1>10
<1>12. /\ fight = "run" => age'["fightBeat"] = 0
       /\ fight = "run" /\ Flowing => age'["fightFrame"] = 0
       /\ ~(fight = "run" /\ Flowing) => age'["fightFrame"] = Older(age["fightFrame"])
       /\ fight = "queued" /\ pose # "dead" => age'["fightBeat"] = 0
       /\ fight = "wait" => age'["fightBeat"] = Older(age["fightBeat"])
       /\ pose = "idle" => age'["poseBeat"] = 0
    BY <1>2, <1>6, <1>9
<1> QED BY <1>3, <1>4, <1>10, <1>11, <1>12 DEF Alone

LEMMA WorldCases ==
    World <=> \/ \E how \in {"hung", "dead"} : Breaks(how)
              \/ SourceGoes \/ SourceOpens \/ FightAsks \/ FileEnds \/ FirstFrame \/ PoseAnswers \/ Drains
BY DEF World, Awaited

LEMMA AgeStep == RecordInv /\ AgeInv /\ Turn => AgeInv'
<1> SUFFICES ASSUME RecordInv, AgeInv, Turn PROVE AgeInv'
    OBVIOUS
<1>1. WellAged
    <2>1. CASE Lives
        BY <2>1, WorldCases, BreaksDo, SourceDoes, FightAsksDoes, FileEndsDoes, FirstFrameDoes, PoseAnswersDoes,
            DrainsDoes DEF Lives, Alone
    <2>2. CASE Passes
        BY <2>2, PassDoes DEF Passes, Alone
    <2>3. CASE Sees \/ Tends \/ Idles
        BY <2>3 DEF Sees, Tends, Idles, Rests, FightTaken, FightNew, CameraNew, BundleFails, BundleNew
    <2>4. CASE TakesDown
        BY <2>4, AgeFacts DEF TakesDown
    <2> QED BY <2>1, <2>2, <2>3, <2>4 DEF Turn
<1>2. heard' \in [fight : HeardStates]
    <2>0. heard \in [fight : HeardStates]
        BY DEF AgeInv
    <2>1. heard' = heard \/ heard' = [fight |-> "registered"] \/ heard' = [fight |-> "asked"]
          \/ heard' = [fight |-> "capacity_wait"] \/ heard' = [fight |-> "frame_consumed"]
        <3>1. CASE Lives
            BY <3>1, WorldCases, BreaksDo, SourceDoes, FightAsksDoes, FileEndsDoes, FirstFrameDoes, PoseAnswersDoes,
                DrainsDoes DEF Lives
        <3>2. CASE Passes
            BY <3>2, PassDoes DEF Passes
        <3>3. CASE Sees \/ Tends \/ Idles \/ TakesDown
            BY <3>3 DEF Sees, Tends, Idles, Rests, FightTaken, FightNew, CameraNew, BundleFails, BundleNew, TakesDown
        <3> QED BY <3>1, <3>2, <3>3 DEF Turn
    <2> QED BY <2>0, <2>1 DEF HeardStates
<1>3. failures' \in Nat
    <2>1. failures' = failures \/ failures' = failures + 1
        <3>1. CASE Lives
            BY <3>1, WorldCases, BreaksDo, SourceDoes, FightAsksDoes, FileEndsDoes, FirstFrameDoes, PoseAnswersDoes,
                DrainsDoes DEF Lives
        <3>2. CASE Passes
            BY <3>2, PassDoes DEF Passes
        <3>3. CASE Sees \/ Tends \/ Idles \/ TakesDown
            BY <3>3 DEF Sees, Tends, Idles, TakesDown
        <3> QED BY <3>1, <3>2, <3>3 DEF Turn
    <2> QED BY <2>1 DEF AgeInv
<1> QED BY <1>1, <1>2, <1>3 DEF AgeInv, WellAged, Turn

LEMMA AbsentStep == RecordInv /\ AgeInv /\ FileInv /\ AbsentInv /\ Turn => AbsentInv'
<1> SUFFICES ASSUME RecordInv, AgeInv, FileInv, AbsentInv, Turn PROVE AbsentInv'
    OBVIOUS
<1> USE DEF AbsentInv
<1>1. setup' = setup
    BY DEF Turn
<1>2. CASE Lives
    <2>1. CASE \E how \in {"hung", "dead"} : Breaks(how)
        BY <1>1, <2>1, BreaksDo DEF Alone
    <2>2. CASE SourceGoes \/ SourceOpens
        BY <1>1, <2>2, SourceDoes DEF Alone
    <2>3. CASE FightAsks
        BY <1>1, <2>3, FightAsksDoes DEF Alone
    <2>4. CASE FileEnds
        BY <1>1, <2>4, FileEndsDoes DEF Alone
    <2>5. CASE FirstFrame
        BY <1>1, <2>5, FirstFrameDoes DEF Alone
    <2>6. CASE PoseAnswers
        BY <1>1, <2>6, PoseAnswersDoes DEF Alone
    <2>7. CASE Drains
        BY <1>1, <2>7, DrainsDoes DEF Alone
    <2> QED BY <1>2, <2>1, <2>2, <2>3, <2>4, <2>5, <2>6, <2>7, WorldCases DEF Lives
<1>3. CASE Passes
    BY <1>1, <1>3, PassDoes DEF Passes, Alone
<1>4. CASE UNCHANGED outages /\ (Sees \/ Idles)
    BY <1>1, <1>4 DEF Sees, Idles, Rests
<1>5. CASE UNCHANGED outages /\ Tends
    <2>1. CASE BundleFails
        BY <1>1, <1>5, <2>1 DEF BundleFails, FileInv
    <2>2. CASE BundleNew
        BY <1>1, <1>5, <2>2 DEF BundleNew
    <2>3. CASE FightTaken
        BY <1>1, <1>5, <2>3 DEF FightTaken
    <2>4. CASE FightNew
        BY <1>1, <1>5, <2>4 DEF FightNew
    <2>5. CASE CameraNew
        BY <1>1, <1>5, <2>5 DEF CameraNew
    <2> QED BY <1>5, <2>1, <2>2, <2>3, <2>4, <2>5 DEF Tends
<1>6. CASE UNCHANGED outages /\ TakesDown
    BY <1>1, <1>6 DEF TakesDown
<1> QED BY <1>2, <1>3, <1>4, <1>5, <1>6 DEF Turn

LEMMA SeenStep == RecordInv /\ AgeInv /\ SeenInv /\ Turn => SeenInv'
<1> SUFFICES ASSUME RecordInv, AgeInv, SeenInv, Turn, step' = "judge" PROVE SeenInv'
    BY DEF SeenInv
<1> USE DEF SeenInv
<1>1. CASE Lives /\ UNCHANGED <<step, seen>>
    <2>1. UNCHANGED <<step, seen>>
        BY <1>1
    <2>2. ingest' = "run" => ingest = "run"
        BY <1>1, WorldCases, BreaksDo, SourceDoes, FightAsksDoes, FileEndsDoes, FirstFrameDoes, PoseAnswersDoes,
            DrainsDoes DEF Lives
    <2>3. fight \notin AliveStates => fight' \notin AliveStates
        BY <1>1, WorldHappens DEF Lives, Happens
    <2> QED BY <2>1, <2>2, <2>3
<1>2. CASE Passes /\ UNCHANGED <<step, seen>>
    BY <1>2, PassDoes DEF Passes
<1>3. CASE Sees
    BY <1>3 DEF Sees, Rests
<1>4. CASE Idles
    BY <1>4 DEF Idles, Rests
<1>5. CASE Tends \/ TakesDown
    BY <1>5 DEF Tends, TakesDown, TakenDown
<1> QED BY <1>1, <1>2, <1>3, <1>4, <1>5 DEF Turn

LEMMA RequestStep == RecordInv /\ AgeInv /\ AbsentInv /\ RequestInv /\ Turn => RequestInv'
<1> SUFFICES ASSUME RecordInv, AgeInv, AbsentInv, RequestInv, Turn PROVE RequestInv'
    OBVIOUS
<1> USE DEF RequestInv
<1>1. setup' = setup /\ setup.slow \in Nat
    BY DEF Turn, AgeInv
<1>2. CASE Lives
    <2>1. CASE \E how \in {"hung", "dead"} : Breaks(how)
        BY <1>1, <2>1, BreaksDo
    <2>2. CASE SourceGoes \/ SourceOpens
        BY <1>1, <2>2, SourceDoes DEF Same
    <2>3. CASE FightAsks
        BY <1>1, <2>3, FightAsksDoes DEF Same
    <2>4. CASE FileEnds
        BY <1>1, <2>4, FileEndsDoes DEF Same
    <2>5. CASE FirstFrame
        BY <1>1, <2>5, FirstFrameDoes DEF Same
    <2>6. CASE PoseAnswers
        BY <2>6, PoseAnswersDoes
    <2>7. CASE Drains
        BY <1>1, <2>7, DrainsDoes
    <2> QED BY <1>2, <2>1, <2>2, <2>3, <2>4, <2>5, <2>6, <2>7, WorldCases DEF Lives
<1>3. CASE Passes
    <2> SUFFICES ASSUME pose' = "busy" PROVE RequestInv'
        BY DEF RequestInv
    <2>1. pose = "busy" /\ fight' = fight
        BY <1>3, PassDoes DEF Passes
    <2>2. age["request"] \in 0 .. setup.slow /\ age["request"] < setup.slow /\ age'["request"] = Older(age["request"])
        BY <1>3, <2>1, PassDoes DEF Passes
    <2>3. age["request"] \in Int /\ age["request"] >= Never /\ age["request"] <= MaxAge
        BY AgeFacts DEF Clocks
    <2>4. age'["request"] \in 0 .. setup.slow
        BY <1>1, <2>2, <2>3, OlderAges
    <2>5. fight = "wait" => heard' = heard /\ age'["fightBeat"] = Older(age["fightBeat"])
        BY <1>3, PassDoes DEF Passes
    <2> QED BY <1>1, <2>1, <2>2, <2>4, <2>5
<1>4. CASE Sees \/ Idles
    BY <1>1, <1>4 DEF Sees, Idles, Rests, Same, Watched
<1>5. CASE Tends
    <2>1. CASE BundleFails
        BY <2>1 DEF BundleFails
    <2>2. CASE BundleNew
        BY <2>2 DEF BundleNew
    <2>3. CASE FightTaken
        BY <1>1, <2>3 DEF FightTaken, Same, Watched
    <2>4. CASE FightNew
        BY <1>1, <2>4 DEF FightNew, Same, Watched
    <2>5. CASE CameraNew
        BY <1>1, <2>5 DEF CameraNew, Same
    <2> QED BY <1>5, <2>1, <2>2, <2>3, <2>4, <2>5 DEF Tends
<1>6. CASE TakesDown
    BY <1>1, <1>6 DEF TakesDown
<1> QED BY <1>2, <1>3, <1>4, <1>5, <1>6 DEF Turn

LEMMA ReaderStep == RecordInv /\ AgeInv /\ AbsentInv /\ ReaderInv /\ Turn => ReaderInv'
<1> SUFFICES ASSUME RecordInv, AgeInv, AbsentInv, ReaderInv, Turn, ~setup'.file, outages' = 0, ingest' = "run"
             PROVE  IF source' = "up" THEN age'["ingestBeat"] = 0 /\ age'["frame"] = 0
                    ELSE age'["frame"] = Never /\ age'["ingestBeat"] \in 0 .. 1 /\ age'["born"] = age'["ingestBeat"]
    BY DEF ReaderInv
<1>1. setup' = setup /\ ~setup.file /\ ~fileEof
    BY DEF Turn, AbsentInv
<1>2. ASSUME outages = 0, ingest = "run"
      PROVE  /\ source \in {"opening", "up"}
             /\ source = "up" => age["ingestBeat"] = 0 /\ age["frame"] = 0
             /\ source = "opening" => age["frame"] = Never /\ age["ingestBeat"] \in 0 .. 1
                                      /\ age["born"] = age["ingestBeat"]
    BY <1>1, <1>2 DEF ReaderInv, AbsentInv
<1>3. CASE Lives
    <2>1. CASE \E how \in {"hung", "dead"} : Breaks(how)
        BY <1>2, <2>1, BreaksDo
    <2>2. CASE SourceGoes \/ SourceOpens
        BY <1>2, <2>2, SourceDoes DEF AbsentInv
    <2>3. CASE FightAsks
        BY <1>2, <2>3, FightAsksDoes DEF Same
    <2>4. CASE FileEnds
        BY <1>1, <2>4, FileEndsDoes
    <2>5. CASE FirstFrame
        BY <2>5, FirstFrameDoes
    <2>6. CASE PoseAnswers
        BY <1>2, <2>6, PoseAnswersDoes DEF Same
    <2>7. CASE Drains
        BY <1>1, <2>7, DrainsDoes
    <2> QED BY <1>3, <2>1, <2>2, <2>3, <2>4, <2>5, <2>6, <2>7, WorldCases DEF Lives
<1>4. CASE Passes
    <2>1. outages = 0 /\ ingest = "run" /\ source' = source
        BY <1>4, PassDoes DEF Passes
    <2>2. CASE source = "up"
        <3>1. Flowing
            BY <1>1, <2>1, <2>2 DEF Flowing, Blocked
        <3> QED BY <1>1, <1>4, <2>1, <2>2, <3>1, PassDoes DEF Passes
    <2>3. CASE source = "opening"
        <3>1. /\ age["ingestBeat"] = 0 /\ age'["ingestBeat"] = Older(0) /\ age'["frame"] = Older(age["frame"])
              /\ age'["born"] = Older(age["born"])
            BY <1>1, <1>4, <2>1, <2>3, PassDoes DEF Passes
        <3>2. age["frame"] = Never /\ age["born"] = 0
            BY <1>2, <2>1, <2>3, <3>1
        <3>3. Older(0) = 1 /\ Older(Never) = Never
            BY OlderAges, PolicyFacts DEF Never
        <3> QED BY <2>1, <2>3, <3>1, <3>2, <3>3
    <2> QED BY <1>2, <2>1, <2>2, <2>3
<1>5. CASE UNCHANGED outages /\ (Sees \/ Idles)
    BY <1>2, <1>5 DEF Sees, Idles, Rests, Same, Watched
<1>6. CASE UNCHANGED outages /\ Tends
    <2>1. CASE BundleFails
        BY <1>2, <1>6, <2>1 DEF BundleFails, Same, Watched
    <2>2. CASE BundleNew
        BY <1>2, <1>6, <2>2 DEF BundleNew, Same
    <2>3. CASE FightTaken
        BY <1>2, <1>6, <2>3 DEF FightTaken, Same, Watched
    <2>4. CASE FightNew
        BY <1>2, <1>6, <2>4 DEF FightNew, Same, Watched
    <2>5. CASE CameraNew
        BY <1>1, <1>6, <2>5 DEF CameraNew, AbsentInv
    <2> QED BY <1>6, <2>1, <2>2, <2>3, <2>4, <2>5 DEF Tends
<1>7. CASE UNCHANGED outages /\ TakesDown
    BY <1>2, <1>7 DEF TakesDown
<1> QED BY <1>3, <1>4, <1>5, <1>6, <1>7 DEF Turn

\* With nothing gone wrong the shared worker is never taken for failed.
LEMMA CleanPose ==
    ASSUME PolicyGrants, RecordInv, AgeInv, RequestInv, CleanInv, Clean
    PROVE  ~PoseFailed
<1>1. setup \in Setups /\ setup.slow < InferenceFail /\ setup.slow \in Nat
    BY SetupFacts DEF PolicyGrants, RecordInv
<1>2. pose \in {"idle", "busy"} /\ (pose = "idle" => age["request"] = Never /\ age["poseBeat"] = 0)
    BY DEF CleanInv
<1>3. CASE pose = "idle"
    BY <1>2, <1>3, PolicyFacts DEF PoseFailed
<1>4. CASE pose = "busy"
    <2>1. age["request"] \in 0 .. setup.slow
        BY <1>4 DEF RequestInv
    <2>2. age["request"] # Never /\ age["request"] < InferenceFail
        BY <1>1, <2>1, PolicyFacts DEF Never
    <2>3. ~(InferenceFail > StartupGrace) => age["request"] < StartupGrace
        BY <1>1, <2>1, PolicyFacts
    <2> QED BY <1>4, <2>1, <2>2, <2>3, PolicyFacts DEF PoseFailed
<1> QED BY <1>2, <1>3, <1>4

LEMMA CleanBefore ==
    ASSUME AgeInv, Turn, Clean'
    PROVE  Clean /\ setup' = setup /\ setup.file /\ UNCHANGED failures /\ ~TakesDown
<1>1. setup' = setup /\ (step \in TakenDown => step' \in TakenDown) /\ ~TakesDown
    BY DEF Turn, Clean, TakesDown
<1>2. failures' = failures \/ failures' = failures + 1
    <2>1. CASE Lives
        BY <2>1, WorldCases, BreaksDo, SourceDoes, FightAsksDoes, FileEndsDoes, FirstFrameDoes, PoseAnswersDoes,
            DrainsDoes DEF Lives
    <2>2. CASE Passes
        BY <2>2, PassDoes DEF Passes
    <2>3. CASE Sees \/ Tends \/ Idles \/ TakesDown
        BY <2>3 DEF Sees, Tends, Idles, TakesDown
    <2> QED BY <2>1, <2>2, <2>3 DEF Turn
<1>3. failures = 0 /\ failures' = failures
    BY <1>2 DEF Clean, AgeInv
<1> QED BY <1>1, <1>3 DEF Clean

\* What the parent can still do about a file nothing has gone wrong with.
LEMMA CleanTends ==
    ASSUME PolicyGrants, RecordInv, AgeInv, FileInv, RequestInv, CleanInv, Clean, Tends
    PROVE  FightTaken \/ (CameraNew /\ ~bundle.retrying)
<1>1. ~BundleFails
    BY CleanPose DEF BundleFails
<1>2. ~BundleNew /\ ~FightNew /\ ~bundle.retrying
    BY DEF BundleNew, FightNew, FileInv, Clean
<1> QED BY <1>1, <1>2 DEF Tends

LEMMA CleanStep ==
    PolicyGrants /\ RecordInv /\ AgeInv /\ FileInv /\ AbsentInv /\ RequestInv /\ CleanInv /\ Turn => CleanInv'
<1> SUFFICES ASSUME PolicyGrants, RecordInv, AgeInv, FileInv, AbsentInv, RequestInv, CleanInv, Turn, Clean'
             PROVE  CleanInv'
    BY DEF CleanInv
<1>1. Clean /\ setup' = setup /\ setup.file /\ UNCHANGED failures /\ ~TakesDown
    BY CleanBefore
<1>2. /\ ingest \in {"run", "drained"} /\ pose \in {"idle", "busy"}
      /\ fight \in {"run", "wait", "queued", "drained", "none"}
      /\ ingest = "drained" \/ fight = "drained" => fileEof
      /\ fileEof => source = "up"
      /\ fight = "none" => item.failed
      /\ pose = "idle" => age["request"] = Never /\ age["poseBeat"] = 0
    BY <1>1 DEF CleanInv
<1>3. source \in {"opening", "up"}
    BY <1>1 DEF AbsentInv
<1> USE DEF CleanInv
<1>4. CASE Lives
    <2>1. CASE \E how \in {"hung", "dead"} : Breaks(how)
        <3>1. failures' = failures + 1
            BY <2>1, BreaksDo
        <3> QED BY <1>1, <3>1 DEF AgeInv
    <2>2. CASE SourceGoes \/ SourceOpens
        BY <1>1, <1>3, <2>2, SourceDoes
    <2>3. CASE FightAsks
        <3>1. /\ UNCHANGED <<ingest, source, fileEof, item>> /\ fight' \in {"wait", "queued"} /\ pose' = "busy"
            BY <1>2, <2>3, FightAsksDoes DEF Alone
        <3> QED BY <1>2, <3>1
    <2>4. CASE FileEnds
        <3>1. UNCHANGED <<ingest, source, fight, pose, item>> /\ Same({"request", "poseBeat"}) /\ source = "up"
            BY <2>4, FileEndsDoes DEF Alone, Flowing, Same
        <3> QED BY <1>2, <2>4, <3>1, FileEndsDoes DEF Same
    <2>5. CASE FirstFrame
        <3>1. UNCHANGED <<ingest, fight, fileEof, pose, item>> /\ Same({"request", "poseBeat"}) /\ source' = "up"
            BY <2>5, FirstFrameDoes DEF Alone, Same
        <3> QED BY <1>2, <3>1 DEF Same
    <2>6. CASE PoseAnswers
        <3>1. /\ UNCHANGED <<ingest, source, fileEof, item>> /\ pose' = "idle"
              /\ fight' = (IF fight \in {"wait", "queued"} THEN "run" ELSE fight)
              /\ age'["request"] = Never /\ age'["poseBeat"] = 0
            BY <2>6, PoseAnswersDoes DEF Alone
        <3> QED BY <1>2, <3>1
    <2>7. CASE Drains
        <3>1. /\ UNCHANGED <<source, pose, fileEof, age, item>> /\ fileEof
              /\ ingest' = ingest \/ (ingest = "run" /\ ingest' = "drained")
              /\ fight' = fight \/ (fight = "run" /\ fight' = "drained")
            BY <2>7, DrainsDoes DEF Alone
        <3> QED BY <1>2, <3>1
    <2> QED BY <1>4, <2>1, <2>2, <2>3, <2>4, <2>5, <2>6, <2>7, WorldCases DEF Lives
<1>5. CASE Passes
    <2>1. /\ UNCHANGED <<ingest, source, fight, pose, fileEof, item>>
          /\ pose = "idle" => age'["poseBeat"] = 0
          /\ age'["request"] = Older(age["request"])
        BY <1>5, PassDoes DEF Passes, Alone
    <2>2. Older(Never) = Never
        BY OlderAges, PolicyFacts DEF Never
    <2> QED BY <1>2, <2>1, <2>2
<1>6. CASE Sees \/ Idles
    <2>1. /\ UNCHANGED <<ingest, source, fight, pose, fileEof>> /\ item'.failed = item.failed
          /\ age'["request"] = age["request"] /\ age'["poseBeat"] = age["poseBeat"]
        BY <1>6 DEF Sees, Idles, Rests, Same, Watched
    <2> QED BY <1>2, <2>1
<1>7. CASE Tends
    <2>1. CASE FightTaken
        <3>1. /\ UNCHANGED <<ingest, source, pose, fileEof>> /\ fight' = "none" /\ item'.failed
              /\ age'["request"] = age["request"] /\ age'["poseBeat"] = age["poseBeat"]
            BY <2>1 DEF FightTaken, Same, Watched
        <3> QED BY <1>2, <3>1
    <2>2. CASE CameraNew /\ ~bundle.retrying
        <3>1. /\ ingest' = "run" /\ fight' = "run" /\ fileEof' = FALSE /\ pose' = pose
              /\ age'["request"] = age["request"] /\ age'["poseBeat"] = age["poseBeat"]
            BY <2>2 DEF CameraNew, Same
        <3> QED BY <1>2, <3>1
    <2> QED BY <1>1, <1>7, <2>1, <2>2, CleanTends
<1> QED BY <1>1, <1>4, <1>5, <1>6, <1>7 DEF Turn

LEMMA ConsumerStep ==
    PolicyGrants /\ RecordInv /\ AgeInv /\ FileInv /\ AbsentInv /\ RequestInv /\ CleanInv /\ ConsumerInv /\ Turn
        => ConsumerInv'
<1> SUFFICES ASSUME PolicyGrants, RecordInv, AgeInv, FileInv, AbsentInv, RequestInv, CleanInv, ConsumerInv, Turn,
                    Clean', ~item'.failed
             PROVE  ConsumerInv'
    BY DEF ConsumerInv
<1>1. Clean /\ setup' = setup /\ setup.file /\ UNCHANGED failures /\ ~TakesDown /\ failures \in Nat
    BY CleanBefore DEF AgeInv
<1>2. /\ source \in {"opening", "up"} /\ pose \in {"idle", "busy"} /\ ingest \in {"run", "drained"}
      /\ fight \in {"run", "wait", "queued", "drained", "none"}
      /\ fileEof => source = "up"
      /\ ingest = "drained" => fileEof
      /\ fight = "none" => item.failed
    BY <1>1 DEF AbsentInv, CleanInv
<1>3. ASSUME ~item.failed
      PROVE  /\ source = "opening" => /\ fight = "run" /\ heard.fight = "registered"
                                      /\ age["firstFrame"] = Never /\ age["fightFrame"] = Never
             /\ source = "up" => age["firstFrame"] # Never
             /\ fight = "wait" => pose = "busy" /\ age["fightFrame"] = age["request"]
             /\ fight = "queued" => heard.fight = "capacity_wait" /\ age["fightBeat"] = 0 /\ age["fightFrame"] # Never
             /\ Consuming /\ heard.fight = "capacity_wait" => age["fightBeat"] = 0 /\ age["fightFrame"] # Never
             /\ Consuming /\ heard.fight # "capacity_wait" =>
                    /\ age["fightBeat"] \in 0 .. Lately /\ age["fightFrame"] \in Never .. Lately
                    /\ age["fightFrame"] = Never /\ source = "up" => age["firstFrame"] = 0
    BY <1>1, <1>3 DEF ConsumerInv
<1>4. Lately' = Lately /\ Lately \in Nat /\ Lately >= 1 /\ Lately >= setup.slow /\ setup.slow \in Nat
    BY <1>1 DEF Lately, AgeInv
<1>5. \A c \in {"fightBeat", "fightFrame", "firstFrame", "request"} : age[c] \in Int /\ age[c] >= Never
    BY AgeFacts DEF Clocks
<1>6. Never = -1
    BY DEF Never
<1>7. CASE Lives /\ UNCHANGED <<step, seen>>
    <2>0. UNCHANGED <<step, seen>>
        BY <1>7
    <2>1. CASE \E how \in {"hung", "dead"} : Breaks(how)
        <3>1. failures' = failures + 1
            BY <2>1, BreaksDo
        <3> QED BY <1>1, <3>1
    <2>2. CASE SourceGoes \/ SourceOpens
        BY <1>1, <1>2, <2>2, SourceDoes
    <2>3. CASE FightAsks
        <3>1. /\ UNCHANGED <<source, item>> /\ source = "up" /\ pose \in {"idle", "busy"}
              /\ age'["firstFrame"] = age["firstFrame"] /\ age'["fightBeat"] = 0 /\ age'["fightFrame"] = 0
              /\ \/ fight' = "wait" /\ pose = "idle"
                 \/ fight' = "queued" /\ heard' = [fight |-> "capacity_wait"]
              /\ pose = "idle" => pose' = "busy" /\ age'["request"] = 0
            BY <1>2, <2>3, FightAsksDoes DEF Alone, Same
        <3>2. ~Consuming'
            BY <3>1 DEF Consuming
        <3> QED BY <1>3, <1>6, <3>1, <3>2 DEF ConsumerInv
    <2>4. CASE FileEnds
        <3>1. /\ UNCHANGED <<source, fight, pose, heard, item>>
              /\ age'["firstFrame"] = age["firstFrame"] /\ age'["fightBeat"] = age["fightBeat"]
              /\ age'["fightFrame"] = age["fightFrame"] /\ age'["request"] = age["request"]
            BY <2>4, FileEndsDoes DEF Alone, Same
        <3>2. Consuming' = Consuming
            BY <2>0, <3>1 DEF Consuming
        <3> QED BY <1>3, <1>4, <3>1, <3>2 DEF ConsumerInv
    <2>5. CASE FirstFrame
        <3>1. /\ UNCHANGED <<fight, pose, heard, item>> /\ source = "opening" /\ source' = "up"
              /\ age'["fightBeat"] = age["fightBeat"] /\ age'["fightFrame"] = age["fightFrame"]
              /\ age'["firstFrame"] # Never /\ (age["firstFrame"] = Never => age'["firstFrame"] = 0)
            BY <2>5, FirstFrameDoes DEF Alone, Same
        <3>2. Consuming
            BY <1>3, <3>1 DEF Consuming
        <3> QED BY <1>3, <1>4, <3>1, <3>2 DEF ConsumerInv
    <2>6. CASE PoseAnswers
        <3>1. /\ UNCHANGED <<source, heard, item>> /\ pose = "busy"
              /\ fight' = (IF fight \in {"wait", "queued"} THEN "run" ELSE fight)
              /\ age'["firstFrame"] = age["firstFrame"] /\ age'["fightBeat"] = age["fightBeat"]
              /\ age'["fightFrame"] = age["fightFrame"]
            BY <2>6, PoseAnswersDoes DEF Alone, Same
        <3>2. CASE fight = "wait"
            <4>1. heard.fight = "asked" /\ age["fightBeat"] \in 0 .. setup.slow /\ age["fightFrame"] \in 0 .. setup.slow
                BY <1>3, <3>1, <3>2 DEF RequestInv
            <4>2. age["fightBeat"] \in 0 .. Lately /\ age["fightFrame"] \in Never .. Lately /\ age["fightFrame"] # Never
                BY <1>4, <1>6, <4>1
            <4>3. source = "up" /\ age["firstFrame"] # Never
                BY <1>2, <1>3, <3>1, <3>2
            <4> QED BY <1>4, <3>1, <3>2, <4>1, <4>2, <4>3 DEF ConsumerInv
        <3>3. CASE fight = "queued"
            <4>1. source = "up" /\ age["firstFrame"] # Never
                BY <1>2, <1>3, <3>1, <3>3
            <4> QED BY <1>3, <3>1, <3>3, <4>1 DEF ConsumerInv
        <3>4. CASE fight \notin {"wait", "queued"}
            <4>1. Consuming' = Consuming /\ fight' = fight
                BY <2>0, <3>1, <3>4 DEF Consuming
            <4> QED BY <1>3, <1>4, <3>1, <3>4, <4>1 DEF ConsumerInv
        <3> QED BY <3>2, <3>3, <3>4
    <2>7. CASE Drains
        <3>1. /\ UNCHANGED <<source, pose, heard, age, item>> /\ source = "up"
              /\ fight' = fight \/ (fight = "run" /\ fight' = "drained")
            BY <1>2, <2>7, DrainsDoes DEF Alone
        <3>2. Consuming' => Consuming
            BY <2>0, <3>1 DEF Consuming
        <3> QED BY <1>3, <1>4, <3>1, <3>2 DEF ConsumerInv
    <2> QED BY <1>7, <2>1, <2>2, <2>3, <2>4, <2>5, <2>6, <2>7, WorldCases DEF Lives
<1>8. CASE Passes /\ UNCHANGED <<step, seen>>
    <2>1. /\ UNCHANGED <<source, fight, pose, item>> /\ step' = step /\ step \in {"top", "retries"}
          /\ age'["firstFrame"] = Older(age["firstFrame"]) /\ age'["request"] = Older(age["request"])
        BY <1>8, PassDoes DEF Passes, Alone
    <2>2. /\ \A a \in Int : a >= Never /\ a <= MaxAge => (a >= 0 => Older(a) >= 0) /\ (a = Never => Older(a) = Never)
          /\ Older(0) = 1
        BY OlderAges, PolicyFacts, <1>6
    <2>3. \A c \in {"fightFrame", "firstFrame", "request"} : age[c] \in Int /\ age[c] <= MaxAge
        BY AgeFacts DEF Clocks
    <2>4. source = "up" => age'["firstFrame"] # Never
        BY <1>3, <1>5, <1>6, <2>1, <2>2, <2>3
    <2>5. CASE fight = "run" /\ Flowing
        <3>1. /\ age'["fightBeat"] = 0 /\ age'["fightFrame"] = 0 /\ heard' = [fight |-> "frame_consumed"]
              /\ source = "up"
            BY <1>8, <2>5, PassDoes DEF Passes, Flowing
        <3> QED BY <1>4, <1>6, <2>1, <2>4, <2>5, <3>1 DEF ConsumerInv
    <2>6. CASE fight = "run" /\ ~Flowing
        <3>1. /\ age'["fightBeat"] = 0 /\ age'["fightFrame"] = Older(age["fightFrame"]) /\ heard' = heard
              /\ fileEof => age["fightFrame"] = 0
            BY <1>8, <2>6, PassDoes DEF Passes
        <3>2. fileEof \/ source = "opening"
            BY <1>2, <2>6 DEF Flowing, Blocked
        <3>3. CASE fileEof
            <4>1. age'["fightFrame"] = 1 /\ source = "up"
                BY <1>2, <2>2, <3>1, <3>3
            <4> QED BY <1>4, <1>6, <2>1, <2>4, <2>6, <3>1, <4>1 DEF ConsumerInv
        <3>4. CASE source = "opening"
            <4>1. heard.fight = "registered" /\ age["firstFrame"] = Never /\ age["fightFrame"] = Never
                BY <1>3, <2>1, <3>4
            <4>2. age'["firstFrame"] = Never /\ age'["fightFrame"] = Never
                BY <1>5, <2>1, <2>2, <2>3, <3>1, <4>1
            <4> QED BY <1>4, <1>6, <2>1, <2>6, <3>1, <3>4, <4>1, <4>2 DEF ConsumerInv
        <3> QED BY <3>2, <3>3, <3>4
    <2>7. CASE fight # "run"
        <3>1. /\ age'["fightFrame"] = Older(age["fightFrame"]) /\ heard' = heard /\ ~Consuming'
              /\ fight = "queued" => age'["fightBeat"] = 0
            BY <1>2, <1>8, <2>1, <2>7, PassDoes DEF Passes, Consuming
        <3>2. source = "up"
            BY <1>2, <1>3, <2>1, <2>7
        <3>3. fight = "queued" => age'["fightFrame"] # Never
            BY <1>3, <1>5, <1>6, <2>1, <2>2, <2>3, <3>1
        <3>4. fight = "wait" => pose = "busy" /\ age'["fightFrame"] = age'["request"]
            BY <1>3, <2>1, <3>1
        <3>5. fight = "queued" => heard.fight = "capacity_wait"
            BY <1>3, <2>1
        <3> QED BY <2>1, <2>4, <3>1, <3>2, <3>3, <3>4, <3>5 DEF ConsumerInv
    <2> QED BY <2>5, <2>6, <2>7
<1>9. CASE Sees \/ Idles
    <2>1. /\ UNCHANGED <<source, fight, pose, heard>> /\ item'.failed = item.failed
          /\ age'["firstFrame"] = age["firstFrame"] /\ age'["fightBeat"] = age["fightBeat"]
          /\ age'["fightFrame"] = age["fightFrame"] /\ age'["request"] = age["request"]
        BY <1>9 DEF Sees, Idles, Rests, Same, Watched
    <2>2. Consuming' => Consuming
        <3>1. CASE Sees
            BY <2>1, <3>1 DEF Sees, Consuming
        <3>2. CASE Idles
            BY <2>1, <3>2 DEF Idles, Consuming
        <3> QED BY <1>9, <3>1, <3>2
    <2> QED BY <1>3, <1>4, <2>1, <2>2 DEF ConsumerInv
<1>10. CASE Tends
    <2>1. CASE FightTaken
        BY <2>1 DEF FightTaken
    <2>2. CASE CameraNew /\ ~bundle.retrying
        <3>1. /\ fight' = "run" /\ source' = "opening" /\ heard' = [fight |-> "registered"]
              /\ age'["fightBeat"] = 0 /\ age'["firstFrame"] = Never /\ age'["fightFrame"] = Never
            BY <1>2, <2>2 DEF CameraNew
        <3> QED BY <1>4, <1>6, <3>1 DEF ConsumerInv
    <2> QED BY <1>1, <1>10, <2>1, <2>2, CleanTends
<1> QED BY <1>1, <1>7, <1>8, <1>9, <1>10 DEF Turn

LEMMA CleanSeenStep ==
    PolicyGrants /\ RecordInv /\ AgeInv /\ AbsentInv /\ CleanInv /\ CleanSeenInv /\ Turn => CleanSeenInv'
<1> SUFFICES ASSUME PolicyGrants, RecordInv, AgeInv, AbsentInv, CleanInv, CleanSeenInv, Turn, Clean', step' = "judge"
             PROVE  CleanSeenInv'
    BY DEF CleanSeenInv
<1>1. Clean /\ setup.file /\ UNCHANGED failures /\ ~TakesDown /\ failures \in Nat
    BY CleanBefore DEF AgeInv
<1>2. /\ ingest \in {"run", "drained"}
      /\ fight \in {"run", "wait", "queued", "drained", "none"}
      /\ ingest = "drained" => fileEof
      /\ fight = "none" => item.failed
    BY <1>1 DEF CleanInv
<1> USE DEF CleanSeenInv
<1>3. CASE Lives /\ UNCHANGED <<step, seen>>
    <2>1. step = "judge" /\ seen' = seen
        BY <1>3
    <2>2. item' = item
        BY <1>3, WorldCases, BreaksDo, SourceDoes, FightAsksDoes, FileEndsDoes, FirstFrameDoes, PoseAnswersDoes,
            DrainsDoes DEF Lives, Alone
    <2>3. fileEof => fileEof'
        BY <1>3, WorldCases, BreaksDo, SourceDoes, FightAsksDoes, FileEndsDoes, FirstFrameDoes, PoseAnswersDoes,
            DrainsDoes DEF Lives
    <2>4. fight = "drained" => fight' = "drained"
        BY <1>3, WorldCases, BreaksDo, SourceDoes, FightAsksDoes, FileEndsDoes, FirstFrameDoes, PoseAnswersDoes,
            DrainsDoes DEF Lives
    <2> QED BY <1>1, <2>1, <2>2, <2>3, <2>4
<1>4. CASE Passes /\ UNCHANGED <<step, seen>>
    BY <1>4 DEF Passes
<1>5. CASE Sees
    <2>1. /\ seen'.ingest = ingest /\ seen'.fight = fight /\ UNCHANGED <<fight, fileEof>> /\ item'.failed = item.failed
        BY <1>5 DEF Sees, Rests
    <2> QED BY <1>2, <2>1 DEF AliveStates
<1>6. CASE Idles
    BY <1>1, <1>6 DEF Idles, Rests
<1>7. CASE Tends
    BY <1>7 DEF Tends
<1> QED BY <1>1, <1>3, <1>4, <1>5, <1>6, <1>7 DEF Turn

LEMMA CauseStart == MainInit => CauseInv
<1> SUFFICES ASSUME MainInit PROVE CauseInv
    OBVIOUS
<1> USE DEF MainInit, HealthInit
<1>1. /\ \A c \in Clocks : age[c] \in {0, Never, MaxAge}
      /\ age["request"] = Never /\ age["poseBeat"] = 0 /\ age["ingestBeat"] = 0 /\ age["born"] = 0
      /\ age["frame"] = Never /\ age["fightBeat"] = 0 /\ age["firstFrame"] = Never /\ age["fightFrame"] = Never
      /\ age = [c \in Clocks |-> age[c]]
    BY DEF Clocks, CameraClocks, CameraUnknown
<1>2. AgeInv
    <2>1. \A c \in Clocks : age[c] \in Int /\ age[c] >= Never /\ age[c] <= MaxAge
        BY <1>1, PolicyFacts DEF Never
    <2>2. age \in Ages
        BY <1>1, <2>1 DEF Ages
    <2>3. heard \in [fight : HeardStates]
        BY DEF HeardStates
    <2> QED BY <2>1, <2>2, <2>3, SetupFacts DEF AgeInv
<1>3. item.failed = FALSE /\ item.waiting = FALSE /\ bundle.retrying = FALSE
    OBVIOUS
<1>4. AbsentInv /\ SeenInv /\ CleanSeenInv
    BY <1>3 DEF AbsentInv, SeenInv, CleanSeenInv
<1>5. RequestInv /\ ReaderInv
    BY <1>1 DEF RequestInv, ReaderInv
<1>6. CleanInv
    BY <1>1 DEF CleanInv
<1>7. ConsumerInv
    <2>1. heard.fight = "registered" /\ 0 \in 0 .. Lately /\ Never \in Never .. Lately
        BY SetupFacts DEF Lately, Never
    <2> QED BY <1>1, <2>1 DEF ConsumerInv
<1> QED BY <1>2, <1>4, <1>5, <1>6, <1>7 DEF CauseInv

LEMMA CauseStep ==
    PolicyGrants /\ RecordInv /\ FileInv /\ CauseInv /\ [MainNext]_runtimeVars => CauseInv'
BY Turns, AgeStep, AbsentStep, SeenStep, RequestStep, ReaderStep, CleanStep, ConsumerStep, CleanSeenStep DEF CauseInv

-----------------------------------------------------------------------------
\* What the watchdog asks for, and about whom.
LEMMA PendingInTime ==
    ASSUME PolicyGrants, RecordInv, AgeInv, AbsentInv, RequestInv, fight = "wait", pose = "busy"
    PROVE  InferencePending /\ ~PoseFailed
<1>1. setup.slow < InferenceFail /\ setup.slow \in Nat
    BY SetupFacts DEF PolicyGrants, RecordInv
<1>2. ~Suspended
    BY DEF AbsentInv, Suspended
<1>3. age["request"] \in 0 .. setup.slow /\ heard.fight = "asked" /\ age["fightBeat"] = age["request"]
    BY DEF RequestInv
<1>4. age["request"] # Never /\ age["request"] < InferenceFail
    BY <1>1, <1>3, PolicyFacts DEF Never
<1>5. ~(InferenceFail > StartupGrace) => age["request"] < StartupGrace
    BY <1>1, <1>3, PolicyFacts
<1>6. ~PoseFailed
    BY <1>1, <1>3, <1>4, <1>5, PolicyFacts DEF PoseFailed
<1> QED BY <1>2, <1>3, <1>4, <1>5, <1>6, PolicyFacts DEF InferencePending

LEMMA LiveIngestStays ==
    ASSUME PolicyGrants, AgeInv, AbsentInv, SeenInv, ReaderInv,
           ~setup.file, outages = 0, ingest = "run", step = "judge"
    PROVE  Verdict # "restart_camera"
<1>1. seen.ingest \in AliveStates
    BY DEF SeenInv, AliveStates
<1>2. ~Some(IngestAges, StallFail)
    <2>1. /\ source = "up" => age["ingestBeat"] = 0 /\ age["frame"] = 0
          /\ source # "up" => age["frame"] = Never /\ age["ingestBeat"] \in 0 .. 1 /\ age["born"] = age["ingestBeat"]
        BY DEF ReaderInv
    <2>2. StallFail \in Nat /\ StallFail > 1
        BY PolicyFacts DEF PolicyGrants
    <2>3. IngestAges \subseteq {0, 1}
        BY <2>1 DEF IngestAges, Since, Never
    <2> QED BY <2>2, <2>3 DEF Some
<1> QED BY <1>1, <1>2 DEF Verdict, Stalled

LEMMA AskingStays ==
    ASSUME PolicyGrants, RecordInv, AgeInv, AbsentInv, SeenInv, RequestInv,
           fight = "wait", pose = "busy", step = "judge"
    PROVE  Verdict # "restart_fight"
<1>1. seen.fight \in AliveStates
    BY DEF SeenInv, AliveStates
<1>2. InferencePending
    BY PendingInTime
<1> QED BY <1>1, <1>2 DEF Verdict, Stalled, FightGone

\* A file nothing has gone wrong with, once its end was read.
LEMMA EndedStays ==
    ASSUME PolicyGrants, RecordInv, FileInv, CauseInv, Clean, fileEof, step = "judge"
    PROVE  Verdict \notin {"restart_fight", "restart_camera"}
<1> SUFFICES ASSUME ~Finished PROVE Verdict \notin {"restart_fight", "restart_camera"}
    BY DEF Verdict
<1>1. setup.file /\ ~item.failed /\ ~item.waiting /\ ~Suspended
    BY DEF Clean, Finished, FileInv, Suspended
<1>2. /\ seen.ingest \in {"run", "drained"}
      /\ seen.fight \in AliveStates \cup {"drained"}
      /\ seen.fight = "drained" => fight = "drained"
    BY <1>1 DEF CauseInv, CleanSeenInv
<1>3. IngestEof /\ (FightGone => FightDrained)
    BY <1>2 DEF IngestEof, EofKnown, FightGone, FightDrained
<1>4. ~(seen.ingest \notin AliveStates /\ (~IngestEof \/ seen.ingest = "dead"))
    BY <1>2, <1>3
<1> SUFFICES ASSUME ~Pardoned, ~InferencePending PROVE ~Some(IngestAges \cup FightAges, StallFail)
    BY <1>3, <1>4 DEF Verdict, Stalled
<1>5. ~PoseFailed
    BY CleanPose DEF CauseInv
<1>6. seen.fight \in AliveStates /\ seen.fight # "drained"
    BY <1>2, <1>3, <1>1 DEF Pardoned, FightGone, AliveStates
<1>7. heard.fight = "capacity_wait" => age["fightBeat"] # 0
    BY <1>1, <1>5 DEF Pardoned, QueuePressure
<1>8. Consuming
    <2>1. fight \in {"run", "wait", "queued", "drained", "none"} /\ (fight = "none" => item.failed)
        BY DEF CauseInv, CleanInv
    <2>2. fight # "queued"
        BY <1>1, <1>7 DEF CauseInv, ConsumerInv
    <2>3. fight # "wait"
        <3> SUFFICES ASSUME fight = "wait" PROVE FALSE
            OBVIOUS
        <3>1. pose = "busy"
            BY <1>1 DEF CauseInv, ConsumerInv
        <3> QED BY <3>1, PendingInTime DEF CauseInv
    <2> QED BY <1>1, <1>6, <2>1, <2>2, <2>3 DEF Consuming
<1>9. /\ age["fightBeat"] \in 0 .. Lately /\ age["fightFrame"] \in Never .. Lately
      /\ source = "up" /\ age["firstFrame"] # Never
      /\ age["fightFrame"] = Never => age["firstFrame"] = 0
    <2>1. source = "up"
        BY DEF CauseInv, CleanInv
    <2> QED BY <1>1, <1>7, <1>8, <2>1 DEF CauseInv, ConsumerInv
<1>10. Lately \in Nat /\ Lately < StallFail /\ StallFail \in Nat /\ StallFail > 1
    <2>1. setup \in Setups /\ setup.slow < StallFail /\ setup.slow \in Nat
        BY <1>1, SetupFacts DEF PolicyGrants, RecordInv
    <2> QED BY <2>1, PolicyFacts DEF Lately, PolicyGrants
<1>11. IngestAges = {0}
    BY <1>3 DEF IngestAges
<1>12. FightAges = {age["fightBeat"], Since("fightFrame", LeastOf(age["firstFrame"], age["fightBorn"]))}
    BY <1>1, <1>9 DEF FightAges
<1>13. Since("fightFrame", LeastOf(age["firstFrame"], age["fightBorn"])) \in 0 .. Lately
    <2>1. CASE age["fightFrame"] # Never
        BY <1>9, <1>10, <2>1 DEF Since, Never
    <2>2. CASE age["fightFrame"] = Never
        <3>1. age["fightBorn"] \in Int /\ age["fightBorn"] >= Never
            BY AgeFacts DEF CauseInv, Clocks
        <3>2. age["firstFrame"] = 0
            BY <1>9, <2>2
        <3>3. LeastOf(0, age["fightBorn"]) = 0
            BY <3>1 DEF LeastOf, Never
        <3> QED BY <1>10, <2>2, <3>2, <3>3 DEF Since
    <2> QED BY <2>1, <2>2
<1>14. \A a \in IngestAges \cup FightAges : a \in 0 .. Lately
    BY <1>9, <1>10, <1>11, <1>12, <1>13
<1> QED BY <1>10, <1>14 DEF Some

-----------------------------------------------------------------------------
LEMMA BlamedHolds ==
    ASSUME PolicyGrants, RecordInv, CauseInv, [MainNext]_runtimeVars
    PROVE  BlamedStep
<1> USE DEF CauseInv
<1>1. Turn /\ setup' = setup
    BY Turns DEF Turn
<1>2. ASSUME gen' # gen, outages = 0, ~setup.file PROVE ingest # "run"
    <2>1. gen' = gen \/ (CameraNew /\ Tends)
        <3>1. CASE Lives
            BY <3>1, WorldCases, BreaksDo, SourceDoes, FightAsksDoes, FileEndsDoes, FirstFrameDoes, PoseAnswersDoes,
                DrainsDoes DEF Lives, Alone
        <3>2. CASE Passes
            BY <3>2, PassDoes DEF Passes, Alone
        <3>3. CASE Sees \/ Tends \/ Idles \/ TakesDown
            BY <3>3 DEF Sees, Tends, Idles, TakesDown, Rests, FightTaken, FightNew, BundleFails, BundleNew
        <3> QED BY <1>1, <3>1, <3>2, <3>3 DEF Turn
    <2>2. gen' # gen => IngestLost \/ (step = "judge" /\ Verdict = "restart_camera")
        BY <2>1 DEF Tends, BundleFails, BundleNew, FightTaken, FightNew
    <2>3. IngestLost => ingest # "run"
        BY DEF IngestLost
    <2> QED BY <1>2, <2>2, <2>3, LiveIngestStays
<1>3. ASSUME fight = "wait", fight' = "none", pose = "busy", pose' = "busy" PROVE FALSE
    <2>1. ~Lives
        BY <1>3, WorldCases, BreaksDo, SourceDoes, FightAsksDoes, FileEndsDoes, FirstFrameDoes, PoseAnswersDoes,
            DrainsDoes DEF Lives
    <2>2. ~Passes
        BY <1>3, PassDoes DEF Passes
    <2>3. ~Sees /\ ~Idles /\ ~TakesDown
        BY <1>3 DEF Sees, Idles, TakesDown, Rests
    <2>4. ~item.failed /\ ~bundle.retrying /\ ~FightLost
        BY <1>3 DEF AbsentInv, FightLost
    <2>5. ~(step = "judge" /\ Verdict = "restart_fight")
        BY <1>3, AskingStays
    <2>6. ~BundleFails /\ ~BundleNew /\ ~FightNew /\ ~CameraNew
        BY <1>3, <2>4 DEF BundleFails, BundleNew, FightNew, CameraNew
    <2>7. ~Tends
        BY <2>4, <2>5, <2>6 DEF Tends
    <2> QED BY <1>1, <2>1, <2>2, <2>3, <2>7 DEF Turn
<1> QED BY <1>2, <1>3 DEF BlamedStep, CameraStarts

LEMMA CleanEndHolds ==
    ASSUME PolicyGrants, RecordInv, FileInv, CauseInv, [MainNext]_runtimeVars
    PROVE  CleanEndStep
<1> SUFFICES ASSUME fileEof, failures = 0 PROVE fileEof' /\ opens' = opens /\ item'.failed = item.failed
    BY DEF CleanEndStep
<1>0. AgeInv /\ setup.file
    BY DEF CauseInv, AbsentInv
<1>1. Turn
    BY <1>0, Turns
<1>2. CASE Lives
    <2>1. fileEof'
        BY <1>0, <1>2, WorldCases, BreaksDo, SourceDoes, FightAsksDoes, FileEndsDoes, FirstFrameDoes, PoseAnswersDoes,
            DrainsDoes DEF Lives
    <2>2. UNCHANGED <<item, opens>>
        BY <1>0, <1>2, WorldCases, BreaksDo, SourceDoes, FightAsksDoes, FileEndsDoes, FirstFrameDoes, PoseAnswersDoes,
            DrainsDoes DEF Lives, Alone
    <2> QED BY <2>1, <2>2
<1>3. CASE Passes
    BY <1>0, <1>3, PassDoes DEF Passes, Alone
<1>4. CASE Sees \/ Idles \/ TakesDown
    BY <1>4 DEF Sees, Idles, TakesDown, Rests
<1>5. CASE Tends
    <2>1. Clean
        BY <1>0, <1>5 DEF Tends, Clean
    <2>2. ingest \in {"run", "drained"} /\ fight \in {"run", "wait", "queued", "drained", "none"}
        BY <2>1 DEF CauseInv, CleanInv
    <2>3. ~FightLost /\ ~(IngestLost /\ ~(ingest = "drained" /\ fileEof))
        BY <2>2 DEF FightLost, IngestLost
    <2>4. ~(step = "judge" /\ Verdict \in {"restart_fight", "restart_camera"})
        BY <2>1, EndedStays
    <2>5. FightTaken \/ CameraNew
        BY <1>0, <1>5, <2>1, CleanTends DEF CauseInv
    <2>6. ~BundleFails /\ ~BundleNew
        BY <1>0, <2>1, CleanPose DEF CauseInv, BundleFails, BundleNew, FileInv
    <2>7. (FightTaken \/ FightNew) /\ item.failed
        BY <1>0, <1>5, <2>3, <2>4, <2>6 DEF Tends
    <2>8. FightTaken
        BY <1>0, <2>7 DEF FightNew
    <2>9. item.failed = TRUE
        BY <2>7 DEF RecordInv
    <2> QED BY <2>8, <2>9 DEF FightTaken
<1> QED BY <1>1, <1>2, <1>3, <1>4, <1>5 DEF Turn

\* Nothing is replaced without a reason of its own and nothing that has ended well
\* (CameraRuntimeManager.poll, RuntimeWatchdog.tick), as long as the policy grants
\* that a camera may be silent for more than one unit, and that an inference that is
\* in time is over before the inference limit, and for a file before the stall limit.
THEOREM ReplacedForCauseHolds == PolicyGrants => (MainSpec => ReplacedForCause)
<1> SUFFICES ASSUME PolicyGrants PROVE MainSpec => ReplacedForCause
    OBVIOUS
<1> DEFINE Inv == ExitInv /\ CauseInv
<1>1. MainInit => Inv
    BY MainInitInv, CauseStart
<1>2. Inv /\ [MainNext]_runtimeVars => Inv'
    BY ExitInvStep, CauseStep DEF ExitInv
<1>3. Inv /\ [MainNext]_runtimeVars => [BlamedStep /\ CleanEndStep]_runtimeVars
    BY BlamedHolds, CleanEndHolds DEF ExitInv
<1> HIDE DEF Inv
<1> QED BY <1>1, <1>2, <1>3, PTL DEF MainSpec, ReplacedForCause
=============================================================================
