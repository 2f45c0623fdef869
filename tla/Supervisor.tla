----------------------------- MODULE Supervisor -----------------------------
(***************************************************************************)
(* The runtime supervisor (runtime_supervisor/core.py, server.py): one      *)
(* process that launches, watches, stops and relaunches the runtime parent. *)
(*                                                                          *)
(* Every operation runs under one re-entrant lock, so `pc' names the        *)
(* operation that holds it and where that operation is.  The steps of an    *)
(* operation are cut at the writes of runtime_state.json, at Popen and at   *)
(* the wait for the child, because the supervisor can die between any two   *)
(* of them, the write can fail, and the runtime (a session of its own) can  *)
(* exit, or survive the supervisor, at any moment.                          *)
(*                                                                          *)
(* A launched process is identified with its pid.  Configuration paths, the *)
(* event log's rows, log files, health snapshots and disk figures are left  *)
(* out.                                                                     *)
(***************************************************************************)
EXTENDS Naturals, FiniteSets

CONSTANTS
    Runs,           \* the processes that can be launched
    None,
    MaxAttempts,    \* restart_max_attempts; 0 is auto_restart off
    Platforms,      \* what os.name may be; a kill goes as on one of them
    Faults,         \* the kinds of fault that may happen
    MaxFaults       \* bound: faults

FaultKinds == {"write", "log", "popen", "reject", "kill", "death", "reuse"}

ASSUME SupervisorAssumption ==
    /\ None \notin Runs /\ IsFiniteSet(Runs)
    /\ MaxAttempts \in Nat /\ Platforms \subseteq {"nt", "posix"}
    /\ Faults \subseteq FaultKinds /\ MaxFaults \in Nat

RuntimeStates == {"STOPPED", "STARTING", "RUNNING", "STOPPING", "FAILED", "BACKOFF"}
ACTIVE_STATES == {"STARTING", "RUNNING", "STOPPING", "BACKOFF"}
\* What runtime_state.json says: supervisor_state and runtime_state always agree.
Record == [rt : RuntimeStates, pid : Runs \cup {None}, orphan : BOOLEAN]
Fresh == [rt |-> "STOPPED", pid |-> None, orphan |-> FALSE]

Ops == {"start", "restart", "stop", "close", "status", "monitor", "backoff"}
Places == {"refresh", "schedule", "decide", "launch", "spawn", "record", "kill", "settle"}
Idle == [op |-> "none", at |-> "idle"]

VARIABLES
    up,         \* the supervisor process: "down", "up", "closing" or "closed"
    pc,         \* the operation that holds _lock
    mem, disk,  \* _state and runtime_state.json
    child,      \* _child
    proc,       \* the processes: "unused", "alive", "zero" or "failed"
    attempts,   \* _restart_attempts inside the window
    asleep,     \* backoff threads waiting out restart_backoff_sec
    woken,      \* backoff threads waiting for _lock
    operr,      \* operational_error is set
    wanted,     \* history: the last start, restart or completed stop
    unwritten,  \* history: launched, and its pid not yet in the file
    unconfirmed,\* history: given up on after SIGKILL
    faults

procVars == <<proc, unconfirmed>>
threadVars == <<attempts, asleep, woken>>
vars == <<up, pc, mem, disk, child, proc, attempts, asleep, woken, operr, wanted,
          unwritten, unconfirmed, faults>>

Alive == {r \in Runs : proc[r] = "alive"}
Unused == {r \in Runs : proc[r] = "unused"}

Init ==
    /\ up = "down" /\ pc = Idle /\ mem = Fresh /\ disk = Fresh /\ child = None
    /\ proc = [r \in Runs |-> "unused"]
    /\ attempts = 0 /\ asleep = 0 /\ woken = 0 /\ operr = FALSE
    /\ wanted = "stop" /\ unwritten = {} /\ unconfirmed = {} /\ faults = 0

CanFail(k) == k \in Faults /\ faults < MaxFaults
Fails(k) == CanFail(k) /\ faults' = faults + 1
NoFault == UNCHANGED faults

(***************************************************************************)
(* _persist: the state is already changed in memory when the write is       *)
(* tried.  A write that raises has replaced the file or not: the directory  *)
(* is synced after the replacement.                                         *)
(***************************************************************************)
Persist(state, ok) ==
    /\ mem' = state
    /\ IF ok THEN disk' = state /\ NoFault
             ELSE disk' \in {disk, state} /\ Fails("write")
    /\ unwritten' = IF disk' = state THEN unwritten \ {state.pid} ELSE unwritten
NoWrite == UNCHANGED <<mem, disk, unwritten, faults>>

At(place) == pc.at = place
Moves(place) == pc' = [pc EXCEPT !.at = place] /\ UNCHANGED <<up, wanted>>
\* The operation returns, or raises; close() swallows what stop() raises.
Leaves == pc' = Idle /\ up' = IF pc.op = "close" THEN "closed" ELSE up
Raises == Leaves /\ UNCHANGED wanted
Returns == Leaves /\ wanted' = IF pc.op = "stop" THEN "stop" ELSE wanted

(***************************************************************************)
(* Taking the lock.                                                         *)
(***************************************************************************)
Takes(op, place) ==
    /\ up # "down" /\ pc = Idle
    /\ pc' = [op |-> op, at |-> place]
    /\ UNCHANGED <<mem, disk, child, proc, attempts, asleep, operr, unwritten, unconfirmed,
                   faults>>

Request(op) ==
    /\ Takes(op, "refresh")
    /\ wanted' = IF op \in {"start", "restart"} THEN "run" ELSE wanted
    /\ UNCHANGED <<up, woken>>
Start == Request("start")
Restart == Request("restart")
Stop == Request("stop")

\* status() and the monitor leave a child that is being stopped alone.
Looks(op) ==
    /\ Takes(op, IF mem.rt = "STOPPING" THEN "decide" ELSE "refresh")
    /\ UNCHANGED <<up, wanted, woken>>
Status == Looks("status")
Monitor == up = "up" /\ Looks("monitor")

\* _auto_restart_after_backoff: only a state that is still BACKOFF is relaunched.
BackoffEnds(place) ==
    /\ woken > 0 /\ woken' = woken - 1
    /\ Takes("backoff", place) /\ UNCHANGED <<up, wanted>>
\* Mutants: the thread only looks for a child; it expects the exit's own state.
MayRelaunchAnything == child = None
MayRelaunchFailed == child = None /\ mem.rt = "FAILED"
MayRelaunch == child = None /\ mem.rt = "BACKOFF"
Relaunch == MayRelaunch /\ BackoffEnds("launch")
BackoffMoot ==
    /\ woken > 0 /\ woken' = woken - 1 /\ up # "down" /\ pc = Idle /\ ~MayRelaunch
    /\ UNCHANGED <<up, pc, mem, disk, child, procVars, attempts, asleep, operr, wanted,
                   unwritten, faults>>

(***************************************************************************)
(* _refresh_child_locked and _schedule_auto_restart_locked.                 *)
(***************************************************************************)
\* A write the monitor fails is noted, and tried again by a later round.
NotesError(ok) == operr' = (operr \/ (~ok /\ pc.op = "monitor"))

RefreshQuiet ==
    /\ At("refresh") /\ (child # None => proc[child] = "alive")
    /\ Moves("decide") /\ NoWrite
    /\ UNCHANGED <<child, procVars, threadVars, operr>>

Ended == IF proc[child] = "zero" THEN "STOPPED" ELSE "FAILED"
RefreshExited ==
    /\ At("refresh") /\ child # None /\ proc[child] # "alive"
    /\ child' = None
    /\ \E ok \in BOOLEAN :
        /\ Persist([mem EXCEPT !.rt = Ended, !.pid = None], ok)
        /\ NotesError(ok)
        /\ IF ~ok THEN Raises
           ELSE Moves(IF Ended = "FAILED" THEN "schedule" ELSE "decide")
    /\ UNCHANGED <<procVars, threadVars>>

\* Some of the attempts may have left restart_window_sec.
Schedule ==
    /\ At("schedule")
    /\ \E kept \in 0 .. attempts :
        IF kept >= MaxAttempts
        THEN attempts' = kept /\ Moves("decide") /\ NoWrite /\ UNCHANGED <<asleep, operr>>
        ELSE /\ attempts' = kept + 1
             /\ \E ok \in BOOLEAN :
                 /\ Persist([mem EXCEPT !.rt = "BACKOFF"], ok)
                 /\ NotesError(ok)
                 /\ IF ok THEN Moves("decide") /\ asleep' = asleep + 1
                          ELSE Raises /\ UNCHANGED asleep
    /\ UNCHANGED <<child, procVars, woken>>

(***************************************************************************)
(* What each operation does after the refresh.                              *)
(***************************************************************************)
DecideLook ==
    /\ At("decide") /\ pc.op \in {"status", "monitor"}
    /\ IF pc.op = "monitor" /\ operr
       THEN \E ok \in BOOLEAN : Persist(mem, ok) /\ operr' = ~ok
       ELSE NoWrite /\ UNCHANGED operr
    /\ Returns /\ UNCHANGED <<child, procVars, threadVars>>

\* Mutant: a child that is being stopped does not count as running.
DecideStartBesideStopping ==
    /\ At("decide") /\ pc.op = "start"
    /\ IF child # None /\ mem.rt \in {"STARTING", "RUNNING"} THEN Returns ELSE Moves("launch")
    /\ NoWrite /\ UNCHANGED <<child, procVars, threadVars, operr>>
DecideStart ==
    /\ At("decide") /\ pc.op = "start"
    /\ IF child # None /\ mem.rt \in {"STARTING", "RUNNING", "STOPPING"}
       THEN Returns ELSE Moves("launch")
    /\ NoWrite /\ UNCHANGED <<child, procVars, threadVars, operr>>

\* _stop_locked, up to the wait; what follows a stop.
Stopped(ok) ==
    IF ~ok THEN Raises ELSE IF pc.op = "restart" THEN Moves("launch") ELSE Returns
Stopping == {"stop", "restart", "close"}

DecideStopOrphan ==
    /\ At("decide") /\ pc.op \in Stopping /\ child = None /\ mem.orphan
    /\ Stopped(TRUE) /\ NoWrite /\ UNCHANGED <<child, procVars, threadVars, operr>>

\* Mutant: a stop erases the fence.
DecideStopErases ==
    /\ At("decide") /\ pc.op \in Stopping /\ child = None
    /\ \E ok \in BOOLEAN :
        Persist([mem EXCEPT !.rt = "STOPPED", !.pid = None, !.orphan = FALSE], ok) /\ Stopped(ok)
    /\ UNCHANGED <<child, procVars, threadVars, operr>>
DecideStopNothing ==
    /\ At("decide") /\ pc.op \in Stopping /\ child = None /\ ~mem.orphan
    /\ \E ok \in BOOLEAN :
        Persist([mem EXCEPT !.rt = "STOPPED", !.pid = None], ok) /\ Stopped(ok)
    /\ UNCHANGED <<child, procVars, threadVars, operr>>

DecideStopChild ==
    /\ At("decide") /\ pc.op \in Stopping /\ child # None
    /\ \E ok \in BOOLEAN :
        /\ Persist([mem EXCEPT !.rt = "STOPPING"], ok)
        /\ IF ok THEN Moves("kill") ELSE Raises
    /\ UNCHANGED <<child, procVars, threadVars, operr>>

(***************************************************************************)
(* _graceful_tree_stop and the rest of _stop_locked.                        *)
(***************************************************************************)
Waits == UNCHANGED <<mem, disk, child, threadVars, operr, unwritten>>

\* The tree ends within the grace periods, or had ended before.
Kill ==
    /\ At("kill") /\ Moves("settle")
    /\ proc' = [proc EXCEPT ![child] = IF @ = "alive" THEN "failed" ELSE @]
    /\ UNCHANGED <<unconfirmed, faults>> /\ Waits

\* It does not: taskkill's check raises, the wait after SIGKILL is not looked at.
KillRaises ==
    /\ At("kill") /\ "nt" \in Platforms /\ Fails("kill")
    /\ Raises /\ UNCHANGED procVars /\ Waits
KillUnconfirmed ==
    /\ At("kill") /\ "posix" \in Platforms /\ Fails("kill") /\ proc[child] = "alive"
    /\ unconfirmed' = unconfirmed \cup {child} /\ UNCHANGED proc
    /\ Moves("settle") /\ Waits

Settle ==
    /\ At("settle") /\ child' = None
    /\ \E ok \in BOOLEAN :
        Persist([mem EXCEPT !.rt = "STOPPED", !.pid = None], ok) /\ Stopped(ok)
    /\ UNCHANGED <<procVars, threadVars, operr>>

(***************************************************************************)
(* _launch_locked.                                                          *)
(***************************************************************************)
\* The fence, the maintenance lock, a bad configuration, or a launch file that
\* cannot be written: nothing of the state is changed.
LaunchRefused ==
    /\ At("launch")
    /\ IF mem.orphan THEN NoFault ELSE Fails("reject")
    /\ Raises /\ UNCHANGED <<mem, disk, child, procVars, threadVars, operr, unwritten>>

Launch ==
    /\ At("launch") /\ ~mem.orphan
    /\ \E ok \in BOOLEAN :
        /\ Persist([Fresh EXCEPT !.rt = "STARTING"], ok)
        /\ IF ok THEN Moves("spawn") ELSE Raises
    /\ UNCHANGED <<child, procVars, threadVars, operr>>

Popen ==
    /\ At("spawn")
    /\ \E r \in Unused :
        /\ proc' = [proc EXCEPT ![r] = "alive"] /\ child' = r
        /\ mem' = [mem EXCEPT !.rt = "RUNNING", !.pid = r]
        /\ unwritten' = unwritten \cup {r}
    /\ Moves("record") /\ UNCHANGED <<disk, unconfirmed, threadVars, operr, faults>>

\* Popen raises; it always does once the pids have run out.
PopenFails ==
    /\ At("spawn") /\ IF Unused = {} THEN NoFault ELSE Fails("popen")
    /\ mem' = [mem EXCEPT !.rt = "FAILED"] /\ Moves("record")
    /\ UNCHANGED <<disk, child, procVars, threadVars, operr, unwritten>>

\* The outcome of Popen is written; if that fails, nothing writes it again.
LaunchRecorded ==
    /\ At("record")
    /\ \E ok \in BOOLEAN : Persist(mem, ok)
    /\ Raises /\ UNCHANGED <<child, procVars, threadVars, operr>>

(***************************************************************************)
(* Threads, processes and the supervisor's own life.                        *)
(***************************************************************************)
\* A backoff thread wakes; once the supervisor is closing it just returns.
Wake ==
    /\ up # "down" /\ asleep > 0 /\ asleep' = asleep - 1
    /\ woken' = IF up = "up" THEN woken + 1 ELSE woken
    /\ UNCHANGED <<up, pc, mem, disk, child, procVars, attempts, operr, wanted, unwritten,
                   faults>>

\* _record cannot write the event log.
LogFails ==
    /\ up # "down" /\ Fails("log") /\ operr' = TRUE
    /\ UNCHANGED <<up, pc, mem, disk, child, procVars, threadVars, wanted, unwritten>>

Exits(r) ==
    /\ proc[r] = "alive"
    /\ \E code \in {"zero", "failed"} : proc' = [proc EXCEPT ![r] = code]
    /\ UNCHANGED <<up, pc, mem, disk, child, threadVars, operr, wanted, unwritten,
                   unconfirmed, faults>>

\* The memory of the supervisor goes, its processes stay.
Dies ==
    /\ up' = "down" /\ pc' = Idle /\ mem' = Fresh /\ child' = None
    /\ attempts' = 0 /\ asleep' = 0 /\ woken' = 0 /\ operr' = FALSE
    /\ UNCHANGED <<disk, procVars, wanted, unwritten>>
Crash == up # "down" /\ Fails("death") /\ Dies
\* main() returns, and takes the daemon threads of pending requests along.
Exit == up = "closed" /\ Dies /\ NoFault

\* close(): from here on the backoff threads return, and then stop() runs.
Shutdown ==
    /\ up = "up" /\ up' = "closing"
    /\ UNCHANGED <<pc, mem, disk, child, procVars, threadVars, operr, wanted, unwritten,
                   faults>>
Close ==
    /\ up = "closing" /\ Takes("close", "refresh") /\ UNCHANGED <<up, wanted, woken>>

\* _reconcile_persisted_state, under the singleton lock.  A pid that exists may
\* have been given to another process.
\* Mutant: only a state that says it runs is looked into.
SuspectRunning == disk.pid # None /\ (disk.rt = "RUNNING" \/ disk.orphan)
Suspect == disk.pid # None /\ (disk.rt \in ACTIVE_STATES \/ disk.orphan)
Reconciled(exists) ==
    IF exists THEN [rt |-> "FAILED", pid |-> disk.pid, orphan |-> TRUE] ELSE Fresh
Boots(state) ==
    /\ up = "down" /\ up' = "up" /\ mem' = state /\ disk' = state
    /\ UNCHANGED <<pc, child, procVars, threadVars, operr, wanted, unwritten>>
Boot == Boots(Reconciled(Suspect /\ disk.pid \in Alive)) /\ NoFault
BootReused == Suspect /\ Fails("reuse") /\ Boots(Reconciled(TRUE))
\* The first write raises out of __init__.
BootFails ==
    /\ up = "down" /\ Fails("write")
    /\ disk' \in {disk, Reconciled(Suspect /\ disk.pid \in Alive)}
    /\ UNCHANGED <<up, pc, mem, child, procVars, threadVars, operr, wanted, unwritten>>

OpStep ==
    \/ RefreshQuiet \/ RefreshExited \/ Schedule
    \/ DecideLook \/ DecideStart
    \/ DecideStopOrphan \/ DecideStopNothing \/ DecideStopChild
    \/ Kill \/ KillRaises \/ KillUnconfirmed \/ Settle
    \/ LaunchRefused \/ Launch \/ Popen \/ PopenFails \/ LaunchRecorded

Next ==
    \/ Start \/ Restart \/ Stop \/ Status \/ Monitor \/ Relaunch \/ BackoffMoot
    \/ OpStep
    \/ Wake \/ LogFails \/ (\E r \in Runs : Exits(r))
    \/ Crash \/ Exit \/ Shutdown \/ Close
    \/ Boot \/ BootReused \/ BootFails

Spec == Init /\ [][Next]_vars

\* A thread that waits for _lock gets it some time, the monitor loops and the
\* backoff wait has an end; nothing makes a request or an exit happen.
FairSpec ==
    /\ Spec /\ WF_vars(OpStep) /\ WF_vars(Wake) /\ SF_vars(Monitor) /\ SF_vars(Relaunch)

-----------------------------------------------------------------------------
\* Types.
TypeOK ==
    /\ up \in {"down", "up", "closing", "closed"}
    /\ pc \in [op : Ops, at : Places] \cup {Idle}
    /\ mem \in Record /\ disk \in Record /\ child \in Runs \cup {None}
    /\ proc \in [Runs -> {"unused", "alive", "zero", "failed"}]
    /\ attempts \in Nat /\ asleep \in Nat /\ woken \in Nat /\ operr \in BOOLEAN
    /\ wanted \in {"run", "stop"} /\ unwritten \subseteq Runs /\ unconfirmed \subseteq Runs
    /\ faults \in Nat

\* Runtimes the supervisor may lose sight of: a kill that was never confirmed,
\* and a launch whose pid could not be written before the supervisor died.
Excused == unconfirmed \cup (unwritten \ {child})

\* Apart from those, there is never a second live runtime: _launch_locked runs
\* only when the last child is gone and no unverified process is fenced.
AtMostOne == \A r, s \in Alive \ Excused : r = s

\* A live runtime that has been written down stays findable: the file names it
\* in a state that the next supervisor looks into, whatever write fails.
Recoverable ==
    \A r \in Alive \ (unwritten \cup unconfirmed) :
        disk.pid = r /\ (disk.rt \in ACTIVE_STATES \/ disk.orphan)

\* A process found at start-up is neither forgotten, nor stopped, nor doubled
\* by any request while this supervisor lives.
FenceStep ==
    mem.orphan /\ up' # "down" =>
        mem'.orphan /\ mem'.pid = mem.pid /\ disk'.orphan /\ Unused' = Unused
FenceHolds == [][FenceStep]_vars

\* After a completed stop nothing launches a runtime until it is asked for:
\* no backoff thread, however old, and no monitor round.
StopStep == wanted = "stop" => Unused' = Unused
StopHolds == [][StopStep]_vars

\* BACKOFF ends: the thread that was started for it relaunches the runtime, as
\* long as nothing more goes wrong.
BackoffServed ==
    \A n \in 0 .. MaxFaults :
        (up = "up" /\ mem.rt = "BACKOFF" /\ asleep + woken > 0 /\ faults = n)
        ~> (up # "up" \/ mem.rt # "BACKOFF" \/ faults > n)

\* Across its lives the supervisor owns at most one runtime and finds the one it
\* owned again (core.py:290, :406).
OwnedOrFound == AtMostOne /\ Recoverable

\* What an operator's stop and the fence around an unverified process have decided
\* no thread undoes: no old backoff, no monitor round, no request that was waiting.
DecisionsHold == [][StopStep /\ FenceStep]_vars
=============================================================================
