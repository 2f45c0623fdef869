---------------------------- MODULE DesiredState ----------------------------
(***************************************************************************)
(* The desired camera document, desired_cameras.json, and everybody who     *)
(* writes it: the registry reconciler of its own process, and the           *)
(* operators' commands in web workers.  All of them read the database and   *)
(* the document, compute a new one, and send it with the next revision; the *)
(* supervisor compares revisions under its lock.  The same commands decide  *)
(* whether the runtime is to run: the monitoring hold, the automatic start  *)
(* and the explicit ones.                                                   *)
(*                                                                          *)
(* A camera of the document is the set of its capabilities, None when it is *)
(* not in it: names, sources and the Speed configuration are left out, and  *)
(* with them a registry that does not validate.  The runtime is running,    *)
(* stopped or failed; Supervisor has its life in detail.                    *)
(***************************************************************************)
EXTENDS Naturals, FiniteSets

CONSTANTS
    Cameras, None,
    Daemon,       \* run_camera_registry_reconciler
    Web,          \* web requests that can be under way together
    Commands,     \* the operator commands that may be given
    MaxCommands,  \* bound: commands
    MaxChanges,   \* bound: changes of the database
    MaxFaults     \* bound: failed and late calls

AllCommands == {"pause", "resume", "speedStart", "speedStop", "hardStop", "start"}

ASSUME DesiredAssumption ==
    /\ Daemon \notin Web /\ Commands \subseteq AllCommands
    /\ MaxCommands \in Nat /\ MaxChanges \in Nat /\ MaxFaults \in Nat

Callers == Web \cup {Daemon}
Capabilities == {"Fight", "Speed"}
Modes == (SUBSET Capabilities) \cup {None}
Registry == [Cameras -> Modes]
Document == [rev : Nat, cams : Registry, sp : BOOLEAN, ap : BOOLEAN]
NoCameras == [c \in Cameras |-> None]
Empty == [rev |-> 0, cams |-> NoCameras, sp |-> FALSE, ap |-> FALSE]

\* A caller: its command, where it is, the database and the document as it has
\* read them, and the runtime state it has been told.
RuntimeStates == {"STOPPED", "RUNNING", "FAILED"}
CallerPlaces == {"idle", "snapshot", "look", "read", "write", "unhold", "checkHold",
           "checkStatus", "launch", "hold", "halt"}
Jobs == AllCommands \cup {"none", "tick", "speedTick"}
Caller == [cmd : Jobs, at : CallerPlaces, snap : Registry, base : Document, told : RuntimeStates]
Resting == [cmd |-> "none", at |-> "idle", snap |-> NoCameras, base |-> Empty,
            told |-> "STOPPED"]

VARIABLES
    db,         \* desired_camera_snapshot()
    doc,        \* desired_cameras.json
    held,       \* monitoring_hold.json exists
    rt,         \* runtime_state, as the supervisor reports it
    caller,
    late,       \* updates whose caller has given up on the answer
    lateStarts, \* such starts
    intent,     \* history: the pauses of the last command the store accepted
    commands, changes, faults

vars == <<db, doc, held, rt, caller, late, lateStarts, intent, commands, changes, faults>>

Init ==
    /\ db \in [Cameras -> {None, Capabilities}]
    /\ doc = Empty /\ held = FALSE /\ rt = "STOPPED"
    /\ caller = [p \in Callers |-> Resting] /\ late = {} /\ lateStarts = {}
    /\ intent = [sp |-> FALSE, ap |-> FALSE]
    /\ commands = 0 /\ changes = 0 /\ faults = 0

CanFail == faults < MaxFaults
Fault == CanFail /\ faults' = faults + 1
NoFault == UNCHANGED faults

At(p, place) == caller[p].at = place
\* One call can be late per caller and command; the caller is gone then.
Goes(p, place) == caller' = [caller EXCEPT ![p].at = place]
Quits(p) == caller' = [caller EXCEPT ![p] = Resting]

(***************************************************************************)
(* What each writer sends.                                                  *)
(***************************************************************************)
Masked(cams, sp, ap) ==
    [c \in Cameras |->
        IF cams[c] = None THEN None
        ELSE cams[c] \ (IF ap THEN Capabilities ELSE IF sp THEN {"Speed"} ELSE {})]

Sends(r, cams, sp, ap) == [rev |-> r.base.rev + 1, cams |-> cams, sp |-> sp, ap |-> ap]
Update(r) ==
    CASE r.cmd = "pause" -> Sends(r, Masked(r.snap, TRUE, TRUE), TRUE, TRUE)
      [] r.cmd = "resume" -> Sends(r, r.snap, FALSE, FALSE)
      [] r.cmd = "speedStop" -> Sends(r, Masked(r.base.cams, TRUE, FALSE), TRUE, r.base.ap)
      [] r.cmd = "speedStart" -> Sends(r, r.base.cams, FALSE, r.base.ap)
      [] OTHER -> Sends(r, Masked(r.snap, r.base.sp, r.base.ap), r.base.sp, r.base.ap)

(***************************************************************************)
(* DesiredCameraStateStore.update, under the supervisor's lock.             *)
(***************************************************************************)
\* Mutant: an equal revision replaces the document.
NewerOrEqual(new) == new.rev >= doc.rev
Newer(new) == new.rev > doc.rev
Same(new) == new = doc

\* A command is what the operator wants from the moment the store has it.
Ticks == {"tick", "speedTick"}
Stores(r) ==
    /\ doc' = Update(r)
    /\ intent' = IF r.cmd \in Ticks THEN intent ELSE [sp |-> doc'.sp, ap |-> doc'.ap]
StoresNothing == UNCHANGED <<doc, intent>>

(***************************************************************************)
(* CameraRegistryReconciler.tick, set_analytics, _set_speed_paused.         *)
(***************************************************************************)
NextAfter(cmd) ==
    CASE cmd \in Ticks -> "checkHold"
      [] cmd \in {"pause", "resume"} -> "unhold"
      [] cmd = "speedStart" -> "snapshot"
      [] OTHER -> "idle"

Begins(p, cmd, place) ==
    /\ caller[p] = Resting
    /\ caller' = [caller EXCEPT ![p] = [Resting EXCEPT !.cmd = cmd, !.at = place]]
    /\ UNCHANGED <<db, doc, held, rt, late, lateStarts, intent, changes, faults>>

TickBegins == Begins(Daemon, "tick", "snapshot") /\ UNCHANGED commands
FirstPlace(cmd) ==
    CASE cmd \in {"pause", "resume"} -> "snapshot"
      [] cmd = "speedStart" -> "read"
      [] cmd = "speedStop" -> "read"
      [] cmd = "hardStop" -> "hold"
      [] OTHER -> "look"
\* get_active_speed_run: Speed runs when the runtime and the document say so.
HasSpeed(cams) == \E c \in Cameras : cams[c] # None /\ "Speed" \in cams[c]
SpeedActive == rt = "RUNNING" /\ ~doc.sp /\ HasSpeed(doc.cams)
\* The pages answer at once when Speed runs already, or does not run, and refuse a
\* start without a Speed camera; then nothing is stored.
SpeedStartGiven == ~SpeedActive /\ HasSpeed(db)
SpeedStopGiven == SpeedActive
CommandBegins(p, cmd) ==
    /\ commands < MaxCommands /\ commands' = commands + 1
    /\ cmd = "speedStart" => SpeedStartGiven
    /\ cmd = "speedStop" => SpeedStopGiven
    /\ Begins(p, cmd, FirstPlace(cmd))

Others == UNCHANGED <<db, held, rt, late, lateStarts, commands, changes>>

\* desired_camera_snapshot, and _active_sources of start_detection, which knows
\* the cameras of Fight only.
FightSources == [c \in Cameras |-> IF db[c] # None /\ "Fight" \in db[c] THEN {"Fight"} ELSE None]
Snapshot(p) ==
    /\ At(p, "snapshot") /\ caller[p].cmd # "start"
    /\ caller' = [caller EXCEPT ![p].snap = db,
                    ![p].at = IF caller[p].cmd \in {"pause", "resume"} THEN "look" ELSE "read"]
    /\ StoresNothing /\ Others /\ NoFault
SnapshotStart(p) ==
    /\ At(p, "snapshot") /\ caller[p].cmd = "start"
    /\ IF FightSources = NoCameras THEN Quits(p)
       ELSE caller' = [caller EXCEPT ![p].snap = FightSources, ![p].at = "launch"]
    /\ StoresNothing /\ Others /\ NoFault

\* get_pipeline_status; start_detection leaves an active runtime alone.
Look(p) ==
    /\ At(p, "look")
    /\ IF caller[p].cmd = "start"
       THEN IF rt = "RUNNING" THEN Quits(p) ELSE Goes(p, "snapshot")
       ELSE caller' = [caller EXCEPT ![p].told = rt, ![p].at = "read"]
    /\ StoresNothing /\ Others /\ NoFault

\* The reconciler sends nothing when the cameras are the ones it wants.
\* Mutant: it only publishes once.
DiffersOnce(r) == r.base.rev = 0
Differs(r) == Update(r).cams # r.base.cams
Read(p) ==
    /\ At(p, "read")
    /\ LET r == [caller[p] EXCEPT !.base = doc] IN
       caller' = [caller EXCEPT ![p] =
           IF r.cmd \in Ticks /\ ~Differs(r) THEN [@ EXCEPT !.at = "checkHold"]
           ELSE [r EXCEPT !.at = "write"]]
    /\ StoresNothing /\ Others /\ NoFault

\* The call succeeds: stored, or stored before with the same content.
Write(p) ==
    /\ At(p, "write")
    /\ LET r == caller[p] IN
       /\ \/ Newer(Update(r)) /\ Stores(r)
          \/ ~Newer(Update(r)) /\ Same(Update(r)) /\ StoresNothing
       /\ IF NextAfter(r.cmd) = "idle" THEN Quits(p)
          ELSE caller' = [caller EXCEPT ![p].at = NextAfter(r.cmd), ![p].base = Empty,
                            ![p].cmd = IF @ = "speedStart" THEN "speedTick" ELSE @]
    /\ Others /\ NoFault

\* StaleDesiredCameraRevision and DesiredCameraRevisionConflict.
WriteRefused(p) ==
    /\ At(p, "write") /\ ~Newer(Update(caller[p])) /\ ~Same(Update(caller[p]))
    /\ Quits(p) /\ StoresNothing /\ Others /\ NoFault

\* atomic_json raises, after or before it has replaced the file.
WriteFails(p) ==
    /\ At(p, "write") /\ Newer(Update(caller[p])) /\ Fault
    /\ Stores(caller[p]) \/ StoresNothing
    /\ Quits(p) /\ Others

\* The client times out; the supervisor may still come to the request.
WriteTimesOut(p) ==
    /\ At(p, "write") /\ Fault /\ Quits(p) /\ StoresNothing
    /\ late' = late \cup {caller[p]}
    /\ UNCHANGED <<db, held, rt, lateStarts, commands, changes>>
LateWrite(r) ==
    /\ r \in late /\ late' = late \ {r}
    /\ IF Newer(Update(r)) THEN Stores(r) ELSE StoresNothing
    /\ UNCHANGED <<db, held, rt, caller, lateStarts, commands, changes, faults>>

\* Any other call to the supervisor raises: what was done so far stays done.  A
\* stop that comes late is this and RuntimeExits.
CallFails(p) ==
    /\ caller[p].at \in {"look", "read", "checkStatus", "launch", "halt"}
    /\ Fault /\ Quits(p) /\ StoresNothing /\ Others

(***************************************************************************)
(* Whether the runtime is to run.                                           *)
(***************************************************************************)
\* set_monitoring_hold(False) follows every accepted set_analytics, and then a
\* runtime that had been found stopped is started.
Unhold(p) ==
    /\ At(p, "unhold") /\ held' = FALSE
    /\ IF caller[p].told = "RUNNING" THEN Quits(p) ELSE Goes(p, "launch")
    /\ StoresNothing /\ UNCHANGED <<db, rt, late, lateStarts, commands, changes, faults>>

\* _autostart; a speed start goes on to its own start in any case.
Done(p) == IF caller[p].cmd = "speedTick" THEN Goes(p, "launch") ELSE Quits(p)
\* Without cameras it depends on a pending historical run.
CheckHold(p) ==
    /\ At(p, "checkHold")
    /\ \/ ~held /\ Goes(p, "checkStatus")
       \/ (held \/ caller[p].snap = NoCameras) /\ Done(p)
    /\ StoresNothing /\ Others /\ NoFault
\* Mutant: only a failed runtime is started.
MayAutostartFailed == rt = "FAILED"
MayAutostart == rt = "STOPPED"
CheckStatus(p) ==
    /\ At(p, "checkStatus")
    /\ IF MayAutostart THEN Goes(p, "launch") ELSE Done(p)
    /\ StoresNothing /\ Others /\ NoFault

\* RuntimeSupervisor.start, and bootstrap for a launch.
Launches(snap) ==
    /\ rt' = "RUNNING"
    /\ doc' = IF rt # "RUNNING" /\ doc.rev = 0 THEN [Empty EXCEPT !.rev = 1, !.cams = snap] ELSE doc
    /\ UNCHANGED intent
Launch(p) ==
    /\ At(p, "launch") /\ Launches(caller[p].snap)
    /\ Quits(p)
    /\ UNCHANGED <<db, held, late, lateStarts, commands, changes, faults>>
LaunchTimesOut(p) ==
    /\ At(p, "launch") /\ Fault /\ Quits(p) /\ StoresNothing
    /\ lateStarts' = lateStarts \cup {caller[p].snap}
    /\ UNCHANGED <<db, held, rt, late, commands, changes>>
LateStart(s) ==
    /\ s \in lateStarts /\ lateStarts' = lateStarts \ {s} /\ Launches(s)
    /\ UNCHANGED <<db, held, caller, late, commands, changes, faults>>

\* stop_detection.
Hold(p) ==
    /\ At(p, "hold") /\ held' = TRUE /\ Goes(p, "halt")
    /\ StoresNothing /\ UNCHANGED <<db, rt, late, lateStarts, commands, changes, faults>>
Halt(p) ==
    /\ At(p, "halt") /\ rt' = "STOPPED" /\ Quits(p)
    /\ StoresNothing /\ UNCHANGED <<db, held, late, lateStarts, commands, changes, faults>>

RuntimeExits ==
    /\ rt = "RUNNING" /\ Fault /\ rt' \in {"STOPPED", "FAILED"}
    /\ StoresNothing /\ UNCHANGED <<db, held, caller, late, lateStarts, commands, changes>>

\* Cameras are edited.
Change(c, mode) ==
    /\ changes < MaxChanges /\ changes' = changes + 1
    /\ db[c] # mode /\ db' = [db EXCEPT ![c] = mode]
    /\ StoresNothing /\ UNCHANGED <<held, rt, caller, late, lateStarts, commands, faults>>

CallerStep(p) ==
    \/ Snapshot(p) \/ SnapshotStart(p) \/ Look(p) \/ Read(p) \/ Write(p) \/ WriteRefused(p)
    \/ Unhold(p) \/ CheckHold(p) \/ CheckStatus(p) \/ Launch(p) \/ Hold(p) \/ Halt(p)
FaultStep(p) == WriteFails(p) \/ WriteTimesOut(p) \/ CallFails(p) \/ LaunchTimesOut(p)

Next ==
    \/ TickBegins
    \/ \E p \in Web, cmd \in Commands : CommandBegins(p, cmd)
    \/ \E p \in Callers : CallerStep(p) \/ FaultStep(p)
    \/ \E r \in late : LateWrite(r)
    \/ \E s \in lateStarts : LateStart(s)
    \/ RuntimeExits
    \/ \E c \in Cameras, mode \in Modes : Change(c, mode)

Spec == Init /\ [][Next]_vars

\* run_service ticks for ever, and a web request gets on with what it began.
FairSpec ==
    /\ Spec /\ WF_vars(TickBegins) /\ \A p \in Callers : WF_vars(CallerStep(p))

-----------------------------------------------------------------------------
\* Types.
TypeOK ==
    /\ db \in Registry /\ doc \in Document /\ held \in BOOLEAN /\ rt \in RuntimeStates
    /\ caller \in [Callers -> Caller] /\ late \subseteq Caller /\ lateStarts \subseteq Registry
    /\ intent \in [sp : BOOLEAN, ap : BOOLEAN]
    /\ commands \in Nat /\ changes \in Nat /\ faults \in Nat

IntentKept == doc.sp = intent.sp /\ doc.ap = intent.ap
PausedWithdrawn ==
    \A c \in Cameras : doc.cams[c] # None =>
        /\ doc.ap => doc.cams[c] = {}
        /\ doc.sp => "Speed" \notin doc.cams[c]

\* The pauses of the document are those of the last command it accepted, and no
\* camera advertises what is paused: no reconciler, however old what it has
\* read, takes back an operator's word (camera_registry.py:57, client.py:54).
PausesKept == IntentKept /\ PausedWithdrawn

\* "Desired state has a monotonic revision": a revision names one content only.
RevisionStep == doc'.rev >= doc.rev /\ (doc'.rev = doc.rev => doc' = doc)
RevisionMonotone == [][RevisionStep]_vars

\* Once the commands and edits are over the document is what the database and
\* the pauses make of the cameras.
Converges == <>[](doc.cams = Masked(db, doc.sp, doc.ap))

\* Without a hold a stopped runtime is started for the cameras of the registry.
StartServed ==
    (rt = "STOPPED" /\ ~held /\ db # NoCameras) ~> (rt # "STOPPED" \/ held \/ db = NoCameras)
=============================================================================
