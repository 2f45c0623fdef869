---------------------------- MODULE FightRuntime ----------------------------
(***************************************************************************)
(* The runtime parent's main loop (run_multiprocess.py) over the cameras    *)
(* (camera_lifecycle.py) and the shared Fight service (shared_services.py). *)
(*                                                                          *)
(* The parent is one thread: it loads a newer desired revision, prepares    *)
(* the service and reconciles the cameras, ticks the service, polls every   *)
(* camera, retries failed starts and runs the watchdog, again and again.    *)
(* `phase' says where it is.  Its children die, reach the end of their      *)
(* file or drain at any moment between two of its steps.  Speed and preview *)
(* consumers are not modelled here.                                         *)
(***************************************************************************)
EXTENDS Naturals, FiniteSets

CONSTANTS
    Cameras, Slots,
    Files,               \* the cameras whose source is an ordered file
    None,
    ServiceRestartLimit, \* fight_service_restart_limit
    CameraRestartLimit,  \* watchdog_camera_restart_limit
    Loads,               \* the desired states that may be loaded
    MaxRevisions,        \* bound: desired revisions
    MaxFaults,           \* bound: deaths, stalls and failed spawns
    MaxGen               \* bound: generations of a slot

\* A camera's desired entry: absent, without Fight, with Fight, and with Fight
\* on another source.
Wants == {"off", "plain", "fight", "moved"}
Fights(w) == w \in {"fight", "moved"}
SameSource(v, w) == (v = "moved") = (w = "moved")

ASSUME RuntimeAssumption ==
    /\ Loads \subseteq [Cameras -> Wants]
    /\ Files \subseteq Cameras /\ None \notin Cameras /\ IsFiniteSet(Slots)
    /\ Slots \subseteq Nat
    /\ ServiceRestartLimit \in Nat /\ CameraRestartLimit \in Nat
    /\ MaxRevisions \in Nat /\ MaxFaults \in Nat /\ MaxGen \in Nat

Item == [want : Wants, slot : Slots, gen : Nat,
         ingest : {"none", "alive", "exited", "dead"}, eof : BOOLEAN,
         consumer : {"none", "alive", "exited", "dead"},
         epoch : Nat, svc : Nat,         \* of the last consumer spawned
         spawns : Nat,                   \* history: consumers of this generation
         stale : BOOLEAN,                \* history: not started as desired
         paused : BOOLEAN, waiting : BOOLEAN, failed : BOOLEAN, done : BOOLEAN,
         restarts : Nat]

VARIABLES
    phase, pending, at,     \* where the main loop is
    revision, desired,      \* the desired state it has loaded
    failedWant,             \* _failed_desired
    item,                   \* runtimes
    gen, epochs, floor,     \* per slot: generation, Fight epoch, consumer floor
    service, svcEpoch, serviceFloor,
    available,              \* manager.fight_service_available
    required, attempts, retry, fightFailed,
    faults

loopVars == <<phase, pending, at>>
wishVars == <<revision, desired, failedWant>>
slotVars == <<gen, epochs, floor>>
serviceVars == <<service, svcEpoch, serviceFloor, available, required, attempts, retry,
                 fightFailed>>
vars == <<loopVars, wishVars, item, slotVars, serviceVars, faults>>

Running == {c \in Cameras : item[c] # None}
FreeSlots == Slots \ {item[c].slot : c \in Running}

Init ==
    /\ phase = "load" /\ pending = {} /\ at = None
    /\ revision = 0 /\ desired = [c \in Cameras |-> "off"]
    /\ failedWant = [c \in Cameras |-> None]
    /\ item = [c \in Cameras |-> None]
    /\ gen = [s \in Slots |-> 0] /\ epochs = [s \in Slots |-> 0] /\ floor = [s \in Slots |-> 0]
    /\ service = "none" /\ svcEpoch = 0 /\ serviceFloor = 0 /\ available = TRUE
    /\ required = FALSE /\ attempts = 0 /\ retry = FALSE /\ fightFailed = FALSE
    /\ faults = 0

CanFault == faults < MaxFaults

(***************************************************************************)
(* Fight consumers.  What a handler may make of an item is a set of         *)
(* outcomes: the item, whether an epoch was consumed, whether a spawn       *)
(* failed, and whether an exception leaves the handler.                     *)
(***************************************************************************)
Outcome(i, e, f, ok) == [item |-> i, epochs |-> e, faults |-> f, ok |-> ok]
TakesAlso(o, s, n) ==
    /\ epochs' = [epochs EXCEPT ![s] = @ + o.epochs]
    /\ faults' = faults + o.faults + n /\ faults' <= MaxFaults
Takes(o, s) == TakesAlso(o, s, 0)

\* _fence_fight, and the withdrawal of the consumer in disable_fight.
\* Mutant: the ingest is not paused.
FencedFlowing(i, waiting) ==
    [i EXCEPT !.waiting = waiting, !.failed = ~waiting, !.consumer = "none"]
Fenced(i, waiting) ==
    [i EXCEPT !.paused = TRUE, !.waiting = waiting, !.failed = ~waiting, !.consumer = "none"]
FloorOf(i) == [floor EXCEPT ![i.slot] = i.epoch + 1]

\* _spawn_fight; the epoch is consumed before the process is created.
Spawned(i) ==
    [i EXCEPT !.epoch = epochs[i.slot] + 1, !.svc = svcEpoch, !.consumer = "alive",
              !.spawns = @ + 1, !.paused = FALSE, !.waiting = FALSE, !.failed = FALSE]

\* ensure_fight.  A spawn raises when no process can be created, and when the
\* bundle has gone idle and left no channels to attach to.
Ensure(i) ==
    IF i.done \/ i.failed \/ ~Fights(i.want) THEN {Outcome(i, 0, 0, TRUE)}
    ELSE IF ~available THEN {Outcome([i EXCEPT !.waiting = TRUE], 0, 0, TRUE)}
    ELSE IF i.consumer = "alive" THEN {Outcome(i, 0, 0, TRUE)}
    ELSE LET raised == [i EXCEPT !.epoch = epochs[i.slot] + 1] IN
         IF service = "none" THEN {Outcome(raised, 1, 0, FALSE)}
         ELSE {Outcome(Spawned(i), 1, 0, TRUE)}
              \cup {Outcome(raised, 1, 1, FALSE) : x \in {0} \cap IF CanFault THEN {0} ELSE {}}

\* ensure_fight where a failed start is caught by _fight_start_failed.
StartFailed(i, counted) ==
    [i EXCEPT !.failed = TRUE, !.waiting = FALSE, !.paused = TRUE,
              !.restarts = IF counted THEN @ ELSE @ + 1]
EnsureCaught(i, counted) ==
    {IF o.ok THEN o ELSE Outcome(StartFailed(o.item, counted), o.epochs, o.faults, TRUE)
       : o \in Ensure(i)}

\* Mutant: a file gets another consumer as a live camera does.
RestartAnySource(c, i) ==
    IF i.waiting \/ i.done THEN {Outcome(i, 0, 0, TRUE)}
    ELSE {Outcome(i, 0, 0, TRUE)} \cup
         IF i.restarts >= CameraRestartLimit THEN {}
         ELSE EnsureCaught([i EXCEPT !.restarts = @ + 1, !.failed = FALSE], TRUE)
\* restart_fight once the item has failed: a file stays failed; a live camera
\* tries again within its budget, when the cooldown, a free choice, is over.
Restart(c, i) ==
    IF i.waiting \/ i.done THEN {Outcome(i, 0, 0, TRUE)}
    ELSE {Outcome(i, 0, 0, TRUE)} \cup
         IF c \in Files \/ i.restarts >= CameraRestartLimit THEN {}
         ELSE EnsureCaught([i EXCEPT !.restarts = @ + 1, !.failed = FALSE], TRUE)

(***************************************************************************)
(* Starting and stopping cameras.                                           *)
(***************************************************************************)
NewItem(c, w, s, g) ==
    [want |-> w, slot |-> s, gen |-> g, ingest |-> "none", eof |-> FALSE,
     consumer |-> "none", epoch |-> 0, svc |-> 0, spawns |-> 0, stale |-> w # desired[c],
     paused |-> TRUE, waiting |-> FALSE, failed |-> FALSE, done |-> FALSE, restarts |-> 0]

\* _spawn_trio: a file waits for its consumer, unread; otherwise the consumer is
\* attached before the ingest is created, which can fail in turn.
Trio(c, i) ==
    IF c \in Files /\ Fights(i.want) /\ ~available
    THEN {Outcome([i EXCEPT !.waiting = TRUE], 0, 0, TRUE)}
    ELSE UNION {IF ~o.ok THEN {o}
                ELSE {Outcome([o.item EXCEPT !.ingest = "alive"], o.epochs, o.faults, TRUE)}
                     \cup IF CanFault /\ o.faults = 0
                          THEN {Outcome(o.item, o.epochs, 1, FALSE)} ELSE {}
                : o \in Ensure(i)}

\* start_camera in slot s under generation g.  A start that raises is undone by
\* stop_camera, which advances the generation.  n counts the fault that led here.
StartAfter(c, w, s, g, n) ==
    /\ g < MaxGen
    /\ \E o \in Trio(c, NewItem(c, w, s, g)) :
        /\ TakesAlso(o, s, n)
        /\ item' = [item EXCEPT ![c] = IF o.ok THEN o.item ELSE None]
        /\ gen' = [gen EXCEPT ![s] = IF o.ok THEN g ELSE g + 1]
    /\ UNCHANGED floor
Start(c, w, s, g) == StartAfter(c, w, s, g, 0)

\* _remember_failed: the entry of a start that raised; one that worked is popped.
Remember(c, w) == failedWant' = [failedWant EXCEPT ![c] = IF item'[c] = None THEN w ELSE None]

\* A start in a free slot, the lowest one, under its next generation.
StartFree(c, w) ==
    /\ \/ FreeSlots = {} /\ UNCHANGED <<item, slotVars, faults>>
       \/ \E s \in FreeSlots : (\A t \in FreeSlots : s <= t) /\ Start(c, w, s, gen[s] + 1)
    /\ Remember(c, w)

\* restart_camera: the slot keeps its camera, and the stop's generation is used.
RestartCamera(c, w) == Start(c, w, item[c].slot, gen[item[c].slot] + 1)

(***************************************************************************)
(* Desired state: SharedServices.prepare, then CameraRuntimeManager         *)
(* .reconcile, one camera at a time.                                        *)
(***************************************************************************)
NextPhase(p, todo) == phase' = p /\ pending' = todo /\ at' = None

Load(d) ==
    /\ phase = "load" /\ revision < MaxRevisions /\ d # desired
    /\ revision' = revision + 1 /\ desired' = d
    /\ failedWant' = [c \in Cameras |-> IF d[c] = "off" THEN None ELSE failedWant[c]]
    /\ required' = \E c \in Cameras : Fights(d[c])
    /\ IF required' /\ service = "none" /\ ~retry /\ ~fightFailed
       THEN \/ /\ service' = "up" /\ svcEpoch' = svcEpoch + 1 /\ available' = TRUE
               /\ NextPhase("reconcile", Cameras) /\ UNCHANGED faults
            \/ /\ CanFault /\ faults' = faults + 1      \* SharedServiceStartError
               /\ svcEpoch' = svcEpoch + 1
               /\ NextPhase("exit", {}) /\ UNCHANGED <<service, available>>
       ELSE NextPhase("reconcile", Cameras) /\ UNCHANGED <<service, svcEpoch, available, faults>>
    /\ UNCHANGED <<item, slotVars, serviceFloor, attempts, retry, fightFailed>>

NoNewRevision ==
    /\ phase = "load" /\ NextPhase("tick", {})
    /\ UNCHANGED <<wishVars, item, slotVars, serviceVars, faults>>

Removed == {c \in pending : item[c] # None /\ desired[c] = "off"}
Changed == {c \in pending : item[c] # None /\ desired[c] # "off"}

ReconcileStep(c) ==
    /\ phase = "reconcile" /\ c \in pending /\ pending' = pending \ {c}
    /\ UNCHANGED <<phase, at, revision, desired, serviceVars>>

ReconcileRemoved(c) ==
    /\ ReconcileStep(c) /\ c \in Removed
    /\ gen' = [gen EXCEPT ![item[c].slot] = @ + 1]
    /\ item' = [item EXCEPT ![c] = None]
    /\ UNCHANGED <<failedWant, epochs, floor, faults>>

\* A change of source replaces the camera's runtime.
ReconcileMoved(c) ==
    /\ ReconcileStep(c) /\ Removed = {} /\ c \in Changed
    /\ ~SameSource(item[c].want, desired[c])
    /\ RestartCamera(c, desired[c]) /\ Remember(c, desired[c])

\* A file whose capabilities change is withdrawn and latched incomplete.
ReconcileFile(c) ==
    /\ ReconcileStep(c) /\ Removed = {} /\ c \in Changed /\ c \in Files
    /\ SameSource(item[c].want, desired[c])
    /\ IF item[c].want = desired[c] THEN UNCHANGED <<item, floor>>
       ELSE /\ item' = [item EXCEPT ![c] = [Fenced(@, FALSE) EXCEPT !.want = desired[c]]]
            /\ floor' = FloorOf(item[c])
    /\ failedWant' = [failedWant EXCEPT ![c] = None]
    /\ UNCHANGED <<gen, epochs, faults>>

\* _reconfigure_consumers of a live camera: Fight removed, or added.
ReconcileLive(c) ==
    /\ ReconcileStep(c) /\ Removed = {} /\ c \in Changed /\ c \notin Files
    /\ SameSource(item[c].want, desired[c])
    /\ LET i == item[c]
           j == [i EXCEPT !.want = desired[c], !.failed = FALSE] IN
       \/ i.want = desired[c] /\ UNCHANGED <<item, epochs, floor, faults>>
       \/ /\ Fights(i.want) /\ ~Fights(desired[c])
          /\ item' = [item EXCEPT
               ![c] = [Fenced(i, FALSE) EXCEPT !.want = desired[c], !.failed = FALSE]]
          /\ floor' = FloorOf(i) /\ UNCHANGED <<epochs, faults>>
       \/ /\ ~Fights(i.want) /\ Fights(desired[c])
          /\ \E o \in EnsureCaught(j, FALSE) : item' = [item EXCEPT ![c] = o.item] /\ Takes(o, i.slot)
          /\ UNCHANGED floor
    /\ failedWant' = [failedWant EXCEPT ![c] = None]
    /\ UNCHANGED gen

\* An added camera is skipped while the backoff of its last failure runs.
ReconcileAdded(c) ==
    /\ ReconcileStep(c) /\ Removed = {} /\ Changed = {} /\ item[c] = None
    /\ IF desired[c] = "off" THEN UNCHANGED <<failedWant, item, slotVars, faults>>
       ELSE \/ failedWant[c] # None /\ UNCHANGED <<failedWant, item, slotVars, faults>>
            \/ StartFree(c, desired[c])

Reconciled ==
    /\ phase = "reconcile" /\ pending = {} /\ NextPhase("tick", {})
    /\ UNCHANGED <<wishVars, item, slotVars, serviceVars, faults>>

(***************************************************************************)
(* SharedServices.tick.                                                     *)
(***************************************************************************)
\* suspend_fight for one item.
Suspended(c, i) == Fenced(i, c \notin Files)
Hit(i) == i # None /\ Fights(i.want) /\ ~i.waiting
SuspendFight(items) ==
    /\ available' = FALSE
    /\ item' = [c \in Cameras |-> IF Hit(items[c]) THEN Suspended(c, items[c]) ELSE items[c]]
    /\ floor' = [s \in Slots |->
         LET hit == {c \in Running : items[c].slot = s /\ Hit(items[c])}
         IN IF hit = {} THEN floor[s] ELSE (CHOOSE i \in {items[c] : c \in hit} : TRUE).epoch + 1]

\* Mutant: the replacement that was due is cleared last.
FightFailureUnscheduled(n, k, items) ==
    /\ serviceFloor' = n + 1
    /\ SuspendFight(items)
    /\ service' = "none"
    /\ fightFailed' = (k >= ServiceRestartLimit \/ \E c \in Running \cap Files : Hit(items[c]))
    /\ retry' = FALSE
\* _fight_failure of incarnation n after k replacements, the items being as given:
\* floor, consumers, bundle, and the schedule of the next replacement.
FightFailure(n, k, items) ==
    /\ serviceFloor' = n + 1
    /\ SuspendFight(items)
    /\ service' = "none"
    /\ fightFailed' = (k >= ServiceRestartLimit \/ \E c \in Running \cap Files : Hit(items[c]))
    /\ retry' = ~fightFailed'

TickHealth ==
    /\ phase = "tick" /\ NextPhase("service", {})
    /\ IF service = "broken" /\ ~fightFailed
       THEN FightFailure(svcEpoch, attempts, item)
       ELSE UNCHANGED <<serviceFloor, service, available, fightFailed, retry, item, floor>>
    /\ UNCHANGED <<wishVars, gen, epochs, svcEpoch, required, attempts, faults>>

\* resume_fight: files that wait are started with their consumer, live cameras
\* get theirs back; the live ones in `bad' fail to start, and only the cameras in
\* `reached' are reached at all.
Resumed(c, n) == [Spawned(item[c]) EXCEPT !.svc = n, !.ingest = IF @ = "none" THEN "alive" ELSE @]
Broken(c) == StartFailed([item[c] EXCEPT !.epoch = epochs[item[c].slot] + 1], FALSE)
\* Mutant: only the cameras without processes are resumed.
ResumeFightFiles(n, reached, bad) ==
    [c \in Cameras |-> IF c \in reached /\ item[c].ingest = "none" THEN Resumed(c, n) ELSE item[c]]
ResumeFight(n, reached, bad) ==
    [c \in Cameras |-> IF c \in bad THEN Broken(c) ELSE IF c \in reached THEN Resumed(c, n) ELSE item[c]]
Waiting == {c \in Running : item[c].waiting}
EpochsTaken(who) ==
    epochs' = [s \in Slots |-> IF \E c \in who : item[c].slot = s THEN epochs[s] + 1 ELSE epochs[s]]

\* The backoff of the replacement is over.
TickReplace ==
    /\ phase = "service" /\ required /\ retry /\ NextPhase("idle", {})
    /\ attempts' = attempts + 1 /\ svcEpoch' = svcEpoch + 1
    /\ \/ \E bad \in SUBSET (Waiting \ Files) :  \* a fresh bundle, and its cameras
           /\ faults + Cardinality(bad) <= MaxFaults
           /\ faults' = faults + Cardinality(bad)
           /\ item' = ResumeFight(svcEpoch', Waiting, bad) /\ EpochsTaken(Waiting)
           /\ service' = "up" /\ available' = TRUE /\ retry' = FALSE
           /\ UNCHANGED <<serviceFloor, fightFailed, floor>>
       \/ /\ CanFault /\ faults' = faults + 1    \* it cannot be started, or a file raises
          /\ \/ FightFailure(svcEpoch', attempts', item) /\ UNCHANGED epochs
             \/ \E f \in Waiting \cap Files, reached \in SUBSET Waiting :
                 /\ f \notin reached /\ EpochsTaken(reached \cup {f})
                 /\ FightFailure(svcEpoch', attempts',
                      [ResumeFight(svcEpoch', reached, {}) EXCEPT ![f].epoch = epochs[item[f].slot] + 1])
    /\ UNCHANGED <<wishVars, gen, required>>
\* It is not due, or there is none.
TickSkip ==
    /\ phase = "service" /\ NextPhase("idle", {})
    /\ UNCHANGED <<wishVars, item, slotVars, serviceVars, faults>>

\* No camera wants Fight and the grace is over; a bundle that drained stops.
TickIdle ==
    /\ phase = "idle"
    /\ IF fightFailed THEN NextPhase("exit", {}) ELSE NextPhase("poll", Running)
    /\ \/ UNCHANGED service
       \/ ~required /\ ~fightFailed /\ service # "none" /\ service' = "none"
    /\ UNCHANGED <<wishVars, item, slotVars, svcEpoch, serviceFloor, available, required,
                   attempts, retry, fightFailed, faults>>

(***************************************************************************)
(* CameraRuntimeManager.poll: for each camera the consumer, then the ingest. *)
(***************************************************************************)
Drained(i) == i.consumer = "exited" /\ i.eof      \* exit code 0 at end of file
Polls(c) == phase = "poll" /\ c \in pending /\ item[c] # None
Keep == UNCHANGED <<phase, wishVars, serviceVars>>
Settle(c) == pending' = pending \ {c} /\ at' = None

\* restart_fight of a consumer that has not failed yet: fence it, then retry.
Refence(c) ==
    /\ floor' = FloorOf(item[c])
    /\ \E o \in Restart(c, Fenced(item[c], FALSE)) :
        item' = [item EXCEPT ![c] = o.item] /\ Takes(o, item[c].slot)
    /\ UNCHANGED <<gen, failedWant>>

PollDone(c) ==
    /\ Polls(c) /\ at # c /\ item[c].done /\ Settle(c)
    /\ Keep /\ UNCHANGED <<item, slotVars, faults>>

PollFight(c) ==
    /\ Polls(c) /\ at = None /\ ~item[c].done
    /\ LET i == item[c] IN
       \/ /\ i.failed /\ Fights(i.want)
          /\ \E o \in Restart(c, i) : item' = [item EXCEPT ![c] = o.item] /\ Takes(o, i.slot)
          /\ at' = c /\ UNCHANGED <<pending, gen, floor, failedWant>>
       \/ /\ i.consumer \in {"dead", "exited"} /\ ~i.waiting /\ ~i.failed /\ ~Drained(i)
          /\ Refence(c) /\ Settle(c)
       \/ /\ ~(i.failed /\ Fights(i.want))
          /\ i.consumer \in {"dead", "exited"} => i.waiting \/ i.failed \/ Drained(i)
          /\ at' = c /\ UNCHANGED <<pending, item, slotVars, failedWant, faults>>
    /\ UNCHANGED <<phase, revision, desired, serviceVars>>

\* The file's ordered consumer failed and its source is gone: no replay.
PollLatched(c) ==
    /\ Polls(c) /\ at = c /\ Settle(c)
    /\ item[c].ingest \in {"exited", "dead"} /\ c \in Files /\ item[c].failed /\ ~item[c].eof
    /\ item' = [item EXCEPT ![c].done = TRUE, ![c].consumer = "none"]
    /\ Keep /\ UNCHANGED <<slotVars, faults>>

AtEnd(i) == i.ingest = "exited" /\ i.eof
\* Mutant: the consumer is not waited for.
PollEndEager(c) ==
    /\ Polls(c) /\ at = c /\ Settle(c) /\ AtEnd(item[c])
    /\ \/ item[c].consumer = "dead" /\ Refence(c)
       \/ /\ item[c].consumer # "dead"
          /\ item' = [item EXCEPT ![c].done = TRUE]
          /\ UNCHANGED <<slotVars, failedWant, faults>>
    /\ UNCHANGED <<phase, revision, desired, serviceVars>>
\* Mutant: a consumer that was withdrawn is waited for.
PollEndWaits(c) ==
    /\ Polls(c) /\ at = c /\ Settle(c) /\ AtEnd(item[c])
    /\ \/ item[c].consumer \in {"none", "alive"} /\ UNCHANGED <<item, slotVars, failedWant, faults>>
       \/ item[c].consumer = "dead" /\ Refence(c)
       \/ /\ item[c].consumer = "exited"
          /\ item' = [item EXCEPT ![c].done = TRUE]
          /\ UNCHANGED <<slotVars, failedWant, faults>>
    /\ UNCHANGED <<phase, revision, desired, serviceVars>>
\* The source has ended: wait for the consumer, note its failure, or finish.
PollEnd(c) ==
    /\ Polls(c) /\ at = c /\ Settle(c) /\ AtEnd(item[c])
    /\ \/ item[c].consumer = "alive" /\ UNCHANGED <<item, slotVars, failedWant, faults>>
       \/ item[c].consumer = "dead" /\ Refence(c)
       \/ /\ item[c].consumer \in {"none", "exited"}
          /\ item' = [item EXCEPT ![c].done = TRUE]
          /\ UNCHANGED <<slotVars, failedWant, faults>>
    /\ UNCHANGED <<phase, revision, desired, serviceVars>>

\* Mutant: an ingest that has left at the end of its file is a dead one.
PollIngestAnyExit(c) ==
    /\ Polls(c) /\ at = c /\ Settle(c)
    /\ item[c].ingest \in {"exited", "dead"}
    /\ ~(c \in Files /\ item[c].failed /\ ~item[c].eof)
    /\ \/ UNCHANGED <<item, slotVars, failedWant, faults>>
       \/ RestartCamera(c, item[c].want) /\ Remember(c, item[c].want)
    /\ UNCHANGED <<phase, revision, desired, serviceVars>>
\* Any other death of the ingest restarts the camera, when its backoff is over.
PollIngest(c) ==
    /\ Polls(c) /\ at = c /\ Settle(c)
    /\ item[c].ingest \in {"exited", "dead"} /\ ~AtEnd(item[c])
    /\ ~(c \in Files /\ item[c].failed /\ ~item[c].eof)
    /\ \/ UNCHANGED <<item, slotVars, failedWant, faults>>
       \/ RestartCamera(c, item[c].want) /\ Remember(c, item[c].want)
    /\ UNCHANGED <<phase, revision, desired, serviceVars>>

PollHealthy(c) ==
    /\ Polls(c) /\ at = c /\ Settle(c) /\ item[c].ingest \in {"none", "alive"}
    /\ Keep /\ UNCHANGED <<item, slotVars, faults>>

Polled ==
    /\ phase = "poll" /\ pending = {} /\ at = None
    /\ NextPhase("retry", {c \in Cameras : failedWant[c] # None})
    /\ UNCHANGED <<wishVars, item, slotVars, serviceVars, faults>>

(***************************************************************************)
(* retry_failed, the watchdog, and the end of an iteration.                 *)
(***************************************************************************)
\* The remembered entry of a failed start, when its backoff is over.
RetryFailed(c) ==
    /\ phase = "retry" /\ c \in pending /\ Settle(c)
    /\ StartFree(c, failedWant[c])
    /\ UNCHANGED <<phase, revision, desired, serviceVars>>

Retried ==
    /\ phase = "retry" /\ NextPhase("watch", {})
    /\ UNCHANGED <<wishVars, item, slotVars, serviceVars, faults>>

\* The watchdog restarts a stalled consumer, or a camera whose ingest stalls; no
\* one catches a start that raises there.
Watch(c) ==
    /\ phase = "watch" /\ item[c] # None /\ ~item[c].done /\ CanFault
    /\ UNCHANGED <<wishVars, serviceVars>>
WatchFight(c) ==
    /\ Watch(c) /\ item[c].consumer = "alive" /\ ~item[c].failed /\ ~item[c].waiting
    /\ floor' = FloorOf(item[c])
    /\ \E o \in Restart(c, Fenced(item[c], FALSE)) :
        item' = [item EXCEPT ![c] = o.item] /\ TakesAlso(o, item[c].slot, 1)
    /\ UNCHANGED <<loopVars, gen>>
WatchIngest(c) ==
    /\ Watch(c) /\ item[c].ingest = "alive" /\ ~item[c].eof
    /\ StartAfter(c, item[c].want, item[c].slot, gen[item[c].slot] + 1, 1)
    /\ IF item'[c] = None THEN NextPhase("exit", {}) ELSE UNCHANGED loopVars

\* The iteration ends; a run of files only may end with them.
EndIteration ==
    /\ phase = "watch"
    /\ \/ NextPhase("load", {})
       \/ Running # {} /\ (\A c \in Running : c \in Files /\ item[c].done) /\ NextPhase("exit", {})
    /\ UNCHANGED <<wishVars, item, slotVars, serviceVars, faults>>

\* A withdrawal that cannot prove the old process dead ends the run.
Unsafe ==
    /\ phase \in {"reconcile", "poll", "watch"} /\ CanFault /\ faults' = faults + 1
    /\ NextPhase("exit", {})
    /\ UNCHANGED <<wishVars, item, slotVars, serviceVars>>

\* The finally block: every camera, then the bundle.
Shutdown ==
    /\ phase = "exit" /\ NextPhase("stopped", {})
    /\ item' = [c \in Cameras |-> None]
    /\ gen' = [s \in Slots |-> IF s \in FreeSlots THEN gen[s] ELSE gen[s] + 1]
    /\ service' = "none"
    /\ UNCHANGED <<wishVars, epochs, floor, svcEpoch, serviceFloor, available, required,
                   attempts, retry, fightFailed, faults>>

(***************************************************************************)
(* The children.                                                            *)
(***************************************************************************)
Child(c, i) ==
    /\ item[c] # None /\ item' = [item EXCEPT ![c] = i]
    /\ UNCHANGED <<loopVars, wishVars, slotVars, serviceVars>>

ConsumerExits(c) ==
    /\ item[c] # None /\ item[c].consumer = "alive"
    /\ \/ /\ c \in Files /\ item[c].eof /\ UNCHANGED faults
          /\ Child(c, [item[c] EXCEPT !.consumer = "exited"])
       \/ /\ CanFault /\ faults' = faults + 1
          /\ \E how \in {"dead", "exited"} : Child(c, [item[c] EXCEPT !.consumer = how])

IngestStep(c) ==
    /\ item[c] # None /\ item[c].ingest = "alive"
    /\ \/ c \in Files /\ ~item[c].eof /\ UNCHANGED faults /\ Child(c, [item[c] EXCEPT !.eof = TRUE])
       \/ item[c].eof /\ UNCHANGED faults /\ Child(c, [item[c] EXCEPT !.ingest = "exited"])
       \/ /\ CanFault /\ faults' = faults + 1
          /\ \E how \in {"dead", "exited"} : Child(c, [item[c] EXCEPT !.ingest = how])

ServiceBreaks ==
    /\ service = "up" /\ CanFault /\ faults' = faults + 1 /\ service' = "broken"
    /\ UNCHANGED <<loopVars, wishVars, item, slotVars, svcEpoch, serviceFloor, available,
                   required, attempts, retry, fightFailed>>

Reconcile ==
    \/ \E c \in Cameras : \/ ReconcileRemoved(c) \/ ReconcileMoved(c) \/ ReconcileFile(c)
                          \/ ReconcileLive(c) \/ ReconcileAdded(c)
    \/ Reconciled
Tick == TickHealth \/ TickReplace \/ TickSkip \/ TickIdle
Poll == Polled \/ \E c \in Cameras : \/ PollDone(c) \/ PollFight(c) \/ PollLatched(c)
                                     \/ PollEnd(c) \/ PollIngest(c) \/ PollHealthy(c)
Retry == Retried \/ EndIteration \/ \E c \in Cameras : \/ RetryFailed(c)
                                                       \/ WatchFight(c) \/ WatchIngest(c)
Loop == NoNewRevision \/ Reconcile \/ Tick \/ Poll \/ Retry \/ Shutdown
Children == ServiceBreaks \/ \E c \in Cameras : ConsumerExits(c) \/ IngestStep(c)

Next == Loop \/ Children \/ Unsafe \/ \E d \in Loads : Load(d)

Spec == Init /\ [][Next]_vars
\* The loop never blocks; a backoff that is due is noticed by one of its ticks.
FairSpec == Spec /\ WF_vars(Loop) /\ SF_vars(TickReplace)
            /\ (\A c \in Cameras : SF_vars(PollIngest(c) /\ gen' # gen))
            /\ \A c \in Cameras : WF_vars(IngestStep(c) /\ UNCHANGED faults)
                                  /\ WF_vars(ConsumerExits(c) /\ UNCHANGED faults)

(***************************************************************************)
(* Properties.                                                              *)
(***************************************************************************)
TypeOK ==
    /\ phase \in {"load", "reconcile", "tick", "service", "idle", "poll", "retry", "watch", "exit", "stopped"}
    /\ pending \subseteq Cameras /\ at \in Cameras \cup {None}
    /\ desired \in [Cameras -> Wants] /\ failedWant \in [Cameras -> Wants \cup {None}]
    /\ item \in [Cameras -> Item \cup {None}]
    /\ gen \in [Slots -> Nat] /\ epochs \in [Slots -> Nat] /\ floor \in [Slots -> Nat]
    /\ service \in {"none", "up", "broken"} /\ svcEpoch \in Nat /\ serviceFloor \in Nat
    /\ {available, required, retry, fightFailed} \subseteq BOOLEAN
    /\ attempts \in Nat /\ faults \in 0..MaxFaults

\* Frames flow only to a consumer that can publish: it is attached to the
\* bundle that exists now, and neither floor is above it
\* (camera_lifecycle.py:289, shared_services.py:249).
FlowingIsPublishable ==
    \A c \in Running : ~item[c].paused /\ ~item[c].stale =>
        /\ item[c].consumer # "none" /\ ~item[c].failed /\ ~item[c].waiting
        /\ item[c].epoch >= floor[item[c].slot]
        /\ service # "none" /\ item[c].svc = svcEpoch /\ svcEpoch >= serviceFloor

\* An ordered file is read under at most one consumer per generation, and never
\* before that consumer exists (camera_lifecycle.py:219).
FileOrdered ==
    \A c \in Running \cap Files :
        /\ item[c].spawns <= 1
        /\ Fights(item[c].want) /\ item[c].ingest # "none" => item[c].spawns = 1 \/ item[c].failed

\* A file that is reported finished without a failure was read to its end and
\* drained by the consumer it had (camera_lifecycle.py:756, 777).
FinishedIsDrained ==
    \A c \in Running : item[c].done /\ ~item[c].failed =>
        /\ c \in Files /\ item[c].eof /\ item[c].ingest = "exited"
        /\ Fights(item[c].want) => item[c].consumer = "exited"

\* A camera that waits for the Fight service gets its consumer back, is changed,
\* or the run ends.
WaitingServed == \A c \in Cameras :
    (item[c] # None /\ item[c].waiting /\ required)
        ~> (item[c] = None \/ ~item[c].waiting \/ phase = "stopped" \/ ~required)

\* A file that is being read is finished, failed or not, or changed, or the run
\* ends: its end is never waited for by everyone for ever.
FileEnds == \A c \in Files :
    (item[c] # None /\ item[c].ingest # "none" /\ ~item[c].done)
        ~> (item[c] = None \/ item[c].done \/ phase = "stopped")

\* One reading of a file, which is one generation: never by two consumers, never
\* before there is one, and it counts as finished when its consumer is through.  A
\* restart begins another reading of the file, under another generation.
ReadingOrdered == FileOrdered /\ FinishedIsDrained

\* What begins no other reading: a file whose source has ended cleanly is not read
\* again under another generation, whatever its consumer, the service or the watchdog
\* come to, until an operator gives it another source or takes it away
\* (camera_lifecycle.py:778; ARCHITECTURE.md:176).
CleanEndIsFinal ==
    [][\A c \in Files :
         /\ item[c] # None /\ AtEnd(item[c])
         /\ item'[c] # None /\ SameSource(item[c].want, item'[c].want)
         => item'[c].gen = item[c].gen /\ AtEnd(item'[c])]_vars
=============================================================================
