--------------------------- MODULE RuntimeHealth ---------------------------
(***************************************************************************)
(* Health of one camera and of the Fight service it uses, as the runtime   *)
(* parent sees it (pipeline_mp/health.py), and what the parent does about  *)
(* it: SharedServices.tick, CameraRuntimeManager.poll and the two halves   *)
(* of RuntimeWatchdog.tick, in the order of the main loop.                 *)
(*                                                                         *)
(* The registry is a set of ages: how long ago something was last heard    *)
(* of, Never if it was not.  The world is what the processes really do.    *)
(* Time passes in units of the warning thresholds; a process that runs     *)
(* emits within a unit, and the parent completes a loop in each.           *)
(***************************************************************************)
EXTENDS Integers, FiniteSets

CONSTANTS StallFail, ReconnectGrace, InferenceFail, StartupGrace, SharedTimeout,
          Cooldown, RestartLimit,  \* HealthPolicy, in units; the others are one unit
          MaxAge,                  \* ages are not told apart beyond
          Setups

ASSUME HealthAssumption ==
  /\ {StallFail, ReconnectGrace, InferenceFail, StartupGrace, SharedTimeout, Cooldown} \subseteq 1..MaxAge
  /\ RestartLimit \in Nat /\ MaxAge \in Nat
  /\ Setups \subseteq [file : BOOLEAN, faults : Nat, kinds : SUBSET {"camera", "worker", "disk"}, outages : Nat, clock : BOOLEAN, slow : Nat,
                       stop : BOOLEAN, events : Nat, budget : Nat, shared : BOOLEAN]

VARIABLES
  setup,            \* what the camera is and what may go wrong in this run
  failures, outages,\* what has gone wrong, against the setup
  ingest, source,   \* the ingest process and its source
  fight, preview,   \* the two other processes of the camera
  pose,             \* the shared inference worker
  fileEof,          \* file_eof_event
  age, online, heard, warm, \* registry: ages, source_state, last events, first answer
  seen,             \* what Observe saw of the processes
  gen, opens,       \* generation, and how often the source was opened from its start
  item,             \* state of CameraRuntime the parent keeps
  watch,            \* camera restarts the watchdog has counted
  bundle,           \* the bundle of the Fight service: attempts, waiting for a retry, failed
  ticked            \* the parent was round its loop in this time unit

worldVars == <<setup, failures, outages, ingest, source, fight, preview, pose, fileEof>>
registryVars == <<age, online, heard, warm>>
parentVars == <<seen, gen, opens, item, watch, bundle>>
healthVars == <<worldVars, registryVars, parentVars, ticked>>

Never == -1
Clocks == {"ingestBeat", "frame", "firstFrame", "reconnect", "fightBeat", "fightFrame", "fightBorn",
           "previewBeat", "previewFrame", "request", "poseBeat", "poseBorn", "born",
           "watchRestart", "previewRestart", "fightRestart", "pollRestart", "retry"}
Older(a) == IF a \in {Never, MaxAge} THEN a ELSE a + 1
Heard(now) == [c \in Clocks |-> IF c \in now THEN 0 ELSE age[c]]

\* A new camera record: everything is as old as its registration.
CameraClocks == {"ingestBeat", "fightBeat", "fightBorn", "previewBeat", "born"}
CameraUnknown == {"frame", "firstFrame", "reconnect", "fightFrame", "previewFrame"}
Registered(a) == [c \in Clocks |-> IF c \in CameraClocks THEN 0
                                   ELSE IF c \in CameraUnknown THEN Never ELSE a[c]]
\* A new Fight epoch replaces the record of the camera worker only.
FightRegistered(a) == [a EXCEPT !["fightBeat"] = 0, !["fightBorn"] = 0, !["fightFrame"] = Never]

HealthInit ==
  /\ setup \in Setups
  /\ failures = 0 /\ outages = 0
  /\ ingest = "run" /\ source = "opening" /\ fight = "run" /\ preview = "run" /\ pose = "idle"
  /\ fileEof = FALSE
  /\ age = [c \in Clocks |-> IF c \in CameraClocks \cup {"poseBeat", "poseBorn"} THEN 0
                             ELSE IF c \in CameraUnknown \cup {"request"} THEN Never ELSE MaxAge]
  /\ online = "STARTING" /\ heard = [fight |-> "registered"] /\ warm = FALSE
  /\ seen = [ingest |-> "run", fight |-> "run", preview |-> "run"]
  /\ gen = 1 /\ opens = 1
  /\ item = [failed |-> FALSE, waiting |-> FALSE, done |-> FALSE, state |-> "ONLINE", restarts |-> 0]
  /\ watch = 0
  /\ bundle = [attempts |-> 0, retrying |-> FALSE, failed |-> FALSE]
  /\ ticked = FALSE

(***************************** the processes ******************************)
AliveStates == {"run", "wait", "queued", "hung"}
Live == ~setup.file
Blocked == setup.file /\ fight \in {"hung", "wait", "queued"}  \* an ordered reader waits for its consumer
Flowing == ingest = "run" /\ source = "up" /\ ~Blocked /\ ~fileEof

Fault(kind) == kind \in setup.kinds /\ failures < setup.faults /\ failures' = failures + 1

\* A process stops answering, or dies.
Breaks(how) ==
  /\ Fault("camera")
  /\ \/ ingest = "run" /\ ingest' = how /\ UNCHANGED <<fight, preview, pose>>
     \/ fight \in {"run", "wait", "queued"} /\ fight' = how /\ UNCHANGED <<ingest, preview, pose>>
     \/ preview = "run" /\ preview' = how /\ UNCHANGED <<ingest, fight, pose>>
     \/ pose \in {"idle", "busy"} /\ pose' = how /\ UNCHANGED <<ingest, fight, preview>>
  /\ UNCHANGED <<setup, outages, source, fileEof, registryVars, parentVars, ticked>>

\* A live source goes; the ingest reports it and tries again and again.  Every
\* attempt that fails reports an error first, so the reconnect is as young as it.
SourceGoes ==
  /\ Live /\ ingest = "run" /\ source # "down" /\ outages < setup.outages
  /\ source' = "down" /\ outages' = outages + 1
  /\ online' = "RECONNECTING" /\ age' = Heard({"ingestBeat", "reconnect"})
  /\ UNCHANGED <<setup, failures, ingest, fight, preview, pose, fileEof, heard, warm, parentVars, ticked>>

\* It can be opened again: source_online, before a frame is read.
SourceOpens ==
  /\ ingest = "run" /\ source = "down"
  /\ source' = "opening" /\ online' = "ONLINE" /\ age' = Heard({"ingestBeat"})
  /\ UNCHANGED <<setup, failures, outages, ingest, fight, preview, pose, fileEof, heard, warm, parentVars, ticked>>

FirstFrame ==
  /\ ingest = "run" /\ source = "opening" /\ source' = "up" /\ online' = "ONLINE"
  /\ age' = [Heard({"ingestBeat", "frame"}) EXCEPT
               !["firstFrame"] = IF @ = Never THEN 0 ELSE @]
  /\ UNCHANGED <<setup, failures, outages, ingest, fight, preview, pose, fileEof, heard, warm, parentVars, ticked>>

\* The consumer asks for an inference and waits for it, or waits to be admitted
\* because the worker has the request of another camera.
FightAsks ==
  /\ setup.clock /\ fight = "run" /\ source = "up" /\ pose \in {"idle", "busy", "hung"}
  /\ \E admitted \in {pose = "idle", pose = "idle" /\ ~setup.shared} :
       /\ fight' = IF admitted THEN "wait" ELSE "queued"
       /\ heard' = [fight |-> IF admitted THEN "asked" ELSE "capacity_wait"]
  /\ IF pose = "idle"
     THEN pose' = "busy" /\ age' = Heard({"fightBeat", "fightFrame", "request", "poseBeat"})
     ELSE pose' = pose /\ age' = Heard({"fightBeat", "fightFrame"})
  /\ UNCHANGED <<setup, failures, outages, ingest, source, preview, fileEof, online, warm, parentVars, ticked>>

\* A request is pending until an event after it closes it: one of the two may be lost.
Closes(events) == events # {}

PoseAnswers ==
  /\ pose = "busy" /\ pose' = "idle"
  /\ \E events \in {{"inference_completed", "result_delivered"}, {"result_delivered"}} :
       age' = [Heard({"poseBeat"}) EXCEPT !["request"] = IF Closes(events) THEN Never ELSE @]
  /\ fight' = IF fight \in {"wait", "queued"} THEN "run" ELSE fight
  /\ warm' = TRUE
  /\ UNCHANGED <<setup, failures, outages, ingest, source, preview, fileEof, online, heard, parentVars, ticked>>

\* A file that is read once ends: the marker is set before any consumer is told.
FileEnds ==
  /\ setup.file /\ Flowing
  /\ fileEof' = TRUE /\ online' = "EOF" /\ age' = Heard({"ingestBeat"})
  /\ UNCHANGED <<setup, failures, outages, ingest, source, fight, preview, pose, heard, warm, parentVars, ticked>>

\* Consumers and reader leave, with exit code 0.
Drains ==
  /\ fileEof
  /\ \/ fight = "run" /\ fight' = "drained" /\ UNCHANGED <<ingest, preview>>
     \/ preview = "run" /\ preview' = "drained" /\ UNCHANGED <<ingest, fight>>
     \/ ingest = "run" /\ ingest' = "drained" /\ UNCHANGED <<fight, preview>>
  /\ UNCHANGED <<setup, failures, outages, source, pose, fileEof, registryVars, parentVars, ticked>>

(***************************** time ****************************************)
\* What was heard within a unit that passes.  A reader may have found room for a
\* few frames more after its consumer stopped.
Emitted(more) ==
  (IF Flowing \/ more THEN {"ingestBeat", "frame"}
   ELSE IF ingest = "run" /\ source = "down" THEN {"ingestBeat", "reconnect"} ELSE {})
  \cup (IF fight = "run" THEN {"fightBeat"} \cup (IF Flowing THEN {"fightFrame"} ELSE {}) ELSE {})
  \cup (IF fight = "queued" /\ pose # "dead" THEN {"fightBeat"} ELSE {})
  \cup (IF preview = "run" THEN {"previewBeat"} \cup (IF Flowing \/ more THEN {"previewFrame"} ELSE {}) ELSE {})
  \cup (IF pose = "idle" THEN {"poseBeat"} ELSE {})

\* A worker that will answer does so in time, and a consumer drains in time.
Pass ==
  /\ setup.clock /\ ticked /\ ticked' = FALSE
  /\ pose = "busy" => age["request"] < setup.slow
  /\ ingest = "run" /\ source = "opening" => age["ingestBeat"] = 0
  /\ fileEof /\ fight = "run" => age["fightFrame"] = 0
  /\ \E more \in IF Blocked /\ age["frame"] = 0 THEN BOOLEAN ELSE {FALSE} :
       age' = [c \in Clocks |-> IF c \in Emitted(more) THEN 0 ELSE Older(age[c])]
  /\ heard' = IF fight = "run" /\ Flowing THEN [fight |-> "frame_consumed"] ELSE heard
  /\ online' = IF ingest = "run" /\ source = "down" THEN "RECONNECTING" ELSE online
  /\ UNCHANGED <<worldVars, warm, parentVars>>

(***************************** the parent: replacing ***********************)
\* A consumer of a new epoch; the record it had is forgotten by sync_cameras.
FightSpawned(a) ==
  /\ fight' = "run" /\ heard' = [fight |-> "registered"]
  /\ age' = FightRegistered(a)

FightWithdrawn == fight' = "none"

\* restart_fight: withdrawn; a file stays incomplete; the budget is bounded.
RestartFight ==
  IF item.waiting \/ item.done THEN UNCHANGED <<fight, heard, age, item>>
  ELSE IF setup.file \/ item.restarts >= RestartLimit \/ age["fightRestart"] < Cooldown
       THEN FightWithdrawn /\ item' = [item EXCEPT !.failed = TRUE] /\ UNCHANGED <<heard, age>>
       ELSE /\ FightSpawned([age EXCEPT !["fightRestart"] = 0])
            /\ item' = [item EXCEPT !.failed = FALSE, !.restarts = @ + 1]

\* stop_camera and start_camera: a new generation of all three, and a source opened anew.
RestartCamera(a) ==
  /\ gen' = gen + 1 /\ opens' = opens + 1
  /\ ingest' = "run" /\ preview' = "run" /\ fileEof' = FALSE
  /\ source' = (IF source = "down" THEN "down" ELSE "opening") /\ online' = "STARTING"
  /\ fight' = IF bundle.retrying THEN "none" ELSE "run"
  /\ heard' = [fight |-> "registered"] /\ age' = Registered(a)
  /\ item' = [failed |-> FALSE, waiting |-> bundle.retrying, done |-> FALSE, state |-> "ONLINE", restarts |-> 0]

(***************************** the parent: one loop ************************)
\* _worker_health of the shared worker: dead, stalled in an inference, or silent.
PoseFailed ==
  \/ pose = "dead"
  \/ age["request"] # Never /\ age["request"] >= IF warm \/ InferenceFail > StartupGrace
                                                 THEN InferenceFail ELSE StartupGrace
  \/ age["request"] = Never /\ age["poseBeat"] >= SharedTimeout /\ age["poseBorn"] >= StartupGrace

\* _fight_failure: consumers withdrawn first, then the bundle; a file is not taken up again.
FightFailure ==
  LET affected == setup.file /\ ~item.waiting
      over == affected \/ bundle.attempts >= setup.budget IN
  /\ pose' = "none"
  /\ fight' = IF item.waiting THEN fight ELSE "none"
  /\ item' = IF item.waiting THEN item ELSE [item EXCEPT !.waiting = Live, !.failed = setup.file]
  /\ bundle' = [bundle EXCEPT !.retrying = ~over, !.failed = over]
  /\ age' = Heard({"retry"}) /\ UNCHANGED <<heard, warm>>

\* A bundle of its own is started; the consumers that wait for it attach.
FightResumed ==
  /\ bundle' = [bundle EXCEPT !.attempts = @ + 1, !.retrying = FALSE]
  /\ pose' = "idle" /\ warm' = FALSE
  /\ item.waiting /\ item' = [item EXCEPT !.waiting = FALSE, !.failed = FALSE]
  /\ FightSpawned([age EXCEPT !["poseBeat"] = 0, !["poseBorn"] = 0, !["request"] = Never])

ServicesTick ==
  /\ CASE pose # "none" /\ PoseFailed -> FightFailure
       [] pose = "none" /\ bundle.retrying /\ age["retry"] >= 1 -> FightResumed
       [] OTHER -> UNCHANGED <<pose, fight, heard, warm, age, item, bundle>>
  /\ UNCHANGED <<setup, failures, outages, ingest, source, preview, fileEof, online, seen, gen, opens, watch, ticked>>

\* The first half of poll: a consumer that failed is tried again.
PollRetries ==
  /\ IF item.failed THEN RestartFight ELSE UNCHANGED <<fight, heard, age, item>>
  /\ UNCHANGED <<setup, failures, outages, ingest, source, preview, pose, fileEof, online, warm, seen, gen, opens, watch, bundle, ticked>>

\* The rest of poll, by what is dead; only a clean end of a file is an end.
FightLost == fight \in {"dead", "drained"} /\ ~item.waiting /\ ~item.failed /\ ~(fight = "drained" /\ fileEof)
IngestLost == ingest \in {"dead", "drained"}
PollsFight == FightLost /\ RestartFight
              /\ UNCHANGED <<ingest, source, preview, fileEof, online, gen, opens, watch>>
PollsFile ==
  /\ ~FightLost /\ IngestLost /\ setup.file
  /\ IF item.failed /\ ~fileEof
     THEN item' = [item EXCEPT !.done = TRUE, !.state = "FAILED"] /\ preview' = "none"
     ELSE /\ ingest = "drained" /\ fileEof
          /\ item' = IF fight \in AliveStates THEN item ELSE [item EXCEPT !.done = TRUE, !.state = "STOPPED"]
          /\ UNCHANGED preview
  /\ UNCHANGED <<ingest, source, fight, fileEof, online, heard, age, gen, opens, watch>>
PollsIngest ==
  /\ ~FightLost /\ IngestLost
  /\ setup.file => ~(item.failed /\ ~fileEof) /\ ~(ingest = "drained" /\ fileEof)
  /\ IF age["pollRestart"] < 1
     THEN item' = [item EXCEPT !.state = "RECONNECTING"]
          /\ UNCHANGED <<ingest, source, fight, preview, fileEof, online, heard, age, gen, opens, watch>>
     ELSE /\ RestartCamera([age EXCEPT !["pollRestart"] = 0, !["watchRestart"] = MaxAge])
          /\ watch' = 0
PollsPreview ==
  /\ ~FightLost /\ ~IngestLost
  /\ preview' = IF ~fileEof /\ preview \in {"dead", "drained"} THEN "run" ELSE preview
  /\ UNCHANGED <<ingest, source, fight, fileEof, online, heard, age, item, gen, opens, watch>>

Poll ==
  /\ IF item.done
     THEN UNCHANGED <<ingest, source, fight, preview, fileEof, online, heard, age, item, gen, opens, watch>>
     ELSE PollsFight \/ PollsFile \/ PollsIngest \/ PollsPreview
  /\ UNCHANGED <<setup, failures, outages, pose, warm, seen, bundle, ticked>>

\* The first half of the watchdog's tick: which processes are alive, and how they ended.
Observe ==
  /\ seen' = [ingest |-> ingest, fight |-> fight, preview |-> preview]
  /\ UNCHANGED <<worldVars, registryVars, gen, opens, item, watch, bundle, ticked>>

(***************************** the parent: judging *************************)
Suspended == item.waiting \/ item.failed
\* Mutant: only what the health channel says.
EofKnownLate == FALSE
\* The marker is read after the exits were seen.
EofKnown == fileEof
IngestEof == EofKnown \/ online = "EOF"
FightGone == ~Suspended /\ seen.fight \notin AliveStates
FightDrained == FightGone /\ EofKnown /\ seen.fight = "drained"

Since(clock, born) == IF age[clock] # Never THEN age[clock] ELSE born
LeastOf(a, b) == IF a = Never \/ (b # Never /\ b < a) THEN b ELSE a
IngestAges == IF IngestEof THEN {0} ELSE {age["ingestBeat"], Since("frame", age["born"])}
FightAges ==
  IF Suspended THEN IngestAges
  ELSE {age["fightBeat"]} \cup
       (IF age["firstFrame"] = Never THEN {}
        ELSE {Since("fightFrame", LeastOf(age["firstFrame"], age["fightBorn"]))})
PreviewAges == {age["previewBeat"]} \cup
               (IF age["firstFrame"] = Never THEN {} ELSE {Since("previewFrame", age["firstFrame"])})
Some(ages, limit) == \E a \in ages : a >= limit

\* Mutant: however long ago it said so.
QueuePressureStale == ~Suspended /\ heard.fight = "capacity_wait"
QueuePressure == ~Suspended /\ ~PoseFailed /\ heard.fight = "capacity_wait" /\ age["fightBeat"] < 1
\* Mutant: a consumer that waits for an inference is judged like any other.
InferencePendingNever == FALSE
InferencePending ==
  /\ ~Suspended /\ ~PoseFailed /\ heard.fight = "asked" /\ age["request"] # Never
  /\ LET limit == IF warm \/ InferenceFail > StartupGrace THEN InferenceFail ELSE StartupGrace
     IN age["request"] < limit /\ age["fightBeat"] < limit

\* _camera_health, in its order: what the watchdog is asked to do.
Finished == item.done \/ item.state = "FAILED" \/ (item.failed /\ setup.file)
Pardoned ==
  \/ IngestEof /\ FightDrained
  \/ online = "RECONNECTING" /\ age["reconnect"] <= ReconnectGrace
  \/ age["born"] < StartupGrace /\ age["frame"] = Never
  \/ QueuePressure
Stalled ==
  IF InferencePending THEN "none"
  ELSE IF Some(IngestAges, StallFail) THEN "restart_camera" ELSE "restart_fight"
Slow == Some(IngestAges \cup FightAges, 1)
Verdict ==
  IF Finished THEN "none"
  ELSE IF FightGone /\ ~FightDrained THEN "restart_fight"
  ELSE IF seen.ingest \notin AliveStates /\ (~IngestEof \/ seen.ingest = "dead") THEN "restart_camera"
  ELSE IF ~IngestEof /\ seen.preview \notin AliveStates THEN "restart_preview"
  ELSE IF Pardoned THEN "none"
  ELSE IF Some(IngestAges \cup FightAges, StallFail) THEN Stalled
  ELSE IF ~Slow /\ ~IngestEof /\ Some(PreviewAges, 1) THEN "restart_preview"
  ELSE "none"

\* The second half of the tick: what is done about it.
RestartDue == watch < RestartLimit /\ age["watchRestart"] >= Cooldown
JudgesCamera ==
  IF RestartDue THEN RestartCamera([age EXCEPT !["watchRestart"] = 0]) /\ watch' = watch + 1
  ELSE /\ item' = IF watch >= RestartLimit THEN [item EXCEPT !.state = "FAILED"] ELSE item
       /\ UNCHANGED <<ingest, source, fight, preview, fileEof, online, heard, age, gen, opens, watch>>
JudgesPreview ==
  /\ IF age["previewRestart"] < Cooldown THEN UNCHANGED <<preview, age>>
     ELSE preview' = "run" /\ age' = Heard({"previewRestart"})
  /\ UNCHANGED <<ingest, source, fight, fileEof, online, heard, item, gen, opens, watch>>
JudgesFight ==
  /\ RestartFight
  /\ UNCHANGED <<ingest, source, preview, fileEof, online, gen, opens, watch>>

Judge ==
  /\ CASE Verdict = "restart_camera" -> JudgesCamera
       [] Verdict = "restart_fight" -> JudgesFight
       [] Verdict = "restart_preview" -> JudgesPreview
       [] Verdict = "none" -> UNCHANGED <<ingest, source, fight, preview, fileEof, online, heard, age, item, gen, opens, watch>>
  /\ ticked' = TRUE
  /\ UNCHANGED <<setup, failures, outages, pose, warm, seen, bundle>>

\* What a process that answers does within the time unit.
Awaited == FirstFrame \/ PoseAnswers \/ Drains

World == \/ \E how \in {"hung", "dead"} : Breaks(how)
         \/ SourceGoes \/ SourceOpens \/ FightAsks \/ FileEnds \/ Awaited
=============================================================================
