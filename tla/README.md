# TLA+ verification of the multi-camera security platform

This directory holds TLA+ models of the runtime, the supervisor, the older programs and
the Django backend of the repository, the TLC configurations that check them on small
instances, and TLAPS proofs of every invariant and action property that is checked: of
admission, the cameras, the incident path, the parent and its main loop, the supervisor,
the web application, the offline runs, the speed programs and the older programs. Paths
below are relative to the repository root; `pipeline_mp/` stands for
`src/fight/pipeline_mp/`, `pipeline/` for `src/fight/pipeline/`, `backend/` for
`src/Fight_backend_project/backend_frontend_project/`.

## 1. Inventory of the system

| Part | Where | State | Operations | Correct when |
|---|---|---|---|---|
| Supervisor | `src/fight/runtime_supervisor/core.py`, `server.py`, `locking.py` | `runtime_state.json` and its copy in memory, the child process, restart counters, backoff threads | start, stop, restart, status, monitor, automatic restart, close, reconciliation at start-up | at most one runtime, and it can always be found again; a stop is final; a process of unknown origin is never killed or doubled |
| Desired camera state | `runtime_supervisor/camera_state.py`, `client.py`, `backend/services/pipeline_bridge/camera_registry.py`, `analytics_control.py`, `fight_runner.py`, `backend/services/speed_bridge/speed_runner.py` | one document with a revision, the hold file | compare-and-swap update, bootstrap, reconciler tick, pause, resume, Speed start and stop, start, hard stop | no operator command is lost, revisions identify contents, the document converges to the database |
| Camera lifecycle | `pipeline_mp/camera_lifecycle.py` | slots, per-slot processes, generations, epochs, floors, failed starts | start, stop, restart, suspend, resume, poll, reconcile, retry | a reading of an ordered file is shared by nobody and, once it ended cleanly, is the last one; waiting cameras are served; frames flow only to a consumer that can publish |
| Shared Fight service | `pipeline_mp/shared_services.py` | the bundle of inference processes and queues, attempts, the service floor | start, idle stop, failure, replacement, finalization | nothing flows to a bundle that is gone |
| Runtime parent and its health | `pipeline_mp/run_multiprocess.py`, `health.py`, `reporter.py` | the main loop, ages of all processes, the report queue, the final marker | tick, poll, watchdog, drain, take-down | no restart of a healthy process, none missed; a run that ended has filed and reported everything; a stop ends |
| Fair admission queue | `pipeline_mp/scheduling.py`, `batching.py`, `person_worker.py`, `pose_worker.py` | shared counters, one channel per slot, cursor, sentinel | put, get, task_done, empty, admit | exact accounting, order per camera, bounded passing-over, the sentinel last |
| Camera ingest | `pipeline_mp/camera_ingest.py` | the source, the frame channel of each consumer, the end-of-file event | open, read, publish ordered or latest, reconnect, end of file | files in order and complete, a full channel or a stop never blocks it for ever |
| Fight consumer | `pipeline_mp/camera_worker.py`, `src/fight/camera/`, `src/fight/motion/`, `src/fight/yolo/src/stage2/` | the active event, remembered frames, request numbers | look, ask, decide, open, extend and close an event | a scene is in one clip, an answer is to the consumer's own question |
| Identity and fences | `pipeline_mp/fight_identity.py`, `generation.py` | generations and floors in shared memory | allows, is_current_generation | output of a failed incarnation is not published |
| Incident path | `pipeline_mp/stage3_worker.py`, `incident_worker.py`, `pipeline/incident_aggregator.py` | open incident per camera, the sweeper's list | submit, merge, confirm, finalize, close_all | an incident is published once, under one number, by a current incarnation |
| Outbox | `pipeline/incident_outbox.py` | an append-only file | durable append | an append that returned survives |
| Dispatcher | `backend/incidents/services/ingest.py`, `src/fight/service_loop.py` | cursor, ingest records, incidents | consume, retry, defer | at-least-once reading, one row per incident |
| Retention | `src/fight/retention.py`, `backend/incidents/services/retention.py` | evidence files, run directories | cleanup pass | nothing referenced is deleted |
| Routing and operators | `backend/incidents/services/routing.py`, `actions.py`, `backend/services/incident_access.py` | routes, audit events, incident status | route, acknowledge, resolve | what is due is routed, nobody is alarmed about what is taken, the audit is true |
| Security scopes | `backend/services/access_scope.py`, `backend/adminx/models.py`, `forms.py`, `views.py` | the tree of locations, units, coverage, assignments | edit a location, unit, coverage, user; resolve scopes both ways | what a user is shown is what his units are responsible for |
| Offline analysis | `pipeline_mp/offline_jobs.py`, `backend/services/pipeline_bridge/offline_analysis.py`, `backend/streams/offline_views.py` | request, claim and status file, runs, results | request, claim, complete, cancel, reconcile | no replay of a claim, an outcome is decided once, a page shows COMPLETED or FAILED only as the outcome and COMPLETED only with everything imported |
| Speed | `pipeline_mp/speed_worker.py`, `src/HizTespiti/` | gate, tracks, estimates, decisions, the vehicle service, the journal and the outbox | measure, confirm, save evidence, publish, fence, restart | one report for one passage, nothing journalled is unreported but what the code gives up, no wait for ever |
| Classic programs | `pipeline/run_multi_live_queue.py`, `run_live.py`, `run_full.py`, `pipeline_mp/run_multiprocess.py` without dynamic cameras | threads and queues; counters; event directories | cut, save, judge, report, settle; alarm on and off; probe, merge, export, score | what they say is done is done, and what they give up is said to be; they come to rest |
| Preview, accounts, report pages, training, benchmarks | `pipeline_mp/camera_preview.py`, `preview_gateway.py`, `backend/accounts/`, `src/tools/`, `src/benchmarks/` ... | - | - | not modelled, section 8 |

How the parts interact:

* The web pages and the reconciler change the **database** and send updates of
  the **desired document** to the **supervisor** over HTTP (three seconds of
  patience on the client's side). The supervisor stores the document under its
  lock and launches or stops the **runtime parent**, a process in a session of
  its own.
* The runtime parent reads the document by revision and starts, withdraws and
  replaces **ingest processes**, **consumers** and the **shared services**. The
  ingest sends frames to the consumers, a consumer sends requests through the
  **admission queue**; the results come back by response queues and end as
  candidates for **Stage3**. The **watchdog** judges all of them by the age of
  what they last said.
* Generations, epochs and floors live in shared memory: the parent writes them,
  Stage3, the incident worker, the **aggregator** and the Speed consumer read
  them, each at its own moment.
* The aggregator and the Speed consumer append incidents to the **outbox**. The
  **dispatcher**, in a process of its own, reads the file from a cursor in the
  database and creates incidents, which **routing** assigns to the security
  units that cover their camera. **Retention** deletes evidence by age, guarded
  by what the file and the database still refer to.
* An **offline run** crosses all of it: a row in the database, three files
  between Django and the parent, a camera runtime, Stage3, the aggregator, the
  outbox, the cursor.

The hard behaviours: processes that die between two writes (supervisor,
dispatcher, parents, a torn append); two callers that read, compute and write
back (reconciler and commands, two editors of one tree); checks that are stale
when acted on (floors read before the evidence is encoded, a list of incidents
read before they are routed); two threads over one lock (submit and the
sweeper); counters and a sentinel over several feeder threads; markers that must
stay behind what they mark, in several queues; bounded restarts whose next
attempt must have been scheduled by somebody; a watchdog that cannot tell a wait
from a hang but by what it waits for. `PROJECT.json` lists them under "hazards"
at their lines.

## 2. Plan and state

| Module | Models | State |
|---|---|---|
| `AdmissionQueue`, `AdmissionQueueProofs` | the fair queue with its worker | checked, proved |
| `OutboxDelivery`, `OutboxDeliveryProofs` | append, dispatcher, retention | checked, proved |
| `IncidentPublication`, `IncidentPathProofs` | candidate to published incident under fences | checked, proved |
| `FightRuntime`, `FightRuntimeProofs` | the parent's reconciliation of cameras and the Fight service | checked, proved |
| `Supervisor`, `SupervisorProofs` | the runtime's owner | checked, proved |
| `DesiredState` | the desired document and its writers | checked, proved |
| `SecurityScope`, `IncidentRouting` | scopes; routing, acknowledgement, resolution | checked, proved |
| `Backoffice`, `BackofficeProofs` | the two in one web application, and the proofs about both | checked, proved |
| `OfflineContract`, `OfflineJobs`, `OfflineJobsProofs` | the life cycle an operator is promised; the protocol that implements it | checked, refinement proved |
| `CameraIngest`, `CameraPath` | the ingest; the ingest with the Fight consumer and its services | checked, proved in `IncidentPathProofs` |
| `SpeedMeasurement`, `SpeedRuntime` | from frames to violations; the three programs around it | checked, proved in `OutboxDeliveryProofs` |
| `RuntimeHealth`, `RuntimeMain` | registry, watchdog, restarts; the main loop, the drain and the take-down around them | checked, proved in `SupervisorProofs` |
| `LivePipeline`, `StaticRuntime`, `LiveLoop`, `BatchExport`, `ClassicPipelines` | the four older programs | checked, proved in `AdmissionQueueProofs` |
| `SequenceCounting` | lemmas about counting in sequences, appending and taking, and the greater or lesser of two numbers, which the proof modules share | proved |

A proof module may cover two components: the second is a part of its own, under a
rule that names it, and shares only lemmas with the first.

Every invariant and every action property of the runs is a theorem, except
`ScopeAgrees`, which is false (section 7). Left: the liveness properties, which the
proof system cannot state a proof of, and the composition of `OutboxDelivery` with
`IncidentRouting` at the import: the two meet in one row, whose creation each of them
models as one transaction, and a product of the two has no property that one of them
has not.

## 3. The modules and the code

Every module is commented action by action, and `PROJECT.json` maps each
definition to the lines it stands for. `MC*.tla` modules give the constants of a
run their values. A definition whose comment begins with "Mutant:" is not the
code's: it is a changed form of the definition that follows it, used to see that
the property named in `PROJECT.json` would notice. Variables marked "history" in
a declaration are not in the code; no guard reads them.

**AdmissionQueue.** `outstanding`, `pipe` and `held` are the shared counters,
the readable part and the bound of each channel; `feeder` is the buffer of a
sending process, whose feeder thread moves items into the pipe (`Feed`).
`put()` is two steps, `PutCount` (scheduling.py:61) and `PutPublish` or
`PutReject`; `PutReject` includes what `admit` does with a full channel: a FILE
request is made again, a LIVE one shed. `get()` is a scan by slots
(`ScanEmpty`, `ScanSentinel`, `Dispatch`, `EndScan`), because senders act
between two of its reads. The worker's round is collect, filter, infer,
acknowledge. `Kill` lets a camera process die with what it counted or buffered.

**OutboxDelivery.** The file is a sequence of terminated lines and a tail.
An append is its system calls in order: lock (`AppendBegin`), separate a torn
tail (`Separate`), write a part, the record, the newline, sync and return; a
runtime may be stopped at each of them and leave what is there. The
dispatcher's tick is `Open`, then per line `Ingest` (first transaction) and
`Advance` (second), then `Retry` for every retryable record. `Deferred` and
`RetryFails` are transactions that raise, `DispatcherDies` a death anywhere.
`Cleanup` is a whole retention pass over one event's evidence, with the checks
of `outbox_consumed`; what it deletes by age is a free choice.

**IncidentPublication.** The parent's actions change generations, epochs,
floors and tenants; every write that another process can see is a step
(`FenceFight`, `WithdrawConsumer`, `InvalidateCamera`, `ReleaseCamera`,
`StartService`, `FailService`, `StopService`). A candidate goes through `Emit`,
`Stage3Take`, `Stage3Infer`, `Stage3Deliver`, `Receive` and `Submit`. The
aggregator's lock is `holder`; encoding of evidence happens outside of any
floor check, so `Finalize` and `Publish` are two steps, and the sweeper's
`SweepCollect` and `SweepFinalize` too. Scores have two levels, clip windows
are a choice (`Merges`), confirmation rules are a choice among what the votes
allow (`CanConfirm`).

**FightRuntime.** `phase` walks through one iteration of the main loop: load,
reconcile, tick, service, idle, poll, retry, watch. `item` is the
`CameraRuntime` of a camera, `desired` the document it has loaded, `failedWant`
the remembered failed starts. Children die, stall, reach the end of their file
or drain between any two steps (`IngestStep`, `ConsumerExits`, `ServiceBreaks`).
Two cameras, one an ordered file, stand for the two kinds of source.

**Supervisor.** One lock, so `pc` is the operation that holds it and its place;
an operation is cut where it writes `runtime_state.json`, calls `Popen` or waits
for the child. `Crash` ends the supervisor between any two steps and `Boot` is
`_reconcile_persisted_state` of its successor; the runtime survives. Fault
kinds: a write that raises before or after the replacement, a failing event log,
a failing `Popen`, a launch refused by the maintenance lock, an unconfirmed kill,
a death, a pid used again by an unrelated process.

**DesiredState.** Every writer is a caller that reads the database (`Snapshot`),
reads the document (`Read`) and writes (`Write`), followed by the steps its
command has: lifting the hold, checking hold and status, launching, halting. A
write is refused when the revision is not newer; it can raise before or after
it is stored; a client that gives up leaves it to `LateWrite`. The same holds
for starts (`LaunchTimesOut`, `LateStart`). The pages answer a Speed command at
once when there is nothing to change (`SpeedStartGiven`, `SpeedStopGiven`).

**SecurityScope, IncidentRouting.** The tree of locations is a function `parent`; the
two walks of access_scope.py are written as the code takes them: `CoveredBy` goes down
from the coverage rows in their order and skips what is covered already, `UnitsCovering`
goes up from a place; `Effective` shuts off what is inactive or below something inactive
or on a cycle. A page that edits a location checks it (`LocationChecked`,
`Location.clean`) and saves it (`LocationSaved`) by two statements, so two editors can
close a cycle. Routing is a transaction: at the import (`Ingest`) and by the ticks of
the dispatcher, which list the open incidents (`TickLists`), read the coverage of each
(`TickCovers`), then the rules (`TickRules`), three queries with others between them,
and route one incident after the other (`TickRoutes`) while operators acknowledge
(`Acknowledges`) and resolve (`Resolves`) what their inbox offered them some time ago
(`Posts`). `Routed` adds the routes that are due, `Added` writes their audit.

**Backoffice.** `DesiredState` and `IncidentRouting` live in one web application
and one database but share no row: a behaviour follows one of them, the other is
at rest.

**OfflineJobs implements OfflineContract.** `row` is the database row, `file` the
run's state file (claim and status), `request` request.json; `sent` and `ack` are
the drain marker on its way through Stage3's and the incident worker's queues.
`reconcile_jobs` is a pass of its caller: the reconciler makes one after the other
(camera_registry.py:56), every Speed start in the web server makes one
(speed_runner.py:269), and no lock keeps them apart. A pass queries the open rows
(`ReconcileQuery`), reads for each the state file and the cursor (`ReconcileRead`)
and saves the whole row as it was queried (`ReconcileSave`), its old cancel flag
included; then it queries again (`ReconcilePick`) and writes request.json
(`ReconcileWrite`). Everybody else acts between any two of these. `Import` moves the
cursor. The refinement mapping shows the row's state as `status`, the runs a click has
asked to cancel as `asked`, the state file as `outcome`, all results found so far as
`produced` and the lines behind the cursor as `imported`. The contract is about two
things that are easily taken for one: the outcome of an analysis, which is decided
once, and the page, which may show an earlier state again (section 7) but COMPLETED
and FAILED only if that is the outcome, COMPLETED only with every result imported, and
CANCELLED only if that is the outcome or somebody asked for it. `ImplementsContract`
says that every step is a step of the contract or none.

**CameraIngest, CameraPath.** The ingest opens, decodes, numbers and sends every
frame to the channels that are due (`todo`), waiting for room (ordered) or pushing
out the oldest (latest), with reconnects, the end of a file and stops at each
point. CameraPath composes it with the Fight consumer: `TakeFrame`, `Motion`,
`People`, `Decide` open, extend and close events; a request to a person or pose
service and its answer travel through queues that may still hold what an earlier
consumer left (`service`, `answers`). What an image shows is arbitrary.

**SpeedMeasurement, SpeedRuntime.** The road has one dimension, measured times are in
half frames; the cooldown is time on the wall (`clock`, violation_decider.py:77), of
which every frame takes as much as its program's `pace` allows. `GateAfter`,
`TracksAfter`, `Estimate` (two lines, either direction, pixel scale) and `Decide` are
the code's four stages as functions of their state. Around them run the consumer of the
runtime with its service and its parent (`Fence`, `Kill`, `Spawn`, `StopService`,
`RestartService`), the older camera process with its orchestrator and reporter, and the
one-camera program. The older process writes its journal (`ProcessSave`) and reports
(`ProcessReport`) in two steps; a report that finds the shared queue full for a second
is swallowed, a process that has not left five seconds after the signal is killed at any
place (`ProcessKilled`, with what its feeder had not sent), the stop may find no room
(`OrchestratorTell`) and the reporter is terminated (`ReporterTerminated`). `forgone`
counts what was given up in each of these ways. The queue belongs to all cameras, so
whether it is full is a choice.

**RuntimeHealth, RuntimeMain.** The registry is a set of ages; the world is what
the processes really do, and they differ. The main loop walks `pc` through
services, polls, retries, the watchdog's judgement and the clock; `Drained` is what
the end of a file run is decided by, and the take-down stops cameras, services,
Stage3, the incident worker and the Reporter in the code's order, with the final
rows each of them puts into the report queue. A candidate is filed or given up:
by Stage3 when the inference raises or the incident queue stays full (`Stage3Drops`,
stage3_worker.py:262), by the incident worker when there is no evidence or the
aggregator raises (`IncidentDrops`, incident_worker.py:133), or with the worker on a
failing disk (`IncidentFails`: the row of the candidate, then the worker's last one).
`dropped` counts these, and each has a row. The report queue is unbounded here; the
code's holds thousands of rows and a row that finds it full for half a second is
dropped without a word, so that the row of a candidate is promised only while the
Reporter keeps up. `Breaks` and `WorkerBreaks` let a process hang or die anywhere.

**ClassicPipelines.** `program` chooses one of four programs. LivePipeline has the
camera threads, the clip writer, the Stage3 thread, the report hub and the order
in which main joins them. A clip that cannot be written is logged as such (`unsaved`),
and main leaves a camera, or the hub, behind after five seconds (`slow`,
`JoinCameras`, `CloseHub`). StaticRuntime is the parent without dynamic cameras, with
the bounded queues of the code: `Cuts` drops an event at a full Stage3 queue, `Judges`
one whose inference raises or whose result finds the incident queue full, `Files` one
without evidence or one that raises, and with its worker one that meets a failing
disk; `forgone` has them all. LiveLoop is the counters behind the alarm. BatchExport
is probe, merge, export with its sampling stride, and score over a video of six
frames.

The modules meet at these points: `FightRuntime`'s fence, epoch and service floor
are the parent's part of `IncidentPublication` and `SpeedRuntime`, which leave the
loop out and let the parent do anything in any order that the slots allow;
`CameraPath`'s jobs are `IncidentPublication`'s candidates; its `outbox` is what
`OutboxDelivery` publishes, and an imported row is `IncidentRouting`'s incident;
`OutboxDelivery`'s runtime, and `DesiredState`'s `rt`, are `Supervisor`'s runtime;
`FightRuntime`'s revisions are `DesiredState`'s documents; `CameraPath`'s services
sit behind `AdmissionQueue`.

## 4. The runs

| Run | What it shows | Instance |
|---|---|---|
| `admission_queue` | `Accounting`, `FairAndInOrder`, `SentinelLast`; the worker leaves in the end | one FILE and one LIVE slot, 4 requests each, channels of 2, batches of 2, one process death |
| `outbox` | nothing acknowledged is lost or doubled, referenced evidence is kept, deliverable events are delivered | two events of one incident, one of an offline run, 2 failures, one fresh file |
| `incident` | failed incarnations are silent, incidents are published once, a confirmed incident does not stay open | 2 cameras on 1 slot, 2 candidates, 3 generations, 2 consumer epochs, 2 service incarnations |
| `runtime` | frames flow only to consumers that can publish, the readings of a file are apart and a clean end is the last, files end, waiting cameras are served | an ordered file and a live camera, 2 slots, 2 revisions, 2 faults, 2 restarts of the service, 8 generations |
| `supervisor` | one runtime, owned or found; decisions of operators and the fence hold; BACKOFF ends | 2 runtimes, 2 faults of any kind, both platforms |
| `backoffice` | commands are kept, the document converges, a stopped runtime is started; scopes, audit, due routes | one camera, one web request with 2 of 6 commands beside the reconciler, one edit, one fault; 2 incidents, 2 units, 3 locations, 2 editors, 2 rules |
| `scope_agrees` | a disagreement, section 7 | the locations of `backoffice`, one edit |
| `offline_jobs` | the protocol implements the contract, no media is opened twice, runs end | 2 runs (both analyses, one result; Speed alone), 2 parents, 1 cancellation, a reconcile pass of the web server beside the reconciler's |
| `camera_path` | a scene is in one clip, a file is whole, answers are the consumer's own, cameras end | files of 3 and cameras of 2 frames, channels of 1, one fault, leftovers of an earlier consumer |
| `speed` | one report per passage, twice only if a gate with a stride was shut; nothing unreported but what is given up; waits end | a road of 11, strides 1 and 2 with and without the gate, one missed detection, frames that take time or none, one fault, one restart |
| `runtime_main` | an end is complete, replacements have a cause, a hung consumer is replaced, a stop ends | files and cameras with one or two faults of a camera, a worker or the disk, candidates given up, a slow service, an outage, a signal |
| `classic` | what the older programs say is done is done, nothing is lost that they do not say is given up; they come to rest | two camera threads with queues of 1, a failing disk, a slow exit; two static cameras with 2 events, queues of 1, failing inferences and a fault; all frames of the live loop; six frames with every span, padding, limit and stride |

Why the bounds are enough. The admission queue needs a channel that is full with one
more request behind it, a slot waiting while another is served, and a sentinel that
overtakes a feeder: two slots, channels of two and four requests reach all of them; a
gap is seen only if a request follows the shed one. In the outbox, a torn tail, a
redelivery and a second event of the same incident need two events and two failures; the
third event brings the offline path. A slot that is used again by a second camera needs
three generations. Two epochs of a consumer and of the service are what lets an old
incarnation and the one that replaces it be alive side by side, each with a candidate on
its way; two candidates are also the least that can make an incident doubled or merged.
The two cameras of that run are alike, and the one that enters the slot first is given a
name (`FirstIsFirst`): the other half of the behaviours is the same under another name.
The theorems of section 6 carry the fences to any number of epochs. The runtime's
interactions are between one file and one live camera over one service. Its two faults
are the least for a replacement of the service that fails half way: one breaks the
bundle, one its successor, and with two restarts allowed the next attempt has to be
scheduled by the failed one (shared_services.py:260). With eight generations no
behaviour of the liveness properties ends because a bound is used up. A second runtime
and two faults are what the supervisor's exceptions need: one to lose the first runtime,
one to launch the second. In the document, a race needs the reconciler and one other
caller, and two commands to have one overtake the other. A scope needs a place with two
ancestors, a stale tick two incidents of which one is acknowledged while the other is
routed, a cycle two editors. An offline run must find another run in the request slot,
and lose its parent once. The pass of the web server overlaps the reconciler either
while one run is known, with the cancellation and the lost parent, or with two runs and
neither (`Scope`); in the first case every disagreement 11 to 13 of section 7 is
reached, in the second a request.json that names the wrong run. An event that is split,
closed and followed by another needs three frames and events of two. A speed needs both
lines, a frame before and one after, and the frames of the confirmation, the repetition
and the cooldown, in which one detection may be missed; a second report under a gate
with a stride needs the lines at 4 and 7 and eleven frames, and is reached. The
take-down has four workers; one of them, or two faults of a camera, may fail in a run.
With a clock, a file is followed through its first generation and into the second
(`FirstGeneration`): what a restarted file does is what the first one did. The static
run has queues of one, so the second event of a camera, or the first of the other, may
find them full.

Deadlock is checked in `outbox`, `supervisor` and `classic`; a program that has
ended stutters there explicitly (`Rests`). The others really stop: a worker, a
consumer, a parent or a run ends, and incidents rest when none is open.

## 5. Fairness

* `AdmissionQueue`: the worker's loop and the feeder threads run by themselves,
  and a put returns within its timeout; no camera has to make requests and the
  parent does not have to close.
* `OutboxDelivery`: only the dispatcher's own steps are fair, since
  `run_service` restarts it for ever; failures are finite. Nothing forces the
  runtime to write.
* `IncidentPublication`: the incident worker, the encoder and the sweeper's
  finalization are threads of one process; a state nobody extends becomes stale
  by the clock, so the sweeper's collection of each camera is weakly fair.
* `FightRuntime`: weak fairness of the parent's loop; strong fairness of a
  replacement that succeeds (`TickReplace`) and of a restarted ingest, which the
  finite fault budget allows; children get on with reading and draining when
  nothing goes wrong.
* `Supervisor`: the operation that holds the lock gets on, a backoff thread
  wakes; the monitor and a woken thread compete for a lock that is free again
  and again, hence strong fairness. The kill, with its grace periods, returns.
* `Backoffice`: the reconciler's service begins tick after tick, a caller gets on
  with what it began, and `run_incident_dispatcher` ticks for ever.
* `OfflineJobs`: reconciler and dispatcher are services that loop, the supervisor
  launches a parent again, and the parent, its workers and a decoder that reaches
  the end of its file keep running. A reconcile pass of the web server is not fair: it
  may be cut short at any step, or hold a row for ever.
* `CameraPath`: both processes, the two services and the Speed consumer run.
* `SpeedRuntime`: the consumer, the service and the parent's fence and kill, which
  are bounded waits; a dead service is noticed by `poll`.
* `RuntimeMain`: the parent and the workers that have not broken go on. The clock
  ticks between loops and the world moves between two visits of the parent; both
  are enabled again and again only, hence strong fairness.
* `ClassicPipelines`: the threads or processes that exist go on; frames come in
  the live loop. What a source does and when a stop comes is left open.

Crashes, faults, exits, commands, edits and clicks are never fair.

## 6. What is proved

The proofs are in `*Proofs.tla`, checked by TLAPS, and hold for every value of
the constants that the modules' named assumptions admit (bounds are arbitrary
natural numbers, sets are arbitrary, where an assumption does not say finite).

An invariant is a conjunction of small parts, and a lemma keeps one part through
every action; a part cites only those it rests on. The parts that are not implied
by a property are why the property is inductive at all; they are what follows.

Two theorems have a hypothesis beside the modules' assumptions, because their
property is false without it: `PolicyGrants` for the watchdog and `RepeatsFit` (that is,
`NumbersFit` for the stride of the program) for the speed programs. Both are explained
below, with the numbers the code ships.

**AdmissionQueue** (`AdmissionAssumption`). `AccountingHolds`, `SentinelIsLast`,
`FairAndInOrderHolds`. `SafeInv` has the types of what senders, channels and worker
keep, with what their place in the code says. `CapacityInv`: nothing is in a
channel or its feeder without its unit of the bound, so a feeder never waits for
room. `BatchInv`: the worker's `acks` are what it was given and has not
acknowledged, the sentinel included. `SentinelInv`: the sentinel is in one place at
most, that of the owner's feeder, of the first channel, or already taken; with
`CloseInv` (after the closing no camera is inside `put`) this is why everything else
has been read when it is. `AccountInv` is the exact balance of the shared counts; a
step moves a request from one place to the next, and the lemmas of
`SequenceCounting` say what that makes of the counts of a queue. `FairInv` adds that
admission order is served, feeder, pipe one after the other (`InAdmissionOrder`),
that a file asks for each request once (`FileInv`), and the arithmetic of the
cursor (`RoundInv`): until the sentinel has been seen a slot that was passed over
lies ahead of the scan, by as much as its bound leaves.

**OutboxDelivery** (`OutboxAssumption`). `TypeCorrect`, `NoAckedLoss`,
`CursorSound`, `RowsUnique`, together `DeliveredExactlyOnce`; `EvidenceSound`,
`SettledForGood`. The properties are not inductive by themselves. The invariant
`IInv` adds: where a writer is and what the tail then holds (`WriterInv`: after
`Separate` the tail is empty, so a record can become a line only whole or torn,
never glued); that the cursor belongs to this file or to none and lies inside of
it (`CursorInv`); that between the two transactions the line in hand is already
accounted for (`TickInv`), which is why a death there repeats a line and never
skips one; that a settled record names an existing row of its own incident
(`SettledInv`), which is why a repeated line finds it; and that the record in the
tail has its evidence (`EvidenceInv`). There is a lemma per group of actions;
`RecordsGrow` says that a record never goes back to "none" and carries most of
them.

**IncidentPublication** (`PublicationAssumption`). `FailedServiceNeverPublishes`
and `FencedTenantNeverPublishes`, together `FailedNeverPublish`. `FenceInv` says
that floors and epochs move together: a failed service incarnation lies below the
service floor (`ServiceInv`), and a fenced consumer of the current generation below
the floor of its slot, while its own tenant still owns the slot (`TenantInv`). The
lemma `PublishesCurrent` says that a step that adds an incident has just read the
floors of all its parts; the two together give the theorems. What is missing from
`TenantInv` for the stronger claim, that the floor of a slot never falls, is false
of the code: section 7. `PublishedOnceHolds` rests on another invariant, `OnceInv`:
the numbers of candidates rise along the line from the camera through Stage3, the
incident worker and its received one to what has been submitted (`LineInv`), so a
candidate that is submitted belongs to no incident yet; no two states or incidents
share one (`ApartInv`); an open state carries the camera's counter, and whatever was
published carries less (`NumberInv`); and the one who encodes holds the lock over a
state that still builds (`LockInv`), which keeps sweeper, worker and shutdown from
finalizing the same state twice.

**FightRuntime** (`RuntimeAssumption`). `RuntimeHolds`, `TypesHold`, `FlowingHolds`,
`ReadingHolds`, `CleanEndHolds`. `RuntimeInv` has `ItemsInv`, what every handler leaves
of a camera's runtime by itself (what is fed has a consumer, is not failed, not waiting
and wants Fight; in one generation a file was spawned once at most) and gives
`ReadingOrdered`: the readings of a file, one per generation, have one consumer each,
which exists before the first frame, and a file counts as finished only when that
consumer has drained it. `CleanEndIsFinal`, that nothing after a clean end of the source
begins another reading (ARCHITECTURE.md:176), needs besides that no camera which has a
runtime is remembered as one that failed to start (`RememberedInv`), for the retry would
start it again. A restart before the end does begin another reading: section 7. For
`FlowingIsPublishable` more is needed: a camera has its slot alone (`SlotInv`), so
fencing one lowers no other; a consumer's epoch was handed out in its slot and the
floor of what is fed is not above it (`EpochInv`); what is fed was attached to the
bundle that exists (`FedInv`), and the bundle's floor moves only when it is gone
(`BundleInv`). `WishInv`, what the loaded revision wants, is there for one action:
the idle stop, which removes a bundle nobody wants and must find nobody fed. There are
finitely many slots, as configured.

**Supervisor** (`SupervisorAssumption`). `TypeCorrect`, `FileNamesTheRuntime`,
`OneOwned`, together `OneIsOwnedOrFound`; `StopIsAuthoritative`, `FenceIsKept`,
together `DecisionsAreKept`. `IInv` adds what the lock protects: the child's pid is
the one in memory, a fence is in memory and on disk, a place of an operation says
whether there is a child (`Sound`); after a completed stop there is neither a child
nor an operation that launches (`Quiet`); every live process is the child or
fenced, but for the excused ones (`Owned`). `Recoverable` is needed for `OneOwned`:
a successor knows of a runtime only by the file. `OnlyPopenLaunches` reduces the
two action properties to one place of one operation.

**Backoffice, desired document** (`DesiredAssumption`). `TypeCorrect`, `NoIntentLost`,
`RevisionsGrow`, of `DesiredState` alone, and `PausesKeptHolds`. A writer sends what it
has read, so the invariant says what it may have read: a document that is not newer than
the stored one and equal to it if its revision is (`BaseInv`, for callers and for late
requests). A write that is accepted therefore carries the current pauses
(`AcceptedIsCurrent`). The bootstrap is covered because revision 0 has no pauses
(`FreshInv`), and what is sent is masked already (`Withdrawn`, with `MaskedAgain`:
masking twice is masking once).

**Backoffice, scopes** (`ScopeAssumption`). `ScopeContainedHolds`, of any tree
whatever, cycles included, and hence of any sequence of edits (`TreeInv` has only
types). The two walks are different recursive functions over different data. A row
of the coverage adds a location only if it is the row's own, or if the walk down
reaches it (`CoveredByRow`), and what the walk down reaches within n steps from l has
l among what the walk up collects within n steps (`DownIsBelow`, by induction on n).
Both stop after as many steps as there are locations, which is why the set of
locations has to be finite; what an earlier row covers takes away from the walk
down only, so the converse fails (section 7) and this direction does not.

**Backoffice, audit** (`RoutingAssumption`). `AuditTrueHolds`. `RowTold` says of a
row what its audit tells: every route has one entry and every routing entry a route
(`RoutesTold`); as long as it is open nobody has taken it (`Untaken`); afterwards one
unit has, and its entry is behind all routing entries (`Taken`). There is a lemma for
each thing that is done to a row (`CreatedTold`, `RoutedTold`, `AcknowledgedTold`,
`AdministratorTold`, `ResolvedTold`). A tick routes from coverage and rules that it
read before, and the invariant says nothing of their being current: it needs only
that they name units and rules that exist (`TickInv`). The
entries of one routing come in some order; `CountSetSeq` counts them in any. Units and
rules are finite, being rows of tables.

**OfflineJobs implements OfflineContract** (`BoundsAssumption`). `JobsHold`,
`NeverReplayedHolds`, `ContractImplemented`: every step of the protocol is a step of
the contract or leaves all that the contract sees, for any number of reconcile passes
that overlap. The step that has to be earned is the save of a row. It writes what a pass
has read some time ago, so the invariant says what may lie in a pass: `PassInv` has the
rows it has queried and the one in hand, and `ShownInv` that the state in hand is
`Backed` by the state file, the cursor and the clicks of this moment as well as by those
it was read from. That holds because what backs a state never goes away: a terminal file
is final, the cursor only grows and a click is not taken back. COMPLETED, which the
contract allows only when all results are imported, is the state for which `Backed` has
to mean something. `MarkerInv` says that the marker of
the active run is behind all its results in the queue it is in, and that no queue
holds anything of the run once the marker was answered; `BalanceInv`, that the lines
of the outbox and what is on its way (`Carried`) are all results found, unless a
failure was recorded. When the parent writes COMPLETED the queues are therefore
empty of the run, its lines are all results, and they lie before the offset it
writes. `FreshInv` says that a run no parent has opened has left no trace, and
`OpenInv` counts the openings: together with the claims that outlive a parent
(`FileInv`) they give `NeverReplayed`.

**CameraPath** (`IngestAssumption`, in `IncidentPathProofs`).
`AnswersAreOwnHolds` needs only `AnswerInv`: a consumer that goes on has accepted an
answer of its own epoch, about the frame in hand. For
`ClipsRepeatNothingHolds`, `EventInv` places the frame the consumer is at between what
it remembers (`prebuf`, `clip`, both rising and above the last close) and what it has
not seen, and `ClosedInv` puts every clip before the next one. `FileWholeHolds` is
about the channel between two processes: `OrderInv` says that what waits in it rises,
above the last frame taken and up to the newest sent; `KeptInv` counts, taken and
waiting make all that was sent until somebody is stopped, and an end of file in the
channel has everything before it. `IngestInv` has the types and where the ingest is
when it owes the consumer a word; `CameraCases` reduces a step to the few ways in
which it can touch this channel.

**RuntimeMain, the end of a run** (`HealthAssumption`, in `SupervisorProofs`, any
setups). `ExitCompleteHolds`. `FlowInv`: until the cameras are fenced every candidate is
in one place, filed or dropped, so at the end of a run that settled by itself what was
made is what was filed and what was dropped, for every failure of a worker on the way.
`EofInv`: a file run that ends by itself has no consumer and nothing at Stage3, and once
settled nothing at the incident worker. Stage3's part of it holds because a bundle with
a missing worker was given up before anything else was looked at (`GivenUpInv`), so that
nobody produces any more while the parent drains (`FileInv`). `GoneInv` says at each
place of the take-down who is gone, and `RowsInv` follows the rows, the final ones and
those of the dropped candidates: each is queued or written, and the sentinel is behind
all others, so a Reporter that left has written them.

**RuntimeMain, the watchdog.** `ReplacedForCauseHolds`: if `PolicyGrants`, no
replacement of a process that only did its work. `PolicyGrants` says that a camera may
be silent for more than one unit of the clock, that an inference in time is shorter
than the inference limit and, for files, shorter than the stall limit. The last is
sharp: with a stall limit of 2 and an inference of 2 over a file TLC finds
`ReplacedForCause` violated, because the consumer that waits for an answer takes no
frame. The code's defaults (frames fail at 90 s, inference at 120 s) are an
instance for inferences below 90 s; nothing in the code relates the two limits.
`CauseInv` ties the registry's ages, which the watchdog sees, to the world, which it
does not: the age of a request in work is that of the silence of the consumer that
waits for it (`RequestInv`), a reader that never was without its source has been heard
of within a unit (`ReaderInv`), a consumer of a clean file within the time of an
inference (`ConsumerInv`); who is not there has a reason on record (`AbsentInv`); and
the parent's snapshot is not overtaken by somebody coming back (`SeenInv`,
`CleanSeenInv`). Steps are sorted by what they do to those clocks (lives, passes, sees,
tends, idles, takes down), and one lemma per sort keeps each part.

**SpeedRuntime, what is written** (`MeasurementAssumption` and the assumption of
`SpeedRuntime`, in `OutboxDeliveryProofs`). `NothingUnreportedHolds`. `JournalInv`: the
journal of the runtime's consumer follows the outbox, by the one row in hand.
`ReportedInv`: what the reporter has filed and what it was sent are rows of the older
process's journal, in its order and none twice (`Follows`), and the journal is as long
as these, what is in hand and what was given up together; the stop is the last message
and comes behind the end of the camera process. Kill, full queue and termination each
take rows out of the middle or off the end, which is why the order has to be carried by
an embedding and not by a prefix. `ProgramInv` says who exists in which of the three
programs.

**SpeedRuntime, one passage, one report.** `EachReportedOnceHolds`, for any road, lines
and detector, any stride, with and without the gate: a passage of a file is written
once, a second time only by a program that skips frames while a gate may shut out others
(`Skips`) and only if its gate was shut in between, and a confirmed one is reported.
`PassageInv` follows the pipeline. `RoadInv` lines the tracks of the tracker up: there
is one car, so the younger track is ahead and was seen later. `HeldInv` is what the
estimator and the decider remember of each track: a passage that was reported is over
before the one this track has measured or has begun to measure, unless it is the track's
own report; and a fast passage that is not reported has been counted in every frame
since it was measured. `PastInv`: whatever was reported was over when the youngest track
was last seen, so a new track cannot measure it. `NewInv`: the row in hand is of a
passage that is not written yet. Under a gate with a stride these are about the passages
written `Since` the gate was last shut; what came before may come again. Steps are
sorted into those that take a frame, measure it, write, or do neither. `RepeatsFit` is
what the program's numbers must satisfy for a held speed not to be reported twice by its
own track: the confirmation is reached while the speed is shown (`ConfirmFrames <=
EmitFrames + 1`; the code takes at least three frames more, speed_estimator.py:170), and
the cooldown, which runs by the clock on the wall, outlasts the rest of the showing,
which is counted in frames (`Slowest * (EmitFrames + stride - ConfirmFrames) <
Cooldown`, where no frame takes more than `Slowest`). With what the code ships
(`confirm_frames` 2, hence five frames of repetition, stride 3, `cooldown_sec` 8) these
are six frames in less than eight seconds. A program whose frames take longer, by a slow
detector or the writing of clips, is outside of it, and nothing in the code relates the
two.

**ClassicPipelines** (`LiveAssumption`, `BatchAssumption`, in `AdmissionQueueProofs`).
`ClassicDeliveredHolds`, from `ClassicInv`, with a part for each of three programs; the
live loop's property is one of liveness. Queue pipeline (`LiveInv`): an open event is
named after its camera and has frames of one stretch (`MotionInv`); every closed event
is saved or logged as not saved, in the clip queue or with the writer (`ClipInv`), every
one to be judged is judged, queued or in Stage3's hands (`JobInv`), its row is written,
displaced, queued or still waiting for room (`RowInv`); and `StageInv`, how far main has
come and whom it has joined, makes these complete for the cameras that ended in time:
what is in a queue behind its sentinel belongs to others. A hub that main had to leave
after five seconds (`slow`) still holds the rows that are missing. Static runtime
(`StaticInv`): what a camera has cut is on its way, filed or given up with a row
(`WayInv`), and only a run whose files are all read settles (`ReadInv`), so after an
empty settlement everything is one of the last two (`SettledInv`). Batch (`VideoInv`):
the accepted spans are apart and in order (`SpansInv`), the merged ones are disjoint, in
order and cover them (`MergingInv`, `MergedInv`), and the export opens events forwards
only (`ExportInv`), so a frame is in one event.

Only model-checked: every liveness property (`WorkerLeaves`, `KnownIsDelivered`,
`Resolved`, `WaitingServed`, `FileEnds`, `BackoffServed`, `Converges`, `StartServed`,
`DueIsRouted`, `RunEnds`, `CameraEnds`, `WaitEnds`, `HungIsReplaced`, `StopEnds`,
`ClassicEnds`), since liveness under fairness and ENABLED are out of the proof
system's reach. The library's theorems about induction and recursive definitions take an
operator as a parameter, which the provers cannot instantiate. Where a recursive
function has to be reasoned about, `BackofficeProofs` goes round them: the finite
subsets of 0..N are well-founded under inclusion, which gives induction up to a
fixed N (`UpToAll`), and by it that a recurrence has a solution (`Iterates`) with
the expected type (`IteratesType`). No module uses a RECURSIVE operator.

## 7. Known disagreements

Where the code does something else than a text of the repository says. The first
has a run that TLC finds violated; the others are traces of the models that the
properties allow for, with the place.

1. `scope_agrees`: a unit covers a building alone and, by another row, the campus
   above it with everything below. `_covered_location_ids` (access_scope.py:134)
   walks down from the campus, finds the building covered already and does not go
   on below it; `build_location_security_unit_index` finds the campus from every
   floor. The unit is sent the incidents of cameras its members are not shown.
   `ScopeContained` says that the other direction holds.
2. A run that is cancelled before a runtime has claimed it becomes CANCELLED while
   request.json goes on naming it without its flag (offline_analysis.py:98): the
   next parent analyses it. ARCHITECTURE.md:206: "Offline cancellation/failure is
   terminal for that run identity". In the contract the outcome is then another than what
   the page shows.
3. A parent lost while the cancellation of its run is requested leaves a claim
   that no parent fails (`Stranded`; offline_jobs.py:95 returns before line 101):
   it stays PROCESSING and blocks every later run. `RunEnds` excuses it.
4. A hard stop between the reconciler's look at the hold and its start is undone
   by that start, with the hold in place (camera_registry.py:94). ARCHITECTURE.md:200:
   "automatic monitoring is held until explicitly resumed."
5. `_fence_fight` assigns the floor of a slot from the epoch of the item at hand,
   0 if it never had a consumer (camera_lifecycle.py:333), and so lowers a floor
   that an earlier tenant's failure had raised; `FencedTenantStep` therefore
   speaks of the tenant that still owns its slot.
6. A failed start is remembered with its desired entry (camera_lifecycle.py:643); a
   newer revision that removes Fight while the backoff runs skips the camera, and
   the retry (line 706) starts the older entry.
7. A supervisor that dies between `Popen` and the write of the pid (core.py:477)
   leaves a runtime that its successor cannot know of; `Excused` names it.
8. A source that is back after an outage longer than the stall limit is ONLINE
   before its first frame, and a watchdog tick in between restarts the camera
   (health.py:503). README.md:57: "CameraIngest owns live reconnects."
9. A camera restart of an ordered file reads it again from its beginning, under a new
   generation: a stall that the watchdog sees, an ingest that died, another source or
   slot. It takes in a file whose consumer has failed and was latched
   (camera_lifecycle.py:359) and whose ingest then stalls or dies.
   ARCHITECTURE.md:177: "Fight/Vehicle failures during ordered-file work remain
   fail-closed/no-replay."; the comment at camera_lifecycle.py:767 says that an
   overlapping source death "cannot turn a failed ordered consumer into a generation
   restart/replay", which `poll` keeps for a death before the end of the file, not for one
   behind it, and the watchdog for neither; ARCHITECTURE.md:2041 lists "ordered FILE
   recovery never replays lost work".
   `ReadingOrdered` allows one reading per generation; that a *clean* end is never
   followed by another (ARCHITECTURE.md:176) is `CleanEndIsFinal` and holds. Offline
   analyses are not restarted at all (camera_lifecycle.py:560): `NeverReplayed`.
10. Under the shipped settings, a motion gate (speed.yaml:9) and a stride of 3
   (speed.yaml:35), a passage can be reported twice: in a frame that the gate shuts out
   the estimator and the decider forget every track, the tracker forgets none; if the
   gate opens again with a frame the stride skips, the track's old points are measured by
   a fresh state, whose decider knows of no cooldown. speed_estimator.py:167 repeats a
   speed so that it is confirmed and violation_decider.py:77 has the cooldown so that it
   is reported once. `EachReportedOnce` allows a second report in this case only
   (`Skips`, and the gate shut in between), and the run reaches it.
11. Two reconcile passes that overlap save whole rows that one of them read before the
   other wrote (offline_analysis.py:93): PROCESSING comes back over a terminal
   row, until the reconciler's next pass; or CANCELLED is saved over a run that has
   completed, for good, since no pass looks at a row that is not open. The outcome itself
   is not touched. ARCHITECTURE.md:206, as above.
12. The same save writes the cancel flag of the query: a click that comes between is
   lost, and the operator is not told (offline_views.py has answered already).
13. A pass that has picked a run and writes request.json late (offline_analysis.py:106)
   names a run that has ended meanwhile, in place of the active one. The parent takes the
   change for a withdrawal and cancels a run that nobody asked to cancel
   (offline_jobs.py:65). ARCHITECTURE.md:205 and :206 know of no such end.

Behaviour no text forbids, but that a reader of the models will meet:

* *Sentinel.* After it has read the sentinel, one scan of `FairRequestQueue.get`
  skips a slot (scheduling.py:84), which is why `RoundRobinBound` allows a second
  round once the parent is closing.
* *Drain.* `stop_all` gives every slot a new generation, so results in flight at a
  signal are dropped, and the incident worker may leave before Stage3's last
  results (incident_worker.py:90).
* *Candidates.* A run of files in which an inference raised, the incident queue stayed
  full, or a clip was missing has lost that candidate and ends with code 0, in the main
  runtime (stage3_worker.py:262, incident_worker.py:133) and in the static one, whose
  cameras also drop an event at a full Stage3 queue (camera_worker.py:811). Only the rows
  of the report say so, and a row that finds the report queue full for half a second is
  lost as well: `ExitComplete` and `ClassicDelivered` speak of what was given up, and of
  the rows as long as there is room.
* *Take-down.* The snapshot is written outside of the `try` before the exit code is
  set (run_multiprocess.py:1142). A stall of the shared service is charged to the
  restart budget of the camera; a restart by `poll` resets the watchdog's count.
* *Routing.* A tick takes the 200 oldest open incidents (routing.py:154), and those
  of files stay open: `DueIsRouted` holds while the open incidents fit into one
  tick. Routes may be made by rules and coverage read earlier in the tick; the state
  may become UNROUTED although routes exist; SUPERSEDED is never set. A cycle in the
  tree shuts everything below it off, for both walks.
* *Desired state.* A Speed stop while the runtime is not running is answered and not
  stored.
* *Speed.* The confirmation is counted in frames that were looked at: with live
  frames shed in step with the stride the last measured speed is repeated for ever.
  The properties are stated for files.
* *Older orchestrator.* A violation that the camera process has journalled may never
  reach the file of the reporter: the report is swallowed when the queue stays full for a
  second (process_camera.py:58), the process is killed five seconds after the signal
  (run_multiprocess_speed.py:112), the reporter is terminated five seconds after the stop
  (run_multiprocess_speed.py:263), which itself may find no room. Nobody is told, and the
  orchestrator does not watch the reporter.
* *Live pipeline.* A camera that closes its last event after the clip writer or the
  Stage3 thread has left makes main wait in `join()` for ever (`late`); the program
  does not end by itself when all files are read; status rows push out rows of events
  (`displaced`). A clip that cannot be written is in the log only, and rows that are in
  the hub five seconds after the end of everything else are lost with it.
* *Static runtime.* The wait for the queues does not look at the workers and ends
  with code 0 when its time is up; a job in Stage3's hands is in no queue; a legacy
  camera that is started again uses its event ids again; with restarts disabled a
  crashed file camera keeps the run alive.
* *Batch.* Event directories of an earlier run are never cleared and are scored
  again; a stretch shorter than the probes is never decided and dropped.
* *Live loop.* The alarm stays on when the camera is lost.

## 8. What is not modelled, and why

* Numerical code: detection, tracking by appearance, pose, classification. The
  models choose its results freely; the speed of a vehicle is measured in one
  dimension.
* Clocks: timeouts, cooldowns and windows are choices that may be made at any time,
  but in `RuntimeHealth`, where the verdict is about ages, in `SpeedMeasurement`,
  which counts frames and the ticks a frame takes, and in `IncidentRouting`, whose
  rules have delays.
* Power loss: processes die, the page cache does not. A line that was read before
  its fsync and lost afterwards is possible and not covered.
* Accounts (sign-in, reset, profile rows), report pages, the preview and its
  gateway, log rotation, training, benchmarks: see "components" in `PROJECT.json`
  for each with its reason.
* In `Supervisor`: validation of configurations and the rotation of logs. In
  `DesiredState`: names, sources and Speed settings of cameras, documents that do not
  validate, direct mode. In `IncidentPublication`: the evidence budget and disk errors,
  which end the process. In `IncidentRouting`: the evidence file of an incident, and
  cameras with a faculty code in place of a location. In `SpeedRuntime`: rate limiting
  and telemetry, a kill in the middle of a write to a pipe, and the reports of other
  cameras, but that they fill the queue. In `CameraPath`: an inference service that
  loses an answer. In `OfflineJobs`: the limit of 100 rows of a reconcile pass. In
  `RuntimeHealth`: metrics, percentiles and disk figures.
