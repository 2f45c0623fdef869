---------------------------- MODULE RuntimeMain ----------------------------
(***************************************************************************)
(* The runtime parent (pipeline_mp/run_multiprocess.py): its main loop     *)
(* over the handlers of RuntimeHealth, the end of a run of files, the      *)
(* order in which everything is taken down, and the marker it leaves.      *)
(*                                                                         *)
(* Of the Fight pipeline only what has to be drained is here: candidates   *)
(* of the consumer, the Stage3 worker, the incident worker, the Reporter   *)
(* and the final summary every one of them leaves in the report queue.     *)
(***************************************************************************)
EXTENDS RuntimeHealth, Sequences

VARIABLES
  step,             \* where the main loop or the take-down is
  stop, code, cause,\* the global stop event, exit code and what led to it
  made, stage3Q, incidentQ, filed, \* candidates made, queued, as results, as incidents
  dropped,          \* candidates a worker gave up
  stage3, incident, reporter,      \* the three workers; stage3 holds a job or not
  closing,          \* the Fight bundle was told to leave: by sentinel, by its event
  rows, written,    \* the report queue and what the Reporter wrote
  fenced,           \* stop_camera gave the slot another generation
  snapshot,         \* the last write of runtime_health.json failed
  summary, marker   \* performance_summary.json and .run_state.json

flowVars == <<made, stage3Q, incidentQ, filed, dropped>>
workerVars == <<stage3, incident, reporter, closing, fenced, rows, written>>
runVars == <<stop, code, cause>>
endVars == <<snapshot, summary, marker>>
mainVars == <<step, runVars, flowVars, workerVars, endVars>>
runtimeVars == <<healthVars, mainVars>>

Told == closing # "no"
Row(p) == rows' = Append(rows, p)

MainInit ==
  /\ HealthInit
  /\ step = "top" /\ stop = FALSE /\ code = 0 /\ cause = "none"
  /\ made = 0 /\ stage3Q = 0 /\ incidentQ = 0 /\ filed = 0 /\ dropped = 0
  /\ stage3 = [at |-> "run", job |-> FALSE] /\ incident = "run" /\ reporter = "run"
  /\ closing = "no" /\ fenced = FALSE /\ rows = <<>> /\ written = {}
  /\ snapshot = FALSE /\ summary = "none" /\ marker = "RUNNING"

(***************************** the workers *********************************)
\* A signal sets the global stop event.
Signal ==
  /\ setup.stop /\ ~stop /\ step \notin {"exited"}
  /\ stop' = TRUE
  /\ cause' = IF cause = "none" THEN "signal" ELSE cause
  /\ UNCHANGED <<healthVars, step, code, flowVars, workerVars, endVars>>

\* The consumer closes an event, and on its way out the one that is open.
Candidate ==
  /\ made < setup.events /\ fight = "run" /\ source = "up" /\ stage3.at # "none"
  /\ made' = made + 1 /\ stage3Q' = stage3Q + 1
  /\ UNCHANGED <<healthVars, step, runVars, incidentQ, filed, dropped, workerVars, endVars>>

Stage3Takes ==
  /\ stage3.at = "run" /\ ~stage3.job /\ stage3Q > 0
  /\ stage3Q' = stage3Q - 1 /\ stage3' = [stage3 EXCEPT !.job = TRUE]
  /\ UNCHANGED <<healthVars, step, runVars, made, incidentQ, filed, dropped, incident, reporter, closing, fenced, rows, written,
                 endVars>>

Stage3Gives ==
  /\ stage3.at = "run" /\ stage3.job
  /\ incidentQ' = incidentQ + 1 /\ stage3' = [stage3 EXCEPT !.job = FALSE]
  /\ UNCHANGED <<healthVars, step, runVars, made, stage3Q, filed, dropped, incident, reporter, closing, fenced, rows, written,
                 endVars>>

\* Mutant: nobody hears of it.
Stage3DropsSilently ==
  /\ stage3.at = "run" /\ stage3.job
  /\ stage3' = [stage3 EXCEPT !.job = FALSE] /\ dropped' = dropped + 1
  /\ UNCHANGED <<healthVars, step, runVars, made, stage3Q, incidentQ, filed, incident, reporter, closing, fenced, rows,
                 written, endVars>>

\* The inference fails, or the incident worker takes no result: the candidate is
\* given up with a row, and the worker goes on.
Stage3Drops ==
  /\ stage3.at = "run" /\ stage3.job
  /\ stage3' = [stage3 EXCEPT !.job = FALSE] /\ dropped' = dropped + 1 /\ Row("forgone")
  /\ UNCHANGED <<healthVars, step, runVars, made, stage3Q, incidentQ, filed, incident, reporter, closing, fenced,
                 written, endVars>>

\* It leaves once it was told and nothing is left; its summary is its last row.
Stage3Leaves ==
  /\ stage3.at = "run" /\ Told /\ ~stage3.job /\ stage3Q = 0
  /\ stage3' = [stage3 EXCEPT !.at = "left"] /\ Row("stage3")
  /\ UNCHANGED <<healthVars, step, runVars, flowVars, incident, reporter, closing, fenced, written, endVars>>

\* A result of another generation is dropped.
IncidentTakes ==
  /\ incident = "run" /\ incidentQ > 0
  /\ incidentQ' = incidentQ - 1 /\ filed' = IF fenced THEN filed ELSE filed + 1
  /\ UNCHANGED <<healthVars, step, runVars, made, stage3Q, dropped, workerVars, endVars>>

\* Its clip was not written, or it cannot be taken up: given up with a row.
IncidentDrops ==
  /\ incident = "run" /\ incidentQ > 0 /\ ~fenced
  /\ incidentQ' = incidentQ - 1 /\ dropped' = dropped + 1 /\ Row("forgone")
  /\ UNCHANGED <<healthVars, step, runVars, made, stage3Q, filed, stage3, incident, reporter, closing, fenced, written,
                 endVars>>

\* An incident that cannot be written to the disk ends the worker, with its last rows.
IncidentFails ==
  /\ incident = "run" /\ incidentQ > 0 /\ ~fenced /\ Fault("disk")
  /\ incident' = "dead" /\ incidentQ' = incidentQ - 1 /\ dropped' = dropped + 1
  /\ rows' = rows \o <<"forgone", "incident">>
  /\ UNCHANGED <<setup, outages, ingest, source, fight, preview, pose, fileEof, registryVars, parentVars, ticked,
                 step, runVars, made, stage3Q, filed, stage3, reporter, closing, fenced, written, endVars>>

\* Its loop ends with the stop event as soon as its queue is empty.
IncidentLeaves ==
  /\ incident = "run" /\ stop /\ incidentQ = 0
  /\ incident' = "left" /\ Row("incident")
  /\ UNCHANGED <<healthVars, step, runVars, flowVars, stage3, reporter, closing, fenced, written, endVars>>

\* The Reporter waits for the sentinel, whatever the stop event says.
ReporterWrites ==
  /\ reporter = "run" /\ rows # <<>>
  /\ rows' = Tail(rows)
  /\ IF Head(rows) = "sentinel" THEN reporter' = "left" /\ UNCHANGED written
     ELSE written' = written \cup {Head(rows)} /\ UNCHANGED reporter
  /\ UNCHANGED <<healthVars, step, runVars, flowVars, stage3, incident, closing, fenced, endVars>>

WorkerBreaks ==
  /\ Fault("worker")
  /\ \/ incident = "run" /\ incident' \in {"hung", "dead"} /\ UNCHANGED <<stage3, reporter>>
     \/ reporter = "run" /\ reporter' \in {"hung", "dead"} /\ UNCHANGED <<stage3, incident>>
     \/ stage3.at = "run" /\ stage3' = [at |-> "hung", job |-> stage3.job] /\ UNCHANGED <<incident, reporter>>
  /\ UNCHANGED <<setup, outages, ingest, source, fight, preview, pose, fileEof, registryVars, parentVars, ticked,
                 step, runVars, flowVars, closing, fenced, rows, written, endVars>>

(***************************** the main loop *******************************)
Step(from, to) == step = from /\ step' = to
Quits(how, why) == stop' = TRUE /\ code' = how /\ cause' = why

\* A dead Reporter or incident worker ends the run; so does the stop event.
Top ==
  /\ step = "top"
  /\ IF incident = "dead" THEN step' = "stopAll" /\ Quits(3, "incident_process_dead")
     ELSE IF reporter = "dead" THEN step' = "stopAll" /\ Quits(8, "reporter_process_dead")
     ELSE step' = (IF stop THEN "stopAll" ELSE "services") /\ UNCHANGED runVars
  /\ UNCHANGED <<healthVars, flowVars, workerVars, endVars>>

\* The parent reads stop between its handlers: services, poll and the watchdog do nothing then.
Services ==
  /\ Step("services", "afterServices")
  /\ IF stop THEN UNCHANGED healthVars ELSE ServicesTick
  /\ UNCHANGED <<runVars, flowVars, workerVars, endVars>>

\* A Fight service that is given up ends the run.  The snapshot is written before
\* the exit code is set, and a failure of this write is not caught.
AfterServices ==
  /\ step = "afterServices"
  /\ IF ~bundle.failed
     THEN step' = "retries" /\ UNCHANGED <<runVars, failures>>
     ELSE \/ step' = "stopAll" /\ Quits(10, "fight_failed") /\ UNCHANGED failures
          \/ Fault("disk") /\ step' = "stopAll" /\ cause' = "exception" /\ UNCHANGED <<stop, code>>
  /\ UNCHANGED <<setup, outages, ingest, source, fight, preview, pose, fileEof, registryVars, parentVars, ticked,
                 flowVars, workerVars, endVars>>

Retries ==
  /\ Step("retries", "poll")
  /\ IF stop THEN UNCHANGED healthVars ELSE PollRetries
  /\ UNCHANGED <<runVars, flowVars, workerVars, endVars>>

Polls ==
  /\ Step("poll", "observe")
  /\ IF stop THEN UNCHANGED healthVars ELSE Poll
  /\ UNCHANGED <<runVars, flowVars, workerVars, endVars>>

Observes ==
  /\ Step("observe", "judge")
  /\ Observe
  /\ UNCHANGED <<runVars, flowVars, workerVars, endVars>>

\* A dead incident worker makes the whole runtime unhealthy; then nothing is restarted.
\* Once the run is to stop no consumer is replaced, and a camera that is stopped to
\* be restarted cannot be started: the loop ends with an error.
Judges ==
  /\ step = "judge"
  /\ IF incident = "dead"
     THEN step' = "snapshot" /\ Quits(10, "watchdog") /\ UNCHANGED healthVars
     ELSE IF stop /\ Verdict = "restart_fight"
     THEN step' = "snapshot" /\ UNCHANGED <<runVars, healthVars>>
     ELSE IF stop /\ Verdict = "restart_camera" /\ RestartDue
     THEN step' = "stopAll" /\ Quits(10, "lifecycle") /\ UNCHANGED healthVars
     ELSE step' = "snapshot" /\ Judge /\ UNCHANGED runVars
  /\ UNCHANGED <<flowVars, workerVars, endVars>>

\* Here a failed write is only reported.
Snapshot ==
  /\ Step("snapshot", "eof")
  /\ \/ snapshot' = FALSE /\ UNCHANGED failures
     \/ Fault("disk") /\ snapshot' = TRUE
  /\ UNCHANGED <<setup, outages, ingest, source, fight, preview, pose, fileEof, registryVars, parentVars, ticked,
                 runVars, flowVars, workerVars, summary, marker>>

\* Mutant: only the queue is looked at.
DrainedQueue == stage3Q = 0
\* All files are done and nothing is admitted or in work at Stage3.
Drained == stage3Q = 0 /\ ~stage3.job

EofCheck ==
  /\ step = "eof"
  /\ IF stop THEN step' = "stopAll" /\ UNCHANGED <<code, cause>>
     ELSE IF setup.file /\ item.done /\ (Drained \/ pose = "none")
     THEN step' = "settle" /\ cause' = "eof" /\ code' = IF item.failed THEN 13 ELSE code
     ELSE step' = "top" /\ UNCHANGED <<code, cause>>
  /\ UNCHANGED <<healthVars, stop, flowVars, workerVars, endVars>>

\* Both queues stay empty for a while, or it takes too long.
Settles ==
  /\ Step("settle", "stopAll") /\ stop' = TRUE
  /\ \/ stage3Q + incidentQ = 0 /\ UNCHANGED <<failures, cause>>
     \/ /\ stage3Q + incidentQ > 0 /\ (incident # "run" \/ stage3.at # "run")
        /\ cause' = "settle_timeout" /\ UNCHANGED failures
     \/ Fault("worker") /\ cause' = "settle_timeout"
  /\ UNCHANGED <<setup, outages, ingest, source, fight, preview, pose, fileEof, registryVars, parentVars, ticked,
                 code, flowVars, workerVars, endVars>>

(***************************** the take-down *******************************)
\* Every camera is fenced and its processes end, by themselves or by force.
StopAll ==
  /\ Step("stopAll", "offline")
  /\ fenced' = TRUE /\ ingest' = "gone" /\ fight' = "gone" /\ preview' = "gone"
  /\ \E last \in IF fight = "run" /\ made < setup.events /\ stage3.at = "run" THEN {0, 1} ELSE {0} :
       made' = made + last /\ stage3Q' = stage3Q + last
  /\ UNCHANGED <<setup, failures, outages, source, pose, fileEof, registryVars, parentVars, ticked, runVars,
                 incidentQ, filed, dropped, stage3, incident, reporter, closing, rows, written, endVars>>

\* The job that is still active is recorded as failed, if it can be written.
OfflineClose ==
  /\ Step("offline", "close") /\ stop' = TRUE
  /\ \/ UNCHANGED <<failures, code>>
     \/ Fault("disk") /\ code' = IF code = 0 THEN 14 ELSE code
  /\ UNCHANGED <<setup, outages, ingest, source, fight, preview, pose, fileEof, registryVars, parentVars, ticked,
                 cause, flowVars, workerVars, endVars>>

\* Only a run without a failure grants its workers the time to finish.
Graceful == code = 0
ServicesClose ==
  /\ Step("close", "finalize")
  /\ closing' = (IF Graceful THEN "graceful" ELSE "forced")
  /\ UNCHANGED <<healthVars, runVars, flowVars, stage3, incident, reporter, fenced, rows, written, endVars>>

\* Mutant: it is joined, and never killed.
FinalizeJoined ==
  /\ Step("finalize", "incident") /\ stage3.at = "left"
  /\ pose' = "gone"
  /\ UNCHANGED <<setup, failures, outages, ingest, source, fight, preview, fileEof, registryVars, parentVars, ticked,
                 runVars, flowVars, workerVars, endVars>>

\* The bundle is joined, then killed: at once if forced, else after the grace.
Finalize ==
  /\ Step("finalize", "incident")
  /\ pose' = "gone"
  /\ \/ stage3.at = "left" /\ UNCHANGED <<failures, stage3>>
     \/ /\ stage3.at # "left" /\ (closing = "forced" \/ stage3.at = "hung")
        /\ stage3' = [at |-> "killed", job |-> FALSE] /\ UNCHANGED failures
  /\ UNCHANGED <<setup, outages, ingest, source, fight, preview, fileEof, registryVars, parentVars, ticked,
                 runVars, flowVars, incident, reporter, closing, fenced, rows, written, endVars>>

IncidentEnds ==
  /\ Step("incident", "stopped")
  /\ IF incident = "left" THEN UNCHANGED incident
     ELSE incident \in {"hung", "dead"} /\ incident' = "killed"
  /\ UNCHANGED <<healthVars, runVars, flowVars, stage3, reporter, closing, fenced, rows, written, endVars>>

\* Mutant: the sentinel first.
LastRowsSwapped == <<"sentinel", "stopped">>
\* The last row, and the sentinel behind it.
LastRows == IF reporter = "dead" THEN <<"stopped">> ELSE <<"stopped", "sentinel">>
SayStopped ==
  /\ Step("stopped", "reporter")
  /\ rows' = rows \o LastRows
  /\ UNCHANGED <<healthVars, runVars, flowVars, stage3, incident, reporter, closing, fenced, written, endVars>>

ReporterEnds ==
  /\ Step("reporter", "summary")
  /\ IF reporter = "left" THEN UNCHANGED reporter
     ELSE reporter \in {"hung", "dead"} /\ reporter' = "killed"
  /\ UNCHANGED <<healthVars, runVars, flowVars, stage3, incident, closing, fenced, rows, written, endVars>>

\* The summary is built from what was written; an exception leaves RUNNING.
Concludes ==
  /\ Step("summary", "exited")
  /\ summary' = "built"
  /\ marker' = IF cause = "exception" THEN marker ELSE IF code = 0 THEN "COMPLETED" ELSE "FAILED"
  /\ UNCHANGED <<healthVars, runVars, flowVars, workerVars, snapshot>>

Parent == \/ Top \/ Services \/ AfterServices \/ Retries \/ Polls \/ Observes \/ Judges \/ Snapshot
          \/ EofCheck \/ Settles \/ StopAll \/ OfflineClose \/ ServicesClose \/ Finalize
          \/ IncidentEnds \/ SayStopped \/ ReporterEnds \/ Concludes
Workers == \/ Stage3Takes \/ Stage3Gives \/ Stage3Drops \/ Stage3Leaves
           \/ IncidentTakes \/ IncidentDrops \/ IncidentLeaves \/ ReporterWrites

\* What the processes do between two handlers that look at it, and time: the
\* parent is slow only where it waits for processes, before poll and between loops.
Between == step \in {"top", "retries", "judge"} /\ World
Clock == step \in {"top", "retries"} /\ Pass
MainNext ==
  \/ Between /\ UNCHANGED mainVars
  \/ Clock /\ UNCHANGED mainVars
  \/ Signal \/ Candidate \/ IncidentFails \/ WorkerBreaks \/ Workers \/ Parent

MainSpec == MainInit /\ [][MainNext]_runtimeVars
MainFairSpec == MainSpec /\ WF_runtimeVars(Parent) /\ WF_runtimeVars(Workers)
                 /\ SF_runtimeVars(Clock /\ UNCHANGED mainVars)
                 /\ SF_runtimeVars(step \in {"top", "retries", "judge"} /\ Awaited /\ UNCHANGED mainVars)

(***************************** what must hold ******************************)
CameraStarts == gen' # gen

\* A process is replaced for what is wrong with it: the ingest of a live camera
\* is never given up for its consumer, its preview or the shared service, and a
\* consumer never for an inference that is still in time.  (An outage of the
\* source is another matter, see the README.)
BlamedStep ==
  /\ (CameraStarts /\ outages = 0 /\ ~setup.file) => ingest # "run"
  /\ ~(fight = "wait" /\ fight' = "none" /\ pose = "busy" /\ pose' = "busy" /\ outages = 0)

\* A file that ends cleanly is not opened again, and its consumer is not replaced.
CleanEndStep == fileEof /\ failures = 0 => fileEof' /\ opens' = opens /\ item'.failed = item.failed

\* The consumer of a live camera that stopped answering is replaced or given up.
HungIsReplaced == (fight = "hung" /\ ~setup.file /\ setup.clock) ~> (fight # "hung" \/ step = "exited")

\* A run of files that ended by itself has handed every event to the aggregation of
\* incidents, but for those a worker gave up; and of these the report speaks.
EndDelivered ==
  step = "exited" /\ cause = "eof" /\ incident = "left" /\ stage3.at = "left" =>
    /\ filed + dropped = made
    /\ dropped > 0 /\ reporter = "left" => "forgone" \in written

\* Whoever left by itself is in the summary, and nobody is left behind.
ExitIsWhole ==
  step = "exited" =>
    /\ {ingest, fight, preview, pose} = {"gone"}
    /\ {stage3.at, incident, reporter} \subseteq {"left", "killed"}
    /\ reporter = "left" => /\ "stopped" \in written
                            /\ stage3.at = "left" => "stage3" \in written
                            /\ incident = "left" => "incident" \in written

\* A stop ends the process, whatever hangs.
StopEnds == stop ~> step = "exited"

\* The end of a run is whole: every event is with the incidents or given up and said to
\* be, every worker that left is in the summary, and nobody is left behind.
ExitComplete == EndDelivered /\ ExitIsWhole

\* Nothing is replaced without a reason of its own, and nothing that has ended well.
ReplacedForCause == [][BlamedStep /\ CleanEndStep]_runtimeVars
=============================================================================
