---------------------------- MODULE StaticRuntime ---------------------------
(***************************************************************************)
(* pipeline_mp/run_multiprocess.py without dynamic cameras (_run_static):  *)
(* a fixed set of cameras and workers is started once; the parent looks    *)
(* twice a second who has died, starts a dead camera of the legacy ingest  *)
(* again, and ends a run of files when the last one is finished.           *)
(* Frames are data: a file is the events that are cut out of it; it is not *)
(* looped (loop_file_sources).                                             *)
(***************************************************************************)
EXTENDS Integers, FiniteSets, Sequences

CONSTANTS StaticSetups,          \* cameras, sources, and what may go wrong in a run
          StaticJobCap, StaticResultCap  \* sizes of the Stage3 and the incident queue

ASSUME StaticAssumption == {StaticJobCap, StaticResultCap} \subseteq Nat \ {0}

VARIABLES static,                \* the configuration, and what may go wrong
          at,                    \* where the parent is
          told,                  \* stop_event
          exit,                  \* exit code
          proc, gen, cut, ingest, finished,  \* per camera: process, generation, events cut, ingest
          work,                  \* the inference processes and routers
          asked, inHand, given, filed,  \* Stage3 queue, job in hand, incident queue, filed
          forgone,                  \* history: events given up, each with a row that says so
          settled,               \* how the wait for the queues ended
          broke                  \* faults so far

procVars == <<proc, gen, cut, ingest, finished>>
flowVars == <<asked, inHand, given, filed, forgone>>
staticVars == <<static, at, told, exit, procVars, work, flowVars, settled, broke>>

Workers == {"stage3", "incident", "person_inference", "person_result_router",
            "pose_inference", "pose_result_router"}
NoJob == <<>>
StaticCams == DOMAIN proc

StaticInit ==
  /\ static \in StaticSetups
  /\ at = "loop" /\ told = FALSE /\ exit = 0
  /\ proc = [c \in static.cams |-> "run"] /\ gen = [c \in static.cams |-> 1]
  /\ cut = [c \in static.cams |-> 0]
  /\ ingest = [c \in static.cams |-> IF static.central THEN "run" ELSE "none"]
  /\ finished = {}
  /\ work = [w \in Workers |-> "run"]
  /\ asked = {} /\ inHand = NoJob /\ given = {} /\ filed = {} /\ forgone = {}
  /\ settled = "no" /\ broke = 0

(****************************** the processes *****************************)
\* A camera cuts its next event and asks Stage3; it waits 0.35 s at a full queue and
\* then drops the event ("stage3_queue_full" in its row).  The id tells the
\* generation here only: event_id of this runtime does not.
Cuts(c) ==
  /\ proc[c] = "run" /\ ~told /\ cut[c] < static.events
  /\ cut' = [cut EXCEPT ![c] = @ + 1]
  /\ LET event == <<c, gen[c], cut[c] + 1>> IN
     IF Cardinality(asked) < StaticJobCap
     THEN asked' = asked \cup {event} /\ forgone' = forgone
     ELSE forgone' = forgone \cup {event} /\ asked' = asked
  /\ UNCHANGED <<static, at, told, exit, proc, gen, ingest, finished, work, inHand, given, filed, settled, broke>>

\* The file has been read (or the run is to stop): the process leaves with 0.
ReadsAll(c) ==
  /\ proc[c] = "run" /\ (told \/ (static.file /\ cut[c] = static.events))
  /\ proc' = [proc EXCEPT ![c] = "clean"]
  /\ ingest[c] # "crashed" /\ ingest' = IF static.central THEN [ingest EXCEPT ![c] = "clean"] ELSE ingest
  /\ UNCHANGED <<static, at, told, exit, gen, cut, finished, work, flowVars, settled, broke>>

Breaks ==
  /\ broke < static.faults /\ broke' = broke + 1 /\ at \in {"loop", "settle"}
  /\ \/ \E c \in StaticCams : proc[c] = "run" /\ proc' = [proc EXCEPT ![c] = "crashed"] /\ UNCHANGED <<ingest, work>>
     \/ \E c \in StaticCams : ingest[c] = "run" /\ ingest' = [ingest EXCEPT ![c] = "crashed"] /\ UNCHANGED <<proc, work>>
     \/ \E w \in Workers : work[w] = "run" /\ work' = [work EXCEPT ![w] = "dead"] /\ UNCHANGED <<proc, ingest>>
  /\ UNCHANGED <<static, at, told, exit, gen, cut, finished, flowVars, settled>>

Signalled ==
  /\ static.signal /\ at = "loop" /\ told' = TRUE
  /\ UNCHANGED <<static, at, exit, procVars, work, flowVars, settled, broke>>

\* Stage3 takes a job, then hands the result on.  Its inference may fail, and a
\* full incident queue is waited for one second: either way the job is reported
\* ("failed", "incident_queue_full") and dropped.
Judges ==
  /\ work["stage3"] = "run"
  /\ \/ /\ inHand = NoJob /\ \E job \in asked : inHand' = job /\ asked' = asked \ {job}
        /\ UNCHANGED <<given, forgone>>
     \/ /\ inHand # NoJob /\ inHand' = NoJob /\ asked' = asked
        /\ \/ Cardinality(given) < StaticResultCap /\ given' = given \cup {inHand} /\ forgone' = forgone
           \/ /\ static.fails \/ Cardinality(given) >= StaticResultCap
              /\ forgone' = forgone \cup {inHand} /\ given' = given
  /\ UNCHANGED <<static, at, told, exit, procVars, work, filed, settled, broke>>
\* The incident worker files a result, or reports that it has no evidence for it or
\* failed; on a failing disk it reports and ends (OSError).
Files ==
  /\ work["incident"] = "run"
  /\ \E result \in given :
       /\ given' = given \ {result}
       /\ \/ filed' = filed \cup {result} /\ UNCHANGED <<forgone, work, broke>>
          \/ static.fails /\ forgone' = forgone \cup {result} /\ UNCHANGED <<filed, work, broke>>
          \/ /\ broke < static.faults /\ broke' = broke + 1 /\ work' = [work EXCEPT !["incident"] = "dead"]
             /\ forgone' = forgone \cup {result} /\ filed' = filed
  /\ UNCHANGED <<static, at, told, exit, procVars, asked, inHand, settled>>
\* Told to stop, the incident worker leaves when its queue is empty.
IncidentGoes ==
  /\ work["incident"] = "run" /\ told /\ given = {}
  /\ work' = [work EXCEPT !["incident"] = "left"]
  /\ UNCHANGED <<static, at, told, exit, procVars, flowVars, settled, broke>>

(******************************* the parent *******************************)
\* The workers are looked at in a fixed order; the first dead one is the code.
CodeOf == [stage3 |-> 2, incident |-> 3, person_inference |-> 4, person_result_router |-> 5,
           pose_inference |-> 6, pose_result_router |-> 7]
Dead == {w \in Workers : work[w] \in {"dead", "left"}}
FirstDead == CHOOSE n \in {CodeOf[w] : w \in Dead} : \A w \in Dead : n <= CodeOf[w]
\* An ingest may only leave after a file that it has read to its end.
IngestLost == {c \in StaticCams : ingest[c] \notin {"run", "none"} /\ ~(static.file /\ ingest[c] = "clean")}
\* A process that has read its file to the end is not started again.
NotAgain(c) == proc[c] = "clean" /\ static.file

Ends(code) == at' = "finally" /\ told' = TRUE /\ exit' = code
Ended == {c \in StaticCams \ finished : proc[c] # "run" /\ NotAgain(c)}
Crashed == {c \in StaticCams \ finished : proc[c] # "run" /\ ~NotAgain(c)}
AllFinished == static.file /\ finished \cup Ended = StaticCams

LooksAtWorkers ==
  /\ at = "loop" /\ ~told /\ Dead \cup IngestLost # {}
  /\ Ends(IF Dead # {} THEN FirstDead ELSE 8)
  /\ UNCHANGED <<static, procVars, work, flowVars, settled, broke>>

\* Legacy ingest: a dead camera starts again after a backoff, a file from its start.
LooksAtCameras ==
  /\ at = "loop" /\ ~told /\ Dead \cup IngestLost = {} /\ Ended \cup Crashed # {}
  /\ finished' = finished \cup Ended
  /\ IF static.central /\ Crashed # {}
     THEN Ends(9) /\ UNCHANGED <<proc, gen, cut>>
     ELSE \E again \in SUBSET Crashed :
            /\ again # {} => static.restart
            /\ proc' = [c \in StaticCams |-> IF c \in again THEN "run" ELSE proc[c]]
            /\ gen' = [c \in StaticCams |-> IF c \in again THEN gen[c] + 1 ELSE gen[c]]
            /\ cut' = [c \in StaticCams |-> IF c \in again THEN 0 ELSE cut[c]]
            /\ again \cup Ended # {}
            /\ at' = (IF AllFinished THEN "settle" ELSE "loop") /\ UNCHANGED <<told, exit>>
  /\ UNCHANGED <<static, ingest, work, flowVars, settled, broke>>

Stops == at = "loop" /\ told /\ Ends(exit) /\ UNCHANGED <<static, procVars, work, flowVars, settled, broke>>

\* Mutant: the queue of the incident worker is not looked at.
QuietStage3 == asked = {}
\* _wait_for_pipeline_settle: both queues empty for a while, or the time is up.
\* Nobody looks at the workers meanwhile; a job in Stage3's hands is in no queue.
Quiet == asked = {} /\ given = {}
Settles ==
  /\ at = "settle"
  /\ \/ Quiet /\ settled' = (IF inHand = NoJob THEN "empty" ELSE "cut")
     \/ (Dead # {} \/ static.slow) /\ settled' = "timeout"
  /\ Ends(0) /\ UNCHANGED <<static, procVars, work, flowVars, broke>>

\* Cameras, then Stage3, then the incident worker are given time to end, then killed.
Finally ==
  /\ at = "finally" /\ at' = "stage3"
  /\ proc' = [c \in StaticCams |-> IF proc[c] = "run" THEN "killed" ELSE proc[c]]
  /\ ingest' = [c \in StaticCams |-> IF ingest[c] = "run" THEN "killed" ELSE ingest[c]]
  /\ UNCHANGED <<static, told, exit, gen, cut, finished, work, flowVars, settled, broke>>
EndsStage3 ==
  /\ at = "stage3" /\ at' = "incident"
  /\ (asked = {} /\ inHand = NoJob) \/ work["stage3"] # "run" \/ static.slow
  /\ work' = [w \in Workers |-> IF w = "incident" THEN work[w] ELSE "left"]
  /\ UNCHANGED <<static, told, exit, procVars, flowVars, settled, broke>>
EndsIncident ==
  /\ at = "incident" /\ at' = "exited" /\ (work["incident"] # "run" \/ static.slow)
  /\ work' = [work EXCEPT !["incident"] = "left"]
  /\ UNCHANGED <<static, told, exit, procVars, flowVars, settled, broke>>

StaticParent == LooksAtWorkers \/ LooksAtCameras \/ Stops \/ Settles \/ Finally \/ EndsStage3 \/ EndsIncident
StaticWorld == (\E c \in StaticCams : Cuts(c) \/ ReadsAll(c)) \/ Judges \/ Files \/ IncidentGoes
StaticNext == at # "exited" /\ (StaticParent \/ StaticWorld \/ Breaks \/ Signalled)

\* The parent goes round its loop; cameras read on and the workers work.
StaticProgress == at # "exited" /\ (StaticParent \/ StaticWorld)

(******************************* properties *******************************)
\* A run of files that ended by itself, its queues settled, has filed what every camera
\* cut in the process that read its file to the end, or has said of the event that it
\* was given up: nothing is left in a queue or in a hand (_wait_for_pipeline_settle).
StaticDelivered ==
  (at = "exited" /\ settled = "empty") =>
    \A c \in StaticCams : {<<c, gen[c], n>> : n \in 1..static.events} \subseteq filed \cup forgone

\* A run of files ends, unless a camera crashed and may not be started again.
StaticEnds ==
  (at = "loop" /\ static.file) ~> (at = "exited" \/ (~static.restart /\ Crashed # {}))
=============================================================================
