--------------------------- MODULE ClassicPipelines -------------------------
(***************************************************************************)
(* The four programs the repository keeps beside the runtime with dynamic  *)
(* cameras: the queue based live pipeline, the static runtime, the single  *)
(* live loop and the batch run over a video.  A run is one of them; they   *)
(* share nothing but the models.                                           *)
(***************************************************************************)
EXTENDS LivePipeline, StaticRuntime, LiveLoop, BatchExport

VARIABLE program
classicVars == <<program, liveVars, staticVars, loopVars, batchVars>>

\* The programs that do not run stay as they are.
ClassicInit ==
  /\ program \in {"queue", "static", "loop", "batch"}
  /\ LiveInit /\ (program = "queue" \/ live = CHOOSE s \in LiveSetups : TRUE)
  /\ StaticInit /\ (program = "static" \/ static = CHOOSE s \in StaticSetups : TRUE)
  /\ LoopInit /\ (program = "loop" \/ loop = CHOOSE s \in LoopSetups : TRUE)
  /\ BatchInit /\ (program = "batch" \/ batch = CHOOSE s \in BatchSetups : TRUE)

Queue == program = "queue" /\ LiveNext /\ UNCHANGED <<program, staticVars, loopVars, batchVars>>
Static == program = "static" /\ StaticNext /\ UNCHANGED <<program, liveVars, loopVars, batchVars>>
Loop == program = "loop" /\ LoopNext /\ UNCHANGED <<program, liveVars, staticVars, batchVars>>
Batch == program = "batch" /\ BatchNext /\ UNCHANGED <<program, liveVars, staticVars, loopVars>>

\* Where a program stops: it is over, or it waits for something that may never come.
Rests ==
  /\ CASE program = "queue" -> main = "done" \/ late
       [] program = "static" -> at = "exited" \/ ~static.file \/ ~static.restart
       [] program = "loop" -> loopAt = "ended"
       [] program = "batch" -> step \in {"reported", "failed"}
  /\ UNCHANGED classicVars

ClassicNext == Queue \/ Static \/ Loop \/ Batch \/ Rests
ClassicSpec ==
  /\ ClassicInit /\ [][ClassicNext]_classicVars
  /\ WF_classicVars(Queue /\ LiveProgress) /\ WF_classicVars(Static /\ StaticProgress) /\ WF_classicVars(Loop /\ LoopFrame)

\* What each program says it has done is done: events and clips of the cameras that
\* ended in time, every event of a file that was read to its end, every frame of
\* an accepted stretch of motion in one event directory; and no clip of the queue
\* pipeline joins two stretches of motion.
ClassicDelivered == ClipOfOneMotion /\ LiveDelivered /\ StaticDelivered /\ ExportedOnce

\* Each program comes to rest: a stop ends the queue pipeline unless a last event
\* came after its takers had left, a run of files ends unless a dead camera may not
\* be started again, and the alarm of the live loop ends with the scene.
ClassicEnds == LiveStopEnds /\ StaticEnds /\ AlarmFalls
=============================================================================
