---------------------------- MODULE LivePipeline ----------------------------
(***************************************************************************)
(* pipeline/run_multi_live_queue.py: the threads of the queue based live   *)
(* pipeline.  Camera threads cut events out of their frames and hand every *)
(* closed event to a clip writer, to the Stage3 worker and to the report   *)
(* hub; main joins them in a fixed order when it is told to stop.          *)
(*                                                                         *)
(* A frame is what the detectors say of it; a frame of a clip is the       *)
(* stretch of motion it was taken in.  Clips and scores are data.          *)
(***************************************************************************)
EXTENDS Integers, Sequences, FiniteSets, SequencesExt

CONSTANTS ClipCap, JobCap, HubCap,   \* sizes of the three queues
          PreLen, MaxEventFrames, MinHits, Grace,
          LiveSetups                 \* which cameras run and what may go wrong

ASSUME LiveAssumption ==
  /\ {ClipCap, JobCap, HubCap, PreLen, MaxEventFrames, MinHits} \subseteq Nat \ {0}
  /\ Grace \in Nat

VARIABLES live,      \* the setup of this run
          stop, main,
          cam,       \* the camera threads
          clips, clipWriter, saved, unsaved, \* clip queue, its writer, clips on disk, failures logged
          jobs, stage3, judged, submitted,   \* Stage3 queue, its worker, what it has gone through
          closedWith,                        \* what close_all of the aggregator has seen
          hub, hubAt, written, displaced,    \* report queue, its thread, rows on disk and dropped
          late                               \* a job was queued after its thread had left

mainVars == <<live, stop, main, closedWith>>
clipVars == <<clips, clipWriter, saved, unsaved>>
jobVars == <<jobs, stage3, judged, submitted>>
hubVars == <<hub, hubAt, written, displaced>>
liveVars == <<mainVars, cam, clipVars, jobVars, hubVars, late>>

NoEvent == [id |-> <<>>, stints |-> {}, n |-> 0, hits |-> 0, last |-> 0]
Unoccupied == <<"idle">>
Left == <<"left">>
Cams == DOMAIN cam

LiveInit ==
  /\ live \in LiveSetups
  /\ stop = FALSE /\ main = "run" /\ closedWith = {}
  /\ cam = [c \in live.cams |-> [at |-> "open", frame |-> 0, stint |-> 1, pre |-> <<>>, event |-> NoEvent,
                                  count |-> 0, closed |-> {}, queued |-> {}, row |-> <<>>, then |-> "run", joined |-> FALSE,
                                  clips |-> {}]]
  /\ clips = <<>> /\ clipWriter = Unoccupied /\ saved = {} /\ unsaved = {}
  /\ jobs = <<>> /\ stage3 = Unoccupied /\ judged = {} /\ submitted = {}
  /\ hub = <<>> /\ hubAt = "run" /\ written = {} /\ displaced = {}
  /\ late = FALSE

(***************************** the report hub *****************************)
Status == [kind |-> "status", id |-> <<>>]
EventRow(id) == [kind |-> "event", id |-> id]
Stage3Row(id) == [kind |-> "stage3", id |-> id]

\* A row of an event waits for room; a status row takes that of the oldest row.
PutRow(row) ==
  /\ Len(hub) < HubCap
  /\ hub' = Append(hub, row) /\ UNCHANGED <<hubAt, written, displaced>>
PutStatus ==
  /\ IF Len(hub) < HubCap
     THEN hub' = Append(hub, Status) /\ displaced' = displaced
     ELSE /\ hub' = Append(Tail(hub), Status)
          /\ displaced' = displaced \cup ({Head(hub)} \ {Status})
  /\ UNCHANGED <<hubAt, written>>

HubWrites ==
  /\ hubAt # "left" /\ hub # <<>>
  /\ hub' = Tail(hub) /\ written' = written \cup ({Head(hub)} \ {Status})
  /\ UNCHANGED <<mainVars, cam, clipVars, jobVars, hubAt, displaced, late>>
HubEmpty == hub = <<>>
HubLeaves ==
  /\ hubAt = "closing" /\ HubEmpty /\ hubAt' = "left"
  /\ UNCHANGED <<mainVars, cam, clipVars, jobVars, hub, written, displaced, late>>

(**************************** a camera thread *****************************)
With(fields, record) == [f \in DOMAIN record |-> IF f \in DOMAIN fields THEN fields[f] ELSE record[f]]
Alter(c, fields, more) == cam' = [cam EXCEPT ![c] = With(fields, With(more, @))]
Set(c, fields) == cam' = [cam EXCEPT ![c] = With(fields, @)]
Camera(c, at) == main # "done" /\ cam[c].at = at

Opens(c) ==
  /\ Camera(c, "open") /\ \E at \in {"run", "gone"} : Set(c, [at |-> at])
  /\ UNCHANGED <<mainVars, clipVars, jobVars, hubVars, late>>

Queues(q, cap, id) == IF Len(q) < cap THEN Append(q, id) ELSE q
Dropped == {"pair_roi_missing", "roi_crop_failed"}
\* What Stage3 may be asked: the length, the duration and the pose scores are data.
GoodEnough(ev, reason, data) == reason \notin Dropped /\ ev.hits >= MinHits /\ data

\* A clip is on disk, or the log says that it could not be written.
Saves(id) ==
  \/ saved' = saved \cup {id} /\ unsaved' = unsaved
  \/ live.disk /\ unsaved' = unsaved \cup {id} /\ saved' = saved

\* _close_event: the clip is queued, or saved here when the queue is full; the
\* event goes to Stage3 if it is good enough and there is room; its row follows.
CloseEvent(c, ev, reason, then, fields) ==
  \E data \in BOOLEAN :
    LET room == Len(clips) < ClipCap
        asked == GoodEnough(ev, reason, data)
        taken == asked /\ Len(jobs) < JobCap IN
    /\ clips' = Queues(clips, ClipCap, ev.id) /\ clipWriter' = clipWriter
    /\ IF room THEN UNCHANGED <<saved, unsaved>> ELSE Saves(ev.id)
    /\ jobs' = IF asked THEN Queues(jobs, JobCap, ev.id) ELSE jobs
    /\ late' = (late \/ (room /\ clipWriter = Left) \/ (taken /\ stage3 = Left))
    /\ Alter(c, [at |-> "row", row |-> ev.id, then |-> then, event |-> NoEvent,
               closed |-> cam[c].closed \cup {ev.id}, clips |-> cam[c].clips \cup {ev.stints},
               queued |-> IF taken THEN cam[c].queued \cup {ev.id} ELSE cam[c].queued], fields)
    /\ UNCHANGED <<stage3, judged, submitted, hubVars, mainVars>>

Reports(c) ==
  /\ Camera(c, "row") /\ PutRow(EventRow(cam[c].row)) /\ Set(c, [at |-> "status"])
  /\ UNCHANGED <<mainVars, clipVars, jobVars, late>>
Statuses(c) ==
  /\ Camera(c, "status") /\ PutStatus /\ Set(c, [at |-> cam[c].then])
  /\ UNCHANGED <<mainVars, clipVars, jobVars, late>>

Stays(c, fields) == Set(c, fields) /\ UNCHANGED <<mainVars, clipVars, jobVars, hubVars, late>>
Reads(c) == Camera(c, "run") /\ ~stop /\ cam[c].frame < live.frames
Active(c) == cam[c].event # NoEvent
Lapsed(c) == cam[c].frame + 1 - cam[c].event.last > Grace

\* Mutant: the frames kept for the start of the next event stay.
IdleResetKeeps(c) == [frame |-> cam[c].frame + 1, stint |-> cam[c].stint + 1, pre |-> cam[c].pre]
\* No motion: the event is over and nothing of it is remembered.
IdleReset(c) == [frame |-> cam[c].frame + 1, stint |-> cam[c].stint + 1, pre |-> <<>>]
Still(c) ==
  /\ Reads(c)
  /\ IF Active(c) THEN CloseEvent(c, cam[c].event, "motion_off", "run", IdleReset(c))
                  ELSE Stays(c, IdleReset(c))

\* Too few persons, no pair, no region: an event waits for Grace frames.
NoRegion(c, reason) ==
  /\ Reads(c)
  /\ LET fields == [frame |-> cam[c].frame + 1] IN
     IF Active(c) /\ Lapsed(c) THEN CloseEvent(c, cam[c].event, reason, "run", fields)
                               ELSE Stays(c, fields)

LastOf(s, n) == IF Len(s) <= n THEN s ELSE SubSeq(s, Len(s) - n + 1, Len(s))
Buffered(c) == LastOf(Append(cam[c].pre, cam[c].stint), PreLen)

\* A first positive pose starts an event with the frames that are kept, this
\* one among them, and then appends this one as for any other positive frame.
Started(c) ==
  IF Active(c) THEN cam[c].event
  ELSE [id |-> <<c, cam[c].count + 1>>, stints |-> ToSet(Buffered(c)), n |-> Len(Buffered(c)),
        hits |-> 1, last |-> cam[c].frame + 1]
Appended(c, ev, positive) ==
  [ev EXCEPT !.n = @ + 1, !.stints = @ \cup {cam[c].stint},
             !.hits = IF positive THEN @ + 1 ELSE @,
             !.last = IF positive THEN cam[c].frame + 1 ELSE @]
Grows(c, ev, fields) ==
  IF ev.n >= MaxEventFrames THEN CloseEvent(c, ev, "max_event_frames", "run", fields)
                            ELSE /\ Alter(c, [event |-> ev], fields)
          /\ UNCHANGED <<mainVars, clipVars, jobVars, hubVars, late>>

PosePositive(c) ==
  /\ Reads(c)
  /\ Grows(c, Appended(c, Started(c), TRUE),
           [frame |-> cam[c].frame + 1, pre |-> Buffered(c), count |-> cam[c].count + IF Active(c) THEN 0 ELSE 1])

PoseNegative(c) ==
  /\ Reads(c)
  /\ LET fields == [frame |-> cam[c].frame + 1, pre |-> Buffered(c)] IN
     IF ~Active(c) THEN Stays(c, fields)
     ELSE IF Lapsed(c) THEN CloseEvent(c, cam[c].event, "pose_timeout", "run", fields)
     ELSE Grows(c, Appended(c, cam[c].event, FALSE), fields)

\* A file ends; a live source is opened again until it works.
FileEof(c) ==
  /\ Camera(c, "run") /\ ~stop /\ live.file
  /\ IF Active(c) THEN CloseEvent(c, cam[c].event, "eof_reached", "gone", <<>>)
                  ELSE Stays(c, [at |-> "gone"])
ReadFails(c) == Camera(c, "run") /\ ~stop /\ ~live.file /\ live.outage /\ Stays(c, [at |-> "retry"])
Reopens(c) == Camera(c, "retry") /\ Stays(c, [at |-> "run"])
\* The source blocks in read(): the thread outlives what main waits for it.
ReadBlocks(c) == Camera(c, "run") /\ ~stop /\ live.blocks /\ Stays(c, [at |-> "blocked"])
ReadReturns(c) == Camera(c, "blocked") /\ Stays(c, [at |-> "run"])

Shutdown(c) ==
  /\ Camera(c, "run") /\ stop
  /\ IF Active(c) THEN CloseEvent(c, cam[c].event, "shutdown", "gone", <<>>)
                  ELSE Stays(c, [at |-> "gone"])

CameraStep(c) ==
  \/ Opens(c) \/ Still(c) \/ PosePositive(c) \/ PoseNegative(c)
  \/ \E reason \in {"no_persons_for_pose", "pair_roi_missing"} : NoRegion(c, reason)
  \/ FileEof(c) \/ ReadFails(c)
CameraEnds(c) == Reopens(c) \/ Shutdown(c) \/ Reports(c) \/ Statuses(c)

(************************** clip writer, Stage3 ***************************)
ClipTakes ==
  /\ clipWriter = Unoccupied /\ clips # <<>>
  /\ clipWriter' = Head(clips) /\ clips' = Tail(clips)
  /\ UNCHANGED <<mainVars, cam, saved, unsaved, jobVars, hubVars, late>>
ClipSaves ==
  /\ clipWriter \notin {Unoccupied, Left}
  /\ Saves(clipWriter) /\ clipWriter' = Unoccupied
  /\ UNCHANGED <<mainVars, cam, clips, jobVars, hubVars, late>>
\* Both workers leave when they are told to stop and find their queue empty.
MayLeave(q) == stop /\ q = <<>>
ClipLeaves ==
  /\ clipWriter = Unoccupied /\ MayLeave(clips) /\ clipWriter' = Left
  /\ UNCHANGED <<mainVars, cam, clips, saved, unsaved, jobVars, hubVars, late>>

Stage3Takes ==
  /\ stage3 = Unoccupied /\ jobs # <<>>
  /\ stage3' = <<"infer", Head(jobs)>> /\ jobs' = Tail(jobs)
  /\ UNCHANGED <<mainVars, cam, clipVars, judged, submitted, hubVars, late>>
\* The result goes to the aggregator, then to the report; a failure to neither.
Stage3Infers ==
  /\ stage3[1] = "infer"
  /\ judged' = judged \cup {stage3[2]}
  /\ \/ submitted' = submitted \cup {stage3[2]} /\ stage3' = <<"row", stage3[2]>>
     \/ live.fails /\ submitted' = submitted /\ stage3' = Unoccupied
  /\ UNCHANGED <<mainVars, cam, clipVars, jobs, hubVars, late>>
Stage3Reports ==
  /\ stage3[1] = "row" /\ PutRow(Stage3Row(stage3[2])) /\ stage3' = <<"status">>
  /\ UNCHANGED <<mainVars, cam, clipVars, jobs, judged, submitted, late>>
Stage3Statuses ==
  /\ stage3[1] = "status" /\ PutStatus /\ stage3' = Unoccupied
  /\ UNCHANGED <<mainVars, cam, clipVars, jobs, judged, submitted, late>>
Stage3Leaves ==
  /\ stage3 = Unoccupied /\ MayLeave(jobs) /\ stage3' = Left
  /\ UNCHANGED <<mainVars, cam, clipVars, jobs, judged, submitted, hubVars, late>>

(********************************** main **********************************)
Moves(from, to) == main = from /\ main' = to /\ UNCHANGED <<live, cam, clipVars, jobVars, late>>

\* A signal.  Cameras that have ended are only logged: main waits for it.
StopAsked ==
  /\ stop' = TRUE /\ Moves("run", "cameras") /\ UNCHANGED <<closedWith, hubVars>>

\* w.join(timeout=5.0), camera by camera: one that blocks is given up, and in a slow
\* run any.
JoinCameras ==
  /\ main = "cameras" /\ (live.slow \/ \A c \in Cams : cam[c].at \in {"gone", "blocked"})
  /\ cam' = [c \in Cams |-> [cam[c] EXCEPT !.joined = cam[c].at = "gone"]]
  /\ main' = "clips" /\ UNCHANGED <<live, stop, closedWith, clipVars, jobVars, hubVars, late>>

\* Queue.join(): every job that was put has been marked as done.
JoinClips ==
  /\ clips = <<>> /\ clipWriter \in {Unoccupied, Left}
  /\ Moves("clips", "jobs") /\ UNCHANGED <<stop, closedWith, hubVars>>
\* Mutant: the Stage3 queue is not waited for.
JobsDoneNever == TRUE
JobsDone == jobs = <<>> /\ stage3 \in {Unoccupied, Left}
JoinJobs == JobsDone /\ Moves("jobs", "close") /\ UNCHANGED <<stop, closedWith, hubVars>>

\* The joins of the workers give up after a time; then the incidents are closed.
CloseAll == Moves("close", "hub") /\ closedWith' = submitted /\ hubAt' = "closing" /\ UNCHANGED <<stop, hub, written, displaced>>
\* The report thread is joined for five seconds, then its files are closed.
CloseHub == (hubAt = "left" \/ live.slow) /\ Moves("hub", "done") /\ UNCHANGED <<stop, closedWith, hubVars>>

LiveWorkers == ClipTakes \/ ClipSaves \/ ClipLeaves \/ Stage3Takes \/ Stage3Infers \/ Stage3Reports \/ Stage3Statuses \/ Stage3Leaves
Main == JoinCameras \/ JoinClips \/ JoinJobs \/ CloseAll \/ CloseHub
LiveNext ==
  \/ \E c \in Cams : CameraStep(c) \/ CameraEnds(c) \/ ReadBlocks(c) \/ ReadReturns(c)
  \/ main # "done" /\ (LiveWorkers \/ HubWrites \/ HubLeaves)
  \/ StopAsked \/ Main

\* Threads go on, all of them; what a source does and when the stop comes is left open.
LiveProgress ==
  \/ \E c \in Cams : CameraEnds(c) \/ Opens(c)
  \/ main # "done" /\ (LiveWorkers \/ HubWrites \/ HubLeaves)
  \/ Main

(******************************* properties *******************************)
\* What a camera that ended in time has closed is whole when the program says
\* "shutdown complete": its clip is saved or the log says that it could not be, what was
\* queued for Stage3 was gone through before the incidents were closed, and its row is
\* in the report or was displaced by a status row that found the queue full.  Only a
\* report thread that needs more than its five seconds leaves rows in its queue.
LiveDelivered ==
  main = "done" =>
    \A c \in Cams : cam[c].joined =>
      /\ cam[c].closed \subseteq saved \cup unsaved
      /\ cam[c].queued \subseteq judged
      /\ cam[c].queued \cap submitted \subseteq closedWith
      /\ {EventRow(id) : id \in cam[c].closed}
           \subseteq written \cup displaced \cup IF live.slow /\ hubAt # "left" THEN ToSet(hub) ELSE {}

\* A clip never joins two stretches of motion: a scene that comes to rest ends
\* the event and takes the frames kept for the next one with it.
ClipOfOneMotion == \A c \in Cams : \A stints \in cam[c].clips : Cardinality(stints) = 1

\* A stop ends the program, unless a camera closed its last event after the
\* thread that should take it had left: main then waits for ever.
LiveStopEnds == stop ~> main = "done" \/ late
=============================================================================
