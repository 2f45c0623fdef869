---------------------------- MODULE CameraPath ----------------------------
(***************************************************************************)
(* The path of a camera's frames: the ingest of CameraIngest composed with *)
(* the Fight consumer (pipeline_mp/camera_worker.py), its person and pose  *)
(* clients and the shared services that answer them                        *)
(* (person_worker.py, pose_worker.py).                                     *)
(*                                                                         *)
(* For every frame the consumer decides, in this order: is there motion,   *)
(* are there two persons, is there a region around a pair, is the pose     *)
(* positive.  It opens an event (seeded from the frames it remembers),     *)
(* extends it or closes it; a closed event is a clip for Stage3.  What the *)
(* images show is arbitrary: "look" is what the region tells of a frame.   *)
(*                                                                         *)
(* A request to a service and its answer travel through queues that may    *)
(* still hold what a previous consumer of this camera has left behind.     *)
(* The consumer may also read its source itself ("direct"), the older mode.*)
(***************************************************************************)
EXTENDS CameraIngest

CONSTANTS YoloStride, PoseStride, \* every how many frames a service is asked
          PrebufferFrames,        \* frames remembered for the next event
          MaxEventFrames,         \* length at which an event is split
          CloseGrace,             \* frames without support until it is closed
          MinQueueFrames,         \* shorter clips are not sent to Stage3
          PoseHold                \* frames a positive pose is believed

ASSUME PathAssumption == /\ YoloStride \in Nat \ {0} /\ PoseStride \in Nat \ {0}
                         /\ PrebufferFrames \in Nat /\ MaxEventFrames \in Nat \ {0}
                         /\ CloseGrace \in Nat /\ MinQueueFrames \in Nat
                         /\ PoseHold \in Nat

VARIABLES
  wpc,       \* where the consumer is
  lastSeq,   \* last_ingest_frame_seq
  eaten,     \* frames_read
  idx,       \* frame_idx + 1: frames are numbered from 1
  look,      \* what the region of the current frame shows
  asked,     \* the request that is waited for: its id, 0 if none
  nextId,    \* next_request_id, of each client
  serving,   \* requests the services hold
  answers,   \* the result channel of each client
  accepted,  \* the last answer the consumer has acted on
  clip,      \* frames of the active event, <<>> if there is none
  lastHit,   \* last_positive_frame_idx
  prebuf,    \* the remembered frames
  lastClose, \* last_event_close_frame_idx, 0 if none was closed
  poseHit,   \* last_pose_hit_idx, 0 if none
  closed     \* the closed events: their frames and what became of them

workerVars == <<wpc, lastSeq, eaten, idx, look, asked, nextId, serving, answers,
                accepted, clip, lastHit, prebuf, lastClose, poseHit, closed>>
cameraVars == <<ingestVars, workerVars>>
eventVars == <<clip, lastHit, prebuf, lastClose, poseHit, closed>>
callVars == <<asked, nextId, serving, answers, accepted>>
ingestOnly == <<settings, stops, ipc, word, todo, speedN, eofEvent>>

Services == {"person", "pose"}
Direct == "direct" \in outputs
Ended == {"eof", "stopped", "failed"}
NoAnswer == [epoch |-> Epoch, id |-> 0, n |-> 0, fate |-> "none"]

CameraInit ==
  /\ IngestInit
  \* What a previous consumer of this camera may have left in the channels.
  /\ \E left \in BOOLEAN :
       LET old == [epoch |-> Epoch - 1, id |-> 1, n |-> 1, fate |-> "ok"]
       IN /\ fightQ = IF left /\ ~Direct THEN <<[t |-> "frame", n |-> 1, epoch |-> Epoch - 1]>>
                      ELSE <<>>
          /\ answers = [s \in Services |-> IF left THEN <<old>> ELSE <<>>]
  /\ wpc = IF Direct THEN "open" ELSE "get"
  /\ lastSeq = 0 /\ eaten = 0 /\ idx = 0 /\ look = "none"
  /\ asked = 0 /\ nextId = [s \in Services |-> 1] /\ serving = {}
  /\ accepted = NoAnswer
  /\ clip = <<>> /\ lastHit = 0 /\ prebuf = <<>> /\ lastClose = 0 /\ poseHit = 0
  /\ closed = <<>>

-----------------------------------------------------------------------------
(* Events and clips. *)

Remember(seen) == IF Len(seen) > PrebufferFrames THEN Tail(seen) ELSE seen

\* Mutant: the current frame stays in the seed although it is appended next.
SeedWhole == IF lastClose = 0 \/ idx - lastClose > PrebufferFrames THEN prebuf ELSE <<>>

\* new_event: the remembered frames but the last, which is the current one and
\* is appended next; none right after a split, so that clips repeat no frame.
Seed == IF prebuf # <<>> /\ (lastClose = 0 \/ idx - lastClose > PrebufferFrames)
        THEN SubSeq(prebuf, 1, Len(prebuf) - 1) ELSE <<>>

\* _should_queue_stage3 and the admission: a stop cancels one that waits.  The
\* least duration is taken to be that of the least number of frames.
Fates(frames) ==
  IF Len(frames) < MinQueueFrames THEN {"dropped"}
  ELSE IF fightStop THEN {"queued", "cancelled"} ELSE {"queued"}

\* close_event: the clip is handed over and the remembered frames forgotten.
Close(frames) ==
  /\ \E f \in Fates(frames) : closed' = Append(closed, [frames |-> frames, fate |-> f])
  /\ clip' = <<>> /\ lastClose' = idx /\ prebuf' = <<>>

\* _close_active_if_grace_expired
GraceOver == idx - lastHit >= CloseGrace

CloseIfGraceOver == /\ IF clip # <<>> /\ GraceOver THEN Close(clip)
                       ELSE UNCHANGED <<clip, lastClose, prebuf, closed>>
                    /\ UNCHANGED <<lastHit, poseHit>>

\* The loop is left: an active event is closed.
CloseActive == /\ IF clip # <<>> THEN Close(clip)
                  ELSE UNCHANGED <<clip, lastClose, prebuf, closed>>
               /\ UNCHANGED <<lastHit, poseHit>>

\* No motion: a frame without an event resets what is remembered.
CloseOrReset == /\ IF clip = <<>> THEN prebuf' = <<>> /\ UNCHANGED <<clip, lastClose, closed>>
                   ELSE IF GraceOver THEN Close(clip)
                   ELSE UNCHANGED <<clip, lastClose, prebuf, closed>>
                /\ poseHit' = IF clip # <<>> /\ ~GraceOver THEN poseHit ELSE 0
                /\ UNCHANGED lastHit

\* What a region shows: a pair fit to open an event; a pair, direct or held, that
\* is not; a single person; nobody.
Looks == {"fight", "pair", "alone", "empty"}

\* Asked in this frame or, between, held; a live hold is one of the wall clock.
PosePositive(now) == IF (idx - 1) % PoseStride = 0 THEN now = (poseHit = idx)
                     ELSE \/ now = (poseHit > 0 /\ idx - poseHit <= PoseHold)
                          \/ now /\ kind # "FILE" /\ poseHit > 0

\* The decision at the end of process_frame, and what append_event does with
\* the frame: a full event is closed at once, a silent one after the grace.
Decision(positive) ==
  LET pair == look \in {"fight", "pair"}
      continues == clip # <<>> /\ look # "empty"
      event_hit == positive \/ look = "fight" \/ continues
      grown == IF clip = <<>> THEN Append(Seed, idx) ELSE Append(clip, idx)
      hit == IF event_hit /\ (clip = <<>> \/ positive \/ pair) THEN idx ELSE lastHit
  IN IF ~event_hit /\ clip = <<>> THEN UNCHANGED <<clip, lastHit, lastClose, prebuf, closed>>
     ELSE /\ lastHit' = hit
          /\ IF Len(grown) >= MaxEventFrames \/ (~event_hit /\ GraceOver) THEN Close(grown)
             ELSE clip' = grown /\ UNCHANGED <<lastClose, prebuf, closed>>

-----------------------------------------------------------------------------
(* The inference clients and the services. *)

\* The outer handler: without the ingest every error is retried with the source
\* opened again, with it the process ends and the active event is lost.
Crash == wpc' = IF Direct THEN "open" ELSE "failed"

\* infer: one request is outstanding, and carries the epoch, its number and the
\* frame.
Ask(s) == /\ asked' = nextId[s]
          /\ nextId' = [nextId EXCEPT ![s] = @ + 1]
          /\ serving' = serving \cup {[svc |-> s, epoch |-> Epoch, id |-> nextId[s], n |-> idx]}
          /\ wpc' = s

\* AdmissionShed: the frame is given up and the temporal state kept; the older
\* mode treats it as any other error.
Shed == wpc' = IF Direct THEN "open" ELSE "get"

\* The router puts an answer into the channel of the slot it is for.
RouteToSlot(s, a) == answers' = [answers EXCEPT ![s] = Append(@, a)]

\* A service has looked at a request.  A live request that is too old is
\* answered as dropped, an inference that raises as an error.
Serve(s) == \E r \in serving, fate \in {"ok", "error", "dropped"} :
  /\ r.svc = s
  /\ fate = "dropped" => kind # "FILE"
  /\ fate = "error" => faults < MaxFaults
  /\ faults' = IF fate = "error" THEN faults + 1 ELSE faults
  /\ serving' = serving \ {r}
  /\ RouteToSlot(s, [epoch |-> r.epoch, id |-> r.id, n |-> r.n, fate |-> fate])
  /\ UNCHANGED <<ingestOnly, seq, fightQ, wpc, lastSeq, eaten, idx, look, asked, nextId,
                 accepted, eventVars>>

ServePerson == Serve("person")
ServePose == Serve("pose")

\* Mutant: the answer is recognised by its request number alone.
ValidById(a) == a.id = asked

\* FightChannel.get and the validator: the answer is of this consumer, to this
\* request and about this frame.
Valid(a) == a.epoch = Epoch /\ a.id = asked /\ a.n = idx

\* infer: the client reads its channel until it finds its own answer.
Answer(s) ==
  /\ wpc = s /\ answers[s] # <<>>
  /\ LET a == Head(answers[s])
     IN /\ answers' = [answers EXCEPT ![s] = Tail(@)]
        /\ IF ~Valid(a) THEN UNCHANGED <<wpc, asked, accepted, poseHit>>
           ELSE /\ accepted' = a /\ asked' = 0
                /\ \/ a.fate = "dropped" /\ Shed /\ UNCHANGED poseHit
                   \/ a.fate = "ok" /\ kind # "FILE" /\ Shed /\ UNCHANGED poseHit
                   \/ a.fate = "error" /\ Crash /\ UNCHANGED poseHit
                   \/ a.fate = "ok" /\ s = "person" /\ wpc' = "people" /\ UNCHANGED poseHit
                   \/ a.fate = "ok" /\ s = "pose" /\ wpc' = "decide"
                      /\ poseHit' \in {poseHit, idx}
  /\ UNCHANGED <<ingestVars, lastSeq, eaten, idx, look, nextId, serving,
                 clip, lastHit, prebuf, lastClose, closed>>

AnswerPerson == Answer("person")
AnswerPose == Answer("pose")

\* The stop is seen while an answer is waited for: the client raises.
AnswerStopped ==
  /\ wpc \in Services /\ fightStop
  /\ asked' = 0 /\ Crash
  /\ UNCHANGED <<ingestVars, lastSeq, eaten, idx, look, nextId, serving, answers, accepted,
                 eventVars>>

-----------------------------------------------------------------------------
(* The consumer's loop. *)

\* FightChannel.get drops what was tagged for another consumer.
DropForeign ==
  /\ wpc = "get" /\ ~Direct /\ fightQ # <<>> /\ Head(fightQ).epoch # Epoch
  /\ fightQ' = Tail(fightQ)
  /\ UNCHANGED <<ingestOnly, seq, faults, workerVars>>

\* A frame is taken.  A live frame that has waited too long is not looked at.
TakeFrame ==
  /\ wpc = "get" /\ ~Direct /\ fightQ # <<>>
  /\ LET m == Head(fightQ)
     IN /\ m.epoch = Epoch /\ m.t = "frame"
        /\ fightQ' = Tail(fightQ)
        /\ IF m.n <= lastSeq THEN UNCHANGED <<wpc, lastSeq, eaten, idx>>
           ELSE /\ lastSeq' = m.n /\ eaten' = eaten + 1
                /\ \/ wpc' = "motion" /\ idx' = m.n
                   \/ kind # "FILE" /\ UNCHANGED wpc /\ idx' = m.n - 1
  /\ UNCHANGED <<ingestOnly, seq, faults, look, callVars, eventVars>>

\* A signal ends the loop; "fatal_error" raises and leaves the event open.
TakeSignal ==
  /\ wpc = "get" /\ ~Direct /\ fightQ # <<>>
  /\ LET m == Head(fightQ)
     IN /\ m.epoch = Epoch /\ m.t # "frame"
        /\ fightQ' = Tail(fightQ)
        /\ IF m.t = "fatal_error" THEN Crash /\ UNCHANGED eventVars
           ELSE CloseActive /\ wpc' = IF m.t = "eof" THEN "eof" ELSE "stopped"
  /\ UNCHANGED <<ingestOnly, seq, faults, lastSeq, eaten, idx, look, callVars>>

\* The stop is seen between two frames.
LeaveLoop ==
  /\ wpc \in {"get", "open"} /\ fightStop
  /\ wpc' = "stopped" /\ CloseActive
  /\ UNCHANGED <<ingestVars, lastSeq, eaten, idx, look, callVars>>

\* Motion, and every YoloStride frames a question for persons; between, the
\* tracks are predicted.
Motion ==
  /\ wpc = "motion"
  /\ \/ wpc' = "get" /\ CloseOrReset /\ UNCHANGED callVars
     \/ /\ UNCHANGED eventVars
        /\ IF (idx - 1) % YoloStride # 0 THEN wpc' = "people" /\ UNCHANGED callVars
           ELSE \/ Ask("person") /\ UNCHANGED <<answers, accepted>>
                \/ kind # "FILE" /\ Shed /\ UNCHANGED callVars
  /\ UNCHANGED <<ingestVars, lastSeq, eaten, idx, look>>

\* Fewer than two persons or no crop of a region: the event may close.  With a
\* crop the frame is remembered and, every PoseStride frames, the pose asked for.
People ==
  /\ wpc = "people"
  /\ \/ wpc' = "get" /\ CloseIfGraceOver /\ UNCHANGED <<look, callVars>>
     \/ /\ look' \in Looks
        /\ prebuf' = Remember(Append(prebuf, idx))
        /\ UNCHANGED <<clip, lastHit, lastClose, poseHit, closed>>
        /\ IF (idx - 1) % PoseStride # 0 THEN wpc' = "decide" /\ UNCHANGED callVars
           ELSE \/ Ask("pose") /\ UNCHANGED <<answers, accepted>>
                \/ kind # "FILE" /\ Shed /\ UNCHANGED callVars
  /\ UNCHANGED <<ingestVars, lastSeq, eaten, idx>>

Decide ==
  /\ wpc = "decide" /\ wpc' = "get" /\ look' = "none"
  /\ \E positive \in BOOLEAN : PosePositive(positive) /\ Decision(positive)
  /\ UNCHANGED <<ingestVars, lastSeq, eaten, idx, callVars, poseHit>>

-----------------------------------------------------------------------------
(* The older mode: the consumer opens and reads its source itself. *)

\* open: a failure is waited out and tried again; a file starts from its
\* beginning.
DirectOpen ==
  /\ Direct /\ wpc = "open" /\ ~fightStop
  /\ \/ wpc' = "get" /\ seq' = (IF kind = "FILE" THEN 0 ELSE seq) /\ UNCHANGED faults
     \/ Fault /\ UNCHANGED <<wpc, seq>>
  /\ UNCHANGED <<ingestOnly, fightQ, lastSeq, eaten, idx, look, callVars, eventVars>>

\* A frame; the number of the frame goes on when a source is opened again.
DirectRead ==
  /\ Direct /\ wpc = "get" /\ ~fightStop /\ seq < Available
  /\ seq' = seq + 1 /\ idx' = idx + 1 /\ eaten' = eaten + 1 /\ wpc' = "motion"
  /\ UNCHANGED <<ingestOnly, faults, fightQ, lastSeq, look, callVars, eventVars>>

\* Nothing was read: the end of a file, a reason to open a camera again.
DirectNothing ==
  /\ Direct /\ wpc = "get" /\ ~fightStop
  /\ IF kind = "FILE" THEN seq = Frames /\ wpc' = "eof" /\ CloseActive /\ UNCHANGED faults
     ELSE Fault /\ wpc' = "open" /\ UNCHANGED eventVars
  /\ UNCHANGED <<ingestOnly, seq, fightQ, lastSeq, eaten, idx, look, callVars>>

FrameStep == \/ DropForeign \/ TakeFrame \/ TakeSignal \/ LeaveLoop \/ Motion \/ People
             \/ Decide \/ DirectOpen \/ DirectRead \/ DirectNothing \/ AnswerStopped
             \/ AnswerPerson \/ AnswerPose

CameraNext == \/ IngestStep /\ UNCHANGED workerVars
              \/ SpeedTakes /\ UNCHANGED workerVars
              \/ AskStop /\ UNCHANGED workerVars
              \/ ServePerson \/ ServePose \/ FrameStep

CameraSpec == CameraInit /\ [][CameraNext]_cameraVars

\* Both processes, the services and the Speed consumer are scheduled.
CameraFairness == /\ WF_cameraVars(IngestStep /\ UNCHANGED workerVars)
                  /\ WF_cameraVars(SpeedTakes /\ UNCHANGED workerVars)
                  /\ WF_cameraVars(ServePerson) /\ WF_cameraVars(ServePose)
                  /\ WF_cameraVars(FrameStep)

CameraFairSpec == CameraSpec /\ CameraFairness

-----------------------------------------------------------------------------
(* Properties. *)

Clips == Append([i \in DOMAIN closed |-> closed[i].frames], clip)

\* No frame is in two clips or twice in one, and the clips and their frames are
\* in the order of the camera: a split, a seed from the remembered frames, a
\* shed frame and a source that is opened again notwithstanding
\* (camera_worker.py:600 and :856 say why: an incident is put together from the
\* clips, and must not show a scene twice).
ClipsRepeatNothing ==
  \A i, j \in DOMAIN Clips : \A a \in DOMAIN Clips[i], b \in DOMAIN Clips[j] :
    i < j \/ (i = j /\ a < b) => Clips[i][a] < Clips[j][b]

\* A consumer that leaves at the end of a file has looked at every frame the
\* ingest has decoded, holds no event any more, and the parent's evidence of the
\* end is already set: the parent calls a file finished by that evidence when it
\* sees the consumer gone (camera_ingest.py:291).
FileWhole ==
  kind = "FILE" /\ ~Direct /\ wpc = "eof" => eaten = seq /\ clip = <<>> /\ eofEvent

\* What the consumer decides rests on the answer to its own question about the
\* frame it is looking at: not on one a previous consumer of this camera left in
\* the channel, although request numbers start from 1 with every consumer.
AnswersAreOwn ==
  /\ accepted.epoch = Epoch
  /\ wpc \in {"people", "decide"} /\ (idx - 1) % YoloStride = 0 => accepted.n = idx

\* The consumer of a file comes to an end unless the camera is stopped before;
\* a stopped consumer and a stopped ingest end: neither a full channel, nor an
\* answer, nor a source that does not open holds one back for ever.
CameraEnds == /\ kind = "FILE" ~> (stop \/ wpc \in Ended)
              /\ fightStop ~> wpc \in Ended
              /\ stop ~> ipc = "done"
=============================================================================
