--------------------------- MODULE SpeedRuntime ---------------------------
(***************************************************************************)
(* The programs that measure speeds, around SpeedMeasurement.              *)
(*                                                                         *)
(* "service": the Speed consumer of a camera (pipeline_mp/speed_worker.py) *)
(* asks the shared vehicle service for detections and publishes violations *)
(* to the outbox.  The parent (camera_lifecycle.py, shared_services.py)    *)
(* fences it with a new epoch or generation, kills it and starts another.  *)
(* "process": the camera process of the older orchestrator                 *)
(* (HizTespiti/speed_mp), which detects itself and reports to a reporter.  *)
(* "single": the one camera program (HizTespiti/speed/run_speed.py).       *)
(*                                                                         *)
(* A vehicle drives along the road; in every frame it advances, it may not *)
(* be detected, and there may be no motion.                                *)
(***************************************************************************)
EXTENDS SpeedMeasurement

CONSTANTS Setups,          \* programs with a source, a mode, a stride, a motion gate,
                           \* the number of frames of the source and their pace
          Slowest,         \* ticks of the wall clock a frame may take, at most
          Steps, Road,     \* how far the vehicle may go in a frame, and at most
          MaxBlind,        \* frames missed by the detector, without motion or shed
          MaxFaults,       \* failures of evidence, service, process, control
          MaxAttempts      \* restarts of the consumer, and of the service

Hosts == {"service", "process", "single"}
Modes == {"A_TO_B", "B_TO_A", "AUTO", "pixel_scale"}

ASSUME RuntimeAssumption ==
  /\ Setups \subseteq [host : Hosts, file : BOOLEAN, mode : Modes, stride : Nat \ {0},
                     motion : BOOLEAN, frames : Nat, pace : SUBSET (0 .. Slowest)]
  /\ Steps \subseteq Nat /\ Road \in Nat /\ Slowest \in Nat
  /\ {MaxBlind, MaxFaults, MaxAttempts} \subseteq Nat

VARIABLES
  setup,      \* the program, whether the source is a file, mode and stride
  n, car,     \* the last frame of the source, and where the vehicle is in it
  clock,      \* the clock on the wall
  blind, faults, attempts, \* what has happened, against the bounds
  pc,         \* where the consumer is
  view,       \* what the current frame shows; the last frame the gate shut out
  gate, tracks, nextTrack, est, dec, \* the processor
  unfiled,       \* violations of the frame that are still to be written
  me,         \* generation and epoch of the running consumer
  slot,       \* slot_generations and speed_epochs of its slot
  stop,       \* speed_stop, or the signal of the older programs
  parent,     \* what the parent is doing, and why
  requests, answers, \* the queues of the vehicle service
  server,     \* the vehicle service: where it is and what it holds
  outbox, journal,   \* the published and the written violations
  reports, filedRows, orch, \* report queue and file of the older orchestrator
  forgone     \* how many violations it has given up, where the code says so

frameVars == <<n, car, clock, blind>>
procVars == <<gate, tracks, nextTrack, est, dec>>
parentVars == <<attempts, me, slot, stop, parent>>
serviceVars == <<requests, answers, server>>
filedVars == <<outbox, journal>>
olderVars == <<reports, filedRows, orch, forgone>>
speedVars == <<setup, frameVars, faults, pc, view, procVars, unfiled, parentVars,
          serviceVars, filedVars, olderVars>>

MaxFrames == setup.frames
Service == setup.host = "service"
Ended == {"ended", "failed", "killed"}
Current(r) == r.gen = slot.gen /\ r.epoch = slot.epoch
Idle == [pc |-> "idle", req |-> [gen |-> 0, epoch |-> 0, n |-> 0], outcome |-> "none"]

FreshProcessor == /\ gate' = ClosedGate /\ tracks' = {} /\ nextTrack' = 1
                  /\ est' = <<>> /\ dec' = <<>>

SpeedInit ==
  /\ setup \in Setups
  /\ n = 0 /\ car = 0 /\ clock = 0 /\ blind = 0 /\ faults = 0 /\ attempts = 0
  /\ pc = "get" /\ view = [seen |-> {}, looked |-> FALSE, active |-> FALSE, shut |-> 0]
  /\ gate = ClosedGate /\ tracks = {} /\ nextTrack = 1 /\ est = <<>> /\ dec = <<>>
  /\ unfiled = <<>> /\ me = [gen |-> 1, epoch |-> 1] /\ slot = me /\ stop = FALSE
  /\ parent = [pc |-> "idle", why |-> "none"]
  /\ requests = <<>> /\ answers = <<>> /\ server = Idle
  /\ outbox = <<>> /\ journal = <<>>
  /\ reports = <<>> /\ filedRows = <<>> /\ orch = "run" /\ forgone = 0

Fault == faults < MaxFaults /\ faults' = faults + 1

-----------------------------------------------------------------------------
(* A frame. *)

\* Is the frame measured, as far as the gate is concerned?
Lets(index) == ~setup.motion \/ GateLets(gate', index)

\* The source delivers a frame: the vehicle has moved, the detector may miss
\* it, the picture may be still, and the last frame took its time.
NextFrame(index, motion, looks) ==
  /\ n' = index
  /\ \E ticks \in setup.pace : clock' = clock + ticks
  /\ \E move \in Steps, sees \in BOOLEAN :
       /\ sees => looks
       /\ car' = Min({car + move, Road + 1})
       /\ LET lost == IF looks /\ ~sees THEN 1 ELSE 0
              still == IF motion THEN 0 ELSE 1
              shed == index - n - 1
          IN /\ blind' = blind + lost + still + shed
             /\ blind' <= MaxBlind
       /\ view' = [seen |-> IF sees /\ car' <= Road THEN {car'} ELSE {},
                   looked |-> looks, active |-> Lets(index),
                   shut |-> IF Lets(index) THEN view.shut ELSE index]

\* The gate of the frame; without motion detection every frame is looked at.
Gated(index, motion) ==
  gate' = IF setup.motion THEN GateAfter(gate, index, motion) ELSE gate

LooksAt(index) == Lets(index) /\ index % setup.stride = 0

Observe(index) == \E motion \in BOOLEAN :
  /\ setup.motion \/ motion
  /\ Gated(index, motion)
  /\ NextFrame(index, motion, LooksAt(index))

\* What is decided about the current tracks: the states of all others are
\* forgotten, then every track is measured and decided.  With one vehicle there
\* is one violation in a frame, at most.
Decided(next) ==
  LET all == IF view.looked \/ view.active THEN ActiveTracks(next) ELSE {}
      ids == {t.id : t \in all}
      trackOf(id) == CHOOSE t \in all : t.id = id
      before(id) == IF id \in DOMAIN est THEN est[id] ELSE Untimed
      kept(id) == IF id \in DOMAIN dec THEN dec[id] ELSE Unseen
      measure == [id \in ids |-> Estimate(before(id), trackOf(id), setup.mode)]
      verdict == [id \in ids |-> Decide(kept(id), measure[id].result, clock)]
      told == {id \in ids : verdict[id].report}
  IN /\ est' = [id \in ids |-> measure[id].state]
     /\ dec' = [id \in ids |-> verdict[id].state]
     /\ unfiled' = SetToSeq({[n |-> n, track |-> id, pass |-> measure[id].state.pass,
                              shut |-> view.shut] : id \in told})

\* The rest of process(): tracking, if the frame was looked at, and deciding.
Track(seen) ==
  LET next == IF view.looked THEN TracksAfter(tracks, seen, n, nextTrack) ELSE tracks
  IN /\ tracks' = next
     /\ nextTrack' = IF \E t \in next : t.id = nextTrack THEN nextTrack + 1 ELSE nextTrack
     /\ Decided(next)
     /\ pc' = IF unfiled' = <<>> THEN "get" ELSE "save"

\* Without a complete calibration no program measures: it ends with an error
\* before it has looked at a frame.
NotCalibrated ==
  /\ pc = "get" /\ n = 0 /\ Fault /\ pc' = "failed"
  /\ UNCHANGED <<setup, frameVars, view, procVars, unfiled, parentVars, serviceVars,
                 filedVars, olderVars>>

-----------------------------------------------------------------------------
(* The Speed consumer. *)

Valid == me = slot

\* speed_process_main: the next frame.  Live frames may have been shed by the
\* full queue, or are too old.
TakeFrame ==
  /\ Service /\ pc = "get" /\ ~stop /\ Valid /\ n < MaxFrames
  /\ \E skip \in {0, 1} :
       /\ skip = 1 => ~setup.file /\ n + 2 <= MaxFrames
       /\ Observe(n + 1 + skip)
  /\ pc' = IF view'.looked THEN "ask" ELSE "track"
  /\ UNCHANGED <<setup, faults, tracks, nextTrack, est, dec, unfiled, parentVars,
                 serviceVars, filedVars, olderVars>>

\* End of file, or the loop ends: stop, epoch or generation.
LeaveLoop ==
  /\ Service /\ pc = "get" /\ (stop \/ ~Valid \/ (setup.file /\ n = MaxFrames))
  /\ pc' = "ended"
  /\ UNCHANGED <<setup, frameVars, faults, view, procVars, unfiled, parentVars,
                 serviceVars, filedVars, olderVars>>

\* VehicleClient: admission.  A file waits, a live frame is shed.
Ask ==
  /\ Service /\ pc = "ask"
  /\ IF stop THEN pc' = "ended" /\ UNCHANGED requests
     ELSE IF requests = <<>>
     THEN requests' = <<[gen |-> me.gen, epoch |-> me.epoch, n |-> n]>> /\ pc' = "wait"
     ELSE ~setup.file /\ pc' = "get" /\ UNCHANGED requests
  /\ UNCHANGED <<setup, frameVars, faults, view, procVars, unfiled, parentVars, answers, server,
                 filedVars, olderVars>>

Mine(a) == a.gen = me.gen /\ a.epoch = me.epoch /\ a.n = n

\* VehicleClient: the answer.  One of somebody else is dropped; a live frame
\* whose answer is late is shed: the tracks stay as they are.
Answer ==
  /\ Service /\ pc = "wait" /\ ~stop /\ answers # <<>>
  /\ answers' = Tail(answers)
  /\ LET a == Head(answers)
     IN \/ /\ ~Mine(a) /\ UNCHANGED <<pc, tracks, nextTrack, est, dec, unfiled>>
        \/ /\ Mine(a) /\ a.outcome = "accepted" /\ Track(view.seen)
        \/ /\ Mine(a) /\ ~setup.file /\ pc' = "get"
           /\ UNCHANGED <<tracks, nextTrack, est, dec, unfiled>>
  /\ UNCHANGED <<setup, frameVars, faults, view, gate, parentVars, requests, server,
                 filedVars, olderVars>>

WaitStopped ==
  /\ Service /\ pc = "wait" /\ stop /\ pc' = "ended"
  /\ UNCHANGED <<setup, frameVars, faults, view, procVars, unfiled, parentVars,
                 serviceVars, filedVars, olderVars>>

\* A frame that is not looked at.
TrackOnly ==
  /\ pc = "track" /\ Service /\ Track({})
  /\ UNCHANGED <<setup, frameVars, faults, view, gate, parentVars, serviceVars,
                 filedVars, olderVars>>

\* EvidenceWriter.save_event: snapshot and clip, synced to the disk.  A failure
\* ends the consumer; a fenced one leaves before it publishes.
SaveEvidence ==
  /\ Service /\ pc = "save"
  /\ \/ pc' = (IF Valid THEN "append" ELSE "ended") /\ UNCHANGED faults
     \/ Fault /\ pc' = "failed"
  /\ UNCHANGED <<setup, frameVars, view, procVars, unfiled, parentVars, serviceVars,
                 filedVars, olderVars>>

\* The envelope names the generation and the epoch of the consumer.
Envelope(event) == [gen |-> me.gen, epoch |-> me.epoch, event |-> event]

\* persist_speed_event: both arrays are locked, so no fence can come between
\* the check and the append.
Publish ==
  /\ Service /\ pc = "append"
  /\ IF Valid THEN outbox' = Append(outbox, Envelope(Head(unfiled))) /\ pc' = "journal"
     ELSE pc' = "ended" /\ UNCHANGED outbox
  /\ UNCHANGED <<setup, frameVars, faults, view, procVars, unfiled, parentVars, serviceVars,
                 journal, olderVars>>

\* The compatibility file is written after the outbox.
WriteJournal ==
  /\ Service /\ pc = "journal"
  /\ journal' = Append(journal, Head(unfiled)) /\ unfiled' = Tail(unfiled)
  /\ pc' = IF unfiled' = <<>> THEN "get" ELSE "save"
  /\ UNCHANGED <<setup, frameVars, faults, view, procVars, parentVars, serviceVars,
                 outbox, olderVars>>

-----------------------------------------------------------------------------
(* The vehicle service. *)

\* A request of a consumer that was fenced is dropped.
ServeTake ==
  /\ server.pc = "idle" /\ requests # <<>>
  /\ requests' = Tail(requests)
  /\ server' = IF Current(Head(requests)) THEN [Idle EXCEPT !.pc = "infer", !.req = Head(requests)]
               ELSE server
  /\ UNCHANGED <<setup, frameVars, faults, pc, view, procVars, unfiled, parentVars, answers,
                 filedVars, olderVars>>

\* A live request may be too old.  An inference that raises ends the service.
ServeInfer ==
  /\ server.pc = "infer"
  /\ \/ \E o \in {"accepted", "stale"} : /\ o = "stale" => ~setup.file
                                         /\ server' = [server EXCEPT !.pc = "answer", !.outcome = o]
                                         /\ UNCHANGED faults
     \/ Fault /\ server' = [Idle EXCEPT !.pc = "dead"]
  /\ UNCHANGED <<setup, frameVars, pc, view, procVars, unfiled, parentVars, requests, answers,
                 filedVars, olderVars>>

\* The answer is offered until there is room, while the consumer is current.
ServeAnswer ==
  /\ server.pc = "answer"
  /\ server' = IF Current(server.req) THEN [server EXCEPT !.pc = "put"] ELSE Idle
  /\ UNCHANGED <<setup, frameVars, faults, pc, view, procVars, unfiled, parentVars, requests,
                 answers, filedVars, olderVars>>

\* Mutant: an answer that finds no room is dropped.
ServePutOnce ==
  /\ server.pc = "put" /\ server' = Idle
  /\ answers' = IF answers = <<>>
                 THEN <<[gen |-> server.req.gen, epoch |-> server.req.epoch,
                         n |-> server.req.n, outcome |-> server.outcome]>> ELSE answers
  /\ UNCHANGED <<setup, frameVars, faults, pc, view, procVars, unfiled, parentVars, requests,
                 filedVars, olderVars>>

ServePut ==
  /\ server.pc = "put"
  /\ IF answers = <<>>
     THEN /\ answers' = <<[gen |-> server.req.gen, epoch |-> server.req.epoch,
                           n |-> server.req.n, outcome |-> server.outcome]>>
          /\ server' = Idle
     ELSE server' = [server EXCEPT !.pc = "answer"] /\ UNCHANGED answers
  /\ UNCHANGED <<setup, frameVars, faults, pc, view, procVars, unfiled, parentVars, requests,
                 filedVars, olderVars>>

-----------------------------------------------------------------------------
(* The parent. *)

Live == Service /\ parent.pc = "idle" /\ parent.why # "gone"
parentOnly == <<setup, frameVars, view, procVars, unfiled, filedVars, olderVars>>

\* What makes the parent withdraw the consumer: a changed capability (once), a
\* failed service, a dead consumer, a removed camera.  A consumer that is withdrawn
\* already (speed_failed) is left alone.
Reasons == {w \in {"capability", "service", "dead", "camera"} :
              /\ w = "service" => server.pc = "dead"
              /\ w = "dead" => pc = "failed" \/ (pc = "ended" /\ setup.file /\ n < MaxFrames)
              /\ w = "capability" => parent.why = "none"
              /\ w # "camera" => parent.why \in {"none", "again"}}

\* stop_camera gives up the generation first, disable_speed starts here.
Withdraw == \E why \in Reasons :
  /\ Live
  /\ stop' = TRUE
  /\ slot' = IF why = "camera" THEN [slot EXCEPT !.gen = @ + 1] ELSE slot
  /\ parent' = [pc |-> "fence", why |-> why]
  /\ UNCHANGED <<parentOnly, faults, pc, attempts, me, serviceVars>>

Fence ==
  /\ parent.pc = "fence"
  /\ slot' = [slot EXCEPT !.epoch = @ + 1]
  /\ parent' = [parent EXCEPT !.pc = "kill"]
  /\ UNCHANGED <<parentOnly, faults, pc, attempts, me, stop, serviceVars>>

\* The process is ended, wherever it is; a failed service is stopped with it.
Kill ==
  /\ parent.pc = "kill"
  /\ pc' = IF pc \in Ended THEN pc ELSE "killed"
  /\ parent' = [pc |-> "idle", why |-> CASE parent.why = "camera" -> "gone"
                                         [] setup.file -> "off" [] OTHER -> parent.why]
  /\ server' = IF parent.why = "service" THEN [Idle EXCEPT !.pc = "stopped"] ELSE server
  /\ IF parent.why = "service" THEN requests' = <<>> /\ answers' = <<>>
     ELSE UNCHANGED <<requests, answers>>
  /\ UNCHANGED <<parentOnly, faults, attempts, me, slot, stop>>

\* A service that fails when there is no consumer to withdraw.
StopService ==
  /\ Live /\ server.pc = "dead" /\ parent.why \notin {"none", "again"}
  /\ server' = [Idle EXCEPT !.pc = "stopped"] /\ requests' = <<>> /\ answers' = <<>>
  /\ UNCHANGED <<parentOnly, faults, pc, attempts, me, slot, stop, parent>>

\* The service is started again with queues of its own.
RestartService ==
  /\ Live /\ server.pc = "stopped" /\ attempts < MaxAttempts
  /\ attempts' = attempts + 1 /\ server' = Idle
  /\ UNCHANGED <<parentOnly, faults, pc, me, slot, stop, parent, requests, answers>>

\* _spawn_speed: a live consumer starts anew in an epoch of its own.
Spawn ==
  /\ Live /\ parent.why \in {"capability", "service", "dead"} /\ ~setup.file
  /\ server.pc \notin {"dead", "stopped"}
  /\ IF parent.why = "dead" THEN attempts < MaxAttempts /\ attempts' = attempts + 1
     ELSE UNCHANGED attempts
  /\ slot' = [slot EXCEPT !.epoch = @ + 1] /\ me' = slot'
  /\ stop' = FALSE /\ answers' = <<>>
  /\ parent' = [pc |-> "idle", why |-> "again"]
  /\ pc' = "get" /\ FreshProcessor /\ unfiled' = <<>>
  /\ view' = [seen |-> {}, looked |-> FALSE, active |-> FALSE, shut |-> 0]
  /\ UNCHANGED <<setup, frameVars, faults, requests, server, filedVars, olderVars>>

-----------------------------------------------------------------------------
(* The older programs. *)

olderOnly == <<setup, parentVars, serviceVars, outbox>>

\* camera_process_main: a frame is detected and tracked in the process.
ProcessFrame ==
  /\ setup.host = "process" /\ pc = "get" /\ orch # "term" /\ n < MaxFrames
  /\ Observe(n + 1) /\ pc' = "track"
  /\ UNCHANGED <<olderOnly, faults, tracks, nextTrack, est, dec, unfiled, journal, olderVars>>

ProcessTrack ==
  /\ setup.host = "process" /\ pc = "track" /\ Track(view.seen)
  /\ UNCHANGED <<olderOnly, frameVars, faults, view, gate, journal, olderVars>>

\* A violation is written, whatever became of its evidence, and reported.
ProcessSave ==
  /\ setup.host = "process" /\ pc = "save"
  /\ journal' = Append(journal, Head(unfiled)) /\ pc' = "report"
  /\ UNCHANGED <<olderOnly, frameVars, faults, view, procVars, unfiled, olderVars>>

\* The queue is shared with the status rows and the other cameras: a report that
\* finds it full for a second is given up, and nobody is told (_put_report).
ProcessReport ==
  /\ setup.host = "process" /\ pc = "report" /\ unfiled' = Tail(unfiled)
  /\ \/ /\ reports' = Append(reports, [type |-> "speed_event", event |-> Head(unfiled)])
        /\ UNCHANGED forgone
     \/ forgone' = forgone + 1 /\ UNCHANGED reports
  /\ pc' = IF unfiled' = <<>> THEN "get" ELSE "save"
  /\ UNCHANGED <<olderOnly, frameVars, faults, view, procVars, journal, filedRows, orch>>

\* The process leaves its loop: the end of the source, or the signal; it may
\* also fail, at the journal too.
ProcessLeave ==
  /\ setup.host = "process"
  /\ \/ pc = "get" /\ (n = MaxFrames \/ orch = "term") /\ pc' = "ended" /\ UNCHANGED faults
     \/ pc \in {"get", "save"} /\ Fault /\ pc' = "failed"
  /\ UNCHANGED <<olderOnly, frameVars, view, procVars, unfiled, journal, olderVars>>

\* A process that has not left 5 s after the signal is killed, wherever it is: what
\* it was about to report is lost, and what its feeder thread had not yet sent.
ProcessKilled ==
  /\ setup.host = "process" /\ orch = "term" /\ pc \notin Ended /\ pc' = "killed"
  /\ \E sent \in 0 .. Len(reports) :
       /\ reports' = SubSeq(reports, 1, sent)
       /\ forgone' = forgone + (Len(reports) - sent) + (IF pc = "report" THEN 1 ELSE 0)
  /\ UNCHANGED <<olderOnly, frameVars, faults, view, procVars, unfiled, journal, filedRows, orch>>

\* The orchestrator: all have ended, one has failed, or it is told to stop.
OrchestratorStop ==
  /\ setup.host = "process" /\ orch = "run"
  /\ \/ pc \in Ended /\ UNCHANGED faults
     \/ Fault
  /\ orch' = "term"
  /\ UNCHANGED <<olderOnly, frameVars, pc, view, procVars, unfiled, journal, reports, filedRows,
                 forgone>>

\* Mutant: the reporter is told before the cameras have ended.
OrchestratorTellEarly ==
  /\ orch = "term"
  /\ reports' = Append(reports, [type |-> "stop"]) /\ orch' = "told"
  /\ UNCHANGED <<olderOnly, frameVars, faults, pc, view, procVars, unfiled, journal, filedRows,
                 forgone>>

\* The cameras have been joined, then the reporter is told; not when the queue
\* stays full for 2 s.
OrchestratorTell ==
  /\ orch = "term" /\ pc \in Ended
  /\ \/ reports' = Append(reports, [type |-> "stop"]) /\ orch' = "told"
     \/ orch' = "silent" /\ UNCHANGED reports
  /\ UNCHANGED <<olderOnly, frameVars, faults, pc, view, procVars, unfiled, journal, filedRows,
                 forgone>>

\* A reporter that has not left 5 s later is terminated: the rows it has not
\* flushed and the reports it has not read are lost.
ReporterTerminated ==
  /\ orch \in {"told", "silent"} /\ orch' = "over"
  /\ reports' = <<>>
  /\ forgone' = forgone + Len(reports) - (IF orch = "told" THEN 1 ELSE 0)
  /\ UNCHANGED <<olderOnly, frameVars, faults, pc, view, procVars, unfiled, journal, filedRows>>

\* reporter_main: messages are written and flushed in order until it is told to
\* stop; one that is read and not yet flushed counts as still in the queue.
ReporterWrite ==
  /\ reports # <<>> /\ orch # "over"
  /\ reports' = Tail(reports)
  /\ IF Head(reports).type = "stop" THEN orch' = "over" /\ UNCHANGED filedRows
     ELSE filedRows' = Append(filedRows, Head(reports).event) /\ UNCHANGED orch
  /\ UNCHANGED <<olderOnly, frameVars, faults, pc, view, procVars, unfiled, journal, forgone>>

\* run_speed: one program, one loop, nobody else.
SingleFrame ==
  /\ setup.host = "single" /\ pc = "get" /\ n < MaxFrames
  /\ Observe(n + 1) /\ pc' = "track"
  /\ UNCHANGED <<olderOnly, faults, tracks, nextTrack, est, dec, unfiled, journal, olderVars>>

SingleTrack ==
  /\ setup.host = "single" /\ pc = "track" /\ Track(view.seen)
  /\ UNCHANGED <<olderOnly, frameVars, faults, view, gate, journal, olderVars>>

SingleSave ==
  /\ setup.host = "single" /\ pc = "save"
  /\ journal' = journal \o unfiled /\ unfiled' = <<>> /\ pc' = "get"
  /\ UNCHANGED <<olderOnly, frameVars, faults, view, procVars, olderVars>>

-----------------------------------------------------------------------------
(* What the programs promise. *)

Written == IF Service THEN [i \in DOMAIN outbox |-> outbox[i].event] ELSE journal

\* A program that skips frames between the looks while a gate may shut out others.
Skips == setup.motion /\ setup.stride > 1

\* One passage of a file is reported once, whatever is missed, however long the
\* measured speed is repeated: EmitFrames, ConfirmFrames and Cooldown fit.  A
\* gate with a stride reports it again only when it has been shut in between.
PassageReportedOnce ==
  setup.file /\ setup.mode # "pixel_scale" =>
    \A i, j \in DOMAIN Written :
      i < j /\ Written[i].pass = Written[j].pass => Skips /\ Written[i].n < Written[j].shut

\* The speed is repeated so that the confirmation does not miss the report: in
\* a file, when a passage that is too fast is no longer repeated, and its track
\* was never lost, it has been reported.
ConfirmedIsReported ==
  setup.file /\ pc = "get" /\ setup.mode # "pixel_scale" =>
    \A t \in tracks : LET id == t.id IN
      /\ id \in DOMAIN est
      /\ est[id].stage = "done" /\ ~Within(est[id], Last(t.hist).f)
      /\ Measured(est[id]).valid /\ TooFast(Measured(est[id]))
      => dec[id].reported

\* The rows of one are among those of the other, in the same order.
InOrder(rows, all) == \E at \in [DOMAIN rows -> DOMAIN all] :
  \A i, j \in DOMAIN rows : rows[i] = all[at[i]] /\ (i < j => at[i] < at[j])

\* What a consumer has written to the compatibility file is in the outbox.  The
\* file of the older reporter has the violations of the camera process in their
\* order, none twice, and when the reporter has ended every one that is missing
\* was given up by a full queue, a kill or the end of the reporter itself: the
\* cameras are joined before it is told to stop.
NothingUnreported ==
  /\ Service => \A i \in DOMAIN journal : \E k \in DOMAIN outbox : outbox[k].event = journal[i]
  /\ InOrder(filedRows, journal)
  /\ orch = "over" => Len(filedRows) + forgone = Len(journal)

\* A consumer that waits for detections is answered, sheds the frame or ends,
\* whatever becomes of the service.
WaitEnds == pc = "wait" ~> pc # "wait"

-----------------------------------------------------------------------------
Consumer == \/ NotCalibrated \/ TakeFrame \/ LeaveLoop \/ Ask \/ Answer \/ WaitStopped \/ TrackOnly
            \/ SaveEvidence \/ Publish \/ WriteJournal
VehicleService == ServeTake \/ ServeInfer \/ ServeAnswer \/ ServePut
Parent == Withdraw \/ Fence \/ Kill \/ StopService \/ RestartService \/ Spawn
Older == \/ ProcessFrame \/ ProcessTrack \/ ProcessSave \/ ProcessReport \/ ProcessLeave
         \/ ProcessKilled \/ OrchestratorStop \/ OrchestratorTell
         \/ ReporterTerminated \/ ReporterWrite
         \/ SingleFrame \/ SingleTrack \/ SingleSave

SpeedNext == Consumer \/ VehicleService \/ Parent \/ Older

SpeedSpec ==
  /\ SpeedInit /\ [][SpeedNext]_speedVars
  /\ WF_speedVars(Consumer) /\ WF_speedVars(VehicleService)
  /\ WF_speedVars(Fence) /\ WF_speedVars(Kill)
  /\ WF_speedVars(server.pc = "dead" /\ Withdraw)

\* One passage, one report: not two when the speed is repeated, and not none when
\* it was confirmed (confirm_frames, cooldown_sec and emit_frames together).
EachReportedOnce == PassageReportedOnce /\ ConfirmedIsReported
=============================================================================
