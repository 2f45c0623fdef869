--------------------------- MODULE CameraIngest ---------------------------
(***************************************************************************)
(* The camera ingest process (pipeline_mp/camera_ingest.py): the only      *)
(* owner of a source.  It opens the source, numbers the decoded frames and *)
(* fans every frame out to bounded channels, in one of two ways:           *)
(*   - ordered: the put waits for room, whatever it takes, until a stop;   *)
(*   - latest:  a full channel loses its oldest entry to the new one.      *)
(* A file is sent to its consumers in order, a live camera is sent latest. *)
(*                                                                         *)
(* Two consumers are fed: Fight, whose channel is part of the state, and   *)
(* Speed, of which only the number of waiting entries matters here: an     *)
(* ordered frame that waits for room there holds the Fight consumer back   *)
(* as well.  The preview channel is always sent latest and never holds     *)
(* anything back, so it is left out.                                       *)
(***************************************************************************)
EXTENDS Naturals, Sequences

CONSTANTS Frames,          \* frames a file has
          LiveFrames,      \* frames of a live source that are looked at
          FightCapacity,   \* room of the Fight channel
          SpeedCapacity,   \* room of the Speed channel
          MaxFaults        \* opens, reads and inferences that may fail

ASSUME IngestAssumption == /\ Frames \in Nat /\ LiveFrames \in Nat /\ MaxFaults \in Nat
                           /\ FightCapacity \in Nat \ {0}
                           /\ SpeedCapacity \in Nat \ {0}

VARIABLES
  kind,       \* "FILE", "LIVE", or "ONCE": live with reconnecting disabled
  outputs,    \* the consumers that are fed; "direct": the worker reads itself
  stop,       \* the camera's stop event
  fightStop,  \* the stop event of the Fight consumer
  speedStop,  \* the stop event of the Speed consumer
  ipc,        \* where the ingest is
  word,       \* what it is sending: "frame", "eof" or "fatal_error"
  todo,       \* the channels that have not got it yet
  seq,        \* frame_seq: number of the last decoded frame
  fightQ,     \* the Fight channel
  speedN,     \* entries in the Speed channel
  eofEvent,   \* file_eof_event: the parent's evidence that the file ended
  faults      \* faults so far

ingestVars == <<kind, outputs, stop, fightStop, speedStop, ipc, word, todo, seq,
                fightQ, speedN, eofEvent, faults>>
settings == <<kind, outputs>>
stops == <<stop, fightStop, speedStop>>

\* The epoch of the consumer that is attached; its predecessor had one less.
Epoch == 2
Message(t) == [t |-> t, n |-> seq, epoch |-> Epoch]

Available == IF kind = "FILE" THEN Frames ELSE LiveFrames
Ordered == kind = "FILE"
FightFed == "fight" \in outputs /\ ~fightStop
SpeedFed == "speed" \in outputs /\ ~speedStop

-----------------------------------------------------------------------------
(* The publications.  Each gives the states the channel may be left in.    *)

\* publish_ordered: no room means waiting, a stop means giving up.
FightOrdered(m) ==
  (IF Len(fightQ) < FightCapacity THEN {Append(fightQ, m)} ELSE {})
    \cup (IF stop \/ fightStop THEN {fightQ} ELSE {})

\* publish_latest.  The channel is full by its count while its oldest entry
\* may not have left the feeder thread of the queue: then get_nowait finds
\* nothing to drop, and it is the new message that is lost.
FightLatest(m) ==
  IF Len(fightQ) < FightCapacity THEN {Append(fightQ, m)}
  ELSE {Append(Tail(fightQ), m), fightQ}

\* Mutant: a file is published as a live camera is.
FightAfterLatest(m, ordered) == IF FightFed THEN FightLatest(m) ELSE {fightQ}

\* Mutant: an ordered message that finds no room is given up.
FightAfterOnce(m, ordered) ==
  IF ~FightFed THEN {fightQ}
  ELSE IF ~ordered THEN FightLatest(m)
  ELSE IF Len(fightQ) < FightCapacity THEN {Append(fightQ, m)} ELSE {fightQ}

FightAfter(m, ordered) ==
  IF ~FightFed THEN {fightQ}
  ELSE IF ordered THEN FightOrdered(m) ELSE FightLatest(m)

\* publish_speed: the same two ways, counted.
SpeedAfter(ordered) ==
  IF ~SpeedFed THEN {speedN}
  ELSE IF speedN < SpeedCapacity THEN {speedN + 1}
  ELSE IF ~ordered THEN {speedN}
  ELSE IF stop THEN {speedN} ELSE {}

-----------------------------------------------------------------------------
IngestInit ==
  /\ kind \in {"FILE", "LIVE", "ONCE"}
  /\ outputs \in {{"fight"}, {"fight", "speed"}, {"direct"}}
  /\ stop = FALSE /\ fightStop = FALSE /\ speedStop = FALSE
  /\ ipc = IF "direct" \in outputs THEN "done" ELSE "open"
  /\ word = "frame" /\ todo = <<>>
  /\ seq = 0 /\ speedN = 0 /\ eofEvent = FALSE /\ faults = 0

Fault == faults < MaxFaults /\ faults' = faults + 1

Route(first, second) == IF "speed" \in outputs THEN <<first, second>> ELSE <<"fight">>

\* The outcome "fatal_error" is told to Speed first, then to Fight.
TellFatal == ipc' = "send" /\ word' = "fatal_error" /\ todo' = Route("speed", "fight")

\* End of a file: the parent's event first, then the signals.
TellEof == /\ ipc' = "send" /\ word' = "eof" /\ todo' = Route("fight", "speed")
           /\ eofEvent' = TRUE

\* The except branch: a file and a camera without reconnecting end here.
Raise == /\ Fault
         /\ IF kind = "LIVE" THEN ipc' = "backoff" /\ UNCHANGED <<word, todo>>
            ELSE TellFatal

OpenSource ==
  /\ ipc = "open" /\ ~stop
  /\ \/ ipc' = "read" /\ UNCHANGED <<word, todo, faults>>
     \/ Raise
  /\ UNCHANGED <<settings, stops, seq, fightQ, speedN, eofEvent>>

\* capture.read() delivers the next frame.
ReadFrame ==
  /\ ipc = "read" /\ ~stop /\ seq < Available
  /\ seq' = seq + 1
  /\ ipc' = "send" /\ word' = "frame" /\ todo' = Route("fight", "speed")
  /\ UNCHANGED <<settings, stops, fightQ, speedN, eofEvent, faults>>

\* Nothing was read.  For a file this is its end, wherever it happens: a file
\* that is cut short ends early.  A live source is opened again.
ReadNothing ==
  /\ ipc = "read" /\ ~stop
  /\ kind = "FILE" /\ seq < Frames => faults < MaxFaults
  /\ kind # "FILE" => faults < MaxFaults
  /\ faults' = IF kind = "FILE" /\ seq = Frames THEN faults ELSE faults + 1
  /\ CASE kind = "FILE" -> TellEof
       [] kind = "LIVE" -> ipc' = "backoff" /\ UNCHANGED <<word, todo, eofEvent>>
       [] kind = "ONCE" -> TellFatal /\ UNCHANGED eofEvent
  /\ UNCHANGED <<settings, stops, seq, fightQ, speedN>>

\* Decoding raises.
ReadRaises ==
  /\ ipc = "read" /\ ~stop
  /\ Raise
  /\ UNCHANGED <<settings, stops, seq, fightQ, speedN, eofEvent>>

\* One channel has got the message.  After the last, a frame is followed by the
\* next read, and a final signal by the end of the process.
Delivered ==
  /\ todo' = Tail(todo)
  /\ ipc' = IF Len(todo) > 1 THEN "send" ELSE IF word = "frame" THEN "read" ELSE "done"

\* What a file sends is ordered, its signals as well; a live source's is latest.
SendFight ==
  /\ ipc = "send" /\ Head(todo) = "fight"
  /\ fightQ' \in FightAfter(Message(word), Ordered)
  /\ Delivered
  /\ UNCHANGED <<settings, stops, word, seq, speedN, eofEvent, faults>>

SendSpeed ==
  /\ ipc = "send" /\ Head(todo) = "speed"
  /\ speedN' \in SpeedAfter(Ordered)
  /\ Delivered
  /\ UNCHANGED <<settings, stops, word, seq, fightQ, eofEvent, faults>>

\* stop_event.wait(reconnect_delay), then the source is opened again.
Reconnect ==
  /\ ipc = "backoff" /\ ipc' = "open"
  /\ UNCHANGED <<settings, stops, word, todo, seq, fightQ, speedN, eofEvent, faults>>

\* The stop is seen between two reads or before an open.  The consumer is told
\* "stopping" in the latest way, for a file too.
IngestStops ==
  /\ ipc \in {"open", "read"} /\ stop
  /\ fightQ' \in FightAfter(Message("stopping"), FALSE)
  /\ ipc' = "done"
  /\ UNCHANGED <<settings, stops, word, todo, seq, speedN, eofEvent, faults>>

IngestStep == \/ OpenSource \/ ReadFrame \/ ReadNothing \/ ReadRaises
              \/ SendFight \/ SendSpeed \/ Reconnect \/ IngestStops

\* The Speed consumer takes an entry, or is stopped and takes no more.
SpeedTakes ==
  /\ speedN > 0 /\ ~speedStop
  /\ speedN' = speedN - 1
  /\ UNCHANGED <<settings, stops, ipc, word, todo, seq, fightQ, eofEvent, faults>>

\* The parent sets the stop events one after the other, or only a consumer's.
AskStop ==
  /\ \/ ~stop /\ stop' = TRUE /\ UNCHANGED <<fightStop, speedStop>>
     \/ ~fightStop /\ fightStop' = TRUE /\ UNCHANGED <<stop, speedStop>>
     \/ "speed" \in outputs /\ ~speedStop /\ speedStop' = TRUE
        /\ UNCHANGED <<stop, fightStop>>
  /\ UNCHANGED <<settings, ipc, word, todo, seq, fightQ, speedN, eofEvent, faults>>
=============================================================================
