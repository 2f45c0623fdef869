--------------------------- MODULE AdmissionQueue ---------------------------
(***************************************************************************)
(* FairRequestQueue (fight/pipeline_mp/scheduling.py) with the shared       *)
(* inference worker that consumes it (person_worker.py, batching.py).       *)
(*                                                                          *)
(* One bounded multiprocessing queue per camera slot.  A put counts the     *)
(* request as outstanding BEFORE it publishes it; a published request sits  *)
(* in the feeder buffer of the sending process until its feeder thread      *)
(* writes it to the pipe; the worker scans the pipes round-robin and        *)
(* acknowledges with task_done.  The parent sends the end sentinel (None)   *)
(* through slot 0, and the worker may see it before requests that were      *)
(* admitted earlier: get() holds it back until the accounting shows that    *)
(* every admitted request was handed out.                                   *)
(***************************************************************************)
EXTENDS Integers, Sequences, FiniteSets, SequencesExt

CONSTANTS
    SlotCount,         \* slot_count: admission channels of the queue
    PendingPerCamera,  \* pending_per_camera: bound of each channel
    BatchSize,         \* size limit of collect_request_batch (1: no batching)
    Ordered,           \* the slots whose camera is an ordered FILE source
    MaxRequests,       \* bound: requests one camera makes
    MaxKills           \* bound: camera processes that die

ASSUME AdmissionAssumption ==
    /\ SlotCount \in Nat \ {0}
    /\ PendingPerCamera \in Nat \ {0}
    /\ BatchSize \in Nat \ {0}
    /\ Ordered \subseteq 0 .. SlotCount - 1
    /\ MaxRequests \in Nat
    /\ MaxKills \in Nat

Slots   == 0 .. SlotCount - 1
Owner   == SlotCount              \* the parent process, sender of the sentinel
Senders == 0 .. SlotCount
None    == 0                      \* the sentinel; requests are numbered from 1
Channel(p) == IF p = Owner THEN 0 ELSE p

VARIABLES
    pc,          \* sender: "idle", "counted" (inside put), "done", "failed"
    next,        \* camera: number of its next request
    feeder,      \* sender: items published but not yet written to the pipe
    pipe,        \* slot: items the worker can read
    held,        \* slot: units of the channel's bound that are taken
    outstanding, \* slot: the shared accounting array
    cursor, scan, acks, sentinel,  \* the worker's view: _cursor, position of
                                   \* the running scan, _acks, _sentinel
    mode,        \* worker: "first", "collect", "filter", "ack", "stopped"
    todo, active, gotNone,         \* the worker's batch
    closing,     \* the parent asked for the end
    kills,
    lost,        \* history, slot: units counted by a process that died
    admitted, served, passed       \* history, slot: requests accepted by put,
                                   \* requests handed out, and how often others
                                   \* were served while this slot was waiting

senderVars == <<pc, next, feeder, closing, kills, lost, admitted>>
workerVars == <<cursor, scan, acks, sentinel, mode, todo, active, gotNone>>
vars == <<senderVars, workerVars, pipe, held, outstanding, served, passed>>

Init ==
    /\ pc = [p \in Senders |-> "idle"]
    /\ next = [s \in Slots |-> 1]
    /\ feeder = [p \in Senders |-> <<>>]
    /\ pipe = [s \in Slots |-> <<>>]
    /\ held = [s \in Slots |-> 0]
    /\ outstanding = [s \in Slots |-> 0]
    /\ cursor = 0 /\ scan = 0 /\ acks = <<>> /\ sentinel = FALSE
    /\ mode = "first" /\ todo = 0 /\ active = 0 /\ gotNone = FALSE
    /\ closing = FALSE /\ kills = 0
    /\ lost = [s \in Slots |-> 0]
    /\ admitted = [s \in Slots |-> <<>>]
    /\ served = [s \in Slots |-> <<>>]
    /\ passed = [s \in Slots |-> 0]

-----------------------------------------------------------------------------
(* Senders: put() as called by admit() and by _finalize().                 *)

\* The accounting comes first, under the lock, before the blocking put.
PutCount(p) ==
    /\ pc[p] = "idle"
    /\ IF p = Owner THEN closing ELSE ~closing /\ next[p] <= MaxRequests
    /\ outstanding' = [outstanding EXCEPT ![Channel(p)] = @ + 1]
    /\ pc' = [pc EXCEPT ![p] = "counted"]
    /\ UNCHANGED <<next, feeder, closing, kills, lost, admitted, workerVars,
                   pipe, held, served, passed>>

\* The channel has room: the item goes to this process's feeder buffer.
PutPublish(p) ==
    /\ pc[p] = "counted"
    /\ held[Channel(p)] < PendingPerCamera
    /\ held' = [held EXCEPT ![Channel(p)] = @ + 1]
    /\ IF p = Owner
       THEN /\ feeder' = [feeder EXCEPT ![p] = Append(@, None)]
            /\ pc' = [pc EXCEPT ![p] = "done"]
            /\ UNCHANGED <<next, admitted>>
       ELSE /\ feeder' = [feeder EXCEPT ![p] = Append(@, next[p])]
            /\ pc' = [pc EXCEPT ![p] = "idle"]
            /\ next' = [next EXCEPT ![p] = @ + 1]
            /\ admitted' = [admitted EXCEPT ![p] = Append(@, next[p])]
    /\ UNCHANGED <<closing, kills, lost, workerVars, pipe, outstanding, served, passed>>

\* Mutant: a rejected put leaves its count behind.
PutRejectKeepsCount(p) ==
    /\ pc[p] = "counted"
    /\ held[Channel(p)] = PendingPerCamera
    /\ pc' = [pc EXCEPT ![p] = IF p = Owner THEN "failed" ELSE "idle"]
    /\ next' = IF p \in Slots \ Ordered THEN [next EXCEPT ![p] = @ + 1] ELSE next
    /\ UNCHANGED <<feeder, closing, kills, lost, admitted, workerVars, pipe, held,
                   outstanding, served, passed>>

\* Mutant: admit() sheds the request of an ordered FILE as well.
PutRejectShedsFile(p) ==
    /\ pc[p] = "counted"
    /\ held[Channel(p)] = PendingPerCamera
    /\ outstanding' = [outstanding EXCEPT ![Channel(p)] = @ - 1]
    /\ pc' = [pc EXCEPT ![p] = IF p = Owner THEN "failed" ELSE "idle"]
    /\ next' = IF p \in Slots THEN [next EXCEPT ![p] = @ + 1] ELSE next
    /\ UNCHANGED <<feeder, closing, kills, lost, admitted, workerVars, pipe, held,
                   served, passed>>

\* queue.Full after the timeout: the count is taken back.  admit() retries the
\* request of an ordered FILE and sheds the request of a LIVE camera;
\* _finalize() gives up and leaves the end to the forced fallback.
PutReject(p) ==
    /\ pc[p] = "counted"
    /\ held[Channel(p)] = PendingPerCamera
    /\ outstanding' = [outstanding EXCEPT ![Channel(p)] = @ - 1]
    /\ pc' = [pc EXCEPT ![p] = IF p = Owner THEN "failed" ELSE "idle"]
    /\ next' = IF p \in Slots \ Ordered THEN [next EXCEPT ![p] = @ + 1] ELSE next
    /\ UNCHANGED <<feeder, closing, kills, lost, admitted, workerVars, pipe, held,
                   served, passed>>

\* The feeder thread of a process writes its oldest item to the pipe.
Feed(p) ==
    /\ feeder[p] # <<>>
    /\ feeder' = [feeder EXCEPT ![p] = Tail(@)]
    /\ pipe' = [pipe EXCEPT ![Channel(p)] = Append(@, Head(feeder[p]))]
    /\ UNCHANGED <<pc, next, closing, kills, lost, admitted, workerVars, held,
                   outstanding, served, passed>>

\* A camera process dies: what it counted or buffered is gone, but the shared
\* count and the unit of the channel's bound stay taken.  Its replacement
\* starts with the next request.
Kill(p) ==
    /\ p # Owner
    /\ kills < MaxKills
    /\ pc[p] = "counted" \/ feeder[p] # <<>>
    /\ kills' = kills + 1
    /\ lost' = [lost EXCEPT ![p] =
                  @ + Len(feeder[p]) + (IF pc[p] = "counted" THEN 1 ELSE 0)]
    /\ admitted' = [admitted EXCEPT ![p] = SubSeq(@, 1, Len(@) - Len(feeder[p]))]
    /\ next' = [next EXCEPT ![p] = @ + (IF pc[p] = "counted" THEN 1 ELSE 0)]
    /\ feeder' = [feeder EXCEPT ![p] = <<>>]
    /\ pc' = [pc EXCEPT ![p] = "idle"]
    /\ UNCHANGED <<closing, workerVars, pipe, held, outstanding, served, passed>>

\* The parent begins the end once no camera is inside a put any more.
Close ==
    /\ ~closing
    /\ \A s \in Slots : pc[s] = "idle"
    /\ closing' = TRUE
    /\ UNCHANGED <<pc, next, feeder, kills, lost, admitted, workerVars, pipe, held,
                   outstanding, served, passed>>

-----------------------------------------------------------------------------
(* The worker: get() scans the pipes one after the other.                  *)

Getting   == mode \in {"first", "collect"}
ScanSlot  == (cursor + scan) % SlotCount
\* What the shared counts add up to: a unit for everything counted in a slot.
Units     == UNION {{s} \X (1 .. outstanding[s]) : s \in Slots}
\* Mutant: the sentinel is returned as soon as it is seen.
DrainedAlways == TRUE
\* Mutant: the sentinel's own count is forgotten.
DrainedOffByOne == Cardinality(Units) = Len(acks)
Drained   == Cardinality(Units) = Len(acks) + 1

ScanEmpty ==
    /\ Getting /\ scan < SlotCount
    /\ pipe[ScanSlot] = <<>>
    /\ scan' = scan + 1
    /\ UNCHANGED <<senderVars, cursor, acks, sentinel, mode, todo, active, gotNone,
                   pipe, held, outstanding, served, passed>>

\* Mutant: the scan starts again at the slot that was just served.
TakeFromSameSlot(s) ==
    /\ pipe' = [pipe EXCEPT ![s] = Tail(@)]
    /\ held' = [held EXCEPT ![s] = @ - 1]
    /\ cursor' = s

\* Reading an item gives its unit of the channel's bound back.
TakeFrom(s) ==
    /\ pipe' = [pipe EXCEPT ![s] = Tail(@)]
    /\ held' = [held EXCEPT ![s] = @ - 1]
    /\ cursor' = (s + 1) % SlotCount

\* Mutant: a stray sentinel discards what is behind it.
ScanSentinelClears ==
    /\ Getting /\ scan < SlotCount
    /\ pipe[ScanSlot] # <<>> /\ Head(pipe[ScanSlot]) = None
    /\ pipe' = [pipe EXCEPT ![ScanSlot] = <<>>]
    /\ held' = [held EXCEPT ![ScanSlot] = @ - 1]
    /\ cursor' = (ScanSlot + 1) % SlotCount
    /\ sentinel' = TRUE
    /\ scan' = scan + 1
    /\ passed' = [passed EXCEPT ![ScanSlot] = 0]
    /\ UNCHANGED <<senderVars, acks, mode, todo, active, gotNone, outstanding, served>>

ScanSentinel ==
    /\ Getting /\ scan < SlotCount
    /\ pipe[ScanSlot] # <<>> /\ Head(pipe[ScanSlot]) = None
    /\ TakeFrom(ScanSlot)
    /\ sentinel' = TRUE
    /\ scan' = scan + 1
    /\ passed' = [passed EXCEPT ![ScanSlot] = 0]
    /\ UNCHANGED <<senderVars, acks, mode, todo, active, gotNone, outstanding, served>>

Dispatch ==
    /\ Getting /\ scan < SlotCount
    /\ pipe[ScanSlot] # <<>> /\ Head(pipe[ScanSlot]) # None
    /\ LET s == ScanSlot IN
       /\ TakeFrom(s)
       /\ acks' = Append(acks, s)
       /\ served' = [served EXCEPT ![s] = Append(@, Head(pipe[s]))]
       /\ passed' = [t \in Slots |-> IF t = s \/ pipe[t] = <<>> THEN 0 ELSE passed[t] + 1]
    /\ todo' = todo + 1
    /\ mode' = IF todo + 1 < BatchSize THEN "collect" ELSE "filter"
    /\ scan' = 0
    /\ UNCHANGED <<senderVars, sentinel, active, gotNone, outstanding>>

\* Nothing was found.  The sentinel is returned only when everything counted
\* was handed out; otherwise get() goes on (or raises Empty, and is called
\* again).
EndScan ==
    /\ Getting /\ scan = SlotCount
    /\ scan' = 0
    /\ IF sentinel /\ Drained
       THEN /\ sentinel' = FALSE
            /\ acks' = Append(acks, 0)
            /\ gotNone' = TRUE
            /\ mode' = "filter"
       ELSE UNCHANGED <<sentinel, acks, gotNone, mode>>
    /\ UNCHANGED <<senderVars, cursor, todo, active, pipe, held, outstanding, served, passed>>

\* collect_request_batch stops at its deadline.
CollectTimeout ==
    /\ mode = "collect" /\ scan = 0
    /\ mode' = "filter"
    /\ UNCHANGED <<senderVars, cursor, scan, acks, sentinel, todo, active, gotNone,
                   pipe, held, outstanding, served, passed>>

\* task_done() acknowledges the OLDEST dispatch, whichever request finished.
TaskDone ==
    /\ acks' = Tail(acks)
    /\ outstanding' = [outstanding EXCEPT ![Head(acks)] = @ - 1]

\* Requests of a replaced generation, and LIVE requests that are too old, are
\* acknowledged before inference; the others stay in the batch.
FilterStale ==
    /\ mode = "filter" /\ todo > 0
    /\ TaskDone
    /\ todo' = todo - 1
    /\ UNCHANGED <<senderVars, cursor, scan, sentinel, mode, active, gotNone, pipe, held,
                   served, passed>>

\* Mutant: a request is acknowledged before its inference.
FilterKeepAcknowledges ==
    /\ mode = "filter" /\ todo > 0
    /\ TaskDone
    /\ todo' = todo - 1
    /\ active' = active + 1
    /\ UNCHANGED <<senderVars, cursor, scan, sentinel, mode, gotNone, pipe, held,
                   served, passed>>

FilterKeep ==
    /\ mode = "filter" /\ todo > 0
    /\ todo' = todo - 1
    /\ active' = active + 1
    /\ UNCHANGED <<senderVars, cursor, scan, acks, sentinel, mode, gotNone, pipe, held,
                   outstanding, served, passed>>

Infer ==
    /\ mode = "filter" /\ todo = 0
    /\ mode' = "ack"
    /\ UNCHANGED <<senderVars, cursor, scan, acks, sentinel, todo, active, gotNone, pipe, held,
                   outstanding, served, passed>>

AckBatch ==
    /\ mode = "ack" /\ active > 0
    /\ TaskDone
    /\ active' = active - 1
    /\ UNCHANGED <<senderVars, cursor, scan, sentinel, mode, todo, gotNone, pipe, held,
                   served, passed>>

\* The end of one round of the worker's loop; after the sentinel it leaves.
FinishBatch ==
    /\ mode = "ack" /\ active = 0
    /\ IF gotNone
       THEN TaskDone /\ gotNone' = FALSE /\ mode' = "stopped"
       ELSE mode' = "first" /\ UNCHANGED <<acks, outstanding, gotNone>>
    /\ UNCHANGED <<senderVars, cursor, scan, sentinel, todo, active, pipe, held, served, passed>>

Worker ==
    \/ ScanEmpty \/ ScanSentinel \/ Dispatch \/ EndScan \/ CollectTimeout
    \/ FilterStale \/ FilterKeep \/ Infer \/ AckBatch \/ FinishBatch

Next ==
    \/ \E p \in Senders : PutCount(p) \/ PutPublish(p) \/ PutReject(p) \/ Feed(p) \/ Kill(p)
    \/ Close
    \/ Worker

Spec == Init /\ [][Next]_vars

\* The worker and the feeder threads run on their own; a put returns within its
\* timeout either way.  Nothing forces cameras to ask or the parent to close.
Fairness ==
    /\ WF_vars(Worker)
    /\ \A p \in Senders : WF_vars(Feed(p)) /\ WF_vars(PutPublish(p) \/ PutReject(p))
    /\ WF_vars(PutCount(Owner))

FairSpec == Spec /\ Fairness

-----------------------------------------------------------------------------
TypeOK ==
    /\ pc \in [Senders -> {"idle", "counted", "done", "failed"}]
    /\ next \in [Slots -> 1 .. MaxRequests + 1]
    /\ feeder \in [Senders -> Seq(0 .. MaxRequests)]
    /\ pipe \in [Slots -> Seq(0 .. MaxRequests)]
    /\ held \in [Slots -> 0 .. PendingPerCamera]
    /\ outstanding \in [Slots -> Nat]
    /\ cursor \in Slots /\ scan \in 0 .. SlotCount
    /\ acks \in Seq(Slots) /\ sentinel \in BOOLEAN
    /\ mode \in {"first", "collect", "filter", "ack", "stopped"}
    /\ todo \in 0 .. BatchSize /\ active \in 0 .. BatchSize /\ gotNone \in BOOLEAN
    /\ closing \in BOOLEAN /\ kills \in 0 .. MaxKills
    /\ lost \in [Slots -> Nat]

Inside(p)    == IF pc[p] = "counted" THEN 1 ELSE 0
CountedOn(s) == Inside(s) + (IF s = 0 THEN Inside(Owner) ELSE 0)
FeedingOn(s) == Len(feeder[s]) + (IF s = 0 THEN Len(feeder[Owner]) ELSE 0)
UnackedOn(s) == Cardinality({i \in DOMAIN acks : acks[i] = s})

\* The accounting is exact, slot by slot: what outstanding[s] counts is the
\* puts in progress, the items in feeders and pipes, the dispatches not yet
\* acknowledged, a sentinel that get() holds back, and what died with a camera.
\* task_done pops acknowledgements in dispatch order, not in the order in which
\* the worker finishes requests, and the counts must survive that.
OutstandingExact ==
    \A s \in Slots :
        outstanding[s] = CountedOn(s) + FeedingOn(s) + Len(pipe[s]) + UnackedOn(s)
                         + (IF s = 0 /\ sentinel THEN 1 ELSE 0) + lost[s]

\* empty() tells the idle withdrawal of the service that nothing is queued, in
\* a feeder, inside put() or in the worker's batch: it must never say so early.
EmptyMeansQuiescent ==
    (\A s \in Slots : outstanding[s] = 0) =>
        /\ \A p \in Senders : pc[p] # "counted" /\ feeder[p] = <<>>
        /\ \A s \in Slots : pipe[s] = <<>>
        /\ todo = 0 /\ active = 0 /\ ~gotNone /\ ~sentinel

\* A channel without the sentinel, which is in it once at most.
Requests(q) ==
    IF \E i \in DOMAIN q : q[i] = None
    THEN RemoveAt(q, CHOOSE i \in DOMAIN q : q[i] = None) ELSE q

\* Requests of a slot are handed out in the order in which they were admitted,
\* none twice and none skipped, whatever the sentinel and other slots do.
InAdmissionOrder ==
    \A s \in Slots :
        served[s] \o Requests(pipe[s]) \o feeder[s] = admitted[s]

\* An ordered FILE camera never loses a request to a full channel: what was
\* admitted has no gap (unless its process died).
FileNeverShed ==
    kills = 0 => \A s \in Ordered : admitted[s] = [i \in 1 .. Len(admitted[s]) |-> i]

\* Round-robin: a slot with a readable item is passed over at most once by each
\* other slot before it is served.  When the sentinel is read the scan goes on by
\* its step from a cursor that has moved, and leaves slots out: then a slot may
\* wait for a second round, and for no more.
RoundRobinBound ==
    \A s \in Slots : passed[s] < (IF closing THEN 2 ELSE 1) * SlotCount

\* get() returns the sentinel only after every admitted request was handed out:
\* none is left in a pipe or in a feeder of any slot.
SentinelLast ==
    [][gotNone' /\ ~gotNone =>
          /\ \A s \in Slots : pipe[s] = <<>>
          /\ \A p \in Senders : feeder[p] = <<>> /\ pc[p] # "counted"]_vars

\* Once the parent asked for the end, the worker leaves, or the sentinel could
\* not be sent at all (the parent then falls back to termination).
WorkerLeaves == closing ~> (mode = "stopped" \/ pc[Owner] = "failed" \/ kills > 0)

\* What empty() and the end of the worker rest on: the counts are exact, and the
\* worker is never called idle while a request is on its way.
Accounting == OutstandingExact /\ EmptyMeansQuiescent

\* No request overtakes another of its slot, none is handed out twice, none of a file
\* is shed, and no slot waits for more than a round of the others.
FairAndInOrder == InAdmissionOrder /\ FileNeverShed /\ RoundRobinBound
=============================================================================
