------------------------ MODULE AdmissionQueueProofs ------------------------
(***************************************************************************)
(* Two things that share nothing but lemmas about sequences.  First the     *)
(* accounting, the order and the end of FairRequestQueue, for any number of *)
(* cameras, any bounds and any requests.  Then, from "the static runtime"   *)
(* on, what the four older programs of ClassicPipelines say they have done, *)
(* for any set-up of theirs.                                                *)
(***************************************************************************)
EXTENDS AdmissionQueue, ClassicPipelines, SequenceCounting

NoneIn(q)  == \E i \in DOMAIN q : q[i] = None
OneNone(q) == \A i, j \in DOMAIN q : q[i] = None /\ q[j] = None => i = j

(***************************************************************************)
(* The invariant, part by part.  The types of what the senders, the         *)
(* channels and the worker keep come with what a place in the code says     *)
(* about the rest.                                                          *)
(***************************************************************************)
FlagInv == sentinel \in BOOLEAN /\ gotNone \in BOOLEAN /\ closing \in BOOLEAN

SenderInv ==
    /\ pc \in [Senders -> {"idle", "counted", "done", "failed"}]
    /\ \A s \in Slots : pc[s] \in {"idle", "counted"}
    /\ next \in [Slots -> 1 .. MaxRequests + 1]
    /\ \A s \in Slots : pc[s] = "counted" => next[s] <= MaxRequests
    /\ kills \in 0 .. MaxKills

CloseInv ==
    /\ pc[Owner] # "idle" => closing
    /\ closing => \A s \in Slots : pc[s] = "idle"

FeederInv ==
    /\ feeder \in [Senders -> Seq(0 .. MaxRequests)]
    /\ \A s \in Slots : feeder[s] \in Seq(1 .. MaxRequests)

PipeInv == pipe \in [Slots -> Seq(0 .. MaxRequests)]

CountInv == outstanding \in [Slots -> Nat] /\ lost \in [Slots -> Nat]

HistoryInv ==
    /\ admitted \in [Slots -> Seq(Nat)] /\ served \in [Slots -> Seq(Nat)]
    /\ passed \in [Slots -> Nat]

\* Nothing is in a channel without its unit of the bound.
CapacityInv ==
    /\ held \in [Slots -> 0 .. PendingPerCamera]
    /\ \A s \in Slots : Len(pipe[s]) + FeedingOn(s) <= held[s]

ScanInv == cursor \in Slots /\ scan \in 0 .. SlotCount

\* The worker's batch: what it has been given and not acknowledged.
BatchInv ==
    /\ acks \in Seq(Slots)
    /\ mode \in {"first", "collect", "filter", "ack", "stopped"}
    /\ todo \in 0 .. BatchSize /\ active \in 0 .. BatchSize
    /\ mode \in {"first", "ack", "stopped"} => todo = 0
    /\ mode = "collect" => todo < BatchSize
    /\ mode \in {"first", "collect", "stopped"} => active = 0 /\ ~gotNone
    /\ todo + active <= BatchSize
    /\ Len(acks) = todo + active + (IF gotNone THEN 1 ELSE 0)

\* The sentinel is in one place at most, and nowhere before it was sent.
Spent == sentinel \/ gotNone \/ mode = "stopped"
SentinelInv ==
    /\ \A s \in Slots \ {0} : ~NoneIn(pipe[s])
    /\ OneNone(pipe[0])
    /\ feeder[Owner] \in {<<>>, <<None>>}
    /\ NoneIn(pipe[0]) => feeder[Owner] = <<>> /\ ~Spent /\ pc[Owner] = "done"
    /\ feeder[Owner] # <<>> => ~Spent /\ pc[Owner] = "done"
    /\ Spent => pc[Owner] = "done"

\* The shared counts say where everything is.
AccountInv == CountInv /\ OutstandingExact

SafeInv ==
    /\ FlagInv /\ SenderInv /\ CloseInv /\ FeederInv /\ PipeInv /\ HistoryInv /\ CapacityInv
    /\ ScanInv /\ BatchInv /\ SentinelInv /\ AccountInv
-----------------------------------------------------------------------------
(* Round-robin arithmetic. *)

\* k slots on from slot c, once around at most.
After(c, k) == IF c + k < SlotCount THEN c + k ELSE c + k - SlotCount

LEMMA ModSmall == ASSUME NEW n \in Nat \ {0}, NEW x \in 0 .. n - 1 PROVE x % n = x
BY SMT

LEMMA ModNext == ASSUME NEW n \in Nat \ {0}, NEW x \in n .. 2 * n - 1 PROVE x % n = x - n
BY SMT

LEMMA AfterIsMod ==
    ASSUME NEW c \in Slots, NEW k \in 0 .. SlotCount
    PROVE  (c + k) % SlotCount = After(c, k) /\ After(c, k) \in Slots
<1> SlotCount \in Nat \ {0}
    BY AdmissionAssumption
<1>1. CASE c + k < SlotCount
    BY <1>1, ModSmall DEF Slots, After
<1>2. CASE c + k >= SlotCount
    BY <1>2, ModNext DEF Slots, After
<1> QED BY <1>1, <1>2 DEF Slots

LEMMA ScanSlotType ==
    ASSUME ScanInv, scan < SlotCount
    PROVE  ScanSlot = After(cursor, scan) /\ ScanSlot \in Slots
BY AfterIsMod, AdmissionAssumption DEF ScanInv, ScanSlot, Slots

LEMMA SenderType ==
    \A p \in Senders : Channel(p) \in Slots /\ (p # Owner <=> p \in Slots) /\ (p # Owner => Channel(p) = p)
BY AdmissionAssumption DEF Senders, Channel, Slots, Owner

LEMMA Places0 == 0 \in Slots /\ Owner \in Senders /\ Channel(Owner) = 0 /\ Owner \notin Slots /\ Slots \subseteq Senders
BY AdmissionAssumption DEF Senders, Channel, Slots, Owner
-----------------------------------------------------------------------------
(* The parts are inductive. *)

SenderNext(p) == PutCount(p) \/ PutPublish(p) \/ PutReject(p) \/ Feed(p) \/ Kill(p)

\* Who leaves whose variables alone.
LEMMA SendersKeepWorker == ASSUME NEW p \in Senders, SenderNext(p) \/ Close PROVE UNCHANGED <<workerVars, served, passed>>
BY DEF SenderNext, PutCount, PutPublish, PutReject, Feed, Kill, Close

LEMMA WorkerKeepsSenders == Worker => UNCHANGED senderVars
BY DEF Worker, ScanEmpty, ScanSentinel, Dispatch, EndScan, CollectTimeout, FilterStale, FilterKeep,
       Infer, AckBatch, FinishBatch

LEMMA NextIs == Next => (\E p \in Senders : SenderNext(p)) \/ Close \/ Worker
BY DEF Next, SenderNext

LEMMA FlagStep == FlagInv /\ [Next]_vars => FlagInv'
<1> SUFFICES ASSUME FlagInv, [Next]_vars PROVE FlagInv'
    OBVIOUS
<1> USE DEF FlagInv
<1>1. CASE UNCHANGED vars
    BY <1>1 DEF vars, workerVars, senderVars
<1>2. ASSUME NEW p \in Senders, SenderNext(p) PROVE FlagInv'
    BY <1>2 DEF SenderNext, PutCount, PutPublish, PutReject, Feed, Kill, workerVars
<1>3. CASE Close
    BY <1>3 DEF Close, workerVars
<1>4. CASE Worker
    BY <1>4 DEF Worker, ScanEmpty, ScanSentinel, Dispatch, EndScan, CollectTimeout, FilterStale,
                FilterKeep, Infer, AckBatch, FinishBatch, senderVars, workerVars
<1> QED BY <1>1, <1>2, <1>3, <1>4, NextIs

LEMMA SenderStep == SenderInv /\ [Next]_vars => SenderInv'
<1> SUFFICES ASSUME SenderInv, [Next]_vars PROVE SenderInv'
    OBVIOUS
<1> USE AdmissionAssumption, SenderType, Places0 DEF SenderInv
<1>1. CASE UNCHANGED <<pc, next, kills>>
    BY <1>1
<1>2. ASSUME NEW p \in Senders, PutCount(p) PROVE SenderInv'
    BY <1>2 DEF PutCount
<1>3. ASSUME NEW p \in Senders, PutPublish(p) PROVE SenderInv'
  <2>1. CASE p = Owner
      BY <1>3, <2>1 DEF PutPublish
  <2>2. CASE p # Owner
    <3>1. /\ pc' = [pc EXCEPT ![p] = "idle"]
          /\ next' = [next EXCEPT ![p] = next[p] + 1]
          /\ next[p] \in 1 .. MaxRequests /\ kills' = kills
        BY <1>3, <2>2 DEF PutPublish
    <3> QED BY <2>2, <3>1
  <2> QED BY <2>1, <2>2
<1>4. ASSUME NEW p \in Senders, PutReject(p) PROVE SenderInv'
    BY <1>4 DEF PutReject
<1>5. ASSUME NEW p \in Senders, Kill(p) PROVE SenderInv'
    BY <1>5 DEF Kill
<1>6. ASSUME NEW p \in Senders, Feed(p) PROVE SenderInv'
    BY <1>6, <1>1 DEF Feed
<1>7. CASE Close
    BY <1>7, <1>1 DEF Close
<1>8. CASE Worker
    BY <1>8, <1>1, WorkerKeepsSenders DEF senderVars
<1>9. CASE UNCHANGED vars
    BY <1>9, <1>1 DEF vars, senderVars
<1> QED BY <1>2, <1>3, <1>4, <1>5, <1>6, <1>7, <1>8, <1>9, NextIs DEF SenderNext

LEMMA CloseStep == SenderInv /\ CloseInv /\ [Next]_vars => CloseInv'
<1> SUFFICES ASSUME SenderInv, CloseInv, [Next]_vars PROVE CloseInv'
    OBVIOUS
<1> USE AdmissionAssumption, SenderType, Places0 DEF CloseInv
<1>1. CASE UNCHANGED <<pc, closing>>
    BY <1>1
<1>2. ASSUME NEW p \in Senders, PutCount(p) PROVE CloseInv'
    BY <1>2 DEF PutCount, SenderInv
<1>3. ASSUME NEW p \in Senders, PutPublish(p) \/ PutReject(p) PROVE CloseInv'
    BY <1>3 DEF PutPublish, PutReject, SenderInv
<1>4. ASSUME NEW p \in Senders, Kill(p) PROVE CloseInv'
    BY <1>4 DEF Kill, SenderInv
<1>5. ASSUME NEW p \in Senders, Feed(p) PROVE CloseInv'
    BY <1>5, <1>1 DEF Feed
<1>6. CASE Close
    BY <1>6 DEF Close
<1>7. CASE Worker
    BY <1>7, <1>1, WorkerKeepsSenders DEF senderVars
<1>8. CASE UNCHANGED vars
    BY <1>8, <1>1 DEF vars, senderVars
<1> QED BY <1>2, <1>3, <1>4, <1>5, <1>6, <1>7, <1>8, NextIs DEF SenderNext

LEMMA FeederStep == SenderInv /\ FeederInv /\ [Next]_vars => FeederInv'
<1> SUFFICES ASSUME SenderInv, FeederInv, [Next]_vars PROVE FeederInv'
    OBVIOUS
<1> USE AdmissionAssumption, SenderType, Places0 DEF FeederInv
<1>1. CASE UNCHANGED feeder
    BY <1>1
<1>2. ASSUME NEW p \in Senders, PutPublish(p) PROVE FeederInv'
  <2>1. CASE p = Owner
    <3>1. Append(feeder[p], None) \in Seq(0 .. MaxRequests)
        BY AppendProperties DEF None
    <3> QED BY <1>2, <2>1, <3>1 DEF PutPublish
  <2>2. CASE p # Owner
    <3>1. next[p] \in 1 .. MaxRequests /\ next[p] \in 0 .. MaxRequests
        BY <1>2, <2>2 DEF PutPublish, SenderInv
    <3>2. /\ Append(feeder[p], next[p]) \in Seq(0 .. MaxRequests)
          /\ Append(feeder[p], next[p]) \in Seq(1 .. MaxRequests)
        BY <2>2, <3>1, AppendProperties
    <3> QED BY <1>2, <2>2, <3>2 DEF PutPublish
  <2> QED BY <2>1, <2>2
<1>3. ASSUME NEW p \in Senders, Feed(p) PROVE FeederInv'
  <2>1. /\ Tail(feeder[p]) \in Seq(0 .. MaxRequests)
        /\ p \in Slots => Tail(feeder[p]) \in Seq(1 .. MaxRequests)
      BY <1>3, HeadTailProperties DEF Feed
  <2> QED BY <1>3, <2>1 DEF Feed
<1>4. ASSUME NEW p \in Senders, Kill(p) PROVE FeederInv'
  <2>1. feeder' = [feeder EXCEPT ![p] = <<>>]
      BY <1>4 DEF Kill
  <2>2. <<>> \in Seq(0 .. MaxRequests) /\ <<>> \in Seq(1 .. MaxRequests)
      BY EmptySeq
  <2> QED BY <2>1, <2>2
<1>5. ASSUME NEW p \in Senders, PutCount(p) \/ PutReject(p) PROVE FeederInv'
    BY <1>5, <1>1 DEF PutCount, PutReject
<1>6. CASE Close
    BY <1>6, <1>1 DEF Close
<1>7. CASE Worker
    BY <1>7, <1>1, WorkerKeepsSenders DEF senderVars
<1>8. CASE UNCHANGED vars
    BY <1>8, <1>1 DEF vars, senderVars
<1> QED BY <1>2, <1>3, <1>4, <1>5, <1>6, <1>7, <1>8, NextIs DEF SenderNext

LEMMA ScanStep == ScanInv /\ [Next]_vars => ScanInv'
<1> SUFFICES ASSUME ScanInv, [Next]_vars PROVE ScanInv'
    OBVIOUS
<1> USE AdmissionAssumption, Places0
<1>1. CASE UNCHANGED <<cursor, scan>>
    BY <1>1 DEF ScanInv
<1>2. CASE ScanEmpty
    BY <1>2 DEF ScanEmpty, ScanInv
<1>3. CASE ScanSentinel \/ Dispatch
  <2>1. /\ cursor' = (ScanSlot + 1) % SlotCount /\ ScanSlot \in Slots
        /\ scan' = scan + 1 \/ scan' = 0
        /\ scan < SlotCount
      BY <1>3, ScanSlotType DEF ScanSentinel, Dispatch, TakeFrom
  <2>2. cursor' \in Slots
      BY <2>1, AfterIsMod
  <2> QED BY <2>1, <2>2 DEF ScanInv
<1>4. CASE EndScan
    BY <1>4 DEF EndScan, ScanInv
<1>5. CASE CollectTimeout \/ FilterStale \/ FilterKeep \/ Infer \/ AckBatch \/ FinishBatch
    BY <1>5, <1>1 DEF CollectTimeout, FilterStale, FilterKeep, Infer, AckBatch, FinishBatch
<1>6. ASSUME NEW p \in Senders, SenderNext(p) \/ Close PROVE ScanInv'
    BY <1>6, <1>1, SendersKeepWorker DEF workerVars
<1>7. CASE UNCHANGED vars
    BY <1>7, <1>1 DEF vars, workerVars
<1> QED BY <1>2, <1>3, <1>4, <1>5, <1>6, <1>7, NextIs DEF Worker

LEMMA PipeStep == FeederInv /\ PipeInv /\ ScanInv /\ [Next]_vars => PipeInv'
<1> SUFFICES ASSUME FeederInv, PipeInv, ScanInv, [Next]_vars PROVE PipeInv'
    OBVIOUS
<1> USE AdmissionAssumption, SenderType, Places0 DEF PipeInv
<1>1. CASE UNCHANGED pipe
    BY <1>1
<1>2. ASSUME NEW p \in Senders, Feed(p) PROVE PipeInv'
  <2>1. Head(feeder[p]) \in 0 .. MaxRequests /\ Channel(p) \in Slots
      BY <1>2, HeadTailProperties DEF Feed, FeederInv
  <2>2. Append(pipe[Channel(p)], Head(feeder[p])) \in Seq(0 .. MaxRequests)
      BY <2>1, AppendProperties
  <2> QED BY <1>2, <2>1, <2>2 DEF Feed
<1>3. CASE ScanSentinel \/ Dispatch
  <2>1. /\ pipe' = [pipe EXCEPT ![ScanSlot] = Tail(@)] /\ ScanSlot \in Slots
        /\ pipe[ScanSlot] # <<>>
      BY <1>3, ScanSlotType DEF ScanSentinel, Dispatch, TakeFrom
  <2>2. Tail(pipe[ScanSlot]) \in Seq(0 .. MaxRequests)
      BY <2>1, HeadTailProperties
  <2> QED BY <2>1, <2>2
<1>4. CASE ScanEmpty \/ EndScan \/ CollectTimeout \/ FilterStale \/ FilterKeep \/ Infer \/ AckBatch
           \/ FinishBatch
    BY <1>4, <1>1 DEF ScanEmpty, EndScan, CollectTimeout, FilterStale, FilterKeep, Infer, AckBatch, FinishBatch
<1>5. ASSUME NEW p \in Senders, PutCount(p) \/ PutPublish(p) \/ PutReject(p) \/ Kill(p) \/ Close PROVE PipeInv'
    BY <1>5, <1>1 DEF PutCount, PutPublish, PutReject, Kill, Close
<1>6. CASE UNCHANGED vars
    BY <1>6, <1>1 DEF vars
<1> QED BY <1>2, <1>3, <1>4, <1>5, <1>6, NextIs, Places0 DEF Worker, SenderNext

LEMMA BatchStep == FlagInv /\ ScanInv /\ BatchInv /\ [Next]_vars => BatchInv'
<1> SUFFICES ASSUME FlagInv, ScanInv, BatchInv, [Next]_vars PROVE BatchInv'
    OBVIOUS
<1> USE AdmissionAssumption, Places0 DEF BatchInv
<1>1. CASE UNCHANGED <<acks, mode, todo, active, gotNone>>
    BY <1>1
<1>2. CASE Dispatch
  <2>1. /\ acks' = Append(acks, ScanSlot) /\ ScanSlot \in Slots
        /\ gotNone' = gotNone /\ active' = active /\ todo' = todo + 1
        /\ mode \in {"first", "collect"}
        /\ mode' = IF todo + 1 < BatchSize THEN "collect" ELSE "filter"
      BY <1>2, ScanSlotType DEF Dispatch, Getting
  <2>2. Append(acks, ScanSlot) \in Seq(Slots) /\ Len(Append(acks, ScanSlot)) = Len(acks) + 1
      BY <2>1, AppendProperties
  <2>3. ~gotNone
      BY <2>1
  <2> QED BY <2>1, <2>2, <2>3
<1>3. CASE EndScan
  <2>1. CASE sentinel /\ Drained
    <3>1. /\ acks' = Append(acks, 0) /\ gotNone' = TRUE /\ mode' = "filter"
          /\ mode \in {"first", "collect"} /\ UNCHANGED <<todo, active>>
        BY <1>3, <2>1 DEF EndScan, Getting
    <3>2. Append(acks, 0) \in Seq(Slots) /\ Len(Append(acks, 0)) = Len(acks) + 1
        BY AppendProperties
    <3> QED BY <3>1, <3>2
  <2>2. CASE ~(sentinel /\ Drained)
      BY <1>1, <1>3, <2>2 DEF EndScan
  <2> QED BY <2>1, <2>2
<1>4. CASE CollectTimeout
    BY <1>4 DEF CollectTimeout
<1>5. ASSUME TaskDone, acks # <<>> PROVE acks' \in Seq(Slots) /\ Len(acks') = Len(acks) - 1
    BY <1>5, HeadTailProperties DEF TaskDone
<1>6. CASE FilterStale
  <2>1. Len(acks) > 0 /\ acks # <<>>
      BY <1>6 DEF FilterStale
  <2>2. TaskDone /\ todo' = todo - 1 /\ UNCHANGED <<mode, active, gotNone>> /\ mode = "filter" /\ todo > 0
      BY <1>6 DEF FilterStale
  <2> QED BY <1>5, <2>1, <2>2
<1>7. CASE FilterKeep
    BY <1>7 DEF FilterKeep
<1>8. CASE Infer
    BY <1>8 DEF Infer
<1>9. CASE AckBatch
  <2>1. Len(acks) > 0 /\ acks # <<>>
      BY <1>9 DEF AckBatch
  <2>2. TaskDone /\ active' = active - 1 /\ UNCHANGED <<mode, todo, gotNone>> /\ mode = "ack" /\ active > 0
      BY <1>9 DEF AckBatch
  <2> QED BY <1>5, <2>1, <2>2
<1>10. CASE FinishBatch
  <2>1. CASE gotNone
    <3>1. Len(acks) > 0 /\ acks # <<>>
        BY <2>1
    <3>2. TaskDone /\ ~gotNone' /\ mode' = "stopped" /\ UNCHANGED <<todo, active>> /\ mode = "ack" /\ active = 0
        BY <1>10, <2>1 DEF FinishBatch
    <3> QED BY <1>5, <2>1, <3>1, <3>2
  <2>2. CASE ~gotNone
      BY <1>10, <2>2 DEF FinishBatch
  <2> QED BY <2>1, <2>2
<1>11. CASE ScanEmpty \/ ScanSentinel
    BY <1>11, <1>1 DEF ScanEmpty, ScanSentinel
<1>12. ASSUME NEW p \in Senders, SenderNext(p) \/ Close PROVE BatchInv'
    BY <1>12, <1>1, SendersKeepWorker DEF workerVars
<1>13. CASE UNCHANGED vars
    BY <1>13, <1>1 DEF vars, workerVars
<1> QED BY <1>2, <1>3, <1>4, <1>6, <1>7, <1>8, <1>9, <1>10, <1>11, <1>12, <1>13, NextIs DEF Worker

LEMMA HistoryStep == SenderInv /\ FeederInv /\ PipeInv /\ ScanInv /\ HistoryInv /\ [Next]_vars => HistoryInv'
<1> SUFFICES ASSUME SenderInv, FeederInv, PipeInv, ScanInv, HistoryInv, [Next]_vars PROVE HistoryInv'
    OBVIOUS
<1> USE AdmissionAssumption, SenderType, Places0 DEF HistoryInv
<1>1. CASE UNCHANGED <<admitted, served, passed>>
    BY <1>1
<1>2. ASSUME NEW p \in Senders, PutPublish(p) PROVE HistoryInv'
  <2>1. CASE p # Owner
    <3>1. next[p] \in Nat
        BY <2>1 DEF SenderInv
    <3>2. Append(admitted[p], next[p]) \in Seq(Nat)
        BY <2>1, <3>1, AppendProperties
    <3> QED BY <1>2, <2>1, <3>2 DEF PutPublish
  <2>2. CASE p = Owner
      BY <1>1, <1>2, <2>2 DEF PutPublish
  <2> QED BY <2>1, <2>2
<1>3. ASSUME NEW p \in Senders, Kill(p) PROVE HistoryInv'
  <2>1. /\ p \in Slots /\ UNCHANGED <<served, passed>>
        /\ admitted' = [admitted EXCEPT ![p] = SubSeq(admitted[p], 1, Len(admitted[p]) - Len(feeder[p]))]
      BY <1>3 DEF Kill
  <2>2. /\ Len(admitted[p]) \in Nat /\ Len(feeder[p]) \in Nat
        /\ \A i \in 1 .. Len(admitted[p]) : admitted[p][i] \in Nat
      BY <2>1, ElementOfSeq, LenProperties DEF FeederInv
  <2>3. SubSeq(admitted[p], 1, Len(admitted[p]) - Len(feeder[p])) \in Seq(Nat)
      BY <2>2, SubSeqProperties
  <2> QED BY <2>1, <2>3
<1>4. CASE ScanSentinel
    BY <1>4, ScanSlotType DEF ScanSentinel, senderVars
<1>5. CASE Dispatch
  <2>1. /\ ScanSlot \in Slots /\ pipe[ScanSlot] # <<>> /\ UNCHANGED admitted
        /\ served' = [served EXCEPT ![ScanSlot] = Append(served[ScanSlot], Head(pipe[ScanSlot]))]
        /\ passed' = [t \in Slots |-> IF t = ScanSlot \/ pipe[t] = <<>> THEN 0 ELSE passed[t] + 1]
      BY <1>5, ScanSlotType DEF Dispatch, senderVars
  <2>2. Head(pipe[ScanSlot]) \in Nat
      BY <2>1, HeadTailProperties DEF PipeInv
  <2>3. Append(served[ScanSlot], Head(pipe[ScanSlot])) \in Seq(Nat)
      BY <2>1, <2>2, AppendProperties
  <2> QED BY <2>1, <2>3
<1>6. CASE ScanEmpty \/ EndScan \/ CollectTimeout \/ FilterStale \/ FilterKeep \/ Infer \/ AckBatch
           \/ FinishBatch
    BY <1>6, <1>1 DEF ScanEmpty, EndScan, CollectTimeout, FilterStale, FilterKeep, Infer, AckBatch,
                      FinishBatch, senderVars
<1>7. ASSUME NEW p \in Senders, PutCount(p) \/ PutReject(p) \/ Feed(p) \/ Close PROVE HistoryInv'
    BY <1>7, <1>1 DEF PutCount, PutReject, Feed, Close
<1>8. CASE UNCHANGED vars
    BY <1>8, <1>1 DEF vars, senderVars
<1> QED BY <1>2, <1>3, <1>4, <1>5, <1>6, <1>7, <1>8, NextIs DEF Worker, SenderNext
-----------------------------------------------------------------------------
(* The accounting. *)

\* What waits in the pipe of a slot, and the sentinel that get() holds back.
Waiting(s)  == Len(pipe[s])
Withheld(s) == IF s = 0 /\ sentinel THEN 1 ELSE 0
InPlace(s)  == CountedOn(s) + FeedingOn(s) + Waiting(s) + UnackedOn(s) + Withheld(s)

LEMMA ExactIs ==
    /\ OutstandingExact <=> \A s \in Slots : outstanding[s] = InPlace(s) + lost[s]
    /\ OutstandingExact' <=> \A s \in Slots : outstanding'[s] = InPlace(s)' + lost'[s]
BY DEF OutstandingExact, InPlace, Waiting, Withheld

LEMMA UnackedIsCount == \A s : UnackedOn(s) = CountIn(acks, {s})
BY DEF UnackedOn, CountIn, Places

\* A sender's variable counts in the slot of its channel and nowhere else.
LEMMA CountedStep ==
    ASSUME SenderInv, NEW p \in Senders, NEW v \in {"idle", "counted", "done", "failed"},
           pc' = [pc EXCEPT ![p] = v], NEW s \in Slots
    PROVE  CountedOn(s)' = CountedOn(s) + (IF s = Channel(p)
                                           THEN (IF v = "counted" THEN 1 ELSE 0) - Inside(p) ELSE 0)
BY AdmissionAssumption DEF SenderInv, CountedOn, Inside, Channel, Slots, Senders, Owner

LEMMA FeedingStep ==
    ASSUME FeederInv, NEW p \in Senders, NEW q \in Seq(0 .. MaxRequests),
           feeder' = [feeder EXCEPT ![p] = q], NEW s \in Slots
    PROVE  FeedingOn(s)' = FeedingOn(s) + (IF s = Channel(p) THEN Len(q) - Len(feeder[p]) ELSE 0)
<1>1. \A t \in Senders : \E n \in Nat : Len(feeder[t]) = n
    BY LenProperties DEF FeederInv
<1>2. PICK m \in Nat : Len(q) = m
    BY LenProperties
<1>3. /\ s \in Senders /\ Owner \in Senders /\ s # Owner
      /\ \A t \in Senders : feeder'[t] = IF t = p THEN q ELSE feeder[t]
    BY Places0 DEF FeederInv
<1>4. PICK a \in Nat : Len(feeder[s]) = a
    BY <1>1, <1>3
<1>5. PICK b \in Nat : Len(feeder[Owner]) = b
    BY <1>1, <1>3
<1>6. /\ Len(feeder'[s]) = IF s = p THEN m ELSE a
      /\ Len(feeder'[Owner]) = IF p = Owner THEN m ELSE b
    BY <1>2, <1>3, <1>4, <1>5
<1>7. s \in Nat /\ (Channel(p) = IF p = Owner THEN 0 ELSE p)
    BY AdmissionAssumption DEF Slots, Channel
<1>8. FeedingOn(s) = a + (IF s = 0 THEN b ELSE 0)
    BY <1>4, <1>5 DEF FeedingOn
<1>9. FeedingOn(s)' = (IF s = p THEN m ELSE a) + (IF s = 0 THEN (IF p = Owner THEN m ELSE b) ELSE 0)
    BY <1>6 DEF FeedingOn
<1>11. CASE s = Channel(p)
  <2>1. Len(feeder[p]) = IF p = s THEN a ELSE b
      BY <1>4, <1>5, <1>7, <1>11
  <2> QED BY <1>2, <1>3, <1>7, <1>8, <1>9, <1>11, <2>1
<1>12. CASE s # Channel(p)
    BY <1>3, <1>7, <1>8, <1>9, <1>12
<1> QED BY <1>11, <1>12

\* Every part of a slot's account is a number.
LEMMA PartsNat ==
    ASSUME FeederInv, PipeInv, BatchInv, NEW s \in Slots
    PROVE  /\ CountedOn(s) \in Nat /\ FeedingOn(s) \in Nat /\ Waiting(s) \in Nat
           /\ UnackedOn(s) \in Nat /\ Withheld(s) \in Nat /\ InPlace(s) \in Nat
<1>1. UnackedOn(s) \in Nat
    BY UnackedIsCount, CountType DEF BatchInv
<1>2. s \in Senders /\ Owner \in Senders
    BY Places0
<1>3. /\ \E n \in Nat : Len(feeder[s]) = n
      /\ \E n \in Nat : Len(feeder[Owner]) = n
      /\ Len(pipe[s]) \in Nat /\ s \in Nat
    BY <1>2, LenProperties, AdmissionAssumption DEF FeederInv, PipeInv, Slots
<1>4. FeedingOn(s) \in Nat
    BY <1>3 DEF FeedingOn
<1>5. CountedOn(s) \in Nat
    BY DEF CountedOn, Inside
<1>6. Waiting(s) \in Nat
    BY <1>3 DEF Waiting
<1>7. Withheld(s) \in Nat
    BY DEF Withheld
<1>8. InPlace(s) \in Nat
    BY <1>1, <1>4, <1>5, <1>6, <1>7 DEF InPlace
<1> QED BY <1>1, <1>4, <1>5, <1>6, <1>7, <1>8

LEMMA Frames ==
    /\ UNCHANGED pc => \A s : UNCHANGED CountedOn(s)
    /\ UNCHANGED feeder => \A s : UNCHANGED FeedingOn(s)
    /\ UNCHANGED acks => \A s : UNCHANGED UnackedOn(s)
    /\ UNCHANGED pipe => \A s : UNCHANGED Waiting(s)
    /\ UNCHANGED sentinel => \A s : UNCHANGED Withheld(s)
<1>1. UNCHANGED pc => \A s : UNCHANGED CountedOn(s)
    BY DEF CountedOn, Inside
<1>2. UNCHANGED feeder => \A s : UNCHANGED FeedingOn(s)
    BY DEF FeedingOn
<1>3. UNCHANGED acks => \A s : UNCHANGED UnackedOn(s)
    BY DEF UnackedOn
<1>4. UNCHANGED pipe => \A s : UNCHANGED Waiting(s)
    BY DEF Waiting
<1>5. UNCHANGED sentinel => \A s : UNCHANGED Withheld(s)
    BY DEF Withheld
<1> QED BY <1>1, <1>2, <1>3, <1>4, <1>5

\* A dispatch adds an unacknowledged request of its slot; task_done takes the
\* oldest one away.
LEMMA UnackedAppend ==
    ASSUME BatchInv, NEW t \in Slots, acks' = Append(acks, t), NEW s \in Slots
    PROVE  UnackedOn(s)' = UnackedOn(s) + (IF s = t THEN 1 ELSE 0)
<1>1. CountIn(Append(acks, t), {s}) = CountIn(acks, {s}) + (IF t \in {s} THEN 1 ELSE 0)
    BY CountAppend DEF BatchInv
<1>2. UnackedOn(s) = CountIn(acks, {s}) /\ UnackedOn(s)' = CountIn(Append(acks, t), {s})
    BY DEF UnackedOn, CountIn, Places
<1> QED BY <1>1, <1>2

LEMMA UnackedTail ==
    ASSUME BatchInv, acks # <<>>, acks' = Tail(acks), NEW s \in Slots
    PROVE  UnackedOn(s) = UnackedOn(s)' + (IF s = Head(acks) THEN 1 ELSE 0)
<1>1. CountIn(acks, {s}) = CountIn(Tail(acks), {s}) + (IF Head(acks) \in {s} THEN 1 ELSE 0)
    BY CountTail DEF BatchInv
<1>2. UnackedOn(s) = CountIn(acks, {s}) /\ UnackedOn(s)' = CountIn(Tail(acks), {s})
    BY DEF UnackedOn, CountIn, Places
<1> QED BY <1>1, <1>2

\* The puts, the feeders and a death move units between the parts of a slot.
LEMMA SenderAccount ==
    ASSUME SenderInv, FeederInv, PipeInv, BatchInv, AccountInv, NEW p \in Senders, SenderNext(p)
    PROVE  OutstandingExact' /\ outstanding' \in [Slots -> Int] /\ lost' \in [Slots -> Nat]
<1>1. /\ outstanding \in [Slots -> Int] /\ lost \in [Slots -> Nat] /\ Channel(p) \in Slots
      /\ \A s \in Slots : outstanding[s] = InPlace(s) + lost[s] /\ lost[s] \in Nat
    BY SenderType, ExactIs DEF AccountInv, CountInv
<1>2. \A s \in Slots : UnackedOn(s)' = UnackedOn(s) /\ Withheld(s)' = Withheld(s)
    BY SendersKeepWorker, Frames DEF workerVars
<1>3. \A s \in Slots : /\ CountedOn(s) \in Nat /\ FeedingOn(s) \in Nat /\ Waiting(s) \in Nat
                        /\ UnackedOn(s) \in Nat /\ Withheld(s) \in Nat /\ InPlace(s) \in Nat
    BY PartsNat
<1>4. \A s \in Slots : /\ InPlace(s) = CountedOn(s) + FeedingOn(s) + Waiting(s) + UnackedOn(s) + Withheld(s)
                        /\ InPlace(s)' = CountedOn(s)' + FeedingOn(s)' + Waiting(s)' + UnackedOn(s)' + Withheld(s)'
    BY DEF InPlace
<1> DEFINE Here(s, n) == IF s = Channel(p) THEN n ELSE 0
<1>5. CASE PutCount(p)
  <2>1. /\ outstanding' = [outstanding EXCEPT ![Channel(p)] = @ + 1] /\ UNCHANGED <<feeder, pipe, lost>>
        /\ pc' = [pc EXCEPT ![p] = "counted"] /\ Inside(p) = 0
      BY <1>5 DEF PutCount, Inside
  <2>2. \A s \in Slots : outstanding'[s] = outstanding[s] + Here(s, 1)
      BY <1>1, <2>1
  <2>3. \A s \in Slots : CountedOn(s)' = CountedOn(s) + Here(s, (IF "counted" = "counted" THEN 1 ELSE 0) - Inside(p))
      BY <2>1, CountedStep
  <2>4. \A s \in Slots : FeedingOn(s)' = FeedingOn(s) /\ Waiting(s)' = Waiting(s) /\ lost'[s] = lost[s]
      BY <2>1, Frames
  <2>5. \A s \in Slots : outstanding'[s] = InPlace(s)' + lost'[s]
      BY <1>1, <1>2, <1>3, <1>4, <2>1, <2>2, <2>3, <2>4
  <2> QED BY <1>1, <2>1, <2>5, ExactIs
<1>6. CASE PutPublish(p)
  <2>1. PICK x \in 0 .. MaxRequests : feeder' = [feeder EXCEPT ![p] = Append(@, x)]
    <3>1. p # Owner => next[p] \in 0 .. MaxRequests
        BY <1>6, SenderType DEF PutPublish, SenderInv
    <3> QED BY <1>6, <3>1, AdmissionAssumption DEF PutPublish, None
  <2>2. PICK v \in {"done", "idle"} : pc' = [pc EXCEPT ![p] = v]
      BY <1>6 DEF PutPublish
  <2>3. Inside(p) = 1 /\ UNCHANGED <<outstanding, pipe, lost>>
      BY <1>6 DEF PutPublish, Inside
  <2>4. \A s \in Slots : CountedOn(s)' = CountedOn(s) + Here(s, (IF v = "counted" THEN 1 ELSE 0) - Inside(p))
      BY <2>2, CountedStep
  <2>5. Append(feeder[p], x) \in Seq(0 .. MaxRequests) /\ Len(Append(feeder[p], x)) - Len(feeder[p]) = 1
      BY AppendProperties, LenProperties DEF FeederInv
  <2>6. \A s \in Slots : FeedingOn(s)' = FeedingOn(s) + Here(s, 1)
      BY <2>1, <2>5, FeedingStep
  <2>7. \A s \in Slots : Waiting(s)' = Waiting(s) /\ lost'[s] = lost[s] /\ outstanding'[s] = outstanding[s]
      BY <2>3, Frames
  <2>8. \A s \in Slots : outstanding'[s] = InPlace(s)' + lost'[s]
      BY <1>1, <1>2, <1>3, <1>4, <2>2, <2>3, <2>4, <2>6, <2>7
  <2> QED BY <1>1, <2>3, <2>8, ExactIs
<1>7. CASE PutReject(p)
  <2>1. PICK v \in {"failed", "idle"} : pc' = [pc EXCEPT ![p] = v]
      BY <1>7 DEF PutReject
  <2>2. /\ outstanding' = [outstanding EXCEPT ![Channel(p)] = @ - 1] /\ UNCHANGED <<feeder, pipe, lost>>
        /\ Inside(p) = 1
      BY <1>7 DEF PutReject, Inside
  <2>3. \A s \in Slots : outstanding'[s] = outstanding[s] + Here(s, -1)
      BY <1>1, <2>2
  <2>4. \A s \in Slots : CountedOn(s)' = CountedOn(s) + Here(s, (IF v = "counted" THEN 1 ELSE 0) - Inside(p))
      BY <2>1, CountedStep
  <2>5. \A s \in Slots : FeedingOn(s)' = FeedingOn(s) /\ Waiting(s)' = Waiting(s) /\ lost'[s] = lost[s]
      BY <2>2, Frames
  <2>6. \A s \in Slots : outstanding'[s] = InPlace(s)' + lost'[s]
      BY <1>1, <1>2, <1>3, <1>4, <2>1, <2>2, <2>3, <2>4, <2>5
  <2> QED BY <1>1, <2>2, <2>6, ExactIs
<1>8. CASE Feed(p)
  <2>1. /\ feeder' = [feeder EXCEPT ![p] = Tail(@)] /\ feeder[p] # <<>>
        /\ pipe' = [pipe EXCEPT ![Channel(p)] = Append(@, Head(feeder[p]))]
        /\ UNCHANGED <<pc, outstanding, lost>>
      BY <1>8 DEF Feed
  <2>2. /\ Tail(feeder[p]) \in Seq(0 .. MaxRequests) /\ Len(Tail(feeder[p])) - Len(feeder[p]) = -1
        /\ Head(feeder[p]) \in 0 .. MaxRequests
    <3>1. feeder[p] \in Seq(0 .. MaxRequests) /\ feeder[p] # <<>>
        BY <2>1 DEF FeederInv
    <3>2. PICK n \in Nat : Len(feeder[p]) = n
        BY <3>1, LenProperties
    <3>3. Len(Tail(feeder[p])) = n - 1
        BY <3>1, <3>2, HeadTailProperties
    <3>4. Len(Tail(feeder[p])) - Len(feeder[p]) = -1
        BY <3>2, <3>3
    <3>5. Tail(feeder[p]) \in Seq(0 .. MaxRequests) /\ Head(feeder[p]) \in 0 .. MaxRequests
        BY <3>1, HeadTailProperties
    <3> QED BY <3>4, <3>5
  <2>3. \A s \in Slots : FeedingOn(s)' = FeedingOn(s) + Here(s, -1)
      BY <2>1, <2>2, FeedingStep
  <2>4. Len(Append(pipe[Channel(p)], Head(feeder[p]))) = Len(pipe[Channel(p)]) + 1
      BY <1>1, <2>2, AppendProperties DEF PipeInv
  <2>5. \A s \in Slots : Waiting(s)' = Waiting(s) + Here(s, 1)
    <3>1. \A s \in Slots : pipe'[s] = IF s = Channel(p) THEN Append(pipe[s], Head(feeder[p])) ELSE pipe[s]
        BY <2>1 DEF PipeInv
    <3>2. \A s \in Slots : s # Channel(p) => Waiting(s)' = Waiting(s)
        BY <3>1 DEF Waiting
    <3>3. Waiting(Channel(p))' = Waiting(Channel(p)) + 1
        BY <1>1, <2>4, <3>1 DEF Waiting
    <3> QED BY <1>3, <3>2, <3>3
  <2>6. \A s \in Slots : CountedOn(s)' = CountedOn(s) /\ lost'[s] = lost[s] /\ outstanding'[s] = outstanding[s]
      BY <2>1, Frames
  <2>7. \A s \in Slots : outstanding'[s] = InPlace(s)' + lost'[s]
      BY <1>1, <1>2, <1>3, <1>4, <2>3, <2>5, <2>6
  <2> QED BY <1>1, <2>1, <2>7, ExactIs
<1>9. CASE Kill(p)
  <2>1. p \in Slots /\ Channel(p) = p
      BY <1>9, SenderType DEF Kill
  <2>2. /\ feeder' = [feeder EXCEPT ![p] = <<>>] /\ pc' = [pc EXCEPT ![p] = "idle"]
        /\ lost' = [lost EXCEPT ![p] = @ + Len(feeder[p]) + Inside(p)]
        /\ UNCHANGED <<outstanding, pipe>>
      BY <1>9 DEF Kill, Inside
  <2>3. Len(feeder[p]) \in Nat /\ Inside(p) \in Nat
      BY LenProperties DEF FeederInv, Inside
  <2>4. \A s \in Slots : CountedOn(s)' = CountedOn(s) + Here(s, (IF "idle" = "counted" THEN 1 ELSE 0) - Inside(p))
      BY <2>2, CountedStep
  <2>5. \A s \in Slots : FeedingOn(s)' = FeedingOn(s) + Here(s, Len(<<>>) - Len(feeder[p]))
    <3>1. <<>> \in Seq(0 .. MaxRequests)
        BY EmptySeq
    <3> QED BY <2>2, <3>1, FeedingStep
  <2>6. lost' \in [Slots -> Nat] /\ \A s \in Slots : lost'[s] = lost[s] + Here(s, Len(feeder[p]) + Inside(p))
      BY <1>1, <2>1, <2>2, <2>3
  <2>7. \A s \in Slots : Waiting(s)' = Waiting(s) /\ outstanding'[s] = outstanding[s]
      BY <2>2, Frames
  <2>8. \A s \in Slots : outstanding'[s] = InPlace(s)' + lost'[s]
    <3>1. PICK n \in Nat : Len(feeder[p]) = n
        BY <2>3
    <3>2. Len(<<>>) = 0
        BY EmptySeq
    <3>3. \A s \in Slots : FeedingOn(s)' = FeedingOn(s) + Here(s, 0 - n)
        BY <2>5, <3>1, <3>2
    <3>4. \A s \in Slots : lost'[s] = lost[s] + Here(s, n + Inside(p))
        BY <2>6, <3>1
    <3>5. \A s \in Slots : CountedOn(s)' = CountedOn(s) + Here(s, 0 - Inside(p))
        BY <2>4
    <3>6. ASSUME NEW s \in Slots, s = Channel(p)
          PROVE  outstanding'[s] = InPlace(s)' + lost'[s]
      <4>1. lost'[s] = lost[s] + (n + Inside(p)) /\ CountedOn(s)' = CountedOn(s) + (0 - Inside(p))
            /\ FeedingOn(s)' = FeedingOn(s) + (0 - n)
          BY <3>3, <3>4, <3>5, <3>6
      <4>2. /\ outstanding'[s] = InPlace(s) + lost[s] /\ Waiting(s)' = Waiting(s)
            /\ UnackedOn(s)' = UnackedOn(s) /\ Withheld(s)' = Withheld(s)
          BY <1>1, <1>2, <2>7, <3>6
      <4>3. lost[s] \in Nat /\ Inside(p) \in Nat
          BY <1>1, <2>3, <3>6
      <4>4. InPlace(s)' = InPlace(s) - n - Inside(p)
          BY <1>3, <1>4, <3>6, <4>1, <4>2, <4>3
      <4>5. InPlace(s) \in Nat
          BY <1>3
      <4> HIDE DEF Here
      <4> QED BY <4>1, <4>2, <4>3, <4>4, <4>5
    <3>7. ASSUME NEW s \in Slots, s # Channel(p)
          PROVE  outstanding'[s] = InPlace(s)' + lost'[s]
      <4>1. lost'[s] = lost[s] + 0 /\ CountedOn(s)' = CountedOn(s) + 0 /\ FeedingOn(s)' = FeedingOn(s) + 0
          BY <3>3, <3>4, <3>5, <3>7
      <4> QED BY <1>1, <1>2, <1>3, <1>4, <2>7, <4>1
    <3> QED BY <3>6, <3>7
  <2> QED BY <1>1, <2>2, <2>6, <2>8, ExactIs
<1> QED BY <1>5, <1>6, <1>7, <1>8, <1>9 DEF SenderNext

\* The worker moves a unit from the pipe to its own dispatches, and takes one
\* away for each acknowledgement.
LEMMA WorkerAccount ==
    ASSUME FlagInv, FeederInv, PipeInv, ScanInv, BatchInv, SentinelInv, AccountInv, Worker
    PROVE  OutstandingExact' /\ outstanding' \in [Slots -> Int] /\ lost' \in [Slots -> Nat]
<1>1. /\ outstanding \in [Slots -> Int] /\ lost \in [Slots -> Nat] /\ 0 \in Slots
      /\ \A s \in Slots : outstanding[s] = InPlace(s) + lost[s] /\ lost[s] \in Nat
    BY Places0, ExactIs DEF AccountInv, CountInv
<1>2. /\ UNCHANGED <<pc, feeder, lost>>
      /\ \A s \in Slots : CountedOn(s)' = CountedOn(s) /\ FeedingOn(s)' = FeedingOn(s)
    BY WorkerKeepsSenders, Frames DEF senderVars
<1>3. \A s \in Slots : /\ CountedOn(s) \in Nat /\ FeedingOn(s) \in Nat /\ Waiting(s) \in Nat
                        /\ UnackedOn(s) \in Nat /\ Withheld(s) \in Nat /\ InPlace(s) \in Nat
    BY PartsNat
<1>4. \A s \in Slots : /\ InPlace(s) = CountedOn(s) + FeedingOn(s) + Waiting(s) + UnackedOn(s) + Withheld(s)
                        /\ InPlace(s)' = CountedOn(s)' + FeedingOn(s)' + Waiting(s)' + UnackedOn(s)' + Withheld(s)'
    BY DEF InPlace
<1>5. CASE UNCHANGED <<acks, sentinel, pipe, outstanding>>
  <2>1. \A s \in Slots : outstanding'[s] = InPlace(s)' + lost'[s]
      BY <1>1, <1>2, <1>4, <1>5, Frames
  <2> QED BY <1>1, <1>2, <1>5, <2>1, ExactIs
<1>6. ASSUME scan < SlotCount, pipe[ScanSlot] # <<>>, TakeFrom(ScanSlot), NEW s \in Slots
      PROVE  Waiting(s)' = Waiting(s) - (IF s = ScanSlot THEN 1 ELSE 0)
  <2>1. ScanSlot \in Slots /\ pipe' = [pipe EXCEPT ![ScanSlot] = Tail(@)]
      BY <1>6, ScanSlotType DEF TakeFrom
  <2>2. pipe[ScanSlot] \in Seq(0 .. MaxRequests)
      BY <2>1 DEF PipeInv
  <2>3. Len(Tail(pipe[ScanSlot])) = Len(pipe[ScanSlot]) - 1
      BY <1>6, <2>2, HeadTailProperties
  <2>4. pipe'[s] = IF s = ScanSlot THEN Tail(pipe[ScanSlot]) ELSE pipe[s]
      BY <2>1 DEF PipeInv
  <2>5. CASE s = ScanSlot
      BY <2>3, <2>4, <2>5 DEF Waiting
  <2>6. CASE s # ScanSlot
      BY <1>3, <2>4, <2>6 DEF Waiting
  <2> QED BY <2>5, <2>6
<1>7. CASE ScanSentinel
  <2>1. /\ TakeFrom(ScanSlot) /\ scan < SlotCount /\ pipe[ScanSlot] # <<>> /\ Head(pipe[ScanSlot]) = None
        /\ sentinel' /\ UNCHANGED <<acks, outstanding>> /\ ScanSlot \in Slots
      BY <1>7, ScanSlotType DEF ScanSentinel
  <2>2. NoneIn(pipe[ScanSlot])
      BY <2>1 DEF PipeInv, NoneIn
  <2>3. ScanSlot = 0 /\ ~sentinel
      BY <2>1, <2>2 DEF SentinelInv, Spent
  <2>4. \A s \in Slots : Waiting(s)' = Waiting(s) - (IF s = 0 THEN 1 ELSE 0)
      BY <1>6, <2>1, <2>3
  <2>5. \A s \in Slots : Withheld(s)' = Withheld(s) + (IF s = 0 THEN 1 ELSE 0)
      BY <2>1, <2>3 DEF Withheld
  <2>6. \A s \in Slots : UnackedOn(s)' = UnackedOn(s) /\ outstanding'[s] = outstanding[s] /\ lost'[s] = lost[s]
      BY <1>2, <2>1, Frames
  <2>7. \A s \in Slots : outstanding'[s] = InPlace(s)' + lost'[s]
      BY <1>1, <1>2, <1>3, <1>4, <2>4, <2>5, <2>6
  <2> QED BY <1>1, <1>2, <2>1, <2>7, ExactIs
<1>8. CASE Dispatch
  <2>1. /\ TakeFrom(ScanSlot) /\ scan < SlotCount /\ pipe[ScanSlot] # <<>> /\ acks' = Append(acks, ScanSlot)
        /\ UNCHANGED <<sentinel, outstanding>> /\ ScanSlot \in Slots
      BY <1>8, ScanSlotType DEF Dispatch
  <2>2. \A s \in Slots : Waiting(s)' = Waiting(s) - (IF s = ScanSlot THEN 1 ELSE 0)
      BY <1>6, <2>1
  <2>3. \A s \in Slots : UnackedOn(s)' = UnackedOn(s) + (IF s = ScanSlot THEN 1 ELSE 0)
      BY <2>1, UnackedAppend
  <2>4. \A s \in Slots : Withheld(s)' = Withheld(s) /\ outstanding'[s] = outstanding[s] /\ lost'[s] = lost[s]
      BY <1>2, <2>1, Frames
  <2>5. \A s \in Slots : outstanding'[s] = InPlace(s)' + lost'[s]
      BY <1>1, <1>2, <1>3, <1>4, <2>2, <2>3, <2>4
  <2> QED BY <1>1, <1>2, <2>1, <2>5, ExactIs
<1>9. CASE EndScan
  <2>1. CASE sentinel /\ Drained
    <3>1. /\ acks' = Append(acks, 0) /\ ~sentinel' /\ UNCHANGED <<pipe, outstanding>>
        BY <1>9, <2>1 DEF EndScan
    <3>2. \A s \in Slots : UnackedOn(s)' = UnackedOn(s) + (IF s = 0 THEN 1 ELSE 0)
        BY <1>1, <3>1, UnackedAppend
    <3>3. \A s \in Slots : Withheld(s)' = Withheld(s) - (IF s = 0 THEN 1 ELSE 0)
        BY <2>1, <3>1 DEF Withheld
    <3>4. \A s \in Slots : Waiting(s)' = Waiting(s) /\ outstanding'[s] = outstanding[s] /\ lost'[s] = lost[s]
        BY <1>2, <3>1, Frames
    <3>5. \A s \in Slots : outstanding'[s] = InPlace(s)' + lost'[s]
        BY <1>1, <1>2, <1>3, <1>4, <3>2, <3>3, <3>4
    <3> QED BY <1>1, <1>2, <3>1, <3>5, ExactIs
  <2>2. CASE ~(sentinel /\ Drained)
      BY <1>5, <1>9, <2>2 DEF EndScan
  <2> QED BY <2>1, <2>2
<1>10. ASSUME TaskDone, acks # <<>>, UNCHANGED <<sentinel, pipe>>
       PROVE  OutstandingExact' /\ outstanding' \in [Slots -> Int] /\ lost' \in [Slots -> Nat]
  <2>1. Head(acks) \in Slots
      BY <1>10, HeadTailProperties DEF BatchInv
  <2>2. outstanding' = [outstanding EXCEPT ![Head(acks)] = @ - 1] /\ acks' = Tail(acks)
      BY <1>10 DEF TaskDone
  <2>3. \A s \in Slots : outstanding'[s] = outstanding[s] - (IF s = Head(acks) THEN 1 ELSE 0)
      BY <1>1, <2>1, <2>2
  <2>4. \A s \in Slots : UnackedOn(s) = UnackedOn(s)' + (IF s = Head(acks) THEN 1 ELSE 0)
      BY <1>10, <2>2, UnackedTail
  <2>5. \A s \in Slots : Waiting(s)' = Waiting(s) /\ Withheld(s)' = Withheld(s)
      BY <1>10, Frames
  <2>6. \A s \in Slots : UnackedOn(s)' \in Nat
    <3>1. Tail(acks) \in Seq(Slots)
        BY <1>10, HeadTailProperties DEF BatchInv
    <3>2. \A s \in Slots : UnackedOn(s)' = CountIn(Tail(acks), {s})
        BY <2>2 DEF UnackedOn, CountIn, Places
    <3> QED BY <3>1, <3>2, CountType
  <2>7. \A s \in Slots : outstanding'[s] = InPlace(s)' + lost'[s]
      BY <1>1, <1>2, <1>3, <1>4, <2>3, <2>4, <2>5, <2>6
  <2>8. outstanding' \in [Slots -> Int]
      BY <1>1, <2>1, <2>2
  <2> QED BY <1>1, <1>2, <2>7, <2>8, ExactIs
<1>11. Len(acks) > 0 => acks # <<>>
    BY EmptySeq
<1>12. CASE FilterStale
  <2>1. Len(acks) > 0
      BY <1>12 DEF FilterStale, BatchInv
  <2> QED BY <1>10, <1>11, <1>12, <2>1 DEF FilterStale
<1>13. CASE AckBatch
  <2>1. Len(acks) > 0
      BY <1>13 DEF AckBatch, BatchInv
  <2> QED BY <1>10, <1>11, <1>13, <2>1 DEF AckBatch
<1>14. CASE FinishBatch
  <2>1. CASE gotNone
    <3>1. Len(acks) > 0
        BY <1>14, <2>1 DEF FinishBatch, BatchInv
    <3> QED BY <1>10, <1>11, <1>14, <2>1, <3>1 DEF FinishBatch
  <2>2. CASE ~gotNone
      BY <1>5, <1>14, <2>2 DEF FinishBatch
  <2> QED BY <2>1, <2>2
<1>15. CASE ScanEmpty \/ CollectTimeout \/ FilterKeep \/ Infer
    BY <1>5, <1>15 DEF ScanEmpty, CollectTimeout, FilterKeep, Infer
<1> QED BY <1>7, <1>8, <1>9, <1>12, <1>13, <1>14, <1>15 DEF Worker

LEMMA AccountStep ==
    /\ FlagInv /\ SenderInv /\ FeederInv /\ PipeInv /\ ScanInv /\ BatchInv /\ SentinelInv /\ AccountInv
    /\ FeederInv' /\ PipeInv' /\ BatchInv' /\ [Next]_vars
    => AccountInv'
<1> SUFFICES ASSUME FlagInv, SenderInv, FeederInv, PipeInv, ScanInv, BatchInv, SentinelInv, AccountInv,
                    FeederInv', PipeInv', BatchInv', [Next]_vars
             PROVE  AccountInv'
    OBVIOUS
<1>1. ASSUME OutstandingExact', outstanding' \in [Slots -> Int], lost' \in [Slots -> Nat] PROVE AccountInv'
  <2>1. ASSUME NEW s \in Slots PROVE InPlace(s)' \in Nat
    <3>1. UnackedOn(s)' \in Nat
      <4>1. UnackedOn(s)' = CountIn(acks', {s})
          BY DEF UnackedOn, CountIn, Places
      <4> QED BY <4>1, CountType DEF BatchInv
    <3>2. CountedOn(s)' \in Nat /\ Withheld(s)' \in Nat
        BY DEF CountedOn, Inside, Withheld
    <3>3. /\ \E n \in Nat : Len(feeder'[s]) = n
          /\ \E n \in Nat : Len(feeder'[Owner]) = n
          /\ Len(pipe'[s]) \in Nat /\ s \in Nat
        BY Places0, LenProperties, AdmissionAssumption DEF FeederInv, PipeInv, Slots
    <3>4. FeedingOn(s)' \in Nat /\ Waiting(s)' \in Nat
        BY <3>3 DEF FeedingOn, Waiting
    <3> QED BY <3>1, <3>2, <3>4 DEF InPlace
  <2>2. \A s \in Slots : outstanding'[s] = InPlace(s)' + lost'[s]
      BY <1>1, ExactIs
  <2>3. \A s \in Slots : outstanding'[s] \in Nat
      BY <1>1, <2>1, <2>2
  <2> QED BY <1>1, <2>3 DEF AccountInv, CountInv
<1>2. ASSUME UNCHANGED <<outstanding, lost, pc, feeder, pipe, acks, sentinel>> PROVE AccountInv'
    BY <1>2 DEF AccountInv, CountInv, OutstandingExact, CountedOn, Inside, FeedingOn, UnackedOn
<1>3. CASE UNCHANGED vars
    BY <1>2, <1>3 DEF vars, senderVars, workerVars
<1>4. CASE Close
    BY <1>2, <1>4 DEF Close, workerVars
<1> QED BY <1>1, <1>3, <1>4, SenderAccount, WorkerAccount, NextIs
-----------------------------------------------------------------------------
(* The bound of a channel, and the one sentinel. *)

LEMMA CapacityStep ==
    FeederInv /\ PipeInv /\ ScanInv /\ CapacityInv /\ SenderInv /\ [Next]_vars => CapacityInv'
<1> SUFFICES ASSUME FeederInv, PipeInv, ScanInv, CapacityInv, SenderInv, [Next]_vars PROVE CapacityInv'
    OBVIOUS
<1>1. /\ held \in [Slots -> 0 .. PendingPerCamera]
      /\ \A s \in Slots : held[s] \in Nat /\ Waiting(s) + FeedingOn(s) <= held[s]
    BY AdmissionAssumption DEF CapacityInv, Waiting
<1>2. ASSUME NEW s \in Slots PROVE Waiting(s) \in Nat /\ FeedingOn(s) \in Nat
  <2>1. /\ \E n \in Nat : Len(feeder[s]) = n
        /\ \E n \in Nat : Len(feeder[Owner]) = n
        /\ Len(pipe[s]) \in Nat /\ s \in Nat
      BY Places0, LenProperties, AdmissionAssumption DEF FeederInv, PipeInv, Slots
  <2> QED BY <2>1 DEF FeedingOn, Waiting
<1>3. ASSUME held' \in [Slots -> 0 .. PendingPerCamera], \A s \in Slots : Waiting(s)' + FeedingOn(s)' <= held'[s]
      PROVE  CapacityInv'
    BY <1>3 DEF CapacityInv, Waiting
<1>4. CASE UNCHANGED <<held, pipe, feeder>>
    BY <1>4 DEF CapacityInv, FeedingOn
<1>5. ASSUME NEW p \in Senders, PutPublish(p) PROVE CapacityInv'
  <2>1. Channel(p) \in Slots /\ (p # Owner => next[p] \in 0 .. MaxRequests)
      BY <1>5, SenderType DEF PutPublish, SenderInv
  <2>2. PICK x \in 0 .. MaxRequests : feeder' = [feeder EXCEPT ![p] = Append(@, x)]
      BY <1>5, <2>1, AdmissionAssumption DEF PutPublish, None
  <2>3. /\ held' = [held EXCEPT ![Channel(p)] = @ + 1] /\ held[Channel(p)] < PendingPerCamera
        /\ UNCHANGED pipe
      BY <1>5 DEF PutPublish
  <2>4. /\ held' \in [Slots -> 0 .. PendingPerCamera]
        /\ \A s \in Slots : held'[s] = held[s] + (IF s = Channel(p) THEN 1 ELSE 0)
      BY <1>1, <2>1, <2>3, AdmissionAssumption
  <2>5. Append(feeder[p], x) \in Seq(0 .. MaxRequests) /\ Len(Append(feeder[p], x)) - Len(feeder[p]) = 1
      BY AppendProperties, LenProperties DEF FeederInv
  <2>6. \A s \in Slots : FeedingOn(s)' = FeedingOn(s) + (IF s = Channel(p) THEN 1 ELSE 0)
      BY <2>2, <2>5, FeedingStep
  <2>7. \A s \in Slots : Waiting(s)' = Waiting(s)
      BY <2>3, Frames
  <2> QED BY <1>1, <1>2, <1>3, <2>4, <2>6, <2>7
<1>6. ASSUME NEW p \in Senders, Feed(p) PROVE CapacityInv'
  <2>1. /\ feeder' = [feeder EXCEPT ![p] = Tail(@)] /\ feeder[p] # <<>> /\ Channel(p) \in Slots
        /\ pipe' = [pipe EXCEPT ![Channel(p)] = Append(@, Head(feeder[p]))] /\ UNCHANGED held
      BY <1>6, SenderType DEF Feed
  <2>2. feeder[p] \in Seq(0 .. MaxRequests) /\ feeder[p] # <<>>
      BY <2>1 DEF FeederInv
  <2>3. PICK n \in Nat : Len(feeder[p]) = n
      BY <2>2, LenProperties
  <2>4. Len(Tail(feeder[p])) = n - 1
      BY <2>2, <2>3, HeadTailProperties
  <2>5. Tail(feeder[p]) \in Seq(0 .. MaxRequests) /\ Head(feeder[p]) \in 0 .. MaxRequests
      BY <2>2, HeadTailProperties
  <2>6. Len(Tail(feeder[p])) - Len(feeder[p]) = -1
      BY <2>3, <2>4
  <2>7. \A s \in Slots : FeedingOn(s)' = FeedingOn(s) + (IF s = Channel(p) THEN -1 ELSE 0)
      BY <2>1, <2>5, <2>6, FeedingStep
  <2>8. Len(Append(pipe[Channel(p)], Head(feeder[p]))) = Len(pipe[Channel(p)]) + 1
      BY <2>1, <2>5, AppendProperties DEF PipeInv
  <2>9. \A s \in Slots : pipe'[s] = IF s = Channel(p) THEN Append(pipe[s], Head(feeder[p])) ELSE pipe[s]
      BY <2>1 DEF PipeInv
  <2>10. \A s \in Slots : s # Channel(p) => Waiting(s)' = Waiting(s)
      BY <2>9 DEF Waiting
  <2>11. Waiting(Channel(p))' = Waiting(Channel(p)) + 1
      BY <2>1, <2>8, <2>9 DEF Waiting
  <2>12. \A s \in Slots : Waiting(s)' + FeedingOn(s)' <= held'[s]
    <3>1. ASSUME NEW s \in Slots, s = Channel(p) PROVE Waiting(s)' + FeedingOn(s)' <= held'[s]
      <4>1. Waiting(s)' = Waiting(s) + 1 /\ FeedingOn(s)' = FeedingOn(s) + (-1) /\ held'[s] = held[s]
          BY <2>1, <2>7, <2>11, <3>1
      <4> QED BY <1>1, <1>2, <4>1
    <3>2. ASSUME NEW s \in Slots, s # Channel(p) PROVE Waiting(s)' + FeedingOn(s)' <= held'[s]
      <4>1. Waiting(s)' = Waiting(s) /\ FeedingOn(s)' = FeedingOn(s) + 0 /\ held'[s] = held[s]
          BY <2>1, <2>7, <2>10, <3>2
      <4> QED BY <1>1, <1>2, <4>1
    <3> QED BY <3>1, <3>2
  <2> QED BY <1>1, <1>3, <2>1, <2>12
<1>7. ASSUME NEW p \in Senders, Kill(p) PROVE CapacityInv'
  <2>1. feeder' = [feeder EXCEPT ![p] = <<>>] /\ UNCHANGED <<held, pipe>>
      BY <1>7 DEF Kill
  <2>2. PICK n \in Nat : Len(feeder[p]) = n
      BY LenProperties DEF FeederInv
  <2>3. <<>> \in Seq(0 .. MaxRequests) /\ Len(<<>>) = 0
      BY EmptySeq
  <2>4. \A s \in Slots : FeedingOn(s)' = FeedingOn(s) + (IF s = Channel(p) THEN Len(<<>>) - Len(feeder[p]) ELSE 0)
      BY <2>1, <2>3, FeedingStep
  <2>5. \A s \in Slots : FeedingOn(s)' = FeedingOn(s) + (IF s = Channel(p) THEN 0 - n ELSE 0)
      BY <2>2, <2>3, <2>4
  <2>6. \A s \in Slots : Waiting(s)' = Waiting(s) /\ held'[s] = held[s]
      BY <2>1, Frames
  <2> QED BY <1>1, <1>2, <1>3, <2>1, <2>5, <2>6
<1>8. CASE ScanSentinel \/ Dispatch
  <2>1. PICK t \in Slots :
           /\ pipe' = [pipe EXCEPT ![t] = Tail(@)] /\ held' = [held EXCEPT ![t] = @ - 1]
           /\ pipe[t] # <<>> /\ UNCHANGED feeder
      BY <1>8, ScanSlotType DEF ScanSentinel, Dispatch, TakeFrom, senderVars
  <2>2. pipe[t] \in Seq(0 .. MaxRequests)
      BY <2>1 DEF PipeInv
  <2>3. Len(Tail(pipe[t])) = Len(pipe[t]) - 1 /\ Len(pipe[t]) >= 1
      BY <2>1, <2>2, HeadTailProperties, EmptySeq, LenProperties
  <2>4. \A s \in Slots : pipe'[s] = IF s = t THEN Tail(pipe[s]) ELSE pipe[s]
      BY <2>1 DEF PipeInv
  <2>5. \A s \in Slots : s # t => Waiting(s)' = Waiting(s)
      BY <2>4 DEF Waiting
  <2>6. Waiting(t)' = Waiting(t) - 1 /\ Waiting(t) >= 1
    <3>1. Waiting(t) = Len(pipe[t]) /\ Waiting(t)' = Len(pipe'[t])
        BY <2>1 DEF Waiting
    <3>2. pipe'[t] = Tail(pipe[t])
        BY <2>1, <2>4
    <3>3. Len(pipe'[t]) = Len(pipe[t]) - 1
        BY <2>3, <3>2
    <3> QED BY <2>3, <3>1, <3>3
  <2>7. \A s \in Slots : FeedingOn(s)' = FeedingOn(s)
      BY <2>1, Frames
  <2>8. held[t] >= 1
      BY <1>1, <1>2, <2>1, <2>6
  <2>9. /\ held' \in [Slots -> 0 .. PendingPerCamera]
        /\ \A s \in Slots : held'[s] = IF s = t THEN held[s] - 1 ELSE held[s]
      BY <1>1, <2>1, <2>8, AdmissionAssumption
  <2>10. ASSUME NEW s \in Slots PROVE Waiting(s)' + FeedingOn(s)' <= held'[s]
    <3>1. held[s] \in Nat /\ Waiting(s) + FeedingOn(s) <= held[s] /\ Waiting(s) \in Nat /\ FeedingOn(s) \in Nat
        BY <1>1, <1>2
    <3>2. CASE s = t
      <4>1. Waiting(s)' = Waiting(s) - 1 /\ held'[s] = held[s] - 1 /\ FeedingOn(s)' = FeedingOn(s)
          BY <2>6, <2>7, <2>9, <3>2
      <4> QED BY <3>1, <4>1
    <3>3. CASE s # t
        BY <2>5, <2>7, <2>9, <3>1, <3>3
    <3> QED BY <3>2, <3>3
  <2> QED BY <1>3, <2>9, <2>10
<1>9. CASE ScanEmpty \/ EndScan \/ CollectTimeout \/ FilterStale \/ FilterKeep \/ Infer \/ AckBatch
           \/ FinishBatch
    BY <1>9, <1>4 DEF ScanEmpty, EndScan, CollectTimeout, FilterStale, FilterKeep, Infer, AckBatch,
                      FinishBatch, senderVars
<1>10. ASSUME NEW p \in Senders, PutCount(p) \/ PutReject(p) \/ Close PROVE CapacityInv'
    BY <1>10, <1>4 DEF PutCount, PutReject, Close
<1>11. CASE UNCHANGED vars
    BY <1>11, <1>4 DEF vars, senderVars
<1> QED BY <1>5, <1>6, <1>7, <1>8, <1>9, <1>10, <1>11, NextIs, Places0 DEF Worker, SenderNext

\* What a queue operation does to the sentinel in a channel.
LEMMA NoneAppend ==
    ASSUME NEW T, NEW q \in Seq(T), NEW x
    PROVE  /\ NoneIn(Append(q, x)) <=> NoneIn(q) \/ x = None
           /\ OneNone(q) /\ (x # None \/ ~NoneIn(q)) => OneNone(Append(q, x))
<1>1. /\ DOMAIN Append(q, x) = 1 .. Len(q) + 1 /\ DOMAIN q = 1 .. Len(q) /\ Len(q) \in Nat
      /\ \A i \in 1 .. Len(q) : Append(q, x)[i] = q[i]
      /\ Append(q, x)[Len(q) + 1] = x
    BY AppendProperties
<1>2. NoneIn(Append(q, x)) <=> NoneIn(q) \/ x = None
    BY <1>1 DEF NoneIn
<1>3. OneNone(q) /\ (x # None \/ ~NoneIn(q)) => OneNone(Append(q, x))
    BY <1>1 DEF NoneIn, OneNone
<1> QED BY <1>2, <1>3

LEMMA NoneTail ==
    ASSUME NEW T, NEW q \in Seq(T), q # <<>>
    PROVE  /\ NoneIn(q) <=> Head(q) = None \/ NoneIn(Tail(q))
           /\ OneNone(q) => OneNone(Tail(q)) /\ (Head(q) = None => ~NoneIn(Tail(q)))
<1>1. /\ DOMAIN q = 1 .. Len(q) /\ DOMAIN Tail(q) = 1 .. Len(q) - 1 /\ Len(q) \in Nat \ {0}
      /\ q[1] = Head(q)
      /\ \A i \in 1 .. Len(q) - 1 : Tail(q)[i] = q[i + 1]
    BY HeadTailProperties, LenProperties, EmptySeq
<1>2. NoneIn(q) <=> Head(q) = None \/ NoneIn(Tail(q))
  <2>1. ASSUME NEW i \in DOMAIN q, q[i] = None, Head(q) # None PROVE NoneIn(Tail(q))
    <3>1. i - 1 \in DOMAIN Tail(q) /\ Tail(q)[i - 1] = None
        BY <1>1, <2>1
    <3> QED BY <3>1 DEF NoneIn
  <2>2. ASSUME NEW i \in DOMAIN Tail(q), Tail(q)[i] = None PROVE NoneIn(q)
    <3>1. i + 1 \in DOMAIN q /\ q[i + 1] = None
        BY <1>1, <2>2
    <3> QED BY <3>1 DEF NoneIn
  <2>3. Head(q) = None => NoneIn(q)
      BY <1>1 DEF NoneIn
  <2> QED BY <2>1, <2>2, <2>3 DEF NoneIn
<1>3. ASSUME OneNone(q) PROVE OneNone(Tail(q)) /\ (Head(q) = None => ~NoneIn(Tail(q)))
  <2>1. \A i \in DOMAIN Tail(q) : i + 1 \in DOMAIN q /\ i + 1 # 1 /\ Tail(q)[i] = q[i + 1] /\ i \in Nat
      BY <1>1
  <2>2. OneNone(Tail(q))
      BY <1>3, <2>1 DEF OneNone
  <2>3. Head(q) = None => ~NoneIn(Tail(q))
      BY <1>1, <1>3, <2>1 DEF OneNone, NoneIn
  <2> QED BY <2>2, <2>3
<1> QED BY <1>2, <1>3

LEMMA SentinelStep ==
    FlagInv /\ SenderInv /\ FeederInv /\ PipeInv /\ ScanInv /\ BatchInv /\ SentinelInv /\ [Next]_vars
    => SentinelInv'
<1> SUFFICES ASSUME FlagInv, SenderInv, FeederInv, PipeInv, ScanInv, BatchInv, SentinelInv, [Next]_vars
             PROVE  SentinelInv'
    OBVIOUS
<1> USE Places0
<1>1. CASE UNCHANGED <<pipe, feeder, pc, sentinel, gotNone, mode>>
    BY <1>1 DEF SentinelInv, Spent
<1>2. ASSUME NEW p \in Senders, SenderNext(p) \/ Close PROVE UNCHANGED <<sentinel, gotNone, mode>> /\ Spent' = Spent
    BY <1>2, SendersKeepWorker DEF workerVars, Spent
<1>3. ASSUME NEW p \in Senders, PutCount(p) \/ PutReject(p) PROVE SentinelInv'
  <2>1. /\ UNCHANGED <<pipe, feeder>> /\ pc[p] \in {"idle", "counted"}
        /\ \A t \in Senders : t # p => pc'[t] = pc[t]
      BY <1>3 DEF PutCount, PutReject, SenderInv
  <2>2. Spent' = Spent
      BY <1>2, <1>3 DEF SenderNext
  <2> QED BY <2>1, <2>2 DEF SentinelInv
<1>4. ASSUME NEW p \in Senders, PutPublish(p) PROVE SentinelInv'
  <2>1. UNCHANGED pipe /\ pc[p] = "counted" /\ Spent' = Spent
      BY <1>2, <1>4 DEF PutPublish, SenderNext
  <2>2. CASE p = Owner
    <3>1. feeder[Owner] = <<>> /\ ~Spent /\ ~NoneIn(pipe[0])
        BY <2>1, <2>2 DEF SentinelInv
    <3>2. feeder'[Owner] = Append(feeder[Owner], None) /\ pc'[Owner] = "done"
        BY <1>4, <2>2 DEF PutPublish, SenderInv, FeederInv
    <3>3. feeder'[Owner] = <<None>>
        BY <3>1, <3>2
    <3> QED BY <2>1, <3>1, <3>2, <3>3 DEF SentinelInv
  <2>3. CASE p # Owner
    <3>1. feeder'[Owner] = feeder[Owner] /\ pc'[Owner] = pc[Owner]
        BY <1>4, <2>3 DEF PutPublish, SenderInv, FeederInv
    <3> QED BY <2>1, <3>1 DEF SentinelInv
  <2> QED BY <2>2, <2>3
<1>5. ASSUME NEW p \in Senders, Feed(p) PROVE SentinelInv'
  <2>1. /\ feeder[p] # <<>> /\ feeder' = [feeder EXCEPT ![p] = Tail(@)] /\ Channel(p) \in Slots
        /\ pipe' = [pipe EXCEPT ![Channel(p)] = Append(@, Head(feeder[p]))] /\ UNCHANGED pc
      BY <1>5, SenderType DEF Feed
  <2>2. Spent' = Spent
      BY <1>2, <1>5 DEF SenderNext
  <2>3. \A s \in Slots : pipe'[s] = IF s = Channel(p) THEN Append(pipe[s], Head(feeder[p])) ELSE pipe[s]
      BY <2>1 DEF PipeInv
  <2>4. \A s \in Slots : pipe[s] \in Seq(0 .. MaxRequests)
      BY DEF PipeInv
  <2>5. CASE p = Owner
    <3>1. feeder[Owner] = <<None>> /\ ~Spent /\ pc[Owner] = "done" /\ ~NoneIn(pipe[0])
        BY <2>1, <2>5 DEF SentinelInv
    <3>2. feeder'[Owner] = <<>> /\ Channel(p) = 0
        BY <2>1, <2>5, <3>1 DEF FeederInv
    <3>3. \A s \in Slots \ {0} : pipe'[s] = pipe[s]
        BY <2>3, <3>2
    <3>4. OneNone(pipe'[0])
        BY <2>3, <2>4, <3>1, <3>2, NoneAppend DEF SentinelInv
    <3> QED BY <2>1, <2>2, <3>1, <3>2, <3>3, <3>4 DEF SentinelInv
  <2>6. CASE p # Owner
    <3>1. p \in Slots /\ Channel(p) = p
        BY <2>6, SenderType
    <3>2. Head(feeder[p]) # None
      <4>1. feeder[p] \in Seq(1 .. MaxRequests) /\ feeder[p] # <<>>
          BY <2>1, <3>1 DEF FeederInv
      <4>2. Head(feeder[p]) \in 1 .. MaxRequests
          BY <4>1, HeadTailProperties
      <4> QED BY <4>2 DEF None
    <3>3. \A s \in Slots : (NoneIn(pipe'[s]) <=> NoneIn(pipe[s])) /\ (OneNone(pipe[s]) => OneNone(pipe'[s]))
        BY <2>3, <2>4, <3>2, NoneAppend
    <3>4. feeder'[Owner] = feeder[Owner]
        BY <2>1, <2>6 DEF FeederInv
    <3> QED BY <2>1, <2>2, <3>3, <3>4 DEF SentinelInv
  <2> QED BY <2>5, <2>6
<1>6. ASSUME NEW p \in Senders, Kill(p) PROVE SentinelInv'
  <2>1. UNCHANGED pipe /\ feeder'[Owner] = feeder[Owner] /\ pc'[Owner] = pc[Owner]
      BY <1>6 DEF Kill, FeederInv, SenderInv
  <2>2. Spent' = Spent
      BY <1>2, <1>6 DEF SenderNext
  <2> QED BY <2>1, <2>2 DEF SentinelInv
<1>7. CASE Close
    BY <1>1, <1>2, <1>7 DEF Close
<1>8. CASE ScanSentinel \/ Dispatch
  <2>1. PICK t \in Slots :
           /\ pipe' = [pipe EXCEPT ![t] = Tail(@)] /\ pipe[t] # <<>> /\ UNCHANGED <<feeder, pc>>
           /\ \/ ScanSentinel /\ Head(pipe[t]) = None
              \/ Dispatch /\ Head(pipe[t]) # None
      BY <1>8, ScanSlotType DEF ScanSentinel, Dispatch, TakeFrom, senderVars
  <2>2. /\ \A s \in Slots : pipe'[s] = IF s = t THEN Tail(pipe[s]) ELSE pipe[s]
        /\ pipe[t] \in Seq(0 .. MaxRequests)
      BY <2>1 DEF PipeInv
  <2>3. /\ NoneIn(pipe[t]) <=> Head(pipe[t]) = None \/ NoneIn(Tail(pipe[t]))
        /\ OneNone(pipe[t]) => OneNone(Tail(pipe[t])) /\ (Head(pipe[t]) = None => ~NoneIn(Tail(pipe[t])))
      BY <2>1, <2>2, NoneTail
  <2>4. \A s \in Slots : (NoneIn(pipe'[s]) => NoneIn(pipe[s])) /\ (OneNone(pipe[s]) => OneNone(pipe'[s]))
      BY <2>2, <2>3
  <2>5. CASE ScanSentinel /\ Head(pipe[t]) = None
    <3>1. t = 0 /\ pc[Owner] = "done" /\ feeder[Owner] = <<>>
        BY <2>3, <2>5 DEF SentinelInv
    <3>2. ~NoneIn(pipe'[0])
        BY <2>2, <2>3, <2>5, <3>1 DEF SentinelInv
    <3> QED BY <2>1, <2>4, <3>1, <3>2 DEF SentinelInv
  <2>6. CASE Dispatch /\ Head(pipe[t]) # None
    <3>1. Spent' = Spent
        BY <2>6 DEF Dispatch, Spent, Getting
    <3> QED BY <2>1, <2>4, <3>1 DEF SentinelInv
  <2> QED BY <2>1, <2>5, <2>6
<1>9. CASE EndScan \/ CollectTimeout \/ FilterStale \/ FilterKeep \/ Infer \/ AckBatch \/ FinishBatch
  <2>1. UNCHANGED <<pipe, feeder, pc>>
      BY <1>9 DEF EndScan, CollectTimeout, FilterStale, FilterKeep, Infer, AckBatch, FinishBatch, senderVars
  <2>2. CASE EndScan
      BY <2>1, <2>2 DEF EndScan, SentinelInv, Spent, Getting
  <2>3. CASE FinishBatch
      BY <2>1, <2>3 DEF FinishBatch, SentinelInv, Spent
  <2>4. CASE CollectTimeout \/ FilterStale \/ FilterKeep \/ Infer \/ AckBatch
    <3>1. Spent' = Spent
        BY <2>4 DEF CollectTimeout, FilterStale, FilterKeep, Infer, AckBatch, Spent
    <3> QED BY <2>1, <3>1 DEF SentinelInv
  <2> QED BY <1>9, <2>2, <2>3, <2>4
<1>10. CASE ScanEmpty
    BY <1>1, <1>10 DEF ScanEmpty, senderVars
<1>11. CASE UNCHANGED vars
    BY <1>1, <1>11 DEF vars, senderVars, workerVars
<1> QED BY <1>3, <1>4, <1>5, <1>6, <1>7, <1>8, <1>9, <1>10, <1>11, NextIs DEF Worker, SenderNext

LEMMA InitSafe == Init => SafeInv
<1> SUFFICES ASSUME Init PROVE SafeInv
    OBVIOUS
<1> USE AdmissionAssumption, Places0
<1>0. <<>> \in Seq(0 .. MaxRequests) /\ <<>> \in Seq(1 .. MaxRequests) /\ <<>> \in Seq(Nat) /\ <<>> \in Seq(Slots)
      /\ Len(<<>>) = 0
    BY EmptySeq
<1>1. FlagInv
    BY DEF Init, FlagInv
<1>2. SenderInv /\ CloseInv
    BY DEF Init, SenderInv, CloseInv
<1>3. FeederInv /\ PipeInv
    BY <1>0 DEF Init, FeederInv, PipeInv
<1>4. HistoryInv /\ CountInv
    BY <1>0 DEF Init, HistoryInv, CountInv
<1>5. \A s \in Slots : FeedingOn(s) = 0 /\ pipe[s] = <<>> /\ CountedOn(s) = 0
    BY <1>0 DEF Init, FeedingOn, CountedOn, Inside
<1>6. CapacityInv
    BY <1>0, <1>5 DEF Init, CapacityInv
<1>7. ScanInv
    BY DEF Init, ScanInv
<1>8. BatchInv
  <2>1. acks = <<>> /\ mode = "first" /\ todo = 0 /\ active = 0 /\ ~gotNone
      BY DEF Init
  <2>2. acks \in Seq(Slots) /\ Len(acks) = 0
      BY <1>0, <2>1
  <2> QED BY <2>1, <2>2 DEF BatchInv
<1>9. SentinelInv
    BY DEF Init, SentinelInv, Spent, NoneIn, OneNone
<1>10. OutstandingExact
  <2>1. \A s \in Slots : UnackedOn(s) = 0
      BY UnackedIsCount, CountEmpty DEF Init
  <2> QED BY <1>0, <1>5, <2>1 DEF Init, OutstandingExact
<1> QED BY <1>1, <1>2, <1>3, <1>4, <1>6, <1>7, <1>8, <1>9, <1>10 DEF SafeInv, AccountInv

\* The invariant of the queue, whatever cameras, the worker and deaths do.
THEOREM SafeHolds == Spec => []SafeInv
<1>1. SafeInv /\ [Next]_vars => SafeInv'
    BY FlagStep, SenderStep, CloseStep, FeederStep, PipeStep, HistoryStep, CapacityStep, ScanStep, BatchStep,
       SentinelStep, AccountStep DEF SafeInv
<1> QED BY InitSafe, <1>1, PTL DEF Spec
-----------------------------------------------------------------------------
(* What the counts mean. *)

\* A slot with nothing counted in it by a sender, a feeder or the pipe.
Idle(s) == CountedOn(s) = 0 /\ FeedingOn(s) = 0 /\ Waiting(s) = 0

LEMMA IdleMeans ==
    ASSUME SafeInv, \A s \in Slots : Idle(s)
    PROVE  /\ \A p \in Senders : pc[p] # "counted" /\ feeder[p] = <<>>
           /\ \A s \in Slots : pipe[s] = <<>>
<1>1. \A s \in Slots : pipe[s] = <<>>
  <2>1. ASSUME NEW s \in Slots PROVE pipe[s] = <<>>
    <3>1. pipe[s] \in Seq(0 .. MaxRequests) /\ Len(pipe[s]) = 0
        BY DEF SafeInv, PipeInv, Idle, Waiting
    <3> QED BY <3>1, EmptySeq
  <2> QED BY <2>1
<1>2. ASSUME NEW p \in Senders PROVE pc[p] # "counted" /\ feeder[p] = <<>>
  <2>1. Channel(p) \in Slots /\ Owner \in Senders /\ (p # Owner => Channel(p) = p) /\ Channel(Owner) = 0
      BY SenderType, Places0
  <2>2. PICK n \in Nat : Len(feeder[p]) = n
      BY LenProperties DEF SafeInv, FeederInv
  <2>3. PICK k \in Nat : Len(feeder[Channel(p)]) = k
      BY <2>1, Places0, LenProperties DEF SafeInv, FeederInv
  <2>4. n = 0
    <3>1. CASE p # Owner
      <4>1. PICK j \in Nat : Len(feeder[Owner]) = j
          BY <2>1, LenProperties DEF SafeInv, FeederInv
      <4>2. n + (IF p = 0 THEN j ELSE 0) = 0
          BY <2>1, <2>2, <3>1, <4>1 DEF Idle, FeedingOn
      <4> QED BY <4>1, <4>2
    <3>2. CASE p = Owner
      <4>1. k + n = 0
          BY <2>1, <2>2, <2>3, <3>2, Places0 DEF Idle, FeedingOn
      <4> QED BY <4>1
    <3> QED BY <3>1, <3>2
  <2>5. feeder[p] = <<>>
    <3>1. feeder[p] \in Seq(0 .. MaxRequests)
        BY DEF SafeInv, FeederInv
    <3> QED BY <2>2, <2>4, <3>1, EmptySeq
  <2>6. pc[p] # "counted"
    <3>1. Inside(p) = 0
        BY <2>1, Places0 DEF Idle, CountedOn, Inside
    <3> QED BY <3>1 DEF Inside
  <2> QED BY <2>5, <2>6
<1> QED BY <1>1, <1>2

LEMMA SumZero ==
    ASSUME NEW a \in Nat, NEW b \in Nat, NEW c \in Nat, NEW d \in Nat, NEW e \in Nat, NEW f \in Nat,
           a + b + c + d + e + f = 0
    PROVE  a = 0 /\ b = 0 /\ c = 0 /\ d = 0 /\ e = 0
BY SMT

LEMMA Quiescent == SafeInv => EmptyMeansQuiescent
<1> SUFFICES ASSUME SafeInv, \A s \in Slots : outstanding[s] = 0
             PROVE  /\ \A p \in Senders : pc[p] # "counted" /\ feeder[p] = <<>>
                    /\ \A s \in Slots : pipe[s] = <<>>
                    /\ todo = 0 /\ active = 0 /\ ~gotNone /\ ~sentinel
    BY DEF EmptyMeansQuiescent
<1>1. \A s \in Slots : /\ CountedOn(s) \in Nat /\ FeedingOn(s) \in Nat /\ Waiting(s) \in Nat
                        /\ UnackedOn(s) \in Nat /\ Withheld(s) \in Nat
                        /\ lost[s] \in Nat /\ outstanding[s] = InPlace(s) + lost[s]
    BY PartsNat, ExactIs DEF SafeInv, AccountInv, CountInv
<1>2. \A s \in Slots : Idle(s) /\ UnackedOn(s) = 0 /\ Withheld(s) = 0
  <2>1. ASSUME NEW s \in Slots PROVE Idle(s) /\ UnackedOn(s) = 0 /\ Withheld(s) = 0
    <3>1. InPlace(s) = CountedOn(s) + FeedingOn(s) + Waiting(s) + UnackedOn(s) + Withheld(s)
        BY DEF InPlace
    <3>2. InPlace(s) + lost[s] = 0
        BY <1>1
    <3>3. /\ CountedOn(s) \in Nat /\ FeedingOn(s) \in Nat /\ Waiting(s) \in Nat
          /\ UnackedOn(s) \in Nat /\ Withheld(s) \in Nat /\ lost[s] \in Nat
        BY <1>1
    <3>4. CountedOn(s) + FeedingOn(s) + Waiting(s) + UnackedOn(s) + Withheld(s) + lost[s] = 0
        BY <3>1, <3>2
    <3> QED BY <3>3, <3>4, SumZero DEF Idle
  <2> QED BY <2>1
<1>3. Len(acks) = 0
  <2>1. \A s \in Slots : \A i \in 1 .. Len(acks) : acks[i] # s
    <3>1. ASSUME NEW s \in Slots PROVE \A i \in 1 .. Len(acks) : acks[i] # s
      <4>1. CountIn(acks, {s}) = 0
          BY <1>2, UnackedIsCount
      <4>2. \A i \in 1 .. Len(acks) : acks[i] \notin {s}
          BY <4>1, CountZero DEF SafeInv, BatchInv
      <4> QED BY <4>2
    <3> QED BY <3>1
  <2>2. \A i \in 1 .. Len(acks) : acks[i] \in Slots
      BY ElementOfSeq DEF SafeInv, BatchInv
  <2>3. Len(acks) \in Nat
      BY LenProperties DEF SafeInv, BatchInv
  <2> QED BY <2>1, <2>2, <2>3
<1>4. todo = 0 /\ active = 0 /\ ~gotNone
    BY <1>3, AdmissionAssumption DEF SafeInv, BatchInv
<1>5. ~sentinel
    BY <1>2, Places0 DEF Withheld
<1> QED BY <1>2, <1>4, <1>5, IdleMeans

\* The counts of every slot are exact, and the queue is called empty only when
\* nothing is inside put(), in a feeder, in a pipe or with the worker.
THEOREM AccountingHolds == Spec => []Accounting
<1>1. SafeInv => Accounting
    BY Quiescent DEF SafeInv, AccountInv, Accounting
<1> QED BY <1>1, SafeHolds, PTL

-----------------------------------------------------------------------------
(* The sentinel comes last: as many units are counted as there are          *)
(* dispatches only when nothing else is counted.                            *)

\* The unit that counts the dispatch at place i.
Before(i) == {j \in 1 .. i : acks[j] = acks[i]}
Rank(i)   == Cardinality(Before(i))

LEMMA RankType ==
    ASSUME BatchInv, NEW i \in DOMAIN acks
    PROVE  Rank(i) \in 1 .. UnackedOn(acks[i]) /\ acks[i] \in Slots
<1>1. /\ DOMAIN acks = 1 .. Len(acks) /\ Len(acks) \in Nat /\ acks[i] \in Slots /\ i \in Nat
      /\ i \in 1 .. Len(acks)
    BY LenProperties, ElementOfSeq DEF BatchInv
<1> DEFINE All == {j \in DOMAIN acks : acks[j] = acks[i]}
<1>2. All = Places(acks, {acks[i]}) /\ UnackedOn(acks[i]) = Cardinality(All)
    BY DEF Places, UnackedOn
<1>3. IsFiniteSet(All)
    BY <1>2, CountType DEF BatchInv
<1>4. Before(i) \in SUBSET All /\ i \in Before(i)
    BY <1>1 DEF Before
<1>5. Rank(i) \in Nat /\ Rank(i) <= UnackedOn(acks[i]) /\ UnackedOn(acks[i]) \in Nat
    BY <1>2, <1>3, <1>4, FS_Subset, FS_CardinalityType DEF Rank
<1>6. Rank(i) # 0
    BY <1>3, <1>4, FS_Subset, FS_EmptySet DEF Rank
<1> QED BY <1>1, <1>5, <1>6

LEMMA RankDiffers ==
    ASSUME BatchInv, NEW i \in DOMAIN acks, NEW k \in DOMAIN acks, i < k, acks[i] = acks[k]
    PROVE  Rank(i) # Rank(k)
<1>1. DOMAIN acks = 1 .. Len(acks) /\ Len(acks) \in Nat /\ i \in Nat /\ k \in Nat
    BY LenProperties DEF BatchInv
<1>2. Before(k) \in SUBSET (1 .. k) /\ IsFiniteSet(1 .. k)
    BY <1>1, FS_Interval DEF Before
<1>3. IsFiniteSet(Before(k))
    BY <1>2, FS_Subset
<1>4. Before(i) \in SUBSET Before(k) /\ k \in Before(k) /\ k \notin Before(i)
    BY <1>1 DEF Before
<1> QED BY <1>3, <1>4, FS_Subset DEF Rank

LEMMA UnitsFinite == ASSUME outstanding \in [Slots -> Nat] PROVE IsFiniteSet(Units)
<1> DEFINE Family == {{s} \X (1 .. outstanding[s]) : s \in Slots}
           f == [s \in Slots |-> {s} \X (1 .. outstanding[s])]
<1>1. IsFiniteSet(Slots)
  <2>1. 0 \in Int /\ SlotCount - 1 \in Int
      BY AdmissionAssumption
  <2> QED BY <2>1, FS_Interval DEF Slots
<1>2. f \in Surjection(Slots, Family)
    BY DEF Surjection
<1>3. IsFiniteSet(Family)
    BY <1>1, <1>2, FS_Surjection
<1>4. \A S \in Family : IsFiniteSet(S)
  <2>1. ASSUME NEW s \in Slots PROVE IsFiniteSet({s} \X (1 .. outstanding[s]))
    <3>1. outstanding[s] \in Int /\ 1 \in Int
        OBVIOUS
    <3>2. IsFiniteSet(1 .. outstanding[s]) /\ IsFiniteSet({s})
        BY <3>1, FS_Interval, FS_Singleton
    <3> QED BY <3>2, FS_Product
  <2> QED BY <2>1
<1> QED BY <1>3, <1>4, FS_UNION DEF Units

LEMMA DrainedIdle == ASSUME SafeInv, sentinel, Drained PROVE \A s \in Slots : Idle(s)
<1> SUFFICES ASSUME NEW s \in Slots, ~Idle(s) PROVE FALSE
    OBVIOUS
<1> DEFINE D == DOMAIN acks
           g == [i \in D |-> <<acks[i], Rank(i)>>]
           G == {g[i] : i \in D}
           a == <<0, UnackedOn(0) + 1>>
           b == <<s, outstanding[s]>>
<1>1. \A t \in Slots : /\ CountedOn(t) \in Nat /\ FeedingOn(t) \in Nat /\ Waiting(t) \in Nat
                        /\ UnackedOn(t) \in Nat /\ Withheld(t) \in Nat /\ lost[t] \in Nat
                        /\ outstanding[t] \in Nat /\ outstanding[t] = InPlace(t) + lost[t]
    BY PartsNat, ExactIs DEF SafeInv, AccountInv, CountInv
<1>2. \A t \in Slots : outstanding[t] >= UnackedOn(t) + Withheld(t)
  <2>1. ASSUME NEW t \in Slots PROVE outstanding[t] >= UnackedOn(t) + Withheld(t)
    <3>1. InPlace(t) = CountedOn(t) + FeedingOn(t) + Waiting(t) + UnackedOn(t) + Withheld(t)
        BY DEF InPlace
    <3> QED BY <1>1, <3>1
  <2> QED BY <2>1
<1>3. outstanding[s] >= UnackedOn(s) + Withheld(s) + 1
  <2>1. InPlace(s) = CountedOn(s) + FeedingOn(s) + Waiting(s) + UnackedOn(s) + Withheld(s)
      BY DEF InPlace
  <2>2. CountedOn(s) + FeedingOn(s) + Waiting(s) >= 1
      BY <1>1 DEF Idle
  <2> QED BY <1>1, <2>1, <2>2
<1>4. 0 \in Slots /\ Withheld(0) = 1
    BY Places0 DEF Withheld
<1>5. BatchInv /\ D = 1 .. Len(acks) /\ Len(acks) \in Nat
    BY LenProperties DEF SafeInv, BatchInv
<1>6. \A i \in D : Rank(i) \in 1 .. UnackedOn(acks[i]) /\ acks[i] \in Slots
    BY <1>5, RankType
<1>7. IsFiniteSet(G) /\ Cardinality(G) = Len(acks)
  <2>1. \A i, k \in D : g[i] = g[k] => i = k
    <3>1. ASSUME NEW i \in D, NEW k \in D, g[i] = g[k], i # k PROVE FALSE
      <4>1. acks[i] = acks[k] /\ Rank(i) = Rank(k) /\ (i < k \/ k < i)
          BY <1>5, <3>1
      <4> QED BY <1>5, <4>1, RankDiffers
    <3> QED BY <3>1
  <2>2. g \in [D -> G] /\ \A x \in G : \E i \in D : g[i] = x
      OBVIOUS
  <2>3. g \in Bijection(D, G)
    <3> HIDE DEF g, G, D
    <3> QED BY <2>1, <2>2 DEF Bijection, Injection, Surjection, IsInjective
  <2>4. IsFiniteSet(D) /\ Cardinality(D) = Len(acks)
    <3>1. 1 \in Int /\ Len(acks) \in Int /\ Len(acks) >= 0
        BY <1>5
    <3>2. \A x, y \in Int : IsFiniteSet(x .. y) /\ Cardinality(x .. y) = IF x > y THEN 0 ELSE y - x + 1
        BY FS_Interval
    <3>3. IsFiniteSet(1 .. Len(acks)) /\ Cardinality(1 .. Len(acks)) = IF 1 > Len(acks) THEN 0 ELSE Len(acks) - 1 + 1
        BY <3>1, <3>2
    <3> QED BY <1>5, <3>1, <3>3
  <2> HIDE DEF g, G, D
  <2> QED BY <2>3, <2>4, FS_Bijection DEF ExistsBijection
<1>8. G \subseteq Units
  <2>1. ASSUME NEW i \in D PROVE g[i] \in Units
    <3>1. Rank(i) \in 1 .. outstanding[acks[i]] /\ acks[i] \in Slots
        BY <1>1, <1>2, <1>6
    <3> QED BY <3>1 DEF Units
  <2> QED BY <2>1
<1>9. a \in Units /\ b \in Units
  <2>1. UnackedOn(0) + 1 \in 1 .. outstanding[0]
      BY <1>1, <1>2, <1>4
  <2>2. outstanding[s] \in 1 .. outstanding[s]
      BY <1>1, <1>3
  <2> QED BY <1>4, <2>1, <2>2 DEF Units
<1>10. \A x \in G : x[2] <= UnackedOn(x[1])
    BY <1>6
<1>11. a \notin G /\ b \notin G /\ a # b
  <2>1. a[2] > UnackedOn(a[1])
      BY <1>1, <1>4
  <2>2. b[2] > UnackedOn(b[1])
      BY <1>1, <1>3
  <2>3. a # b
    <3>1. CASE s = 0
        BY <1>1, <1>3, <1>4, <3>1
    <3>2. CASE s # 0
        BY <3>2
    <3> QED BY <3>1, <3>2
  <2>4. UnackedOn(a[1]) \in Nat /\ UnackedOn(b[1]) \in Nat /\ a[2] \in Nat /\ b[2] \in Nat
      BY <1>1, <1>4
  <2> HIDE DEF a, b, G
  <2> QED BY <1>10, <2>1, <2>2, <2>3, <2>4
<1>12. IsFiniteSet(Units)
    BY UnitsFinite DEF SafeInv, AccountInv, CountInv
<1>13. Cardinality((G \cup {a}) \cup {b}) = Len(acks) + 2
  <2> HIDE DEF a, b, G
  <2>1. IsFiniteSet(G \cup {a}) /\ Cardinality(G \cup {a}) = Len(acks) + 1
      BY <1>7, <1>11, FS_AddElement
  <2>2. b \notin G \cup {a}
      BY <1>11
  <2>3. Cardinality((G \cup {a}) \cup {b}) = Cardinality(G \cup {a}) + 1
      BY <2>1, <2>2, FS_AddElement
  <2> QED BY <1>5, <2>1, <2>3
<1>14. Cardinality((G \cup {a}) \cup {b}) <= Cardinality(Units)
  <2> HIDE DEF a, b, G
  <2>1. (G \cup {a}) \cup {b} \in SUBSET Units
      BY <1>8, <1>9
  <2> QED BY <1>12, <2>1, FS_Subset
<1>15. Cardinality(Units) = Len(acks) + 1
    BY DEF Drained
<1> QED BY <1>5, <1>13, <1>14, <1>15

\* get() hands the sentinel out only when every pipe, every feeder and every put()
\* is empty: no request that was admitted is left behind.
THEOREM SentinelIsLast == Spec => SentinelLast
<1>1. ASSUME SafeInv, [Next]_vars, gotNone', ~gotNone PROVE sentinel /\ Drained
  <2>1. CASE EndScan
      BY <1>1, <2>1 DEF EndScan
  <2>2. CASE UNCHANGED gotNone
      BY <1>1, <2>2
  <2>3. CASE UNCHANGED vars
      BY <2>2, <2>3 DEF vars, workerVars
  <2>4. ASSUME NEW p \in Senders, SenderNext(p) \/ Close PROVE UNCHANGED gotNone
      BY <2>4, SendersKeepWorker DEF workerVars
  <2>5. CASE FinishBatch
      BY <1>1, <2>5 DEF FinishBatch
  <2>6. CASE ScanEmpty \/ ScanSentinel \/ Dispatch \/ CollectTimeout \/ FilterStale \/ FilterKeep \/ Infer \/ AckBatch
      BY <2>2, <2>6 DEF ScanEmpty, ScanSentinel, Dispatch, CollectTimeout, FilterStale, FilterKeep, Infer, AckBatch
  <2> QED BY <1>1, <2>1, <2>2, <2>3, <2>4, <2>5, <2>6, NextIs, Places0 DEF Worker
<1>2. SafeInv /\ [Next]_vars
      => [gotNone' /\ ~gotNone =>
            /\ \A s \in Slots : pipe[s] = <<>>
            /\ \A p \in Senders : feeder[p] = <<>> /\ pc[p] # "counted"]_vars
  <2> SUFFICES ASSUME SafeInv, [Next]_vars, gotNone', ~gotNone
               PROVE  /\ \A s \in Slots : pipe[s] = <<>>
                      /\ \A p \in Senders : feeder[p] = <<>> /\ pc[p] # "counted"
      OBVIOUS
  <2> QED BY <1>1, DrainedIdle, IdleMeans
<1> QED BY <1>2, SafeHolds, PTL DEF Spec, SentinelLast
-----------------------------------------------------------------------------
(* Order: what the queue operations do to the requests of a channel. *)

LEMMA RemoveAtIs ==
    ASSUME NEW T, NEW q \in Seq(T), NEW k \in 1 .. Len(q)
    PROVE  /\ RemoveAt(q, k) \in Seq(T) /\ Len(RemoveAt(q, k)) = Len(q) - 1
           /\ \A i \in 1 .. Len(q) - 1 : RemoveAt(q, k)[i] = IF i < k THEN q[i] ELSE q[i + 1]
<1>1. Len(q) \in Nat /\ k \in Nat /\ k <= Len(q) /\ k >= 1 /\ \A i \in 1 .. Len(q) : q[i] \in T
    BY LenProperties, ElementOfSeq
<1> DEFINE a == SubSeq(q, 1, k - 1)
           b == SubSeq(q, k + 1, Len(q))
<1>2. a \in Seq(T) /\ Len(a) = k - 1 /\ \A i \in 1 .. k - 1 : a[i] = q[i]
  <2>1. 1 \in Int /\ k - 1 \in Int /\ \A i \in 1 .. k - 1 : q[i] \in T
      BY <1>1
  <2>2. a \in Seq(T) /\ Len(a) = IF 1 <= k - 1 THEN k - 1 - 1 + 1 ELSE 0
      BY <2>1, SubSeqProperties
  <2>3. \A i \in 1 .. k - 1 : i \in 1 .. k - 1 - 1 + 1 /\ 1 + i - 1 = i
      BY <1>1
  <2>4. \A i \in 1 .. k - 1 - 1 + 1 : a[i] = q[1 + i - 1]
      BY <2>1, SubSeqProperties
  <2> QED BY <1>1, <2>2, <2>3, <2>4
<1>3. b \in Seq(T) /\ Len(b) = Len(q) - k /\ \A i \in 1 .. Len(q) - k : b[i] = q[k + i]
  <2>1. k + 1 \in Int /\ Len(q) \in Int /\ \A i \in k + 1 .. Len(q) : q[i] \in T
      BY <1>1
  <2>2. b \in Seq(T) /\ Len(b) = IF k + 1 <= Len(q) THEN Len(q) - (k + 1) + 1 ELSE 0
      BY <2>1, SubSeqProperties
  <2>3. \A i \in 1 .. Len(q) - k : i \in 1 .. Len(q) - (k + 1) + 1 /\ (k + 1) + i - 1 = k + i
      BY <1>1
  <2>4. \A i \in 1 .. Len(q) - (k + 1) + 1 : b[i] = q[(k + 1) + i - 1]
      BY <2>1, SubSeqProperties
  <2> QED BY <1>1, <2>2, <2>3, <2>4
<1>4. RemoveAt(q, k) = a \o b
    BY DEF RemoveAt
<1> HIDE DEF a, b
<1>5. /\ a \o b \in Seq(T) /\ Len(a \o b) = Len(a) + Len(b)
      /\ \A i \in 1 .. Len(a) + Len(b) : (a \o b)[i] = IF i <= Len(a) THEN a[i] ELSE b[i - Len(a)]
    BY <1>2, <1>3, ConcatProperties
<1> QED BY <1>1, <1>2, <1>3, <1>4, <1>5

\* Without a sentinel the requests are all of the channel; with one, all but it.
LEMMA RequestsIs ==
    ASSUME NEW T, NEW q \in Seq(T), OneNone(q)
    PROVE  /\ ~NoneIn(q) => Requests(q) = q
           /\ \A k \in 1 .. Len(q) : q[k] = None => Requests(q) = RemoveAt(q, k)
           /\ Requests(q) \in Seq(T)
<1>1. DOMAIN q = 1 .. Len(q)
    BY LenProperties
<1>2. ~NoneIn(q) => Requests(q) = q
    BY DEF NoneIn, Requests
<1>3. ASSUME NEW k \in 1 .. Len(q), q[k] = None PROVE Requests(q) = RemoveAt(q, k)
  <2>1. (CHOOSE i \in DOMAIN q : q[i] = None) = k
      BY <1>1, <1>3 DEF OneNone
  <2> QED BY <1>1, <1>3, <2>1 DEF Requests
<1>4. Requests(q) \in Seq(T)
    BY <1>1, <1>2, <1>3, RemoveAtIs DEF NoneIn
<1> QED BY <1>2, <1>3, <1>4

LEMMA RequestsAppend ==
    ASSUME NEW T, NEW q \in Seq(T), OneNone(q), NEW x \in T
    PROVE  /\ x # None => Requests(Append(q, x)) = Append(Requests(q), x)
           /\ x = None /\ ~NoneIn(q) => Requests(Append(q, x)) = Requests(q)
<1> DEFINE p == Append(q, x)
<1>1. /\ p \in Seq(T) /\ Len(p) = Len(q) + 1 /\ Len(q) \in Nat
      /\ \A i \in 1 .. Len(q) : p[i] = q[i]
      /\ p[Len(q) + 1] = x /\ DOMAIN q = 1 .. Len(q)
    BY AppendProperties, LenProperties
<1>2. /\ NoneIn(p) <=> NoneIn(q) \/ x = None
      /\ x # None \/ ~NoneIn(q) => OneNone(p)
    BY NoneAppend
<1> HIDE DEF p
<1>3. ASSUME x # None PROVE Requests(p) = Append(Requests(q), x)
  <2>1. CASE ~NoneIn(q)
      BY <1>1, <1>2, <1>3, <2>1, RequestsIs DEF p
  <2>2. CASE NoneIn(q)
    <3>1. PICK k \in 1 .. Len(q) : q[k] = None
        BY <1>1, <2>2 DEF NoneIn
    <3>2. k \in 1 .. Len(p) /\ p[k] = None
        BY <1>1, <3>1
    <3>3. Requests(p) = RemoveAt(p, k) /\ Requests(q) = RemoveAt(q, k)
        BY <1>1, <1>2, <1>3, <3>1, <3>2, RequestsIs
    <3>4. /\ RemoveAt(q, k) \in Seq(T) /\ Len(RemoveAt(q, k)) = Len(q) - 1
          /\ \A i \in 1 .. Len(q) - 1 : RemoveAt(q, k)[i] = IF i < k THEN q[i] ELSE q[i + 1]
        BY <3>1, RemoveAtIs
    <3>5. /\ RemoveAt(p, k) \in Seq(T) /\ Len(RemoveAt(p, k)) = Len(q)
          /\ \A i \in 1 .. Len(q) : RemoveAt(p, k)[i] = IF i < k THEN p[i] ELSE p[i + 1]
      <4>1. Len(p) - 1 = Len(q)
          BY <1>1
      <4> QED BY <1>1, <3>2, <4>1, RemoveAtIs
    <3> DEFINE r == RemoveAt(q, k)
               t == RemoveAt(p, k)
    <3> HIDE DEF r, t
    <3>6. /\ Append(r, x) \in Seq(T) /\ Len(Append(r, x)) = Len(r) + 1
          /\ \A i \in 1 .. Len(r) : Append(r, x)[i] = r[i]
          /\ Append(r, x)[Len(r) + 1] = x
        BY <3>4, AppendProperties DEF r
    <3>7. \A i \in 1 .. Len(q) : t[i] = Append(r, x)[i]
      <4>0. Len(r) = Len(q) - 1 /\ Append(r, x)[Len(q)] = x
          BY <1>1, <3>4, <3>6 DEF r
      <4>1. ASSUME NEW i \in 1 .. Len(q), i < k PROVE t[i] = Append(r, x)[i]
        <5>1. i \in 1 .. Len(r) /\ i \in 1 .. Len(q) - 1
            BY <1>1, <3>1, <4>0, <4>1
        <5> QED BY <1>1, <3>4, <3>5, <3>6, <4>1, <5>1 DEF r, t
      <4>2. ASSUME NEW i \in 1 .. Len(q), i >= k, i < Len(q) PROVE t[i] = Append(r, x)[i]
        <5>1. i \in 1 .. Len(r) /\ i \in 1 .. Len(q) - 1 /\ i + 1 \in 1 .. Len(q) /\ ~(i < k)
            BY <1>1, <3>1, <4>0, <4>2
        <5> QED BY <1>1, <3>4, <3>5, <3>6, <4>2, <5>1 DEF r, t
      <4>3. t[Len(q)] = Append(r, x)[Len(q)]
        <5>1. Len(q) \in 1 .. Len(q) /\ ~(Len(q) < k)
            BY <1>1, <3>1
        <5> QED BY <1>1, <3>5, <4>0, <5>1 DEF t
      <4>4. \A i \in 1 .. Len(q) : i < k \/ (i >= k /\ i < Len(q)) \/ i = Len(q)
        <5>1. \A m, n \in Int : \A i \in 1 .. m : i < n \/ (i >= n /\ i < m) \/ i = m
            BY SMT
        <5>2. k \in Int /\ Len(q) \in Int
            BY <1>1, <3>1
        <5> QED BY <5>1, <5>2
      <4> QED BY <4>1, <4>2, <4>3, <4>4
    <3>8. t = Append(r, x)
      <4>1. Len(t) = Len(q) /\ Len(Append(r, x)) = Len(q) /\ t \in Seq(T)
          BY <1>1, <3>4, <3>5, <3>6 DEF r, t
      <4> QED BY <3>6, <3>7, <4>1, SeqEqual
    <3> QED BY <3>3, <3>8 DEF r, t
  <2> QED BY <2>1, <2>2
<1>4. ASSUME x = None, ~NoneIn(q) PROVE Requests(p) = Requests(q)
  <2>1. Len(p) \in 1 .. Len(p) /\ p[Len(p)] = None
      BY <1>1, <1>4
  <2>2. Requests(p) = RemoveAt(p, Len(p)) /\ Requests(q) = q
      BY <1>1, <1>2, <1>4, <2>1, RequestsIs
  <2>3. /\ RemoveAt(p, Len(p)) \in Seq(T) /\ Len(RemoveAt(p, Len(p))) = Len(p) - 1
        /\ \A i \in 1 .. Len(p) - 1 : RemoveAt(p, Len(p))[i] = IF i < Len(p) THEN p[i] ELSE p[i + 1]
      BY <1>1, <2>1, RemoveAtIs
  <2> DEFINE t == RemoveAt(p, Len(p))
  <2> HIDE DEF t
  <2>4. t \in Seq(T) /\ Len(t) = Len(q) /\ \A i \in 1 .. Len(t) : t[i] = q[i]
      BY <1>1, <2>3 DEF t
  <2> QED BY <2>2, <2>4, SeqEqual DEF t
<1> QED BY <1>3, <1>4 DEF p

LEMMA RequestsTail ==
    ASSUME NEW T, NEW q \in Seq(T), OneNone(q), q # <<>>
    PROVE  /\ Head(q) # None => Requests(q) # <<>> /\ Head(Requests(q)) = Head(q)
                                /\ Tail(Requests(q)) = Requests(Tail(q))
           /\ Head(q) = None => Requests(q) = Requests(Tail(q))
<1> DEFINE p == Tail(q)
<1>1. /\ p \in Seq(T) /\ Len(p) = Len(q) - 1 /\ Len(q) \in Nat \ {0}
      /\ \A i \in 1 .. Len(q) - 1 : p[i] = q[i + 1]
      /\ q[1] = Head(q) /\ DOMAIN q = 1 .. Len(q) /\ DOMAIN p = 1 .. Len(q) - 1
    BY HeadTailProperties, LenProperties, EmptySeq
<1>2. /\ NoneIn(q) <=> Head(q) = None \/ NoneIn(p)
      /\ OneNone(p) /\ (Head(q) = None => ~NoneIn(p))
    BY NoneTail
<1> HIDE DEF p
<1>3. ASSUME Head(q) # None PROVE Requests(q) # <<>> /\ Head(Requests(q)) = Head(q) /\ Tail(Requests(q)) = Requests(p)
  <2>1. CASE ~NoneIn(q)
      BY <1>1, <1>2, <1>3, <2>1, RequestsIs DEF p
  <2>2. CASE NoneIn(q)
    <3>1. PICK k \in 1 .. Len(q) : q[k] = None
        BY <1>1, <2>2 DEF NoneIn
    <3>2. k \in 2 .. Len(q) /\ k - 1 \in 1 .. Len(p) /\ p[k - 1] = None /\ k \in Nat
        BY <1>1, <1>3, <3>1
    <3> DEFINE r == RemoveAt(q, k)
               t == RemoveAt(p, k - 1)
    <3>3. Requests(q) = r /\ Requests(p) = t
        BY <1>1, <1>2, <3>1, <3>2, RequestsIs
    <3>4. /\ r \in Seq(T) /\ Len(r) = Len(q) - 1
          /\ \A i \in 1 .. Len(q) - 1 : r[i] = IF i < k THEN q[i] ELSE q[i + 1]
        BY <3>1, RemoveAtIs
    <3>5. /\ t \in Seq(T) /\ Len(t) = Len(p) - 1
          /\ \A i \in 1 .. Len(p) - 1 : t[i] = IF i < k - 1 THEN p[i] ELSE p[i + 1]
        BY <1>1, <3>2, RemoveAtIs
    <3> HIDE DEF r, t
    <3>6. r # <<>> /\ Head(r) = q[1]
      <4>1. Len(r) >= 1 /\ r[1] = q[1]
          BY <1>1, <3>2, <3>4
      <4> QED BY <3>4, <4>1, EmptySeq
    <3>7. /\ Tail(r) \in Seq(T) /\ Len(Tail(r)) = Len(r) - 1
          /\ \A i \in 1 .. Len(r) - 1 : Tail(r)[i] = r[i + 1]
        BY <3>4, <3>6, HeadTailProperties
    <3>8. Len(Tail(r)) = Len(t) /\ \A i \in 1 .. Len(t) : Tail(r)[i] = t[i]
        BY <1>1, <3>2, <3>4, <3>5, <3>7
    <3>9. Tail(r) = t
      <4>1. Len(Tail(r)) = Len(t) /\ \A i \in 1 .. Len(Tail(r)) : Tail(r)[i] = t[i]
          BY <3>8
      <4> QED BY <3>5, <3>7, <4>1, SeqEqual
    <3> QED BY <1>1, <3>3, <3>6, <3>9
  <2> QED BY <2>1, <2>2
<1>4. ASSUME Head(q) = None PROVE Requests(q) = Requests(p)
  <2>1. 1 \in 1 .. Len(q) /\ q[1] = None
      BY <1>1, <1>4
  <2> DEFINE r == RemoveAt(q, 1)
  <2>2. Requests(q) = r /\ Requests(p) = p
      BY <1>1, <1>2, <1>4, <2>1, RequestsIs
  <2>3. /\ r \in Seq(T) /\ Len(r) = Len(q) - 1
        /\ \A i \in 1 .. Len(q) - 1 : r[i] = IF i < 1 THEN q[i] ELSE q[i + 1]
      BY <2>1, RemoveAtIs
  <2> HIDE DEF r
  <2>4. r = p
    <3>1. Len(r) = Len(p) /\ \A i \in 1 .. Len(r) : r[i] = p[i]
        BY <1>1, <2>3
    <3> QED BY <1>1, <2>3, <3>1, SeqEqual
  <2> QED BY <2>2, <2>4
<1> QED BY <1>3, <1>4 DEF p

\* Concatenations of what was served, what waits and what the feeder holds.
LEMMA JoinAppendLast ==
    \A a, b, c \in Seq(Nat) : \A x \in Nat : a \o b \o Append(c, x) = Append(a \o b \o c, x)
<1> SUFFICES ASSUME NEW a \in Seq(Nat), NEW b \in Seq(Nat), NEW c \in Seq(Nat), NEW x \in Nat
             PROVE  a \o b \o Append(c, x) = Append(a \o b \o c, x)
    OBVIOUS
<1>1. <<x>> \in Seq(Nat) /\ a \o b \in Seq(Nat) /\ a \o b \o c \in Seq(Nat)
    BY ConcatProperties
<1>2. Append(c, x) = c \o <<x>> /\ Append(a \o b \o c, x) = a \o b \o c \o <<x>>
    BY <1>1, AppendIsConcat
<1> QED BY <1>1, <1>2, ConcatAssociative

LEMMA JoinAppendMiddle ==
    \A a, b, c \in Seq(Nat) : \A x \in Nat : a \o Append(b, x) \o c = a \o b \o (<<x>> \o c)
<1> SUFFICES ASSUME NEW a \in Seq(Nat), NEW b \in Seq(Nat), NEW c \in Seq(Nat), NEW x \in Nat
             PROVE  a \o Append(b, x) \o c = a \o b \o (<<x>> \o c)
    OBVIOUS
<1>1. <<x>> \in Seq(Nat) /\ a \o b \in Seq(Nat) /\ a \o b \o c \in Seq(Nat)
    BY ConcatProperties
<1>2. Append(b, x) = b \o <<x>>
    BY AppendIsConcat
<1>3. a \o (b \o <<x>>) = (a \o b) \o <<x>>
    BY <1>1, ConcatAssociative
<1>4. ((a \o b) \o <<x>>) \o c = (a \o b) \o (<<x>> \o c)
    BY <1>1, ConcatAssociative
<1> QED BY <1>2, <1>3, <1>4

LEMMA JoinAppendFirst ==
    \A a, b, c \in Seq(Nat) : \A x \in Nat : Append(a, x) \o b \o c = a \o (<<x>> \o b) \o c
<1> SUFFICES ASSUME NEW a \in Seq(Nat), NEW b \in Seq(Nat), NEW c \in Seq(Nat), NEW x \in Nat
             PROVE  Append(a, x) \o b \o c = a \o (<<x>> \o b) \o c
    OBVIOUS
<1>1. <<x>> \in Seq(Nat) /\ a \o b \in Seq(Nat) /\ a \o b \o c \in Seq(Nat)
    BY ConcatProperties
<1>2. Append(a, x) = a \o <<x>>
    BY AppendIsConcat
<1>3. (a \o <<x>>) \o b = a \o (<<x>> \o b)
    BY <1>1, ConcatAssociative
<1> QED BY <1>2, <1>3

LEMMA HeadJoin == ASSUME NEW T, NEW q \in Seq(T), q # <<>> PROVE q = <<Head(q)>> \o Tail(q) /\ Head(q) \in T /\ Tail(q) \in Seq(T)
<1>1. /\ Len(q) \in Nat \ {0} /\ q[1] = Head(q) /\ Tail(q) \in Seq(T) /\ Len(Tail(q)) = Len(q) - 1
      /\ Head(q) \in T /\ \A i \in 1 .. Len(Tail(q)) : Tail(q)[i] = q[i + 1]
    BY HeadTailProperties, EmptySeq
<1> DEFINE h == <<Head(q)>>
           t == Tail(q)
<1>2. h \in Seq(T) /\ Len(h) = 1 /\ h[1] = q[1]
    BY <1>1
<1> HIDE DEF h, t
<1>6. t \in Seq(T)
    BY <1>1 DEF t
<1>7. /\ h \o t \in Seq(T) /\ Len(h \o t) = Len(h) + Len(t)
      /\ \A i \in 1 .. Len(h) + Len(t) : (h \o t)[i] = IF i <= Len(h) THEN h[i] ELSE t[i - Len(h)]
    BY <1>2, <1>6, ConcatProperties
<1>3. /\ h \o t \in Seq(T) /\ Len(h \o t) = 1 + Len(t)
      /\ \A i \in 1 .. 1 + Len(t) : (h \o t)[i] = IF i <= 1 THEN h[i] ELSE t[i - 1]
    BY <1>2, <1>7
<1>4. Len(q) = Len(h \o t) /\ \A i \in 1 .. Len(q) : q[i] = (h \o t)[i]
    BY <1>1, <1>2, <1>3 DEF t
<1>5. q = h \o t
    BY <1>3, <1>4, SeqEqual
<1> QED BY <1>1, <1>5 DEF h, t

LEMMA PrefixJoin ==
    ASSUME NEW T, NEW a \in Seq(T), NEW b \in Seq(T)
    PROVE  SubSeq(a \o b, 1, Len(a \o b) - Len(b)) = a
<1>1. /\ a \o b \in Seq(T) /\ Len(a \o b) = Len(a) + Len(b) /\ Len(a) \in Nat /\ Len(b) \in Nat
      /\ \A i \in 1 .. Len(a) + Len(b) : (a \o b)[i] = IF i <= Len(a) THEN a[i] ELSE b[i - Len(a)]
    BY ConcatProperties, LenProperties
<1> DEFINE c == SubSeq(a \o b, 1, Len(a))
<1>2. /\ c \in Seq(T) /\ Len(c) = Len(a) /\ \A i \in 1 .. Len(a) : c[i] = (a \o b)[i]
  <2>1. 1 \in Int /\ Len(a) \in Int /\ \A i \in 1 .. Len(a) : (a \o b)[i] \in T
      BY <1>1, ElementOfSeq
  <2>2. c \in Seq(T) /\ Len(c) = (IF 1 <= Len(a) THEN Len(a) - 1 + 1 ELSE 0)
      BY <2>1, SubSeqProperties
  <2>3. \A i \in 1 .. Len(a) - 1 + 1 : c[i] = (a \o b)[1 + i - 1]
      BY <2>1, SubSeqProperties
  <2>4. \A i \in 1 .. Len(a) : i \in 1 .. Len(a) - 1 + 1 /\ 1 + i - 1 = i
      BY <1>1
  <2> QED BY <1>1, <2>2, <2>3, <2>4
<1> HIDE DEF c
<1>3. c = a
  <2>1. Len(c) = Len(a) /\ \A i \in 1 .. Len(c) : c[i] = a[i]
      BY <1>1, <1>2
  <2> QED BY <1>2, <2>1, SeqEqual
<1>4. Len(a \o b) - Len(b) = Len(a)
    BY <1>1
<1> QED BY <1>3, <1>4 DEF c

LEMMA OrderStep == SenderInv /\ FeederInv /\ PipeInv /\ ScanInv /\ HistoryInv /\ SentinelInv
                   /\ InAdmissionOrder /\ [Next]_vars => InAdmissionOrder'
<1> SUFFICES ASSUME SenderInv, FeederInv, PipeInv, ScanInv, HistoryInv, SentinelInv, InAdmissionOrder, [Next]_vars
             PROVE  InAdmissionOrder'
    OBVIOUS
<1> USE Places0
<1>0. ASSUME NEW s \in Slots
      PROVE  /\ served[s] \o Requests(pipe[s]) \o feeder[s] = admitted[s]
             /\ OneNone(pipe[s]) /\ pipe[s] \in Seq(0 .. MaxRequests) /\ pipe[s] \in Seq(Nat)
             /\ Requests(pipe[s]) \in Seq(Nat) /\ served[s] \in Seq(Nat)
             /\ feeder[s] \in Seq(Nat) /\ feeder[s] \in Seq(1 .. MaxRequests) /\ s \in Senders
  <2>1. OneNone(pipe[s])
    <3>1. CASE s = 0
        BY <3>1 DEF SentinelInv
    <3>2. CASE s # 0
        BY <3>2 DEF SentinelInv, NoneIn, OneNone
    <3> QED BY <3>1, <3>2
  <2>2. pipe[s] \in Seq(0 .. MaxRequests) /\ feeder[s] \in Seq(1 .. MaxRequests) /\ served[s] \in Seq(Nat)
      BY DEF PipeInv, FeederInv, HistoryInv
  <2>3. pipe[s] \in Seq(Nat) /\ feeder[s] \in Seq(Nat)
    <3>1. 0 .. MaxRequests \subseteq Nat /\ 1 .. MaxRequests \subseteq Nat
        BY AdmissionAssumption
    <3> QED BY <2>2, <3>1, SeqMonotonic
  <2>4. Requests(pipe[s]) \in Seq(Nat)
      BY <2>1, <2>3, RequestsIs
  <2> QED BY <2>1, <2>2, <2>3, <2>4 DEF InAdmissionOrder
<1>1. CASE UNCHANGED <<served, pipe, feeder, admitted>>
    BY <1>1 DEF InAdmissionOrder, Requests
<1>2. ASSUME NEW p \in Senders, PutPublish(p) PROVE InAdmissionOrder'
  <2>1. CASE p = Owner
    <3>1. UNCHANGED <<served, pipe, admitted>> /\ \A s \in Slots : feeder'[s] = feeder[s]
        BY <1>2, <2>1 DEF PutPublish, FeederInv
    <3> QED BY <1>0, <3>1 DEF InAdmissionOrder, Requests
  <2>2. CASE p # Owner
    <3>1. p \in Slots /\ UNCHANGED <<served, pipe>>
          /\ admitted' = [admitted EXCEPT ![p] = Append(@, next[p])]
          /\ feeder' = [feeder EXCEPT ![p] = Append(@, next[p])]
        BY <1>2, <2>2, SenderType DEF PutPublish
    <3>2. next[p] \in Nat
        BY <3>1 DEF SenderInv
    <3>3. \A s \in Slots : s # p => feeder'[s] = feeder[s] /\ admitted'[s] = admitted[s]
        BY <3>1 DEF FeederInv, HistoryInv
    <3>4. feeder'[p] = Append(feeder[p], next[p]) /\ admitted'[p] = Append(admitted[p], next[p])
        BY <3>1 DEF FeederInv, HistoryInv
    <3>5. served[p] \o Requests(pipe[p]) \o Append(feeder[p], next[p])
          = Append(served[p] \o Requests(pipe[p]) \o feeder[p], next[p])
      <4>1. served[p] \in Seq(Nat) /\ Requests(pipe[p]) \in Seq(Nat) /\ feeder[p] \in Seq(Nat)
          BY <1>0, <3>1
      <4> QED BY <3>2, <4>1, JoinAppendLast
    <3>6. ASSUME NEW s \in Slots PROVE served'[s] \o Requests(pipe'[s]) \o feeder'[s] = admitted'[s]
      <4>1. CASE s = p
          BY <1>0, <3>1, <3>4, <3>5, <4>1
      <4>2. CASE s # p
          BY <1>0, <3>1, <3>3, <4>2
      <4> QED BY <4>1, <4>2
    <3> QED BY <3>6 DEF InAdmissionOrder, Requests
  <2> QED BY <2>1, <2>2
<1>3. ASSUME NEW p \in Senders, Feed(p) PROVE InAdmissionOrder'
  <2>1. /\ feeder[p] # <<>> /\ feeder' = [feeder EXCEPT ![p] = Tail(@)] /\ Channel(p) \in Slots
        /\ pipe' = [pipe EXCEPT ![Channel(p)] = Append(@, Head(feeder[p]))] /\ UNCHANGED <<served, admitted>>
      BY <1>3, SenderType DEF Feed
  <2>2. \A s \in Slots : s # Channel(p) => pipe'[s] = pipe[s]
      BY <2>1 DEF PipeInv
  <2>3. pipe'[Channel(p)] = Append(pipe[Channel(p)], Head(feeder[p]))
      BY <2>1 DEF PipeInv
  <2>4. CASE p = Owner
    <3>1. Channel(p) = 0 /\ feeder[p] = <<None>> /\ ~NoneIn(pipe[0]) /\ \A s \in Slots : feeder'[s] = feeder[s]
        BY <2>1, <2>4 DEF SentinelInv, FeederInv
    <3>2. None \in Nat /\ Head(feeder[p]) = None
        BY <3>1 DEF None
    <3>3. Requests(pipe'[0]) = Requests(pipe[0])
      <4>1. pipe[0] \in Seq(Nat) /\ OneNone(pipe[0])
          BY <1>0
      <4>2. Requests(Append(pipe[0], None)) = Requests(pipe[0])
          BY <3>1, <3>2, <4>1, RequestsAppend
      <4> QED BY <2>3, <3>1, <3>2, <4>2
    <3>4. ASSUME NEW s \in Slots PROVE served'[s] \o Requests(pipe'[s]) \o feeder'[s] = admitted'[s]
      <4>1. CASE s = 0
          BY <1>0, <2>1, <3>1, <3>3, <4>1
      <4>2. CASE s # 0
          BY <1>0, <2>1, <2>2, <3>1, <4>2
      <4> QED BY <4>1, <4>2
    <3> QED BY <3>4 DEF InAdmissionOrder, Requests
  <2>5. CASE p # Owner
    <3>1. p \in Slots /\ Channel(p) = p
        BY <2>5, SenderType
    <3>2. /\ feeder[p] = <<Head(feeder[p])>> \o Tail(feeder[p]) /\ Head(feeder[p]) \in Nat
          /\ Tail(feeder[p]) \in Seq(Nat)
        BY <1>0, <2>1, <3>1, HeadJoin
    <3>3. Head(feeder[p]) # None
      <4>1. Head(feeder[p]) \in 1 .. MaxRequests
          BY <1>0, <2>1, <3>1, HeadJoin
      <4> QED BY <4>1 DEF None
    <3>4. Requests(pipe'[p]) = Append(Requests(pipe[p]), Head(feeder[p]))
      <4>1. pipe[p] \in Seq(Nat) /\ OneNone(pipe[p])
          BY <1>0, <3>1
      <4>2. Requests(Append(pipe[p], Head(feeder[p]))) = Append(Requests(pipe[p]), Head(feeder[p]))
          BY <3>2, <3>3, <4>1, RequestsAppend
      <4> QED BY <2>3, <3>1, <4>2
    <3>5. served[p] \o Append(Requests(pipe[p]), Head(feeder[p])) \o Tail(feeder[p])
          = served[p] \o Requests(pipe[p]) \o feeder[p]
      <4>1. served[p] \in Seq(Nat) /\ Requests(pipe[p]) \in Seq(Nat)
          BY <1>0, <3>1
      <4>2. served[p] \o Append(Requests(pipe[p]), Head(feeder[p])) \o Tail(feeder[p])
            = served[p] \o Requests(pipe[p]) \o (<<Head(feeder[p])>> \o Tail(feeder[p]))
          BY <3>2, <4>1, JoinAppendMiddle
      <4> QED BY <3>2, <4>2
    <3>6. feeder'[p] = Tail(feeder[p]) /\ \A s \in Slots : s # p => feeder'[s] = feeder[s]
        BY <2>1 DEF FeederInv
    <3>7. ASSUME NEW s \in Slots PROVE served'[s] \o Requests(pipe'[s]) \o feeder'[s] = admitted'[s]
      <4>1. CASE s = p
          BY <1>0, <2>1, <3>1, <3>4, <3>5, <3>6, <4>1
      <4>2. CASE s # p
          BY <1>0, <2>1, <2>2, <3>1, <3>6, <4>2
      <4> QED BY <4>1, <4>2
    <3> QED BY <3>7 DEF InAdmissionOrder, Requests
  <2> QED BY <2>4, <2>5
<1>4. ASSUME NEW p \in Senders, Kill(p) PROVE InAdmissionOrder'
  <2>1. /\ p \in Slots /\ UNCHANGED <<served, pipe>> /\ feeder' = [feeder EXCEPT ![p] = <<>>]
        /\ admitted' = [admitted EXCEPT ![p] = SubSeq(@, 1, Len(@) - Len(feeder[p]))]
      BY <1>4, SenderType DEF Kill
  <2> DEFINE a == served[p] \o Requests(pipe[p])
  <2>2. a \in Seq(Nat) /\ a \o feeder[p] = admitted[p] /\ feeder[p] \in Seq(Nat)
      BY <1>0, <2>1, ConcatProperties
  <2> HIDE DEF a
  <2>3. SubSeq(admitted[p], 1, Len(admitted[p]) - Len(feeder[p])) = a /\ a \o <<>> = a
      BY <2>2, PrefixJoin, ConcatEmptySeq
  <2>4. /\ feeder'[p] = <<>> /\ admitted'[p] = a
        /\ \A s \in Slots : s # p => feeder'[s] = feeder[s] /\ admitted'[s] = admitted[s]
      BY <2>1, <2>3 DEF FeederInv, HistoryInv
  <2>5. ASSUME NEW s \in Slots PROVE served'[s] \o Requests(pipe'[s]) \o feeder'[s] = admitted'[s]
    <3>1. CASE s = p
        BY <2>1, <2>3, <2>4, <3>1 DEF a
    <3>2. CASE s # p
        BY <1>0, <2>1, <2>4, <3>2
    <3> QED BY <3>1, <3>2
  <2> QED BY <2>5 DEF InAdmissionOrder, Requests
<1>5. CASE ScanSentinel \/ Dispatch
  <2>1. PICK t \in Slots :
           /\ pipe' = [pipe EXCEPT ![t] = Tail(@)] /\ pipe[t] # <<>> /\ UNCHANGED <<feeder, admitted>>
           /\ \/ Head(pipe[t]) = None /\ UNCHANGED served
              \/ Head(pipe[t]) # None /\ served' = [served EXCEPT ![t] = Append(@, Head(pipe[t]))]
      BY <1>5, ScanSlotType DEF ScanSentinel, Dispatch, TakeFrom, senderVars
  <2>2. pipe'[t] = Tail(pipe[t]) /\ \A s \in Slots : s # t => pipe'[s] = pipe[s]
      BY <2>1 DEF PipeInv
  <2>3. CASE Head(pipe[t]) = None
    <3>1. Requests(pipe'[t]) = Requests(pipe[t])
        BY <1>0, <2>1, <2>2, <2>3, RequestsTail
    <3>2. ASSUME NEW s \in Slots PROVE served'[s] \o Requests(pipe'[s]) \o feeder'[s] = admitted'[s]
      <4>1. CASE s = t
          BY <1>0, <2>1, <2>3, <3>1, <4>1
      <4>2. CASE s # t
          BY <1>0, <2>1, <2>2, <2>3, <4>2
      <4> QED BY <4>1, <4>2
    <3> QED BY <3>2 DEF InAdmissionOrder, Requests
  <2>4. CASE Head(pipe[t]) # None
    <3> DEFINE q == Requests(pipe[t])
    <3>1. q # <<>> /\ Head(q) = Head(pipe[t]) /\ Tail(q) = Requests(pipe'[t]) /\ q \in Seq(Nat)
        BY <1>0, <2>1, <2>2, <2>4, RequestsTail
    <3> HIDE DEF q
    <3>2. q = <<Head(q)>> \o Tail(q) /\ Head(q) \in Nat /\ Tail(q) \in Seq(Nat)
        BY <3>1, HeadJoin
    <3>3. Append(served[t], Head(q)) \o Tail(q) \o feeder[t] = served[t] \o q \o feeder[t]
      <4>1. served[t] \in Seq(Nat) /\ feeder[t] \in Seq(Nat)
          BY <1>0
      <4>2. Append(served[t], Head(q)) \o Tail(q) \o feeder[t]
            = served[t] \o (<<Head(q)>> \o Tail(q)) \o feeder[t]
          BY <3>2, <4>1, JoinAppendFirst
      <4> QED BY <3>2, <4>2
    <3>4. served'[t] = Append(served[t], Head(q)) /\ \A s \in Slots : s # t => served'[s] = served[s]
        BY <2>1, <2>4, <3>1 DEF HistoryInv
    <3>5. ASSUME NEW s \in Slots PROVE served'[s] \o Requests(pipe'[s]) \o feeder'[s] = admitted'[s]
      <4>1. CASE s = t
          BY <1>0, <2>1, <3>1, <3>3, <3>4, <4>1 DEF q
      <4>2. CASE s # t
          BY <1>0, <2>1, <2>2, <3>4, <4>2
      <4> QED BY <4>1, <4>2
    <3> QED BY <3>5 DEF InAdmissionOrder, Requests
  <2> QED BY <2>3, <2>4
<1>6. CASE ScanEmpty \/ EndScan \/ CollectTimeout \/ FilterStale \/ FilterKeep \/ Infer \/ AckBatch
           \/ FinishBatch
    BY <1>6, <1>1 DEF ScanEmpty, EndScan, CollectTimeout, FilterStale, FilterKeep, Infer, AckBatch,
                      FinishBatch, senderVars
<1>7. ASSUME NEW p \in Senders, PutCount(p) \/ PutReject(p) \/ Close PROVE InAdmissionOrder'
    BY <1>7, <1>1 DEF PutCount, PutReject, Close
<1>8. CASE UNCHANGED vars
    BY <1>8, <1>1 DEF vars, senderVars
<1> QED BY <1>2, <1>3, <1>4, <1>5, <1>6, <1>7, <1>8, NextIs DEF Worker, SenderNext

\* An ordered FILE has asked for exactly the requests that were admitted.
FileInv ==
    kills = 0 => \A s \in Ordered : /\ next[s] = Len(admitted[s]) + 1
                                    /\ admitted[s] = [i \in 1 .. Len(admitted[s]) |-> i]

LEMMA FileStep == SenderInv /\ HistoryInv /\ FileInv /\ [Next]_vars => FileInv'
<1> SUFFICES ASSUME SenderInv, HistoryInv, FileInv, [Next]_vars PROVE FileInv'
    OBVIOUS
<1>0. Ordered \subseteq Slots
    BY AdmissionAssumption DEF Slots
<1>1. CASE UNCHANGED <<kills, next, admitted>>
    BY <1>1 DEF FileInv
<1>2. ASSUME NEW p \in Senders, PutPublish(p) PROVE FileInv'
  <2>1. CASE p = Owner
      BY <1>1, <1>2, <2>1 DEF PutPublish
  <2>2. CASE p # Owner
    <3>1. /\ p \in Slots /\ UNCHANGED kills
          /\ admitted' = [admitted EXCEPT ![p] = Append(admitted[p], next[p])]
          /\ next' = [next EXCEPT ![p] = next[p] + 1]
        BY <1>2, <2>2, SenderType DEF PutPublish
    <3>2. SUFFICES ASSUME kills = 0, NEW s \in Ordered
                   PROVE  /\ next'[s] = Len(admitted'[s]) + 1
                          /\ admitted'[s] = [i \in 1 .. Len(admitted'[s]) |-> i]
        BY <3>1 DEF FileInv
    <3>3. CASE s # p
        BY <1>0, <3>1, <3>2, <3>3 DEF FileInv, SenderInv, HistoryInv
    <3>4. CASE s = p
      <4>1. /\ next[s] = Len(admitted[s]) + 1 /\ admitted[s] = [i \in 1 .. Len(admitted[s]) |-> i]
            /\ admitted[s] \in Seq(Nat) /\ Len(admitted[s]) \in Nat /\ next[s] \in Nat
        <5>1. admitted[s] \in Seq(Nat) /\ s \in Slots
            BY <1>0 DEF HistoryInv
        <5>2. Len(admitted[s]) \in Nat
            BY <5>1, LenProperties
        <5>3. next[s] = Len(admitted[s]) + 1 /\ admitted[s] = [i \in 1 .. Len(admitted[s]) |-> i]
            BY <3>2 DEF FileInv
        <5>4. next[s] \in Nat
            BY <5>1, AdmissionAssumption DEF SenderInv
        <5> QED BY <5>1, <5>2, <5>3, <5>4
      <4> DEFINE a == admitted[s]
                 b == Append(a, next[s])
                 m == Len(a)
      <4>2. next'[s] = next[s] + 1 /\ admitted'[s] = b
          BY <1>0, <3>1, <3>4 DEF SenderInv, HistoryInv
      <4>3. /\ b \in Seq(Nat) /\ Len(b) = m + 1 /\ DOMAIN b = 1 .. m + 1
            /\ \A i \in 1 .. m : b[i] = a[i]
            /\ b[m + 1] = next[s]
          BY <4>1, AppendProperties, LenProperties
      <4>4. \A i \in 1 .. m : a[i] = i
          BY <4>1
      <4>5. m \in Nat /\ next[s] = m + 1
          BY <4>1
      <4> HIDE DEF a, b, m
      <4>6. \A i \in 1 .. m + 1 : b[i] = i
          BY <4>3, <4>4, <4>5
      <4>7. b = [i \in 1 .. m + 1 |-> b[i]]
          BY <4>3, LenProperties
      <4>8. b = [i \in 1 .. m + 1 |-> i]
          BY <4>6, <4>7
      <4> QED BY <4>2, <4>3, <4>5, <4>8
    <3> QED BY <3>3, <3>4
  <2> QED BY <2>1, <2>2
<1>3. ASSUME NEW p \in Senders, PutReject(p) PROVE FileInv'
  <2>1. UNCHANGED <<kills, admitted>> /\ \A s \in Ordered : next'[s] = next[s]
      BY <1>0, <1>3 DEF PutReject, SenderInv
  <2> QED BY <2>1 DEF FileInv
<1>4. ASSUME NEW p \in Senders, Kill(p) PROVE FileInv'
    BY <1>4 DEF Kill, FileInv, SenderInv
<1>5. ASSUME NEW p \in Senders, PutCount(p) \/ Feed(p) \/ Close PROVE FileInv'
    BY <1>5, <1>1 DEF PutCount, Feed, Close
<1>6. CASE Worker
    BY <1>6, <1>1, WorkerKeepsSenders DEF senderVars
<1>7. CASE UNCHANGED vars
    BY <1>7, <1>1 DEF vars, senderVars
<1> QED BY <1>2, <1>3, <1>4, <1>5, <1>6, <1>7, NextIs, Places0 DEF SenderNext

-----------------------------------------------------------------------------
(* Round-robin: how far a waiting slot is from the cursor bounds how often  *)
(* it can still be passed over.                                             *)

Gap(c, t) == IF t >= c THEN t - c ELSE t - c + SlotCount

LEMMA GapMoves ==
    ASSUME NEW c \in Slots, NEW k \in 0 .. SlotCount - 1, NEW s, s = After(c, k), NEW t \in Slots
    PROVE  /\ Gap(c, t) \in 0 .. SlotCount - 1
           /\ Gap(c, t) = k <=> t = s
           /\ t # s => Gap(After(s, 1), t) = IF Gap(c, t) > k THEN Gap(c, t) - k - 1
                                             ELSE Gap(c, t) - k - 1 + SlotCount
BY AdmissionAssumption DEF Gap, After, Slots

\* Until the sentinel has been seen a slot that was passed over is ahead of the
\* scan.  Then the scan may leave it out once, and only once.
RoundInv ==
    /\ \A t \in Slots : pipe[t] = <<>> => passed[t] = 0
    /\ ~Spent => \A t \in Slots : passed[t] > 0 => /\ passed[t] + Gap(cursor, t) <= SlotCount - 1
                                                   /\ scan <= Gap(cursor, t)
    /\ Spent => \A t \in Slots : \/ passed[t] <= SlotCount - 1
                                 \/ /\ scan <= Gap(cursor, t)
                                    /\ passed[t] + Gap(cursor, t) <= 2 * SlotCount - 2

LEMMA RoundStep ==
    /\ ScanInv /\ PipeInv /\ FeederInv /\ HistoryInv /\ SentinelInv /\ RoundInv /\ [Next]_vars => RoundInv'
<1> SUFFICES ASSUME ScanInv, PipeInv, FeederInv, HistoryInv, SentinelInv, RoundInv, [Next]_vars PROVE RoundInv'
    OBVIOUS
<1>0. /\ SlotCount \in Nat \ {0} /\ cursor \in Slots /\ scan \in 0 .. SlotCount
      /\ \A t \in Slots : passed[t] \in Nat /\ Gap(cursor, t) \in 0 .. SlotCount - 1
    BY AdmissionAssumption DEF ScanInv, HistoryInv, Gap, Slots
<1>1. CASE UNCHANGED <<pipe, passed, cursor, scan, sentinel, gotNone, mode>>
    BY <1>1 DEF RoundInv, Spent
<1>2. ASSUME NEW p \in Senders, SenderNext(p) \/ Close PROVE UNCHANGED <<passed, cursor, scan, sentinel, gotNone, mode>>
    BY <1>2, SendersKeepWorker DEF workerVars
<1>3. ASSUME NEW p \in Senders, Feed(p) PROVE RoundInv'
  <2>1. \A t \in Slots : pipe'[t] = <<>> => pipe[t] = <<>>
    <3>1. /\ pipe' = [pipe EXCEPT ![Channel(p)] = Append(@, Head(feeder[p]))] /\ Channel(p) \in Slots
          /\ Head(feeder[p]) \in 0 .. MaxRequests
        BY <1>3, SenderType, HeadTailProperties DEF Feed, FeederInv
    <3>2. Append(pipe[Channel(p)], Head(feeder[p])) # <<>>
        BY <3>1, AppendProperties DEF PipeInv
    <3> QED BY <3>1, <3>2 DEF PipeInv
  <2>2. UNCHANGED <<passed, cursor, scan>> /\ Spent' = Spent
      BY <1>2, <1>3 DEF SenderNext, Spent
  <2> QED BY <2>1, <2>2 DEF RoundInv
<1>4. ASSUME NEW p \in Senders, PutCount(p) \/ PutPublish(p) \/ PutReject(p) \/ Kill(p) \/ Close PROVE RoundInv'
  <2>1. UNCHANGED pipe
      BY <1>4 DEF PutCount, PutPublish, PutReject, Kill, Close
  <2> QED BY <1>1, <1>2, <1>4, <2>1 DEF SenderNext
<1>5. scan < SlotCount => scan \in 0 .. SlotCount - 1 /\ ScanSlot = After(cursor, scan) /\ ScanSlot \in Slots
    BY <1>0, ScanSlotType
<1>6. CASE ScanEmpty
  <2>1. /\ scan < SlotCount /\ scan' = scan + 1 /\ pipe[ScanSlot] = <<>>
        /\ UNCHANGED <<pipe, passed, cursor>> /\ Spent' = Spent
      BY <1>6 DEF ScanEmpty, Spent
  <2>2. \A t \in Slots : passed[t] > 0 => Gap(cursor, t) # scan
      BY <1>0, <1>5, <2>1, GapMoves DEF RoundInv
  <2>3. ASSUME NEW t \in Slots, Spent
        PROVE  \/ passed[t] <= SlotCount - 1
               \/ scan + 1 <= Gap(cursor, t) /\ passed[t] + Gap(cursor, t) <= 2 * SlotCount - 2
      BY <1>0, <2>2, <2>3 DEF RoundInv
  <2>4. ASSUME NEW t \in Slots, ~Spent, passed[t] > 0
        PROVE  passed[t] + Gap(cursor, t) <= SlotCount - 1 /\ scan + 1 <= Gap(cursor, t)
      BY <1>0, <2>2, <2>4 DEF RoundInv
  <2> QED BY <2>1, <2>3, <2>4 DEF RoundInv
<1>7. CASE ScanSentinel
  <2>1. PICK s \in Slots :
           /\ pipe' = [pipe EXCEPT ![s] = Tail(@)] /\ passed' = [passed EXCEPT ![s] = 0]
           /\ pipe[s] # <<>> /\ Head(pipe[s]) = None
      BY <1>5, <1>7 DEF ScanSentinel, TakeFrom
  <2>2. Spent'
      BY <1>7 DEF ScanSentinel, Spent
  <2>3. ~Spent
    <3>1. NoneIn(pipe[s])
        BY <2>1 DEF PipeInv, NoneIn
    <3> QED BY <3>1 DEF SentinelInv
  <2>4. \A t \in Slots : passed'[t] = (IF t = s THEN 0 ELSE passed[t]) /\ (t # s => pipe'[t] = pipe[t])
      BY <2>1 DEF HistoryInv, PipeInv
  <2>5. \A t \in Slots : passed'[t] <= SlotCount - 1
      BY <1>0, <2>3, <2>4 DEF RoundInv
  <2> QED BY <2>2, <2>4, <2>5 DEF RoundInv
<1>8. CASE Dispatch
  <2>1. PICK s \in Slots :
           /\ s = After(cursor, scan) /\ scan \in 0 .. SlotCount - 1
           /\ pipe' = [pipe EXCEPT ![s] = Tail(@)] /\ cursor' = (s + 1) % SlotCount /\ scan' = 0
           /\ passed' = [t \in Slots |-> IF t = s \/ pipe[t] = <<>> THEN 0 ELSE passed[t] + 1]
      BY <1>5, <1>8 DEF Dispatch, TakeFrom
  <2>2. Spent' = Spent
      BY <1>8 DEF Dispatch, Spent, Getting
  <2>3. cursor' = After(s, 1)
      BY <1>0, <2>1, AfterIsMod
  <2>4. \A t \in Slots : t # s => pipe'[t] = pipe[t]
      BY <2>1 DEF PipeInv
  <2>5. \A t \in Slots : pipe'[t] = <<>> => passed'[t] = 0
      BY <2>1, <2>4
  <2>6. \A t \in Slots : t # s => /\ Gap(cursor, t) # scan
                                  /\ Gap(cursor', t) = IF Gap(cursor, t) > scan THEN Gap(cursor, t) - scan - 1
                                                       ELSE Gap(cursor, t) - scan - 1 + SlotCount
      BY <1>0, <2>1, <2>3, GapMoves
  <2>7. ASSUME NEW t \in Slots, ~Spent, passed'[t] > 0
        PROVE  passed'[t] + Gap(cursor', t) <= SlotCount - 1 /\ scan' <= Gap(cursor', t)
    <3>1. t # s /\ passed'[t] = passed[t] + 1
        BY <2>1, <2>7
    <3>2. passed[t] > 0 => passed[t] + Gap(cursor, t) <= SlotCount - 1 /\ scan <= Gap(cursor, t)
        BY <2>7 DEF RoundInv
    <3> QED BY <1>0, <2>1, <2>6, <3>1, <3>2
  <2>8. ASSUME NEW t \in Slots, Spent
        PROVE  \/ passed'[t] <= SlotCount - 1
               \/ scan' <= Gap(cursor', t) /\ passed'[t] + Gap(cursor', t) <= 2 * SlotCount - 2
    <3>1. CASE t = s \/ pipe[t] = <<>>
        BY <1>0, <2>1, <3>1
    <3>2. CASE t # s /\ pipe[t] # <<>>
      <4>1. passed'[t] = passed[t] + 1
          BY <2>1, <3>2
      <4>2. \/ passed[t] <= SlotCount - 1
            \/ scan <= Gap(cursor, t) /\ passed[t] + Gap(cursor, t) <= 2 * SlotCount - 2
          BY <2>8 DEF RoundInv
      <4> DEFINE g == Gap(cursor, t)
                 h == Gap(cursor', t)
      <4>3. /\ g \in 0 .. SlotCount - 1 /\ g # scan /\ passed[t] \in Nat
            /\ h = IF g > scan THEN g - scan - 1 ELSE g - scan - 1 + SlotCount
          BY <1>0, <2>6, <3>2
      <4>4. \/ passed[t] <= SlotCount - 1
            \/ scan <= g /\ passed[t] + g <= 2 * SlotCount - 2
          BY <4>2
      <4> HIDE DEF g, h
      <4>5. 0 <= h /\ passed[t] + 1 + h <= 2 * SlotCount - 2
        <5>1. CASE g > scan
            BY <1>0, <2>1, <4>3, <4>4, <5>1
        <5>2. CASE g < scan
            BY <1>0, <2>1, <4>3, <4>4, <5>2
        <5> QED BY <2>1, <4>3, <5>1, <5>2
      <4> QED BY <2>1, <4>1, <4>5 DEF h
    <3> QED BY <3>1, <3>2
  <2> QED BY <2>2, <2>5, <2>7, <2>8 DEF RoundInv
<1>9. CASE EndScan
  <2>1. UNCHANGED <<pipe, passed, cursor>> /\ scan = SlotCount /\ scan' = 0 /\ Spent' = Spent
      BY <1>9 DEF EndScan, Spent, Getting
  <2>2. \A t \in Slots : ~(scan <= Gap(cursor, t))
      BY <1>0, <2>1
  <2>3. \A t \in Slots : (~Spent => ~(passed[t] > 0)) /\ (Spent => passed[t] <= SlotCount - 1)
      BY <2>2 DEF RoundInv
  <2> QED BY <2>1, <2>3 DEF RoundInv
<1>10. CASE CollectTimeout \/ FilterStale \/ FilterKeep \/ Infer \/ AckBatch \/ FinishBatch
  <2>1. UNCHANGED <<pipe, passed, cursor, scan>>
      BY <1>10 DEF CollectTimeout, FilterStale, FilterKeep, Infer, AckBatch, FinishBatch
  <2>2. Spent' = Spent
      BY <1>10 DEF CollectTimeout, FilterStale, FilterKeep, Infer, AckBatch, FinishBatch, Spent
  <2> QED BY <2>1, <2>2 DEF RoundInv
<1>11. CASE UNCHANGED vars
    BY <1>11, <1>1 DEF vars, workerVars
<1> QED BY <1>3, <1>4, <1>6, <1>7, <1>8, <1>9, <1>10, <1>11, NextIs, Places0 DEF Worker, SenderNext

FairInv == InAdmissionOrder /\ FileInv /\ RoundInv

LEMMA InitFair == Init => FairInv
<1> SUFFICES ASSUME Init PROVE FairInv
    OBVIOUS
<1> USE AdmissionAssumption, Places0
<1>1. InAdmissionOrder
  <2>1. Requests(<<>>) = <<>> /\ <<>> \o <<>> \o <<>> = <<>>
    <3>1. <<>> \in Seq(Nat) /\ OneNone(<<>>) /\ ~NoneIn(<<>>)
        BY EmptySeq DEF OneNone, NoneIn
    <3> QED BY <3>1, RequestsIs, ConcatEmptySeq
  <2> QED BY <2>1 DEF Init, InAdmissionOrder
<1>2. FileInv
  <2>1. Ordered \subseteq Slots /\ Len(<<>>) = 0
      BY EmptySeq DEF Slots
  <2>2. <<>> = [i \in 1 .. 0 |-> i]
      BY SMT
  <2> QED BY <2>1, <2>2 DEF Init, FileInv
<1>3. RoundInv
    BY DEF Init, RoundInv
<1> QED BY <1>1, <1>2, <1>3 DEF FairInv

\* Requests are handed out in the order of their admission, a file has none shed,
\* and no slot waits longer than its rounds.
THEOREM FairAndInOrderHolds == Spec => []FairAndInOrder
<1>1. SafeInv /\ FairInv /\ [Next]_vars => FairInv'
    BY OrderStep, FileStep, RoundStep DEF SafeInv, FairInv
<1>2. SafeInv /\ FairInv => FairAndInOrder
  <2> SUFFICES ASSUME SafeInv, FairInv PROVE FairAndInOrder
      OBVIOUS
  <2>1. FileNeverShed
      BY DEF FairInv, FileInv, FileNeverShed
  <2>2. RoundRobinBound
    <3>1. Spent => closing
        BY Places0 DEF SafeInv, SentinelInv, CloseInv
    <3>2. \A t \in Slots : passed[t] \in Nat /\ Gap(cursor, t) \in 0 .. SlotCount - 1 /\ SlotCount \in Nat \ {0}
        BY AdmissionAssumption DEF SafeInv, ScanInv, HistoryInv, Gap, Slots
    <3>3. \A t \in Slots : (~Spent => passed[t] < SlotCount) /\ (Spent => passed[t] < 2 * SlotCount)
        BY <3>2 DEF FairInv, RoundInv
    <3> QED BY <3>1, <3>2, <3>3 DEF RoundRobinBound
  <2> QED BY <2>1, <2>2 DEF FairInv, FairAndInOrder
<1> QED BY InitFair, <1>1, <1>2, SafeHolds, PTL DEF Spec

\* Every variable keeps its type; a channel never holds more than its bound.
THEOREM TypesHold == Spec => []TypeOK
<1>1. SafeInv => TypeOK
  <2> SUFFICES ASSUME SafeInv PROVE TypeOK
      OBVIOUS
  <2>1. sentinel \in BOOLEAN /\ gotNone \in BOOLEAN /\ closing \in BOOLEAN
      BY DEF SafeInv, FlagInv
  <2>2. /\ pc \in [Senders -> {"idle", "counted", "done", "failed"}]
        /\ next \in [Slots -> 1 .. MaxRequests + 1] /\ kills \in 0 .. MaxKills
      BY DEF SafeInv, SenderInv
  <2>3. feeder \in [Senders -> Seq(0 .. MaxRequests)] /\ pipe \in [Slots -> Seq(0 .. MaxRequests)]
      BY DEF SafeInv, FeederInv, PipeInv
  <2>4. /\ held \in [Slots -> 0 .. PendingPerCamera]
        /\ outstanding \in [Slots -> Nat] /\ lost \in [Slots -> Nat]
      BY DEF SafeInv, CapacityInv, AccountInv, CountInv
  <2>5. cursor \in Slots /\ scan \in 0 .. SlotCount /\ acks \in Seq(Slots)
      BY DEF SafeInv, ScanInv, BatchInv
  <2>6. /\ mode \in {"first", "collect", "filter", "ack", "stopped"}
        /\ todo \in 0 .. BatchSize /\ active \in 0 .. BatchSize
      BY DEF SafeInv, BatchInv
  <2> QED BY <2>1, <2>2, <2>3, <2>4, <2>5, <2>6 DEF TypeOK
<1> QED BY <1>1, SafeHolds, PTL

-----------------------------------------------------------------------------
(*************************** the static runtime *****************************)
\* What a camera has cut in its present process is somewhere on its way to the file.
OnTheWay(c) == \A k \in 1 .. cut[c] : <<c, gen[c], k>> \in asked \cup {inHand} \cup given \cup filed \cup forgone
StaticShape ==
    /\ DOMAIN cut = StaticCams /\ DOMAIN gen = StaticCams
    /\ \A c \in StaticCams : cut[c] \in Nat
    /\ finished \subseteq StaticCams
\* A process that has left by itself has read its file to the end, and stays so.
ReadInv ==
    /\ \A c \in finished : proc[c] = "clean"
    /\ ~told /\ static.file => \A c \in StaticCams : proc[c] = "clean" => cut[c] = static.events
    /\ at = "settle" => ~told /\ static.file /\ \A c \in StaticCams : proc[c] = "clean"
WayInv == \A c \in StaticCams : OnTheWay(c)
SettledInv ==
    settled = "empty" =>
        /\ at \notin {"loop", "settle"}
        /\ \A c \in StaticCams : \A k \in 1 .. static.events : <<c, gen[c], k>> \in filed \cup forgone
StaticInv == StaticShape /\ ReadInv /\ WayInv /\ SettledInv

LEMMA StaticStart == StaticInit => StaticInv
BY DEF StaticInit, StaticInv, StaticShape, ReadInv, WayInv, OnTheWay, SettledInv, StaticCams

LEMMA StaticShapeStep == StaticShape /\ [StaticNext]_staticVars => StaticShape'
<1> SUFFICES ASSUME StaticShape, [StaticNext]_staticVars PROVE StaticShape'
    OBVIOUS
<1> USE DEF StaticShape, StaticCams
<1>1. ASSUME NEW c \in StaticCams, Cuts(c) PROVE StaticShape'
    BY <1>1 DEF Cuts
<1>2. ASSUME NEW c \in StaticCams, ReadsAll(c) PROVE StaticShape'
    BY <1>2 DEF ReadsAll
<1>3. CASE Breaks
    BY <1>3 DEF Breaks
<1>4. CASE Judges \/ Files \/ IncidentGoes \/ Signalled
    BY <1>4 DEF Judges, Files, IncidentGoes, Signalled, procVars
<1>5. CASE LooksAtCameras
    <2>1. CASE static.central /\ Crashed # {}
        BY <1>5, <2>1 DEF LooksAtCameras, Ended
    <2>2. CASE ~(static.central /\ Crashed # {})
        BY <1>5, <2>2 DEF LooksAtCameras, Ended
    <2> QED BY <2>1, <2>2
<1>6. CASE LooksAtWorkers \/ Stops \/ Settles \/ EndsStage3 \/ EndsIncident \/ UNCHANGED staticVars
    BY <1>6 DEF LooksAtWorkers, Stops, Settles, EndsStage3, EndsIncident, staticVars, procVars
<1>7. CASE Finally
    BY <1>7 DEF Finally
<1> QED BY <1>1, <1>2, <1>3, <1>4, <1>5, <1>6, <1>7 DEF StaticNext, StaticParent, StaticWorld

LEMMA ReadStep == StaticShape /\ ReadInv /\ [StaticNext]_staticVars => ReadInv'
<1> SUFFICES ASSUME StaticShape, ReadInv, [StaticNext]_staticVars PROVE ReadInv'
    OBVIOUS
<1> USE DEF StaticShape, StaticCams, ReadInv
<1>1. ASSUME NEW c \in StaticCams, Cuts(c) PROVE ReadInv'
    BY <1>1 DEF Cuts
<1>2. ASSUME NEW c \in StaticCams, ReadsAll(c) PROVE ReadInv'
    BY <1>2 DEF ReadsAll
<1>3. CASE Breaks
    BY <1>3 DEF Breaks
<1>4. CASE Judges \/ Files \/ IncidentGoes \/ Signalled
    BY <1>4 DEF Judges, Files, IncidentGoes, Signalled, procVars
<1>5. CASE LooksAtCameras
    <2>1. CASE static.central /\ Crashed # {}
        BY <1>5, <2>1 DEF LooksAtCameras, Ended, Ends, NotAgain
    <2>2. CASE ~(static.central /\ Crashed # {})
        <3>1. PICK again \in SUBSET Crashed :
                /\ proc' = [c \in StaticCams |-> IF c \in again THEN "run" ELSE proc[c]]
                /\ cut' = [c \in StaticCams |-> IF c \in again THEN 0 ELSE cut[c]]
                /\ at' = (IF AllFinished THEN "settle" ELSE "loop") /\ told' = told
            BY <1>5, <2>2 DEF LooksAtCameras
        <3>2. static' = static /\ finished' = finished \cup Ended /\ ~told
            BY <1>5 DEF LooksAtCameras
        <3>3. \A c \in again : c \in StaticCams /\ c \notin finished /\ c \notin Ended
            BY DEF Crashed, Ended
        <3>4. \A c \in Ended : c \in StaticCams /\ proc[c] = "clean"
            BY DEF Ended, NotAgain
        <3>5. \A c \in finished' : proc'[c] = "clean"
            BY <3>1, <3>2, <3>3, <3>4
        <3>6. \A c \in StaticCams : proc'[c] = "clean" => c \notin again /\ proc[c] = "clean" /\ cut'[c] = cut[c]
            BY <3>1
        <3>7. at' = "settle" => static.file /\ \A c \in StaticCams : c \in finished'
            BY <3>1, <3>2 DEF AllFinished
        <3>8. DOMAIN proc' = DOMAIN proc
            BY <3>1
        <3> QED BY <3>1, <3>2, <3>5, <3>6, <3>7, <3>8
    <2> QED BY <2>1, <2>2
<1>6. CASE LooksAtWorkers \/ Stops \/ Settles \/ EndsStage3 \/ EndsIncident \/ UNCHANGED staticVars
    BY <1>6 DEF LooksAtWorkers, Stops, Settles, EndsStage3, EndsIncident, staticVars, procVars, Ends
<1>7. CASE Finally
    BY <1>7 DEF Finally
<1> QED BY <1>1, <1>2, <1>3, <1>4, <1>5, <1>6, <1>7 DEF StaticNext, StaticParent, StaticWorld

LEMMA WayStep == StaticShape /\ WayInv /\ [StaticNext]_staticVars => WayInv'
<1> SUFFICES ASSUME StaticShape, WayInv, [StaticNext]_staticVars PROVE WayInv'
    OBVIOUS
<1> USE DEF StaticShape, StaticCams, WayInv, OnTheWay
<1>1. ASSUME NEW c \in StaticCams, Cuts(c) PROVE WayInv'
    <2>1. /\ cut' = [cut EXCEPT ![c] = @ + 1]
          /\ asked \cup forgone \cup {<<c, gen[c], cut[c] + 1>>} \subseteq asked' \cup forgone'
          /\ UNCHANGED <<proc, gen, inHand, given, filed>>
        BY <1>1 DEF Cuts
    <2>2. \A d \in StaticCams : d # c => cut'[d] = cut[d]
        BY <2>1
    <2>3. \A k \in 1 .. cut'[c] : k \in 1 .. cut[c] \/ k = cut[c] + 1
        BY <2>1
    <2> QED BY <2>1, <2>2, <2>3
<1>2. ASSUME NEW c \in StaticCams, ReadsAll(c) PROVE WayInv'
    BY <1>2 DEF ReadsAll, flowVars
<1>3. CASE Breaks
    BY <1>3 DEF Breaks, flowVars
<1>4. CASE Judges
    <2>1. asked \cup {inHand} \cup given \cup filed \cup forgone
            \subseteq (asked' \cup {inHand'} \cup given' \cup filed' \cup forgone') \cup {NoJob}
        BY <1>4 DEF Judges
    <2>2. \A c, g, k : <<c, g, k>> # NoJob
        BY DEF NoJob
    <2> QED BY <1>4, <2>1, <2>2 DEF Judges, procVars
<1>5. CASE Files \/ IncidentGoes \/ Signalled
    BY <1>5 DEF Files, IncidentGoes, Signalled, procVars, flowVars
<1>6. CASE LooksAtCameras
    <2>1. CASE static.central /\ Crashed # {}
        BY <1>6, <2>1 DEF LooksAtCameras, flowVars
    <2>2. CASE ~(static.central /\ Crashed # {})
        BY <1>6, <2>2 DEF LooksAtCameras, flowVars
    <2> QED BY <2>1, <2>2
<1>7. CASE LooksAtWorkers \/ Stops \/ Settles \/ EndsStage3 \/ EndsIncident \/ UNCHANGED staticVars
    BY <1>7 DEF LooksAtWorkers, Stops, Settles, EndsStage3, EndsIncident, staticVars, procVars, flowVars
<1>8. CASE Finally
    BY <1>8 DEF Finally, flowVars
<1> QED BY <1>1, <1>2, <1>3, <1>4, <1>5, <1>6, <1>7, <1>8 DEF StaticNext, StaticParent, StaticWorld

LEMMA SettledStep == StaticShape /\ ReadInv /\ WayInv /\ SettledInv /\ [StaticNext]_staticVars => SettledInv'
<1> SUFFICES ASSUME StaticShape, ReadInv, WayInv, SettledInv, [StaticNext]_staticVars, settled' = "empty"
             PROVE  /\ at' \notin {"loop", "settle"}
                    /\ \A c \in StaticCams' : \A k \in 1 .. static'.events : <<c, gen'[c], k>> \in filed' \cup forgone'
    BY DEF SettledInv
<1>1. CASE Settles
    <2>1. /\ at = "settle" /\ inHand = NoJob /\ asked = {} /\ given = {} /\ at' = "finally"
          /\ UNCHANGED <<static, proc, gen, filed, forgone>>
        BY <1>1 DEF Settles, Quiet, Ends, procVars, flowVars
    <2>2. \A c \in StaticCams : cut[c] = static.events
        BY <2>1 DEF ReadInv
    <2>3. \A c \in StaticCams : \A k \in 1 .. cut[c] : <<c, gen[c], k>> \in {NoJob} \cup filed \cup forgone
        BY <2>1 DEF WayInv, OnTheWay
    <2>4. \A c, g, k : <<c, g, k>> # NoJob
        BY DEF NoJob
    <2> QED BY <2>1, <2>2, <2>3, <2>4 DEF StaticCams
<1>2. CASE ~Settles
    <2>1. settled = "empty" /\ at \notin {"loop", "settle"}
        <3>1. settled' = settled
            BY <1>2 DEF StaticNext, StaticParent, StaticWorld, Cuts, ReadsAll, Breaks, Judges, Files, IncidentGoes, Signalled,
                LooksAtCameras, LooksAtWorkers, Stops, EndsStage3, EndsIncident, Finally, staticVars
        <3> QED BY <3>1 DEF SettledInv
    <2>2. /\ at' \notin {"loop", "settle"} /\ static' = static /\ gen' = gen /\ StaticCams' = StaticCams /\ filed \subseteq filed' /\ forgone \subseteq forgone'
        BY <1>2, <2>1 DEF StaticNext, StaticParent, StaticWorld, Cuts, ReadsAll, Breaks, Judges, Files, IncidentGoes, Signalled,
            LooksAtCameras, LooksAtWorkers, Stops, EndsStage3, EndsIncident, Finally, staticVars, procVars, flowVars, StaticCams
    <2> QED BY <2>1, <2>2 DEF SettledInv
<1> QED BY <1>1, <1>2

LEMMA StaticStep == StaticInv /\ [StaticNext]_staticVars => StaticInv'
BY StaticShapeStep, ReadStep, WayStep, SettledStep DEF StaticInv

LEMMA StaticHolds == StaticInv => StaticDelivered
BY DEF StaticInv, SettledInv, StaticDelivered

-----------------------------------------------------------------------------
(****************************** the batch run *******************************)
\* A set of positions has a last one: take the shortest rest of the positions that
\* begins with one of the set.
LEMMA LastOne ==
    ASSUME NEW top \in Nat, NEW S \in SUBSET (1 .. top), S # {}
    PROVE  Max(S) \in S /\ \A k \in S : k <= Max(S)
<1> DEFINE T == {U \in FiniteSubsetsOf(Nat) : \E k \in S : U = k .. top}
           R == StrictSubsetOrdering(Nat)
<1>1. \A k \in S : k .. top \in T
    <2> TAKE k \in S
    <2>1. k \in Int /\ top \in Int
        OBVIOUS
    <2>2. IsFiniteSet(k .. top) /\ k .. top \in SUBSET Nat
        BY <2>1, FS_Interval
    <2> QED BY <2>2 DEF FiniteSubsetsOf
<1>2. IsWellFoundedOn(R, FiniteSubsetsOf(Nat))
    BY FS_StrictSubsetOrderingWellFounded
<1>3. T \subseteq FiniteSubsetsOf(Nat) /\ T # {}
    BY <1>1
<1> HIDE DEF T, R
<1>4. PICK U \in T : \A V \in T : ~(<<V, U>> \in R)
    BY <1>2, <1>3, WFMin
<1>5. PICK k \in S : U = k .. top
    BY <1>4 DEF T
<1>6. ASSUME NEW j \in S, j > k PROVE FALSE
    <2>1. j .. top \subseteq k .. top /\ k \in k .. top /\ k \notin j .. top /\ k .. top \subseteq Nat
        BY <1>6
    <2>2. <<j .. top, k .. top>> \in R
        BY <2>1 DEF R, StrictSubsetOrdering
    <2> QED BY <1>1, <1>4, <1>5, <2>2
<1>7. \E m \in S : \A j \in S : m >= j
    BY <1>6
<1> QED BY <1>7 DEF Max

\* Stretches and events are spans of frames.
Span == VideoFrames \X VideoFrames
EndsInOrder(ss) == \A i, j \in DOMAIN ss : i < j => ss[i][2] <= ss[j][2]
Covers(span, x) == span[1] <= x /\ x <= span[2]

\* The accepted stretches come one after the other.
SpansInv ==
    /\ spans \in Seq(Span) /\ frame \in Nat
    /\ \A k \in DOMAIN spans : spans[k][1] <= spans[k][2]
    /\ \A k, l \in DOMAIN spans : k < l => spans[k][2] < spans[l][1]
    /\ step = "motion" => \A k \in DOMAIN spans : spans[k][2] < frame

\* Nothing is exported before the spans are merged.
BeforeInv ==
    /\ batch \in BatchSetups
    /\ step \in {"motion", "merge"} => merged = <<>> /\ made = <<>> /\ opened = <<>> /\ open = NoOne /\ phase = 0
    /\ step = "merge" => frame = 0
    /\ step \in {"score", "reported"} => frame = N \/ spans = <<>>

\* What has been merged covers the spans that were looked at, and the event in hand
\* ends with the last of them.
MergingInv ==
    step = "merge" =>
        /\ merging = [out |-> merging.out, cur |-> merging.cur, next |-> merging.next]
        /\ merging.next \in 2 .. Len(spans) + 1
        /\ merging.out \in Seq(Span) /\ EndsInOrder(merging.out)
        /\ merging.cur \in Span
        /\ merging.cur[1] <= spans[merging.next - 1][1] /\ merging.cur[2] = spans[merging.next - 1][2]
        /\ \A i \in DOMAIN merging.out : merging.out[i][2] <= merging.cur[2]
        /\ \A k \in 1 .. merging.next - 1, x \in VideoFrames : Covers(spans[k], x) =>
               Covers(merging.cur, x) \/ \E i \in DOMAIN merging.out : Covers(merging.out[i], x)

\* The events end in their order and cover every accepted stretch.
MergedInv ==
    step \notin {"motion", "merge"} =>
        /\ \E top \in Nat : DOMAIN merged = 1 .. top
        /\ \A e \in DOMAIN merged : merged[e] \in Int \X Int
        /\ EndsInOrder(merged)
        /\ DOMAIN made = DOMAIN merged
        /\ \A k \in DOMAIN spans, x \in VideoFrames : Covers(spans[k], x) =>
               \E e \in DOMAIN merged : Covers(merged[e], x)

\* The event of a frame holds it, or one less than a sample stride before it.
Sampled(i) == \E j \in (i - batch.stride + 1) .. i : j \in made[EventOf(i)]

\* A frame was written to its event alone, no event was opened again, and the last frame
\* that the open event has kept lies as far back as the stride has come.
ExportInv ==
    step \notin {"motion", "merge"} =>
        /\ \A e \in DOMAIN made : \A i \in made[e] : i \in Int /\ EventOf(i) = e
        /\ batch.maxEvent = 0 => \A i \in 0 .. frame - 1 : EventOf(i) # NoOne => Sampled(i)
        /\ phase \in 0 .. batch.stride - 1
        /\ batch.maxEvent = 0 /\ open # NoOne => frame - 1 - phase \in made[open]
        /\ open = IF frame = 0 THEN NoOne ELSE EventOf(frame - 1)
        /\ opened \in Seq(Nat)
        /\ \A i, j \in DOMAIN opened : i < j => opened[i] < opened[j]
        /\ \A i \in DOMAIN opened : opened[i] # NoOne /\ \E x \in 0 .. frame - 1 : opened[i] = EventOf(x)

VideoInv == SpansInv /\ BeforeInv /\ MergingInv /\ MergedInv /\ ExportInv

LEMMA VideoStart == BatchInit => VideoInv
<1> SUFFICES ASSUME BatchInit PROVE VideoInv
    OBVIOUS
<1>1. spans = <<>> /\ spans \in Seq(Span) /\ DOMAIN spans = {}
    BY EmptySeq DEF BatchInit
<1> QED BY <1>1 DEF BatchInit, VideoInv, SpansInv, BeforeInv, MergingInv, MergedInv, ExportInv

\* The first pass is over: what it found is not touched any more.
Keeps == UNCHANGED <<batch, spans>>
LEMMA AfterMotion ==
    [BatchNext]_batchVars => Stretch \/ (Keeps /\ (Probed \/ JoinSpan \/ Merge \/ ExportFrame \/ ExportEnds \/ Score \/ UNCHANGED batchVars))
BY DEF BatchNext, Keeps, Probed, JoinSpan, Merge, ExportFrame, ExportEnds, Fails, Score, batchVars

LEMMA SpansStep == SpansInv /\ [BatchNext]_batchVars => SpansInv'
<1> SUFFICES ASSUME SpansInv, [BatchNext]_batchVars PROVE SpansInv'
    OBVIOUS
<1>0. N \in Nat
    BY BatchAssumption
<1>1. CASE Stretch
    <2>1. PICK first \in VideoFrames, last \in VideoFrames :
            /\ frame <= first /\ first <= last /\ frame' = last + 2
            /\ spans' \in {spans, Append(spans, <<first, last>>)}
        BY <1>1 DEF Stretch
    <2>2. step = "motion" /\ step' = step /\ first \in Nat /\ last \in Nat
        BY <1>0, <1>1 DEF Stretch, VideoFrames
    <2>3. /\ spans \in Seq(Span) /\ frame \in Nat
          /\ \A k \in DOMAIN spans : spans[k][1] <= spans[k][2] /\ spans[k][2] < frame
          /\ \A k, l \in DOMAIN spans : k < l => spans[k][2] < spans[l][1]
        BY <2>2 DEF SpansInv
    <2>4. \A k \in DOMAIN spans : spans[k][1] \in Nat /\ spans[k][2] \in Nat
        BY <1>0, <2>3 DEF Span, VideoFrames
    <2>5. CASE spans' = spans
        BY <2>1, <2>2, <2>3, <2>4, <2>5 DEF SpansInv
    <2>6. CASE spans' = Append(spans, <<first, last>>)
        <3>1. <<first, last>> \in Span /\ <<first, last>>[1] = first /\ <<first, last>>[2] = last
            BY DEF Span
        <3>2. /\ spans' \in Seq(Span) /\ Len(spans) \in Nat /\ DOMAIN spans = 1 .. Len(spans) /\ DOMAIN spans' = 1 .. Len(spans) + 1
              /\ spans'[Len(spans) + 1] = <<first, last>> /\ \A k \in 1 .. Len(spans) : spans'[k] = spans[k]
            BY <2>3, <2>6, <3>1, AppendProperties, LenProperties
        <3>3. \A k \in DOMAIN spans' : k \in DOMAIN spans \/ (k = Len(spans) + 1 /\ spans'[k][1] = first /\ spans'[k][2] = last)
            BY <3>1, <3>2
        <3>4. \A k \in DOMAIN spans' : spans'[k][1] <= spans'[k][2] /\ spans'[k][2] < frame'
            BY <2>1, <2>2, <2>3, <2>4, <3>2, <3>3
        <3>5. \A k, l \in DOMAIN spans' : k < l => spans'[k][2] < spans'[l][1]
            BY <2>1, <2>2, <2>3, <2>4, <3>2, <3>3
        <3> QED BY <2>1, <2>2, <3>2, <3>4, <3>5 DEF SpansInv
    <2> QED BY <2>1, <2>5, <2>6
<1>2. CASE Keeps /\ (Probed \/ JoinSpan \/ Merge \/ ExportFrame \/ ExportEnds \/ Score)
    BY <1>2 DEF Keeps, Probed, JoinSpan, Merge, ExportFrame, ExportEnds, Fails, Score, SpansInv
<1>3. CASE UNCHANGED batchVars
    BY <1>3 DEF batchVars, SpansInv
<1> QED BY <1>1, <1>2, <1>3, AfterMotion

LEMMA BeforeStep == SpansInv /\ BeforeInv /\ [BatchNext]_batchVars => BeforeInv'
<1> SUFFICES ASSUME SpansInv, BeforeInv, [BatchNext]_batchVars PROVE BeforeInv'
    OBVIOUS
<1>1. CASE Stretch
    BY <1>1 DEF Stretch, BeforeInv
<1>2. CASE Probed
    BY <1>2 DEF Probed, BeforeInv
<1>3. CASE JoinSpan \/ Merge
    BY <1>3 DEF JoinSpan, Merge, BeforeInv
<1>4. CASE ExportFrame \/ ExportEnds
    BY <1>4 DEF ExportFrame, ExportEnds, Fails, BeforeInv
<1>5. CASE Score
    BY <1>5 DEF Score, BeforeInv
<1>6. CASE UNCHANGED batchVars
    BY <1>6 DEF batchVars, BeforeInv
<1> QED BY <1>1, <1>2, <1>3, <1>4, <1>5, <1>6 DEF BatchNext

LEMMA MergingStep == SpansInv /\ MergingInv /\ [BatchNext]_batchVars => MergingInv'
<1> SUFFICES ASSUME SpansInv, MergingInv, [BatchNext]_batchVars, step' = "merge" PROVE MergingInv'
    BY DEF MergingInv
<1>0. /\ N \in Nat /\ MergeGap \in Nat
      /\ spans \in Seq(Span) /\ Len(spans) \in Nat /\ DOMAIN spans = 1 .. Len(spans)
      /\ \A k \in DOMAIN spans : spans[k] \in Span /\ spans[k][1] \in Nat /\ spans[k][2] \in Nat /\ spans[k][1] <= spans[k][2]
      /\ \A k, l \in DOMAIN spans : k < l => spans[k][2] < spans[l][1]
    <2>1. /\ spans \in Seq(Span) /\ Len(spans) \in Nat /\ DOMAIN spans = 1 .. Len(spans)
          /\ \A k \in DOMAIN spans : spans[k] \in Span
        BY LenProperties, ElementOfSeq DEF SpansInv
    <2> QED BY <2>1, BatchAssumption DEF SpansInv, Span, VideoFrames
<1>1. CASE Probed
    <2>1. spans # <<>> /\ merging' = [cur |-> spans[1], out |-> <<>>, next |-> 2] /\ spans' = spans
        BY <1>1 DEF Probed
    <2>2. merging'.cur = spans[1] /\ merging'.out = <<>> /\ merging'.next = 2
        BY <2>1
    <2>3. 1 \in DOMAIN spans /\ Len(spans) >= 1
        BY <1>0, <2>1, EmptySeq
    <2>4. <<>> \in Seq(Span) /\ DOMAIN <<>> = {}
        BY EmptySeq
    <2>5. merging' = [out |-> merging'.out, cur |-> merging'.cur, next |-> merging'.next]
        BY <2>1
    <2>6. \A k \in 1 .. merging'.next - 1, x \in VideoFrames : Covers(spans[k], x) => Covers(merging'.cur, x)
        BY <2>2
    <2> QED BY <1>0, <2>1, <2>2, <2>3, <2>4, <2>5, <2>6 DEF MergingInv, EndsInOrder
<1>2. CASE JoinSpan
    <2> DEFINE out == merging.out  cur == merging.cur  now_ == merging.next  span == spans[merging.next]
               longer == <<cur[1], Max({cur[2], span[2]})>>
               near == span[1] <= cur[2] + MergeGap
               tooLong == batch.maxLen > 0 /\ longer[2] - longer[1] + 1 > batch.maxLen
    <2>1. /\ spans' = spans /\ step = "merge" /\ now_ <= Len(spans) /\ merging' = Joins(merging, span)
        BY <1>2 DEF JoinSpan
    <2>2. /\ merging'.next = now_ + 1 /\ merging' = [out |-> merging'.out, cur |-> merging'.cur, next |-> merging'.next]
          /\ merging'.cur = IF near /\ ~tooLong THEN longer ELSE span
          /\ merging'.out = CASE ~near -> Append(out, cur) [] near /\ tooLong -> Append(out, longer) [] OTHER -> out
        BY <2>1 DEF Joins
    <2>3. /\ now_ \in 2 .. Len(spans) + 1 /\ out \in Seq(Span) /\ EndsInOrder(out) /\ cur \in Span
          /\ cur[1] <= spans[now_ - 1][1] /\ cur[2] = spans[now_ - 1][2]
          /\ \A i \in DOMAIN out : out[i][2] <= cur[2]
          /\ \A k \in 1 .. now_ - 1, x \in VideoFrames : Covers(spans[k], x) =>
                 Covers(cur, x) \/ \E i \in DOMAIN out : Covers(out[i], x)
        BY <2>1 DEF MergingInv
    <2> HIDE DEF out, cur, now_
    <2>4. /\ now_ \in DOMAIN spans /\ now_ - 1 \in DOMAIN spans /\ now_ - 1 < now_ /\ span \in Span
          /\ span[1] \in Nat /\ span[2] \in Nat /\ span[1] <= span[2] /\ cur[1] \in Nat /\ cur[2] \in Nat
          /\ cur[2] < span[1] /\ cur[1] <= cur[2]
        <3>1. now_ \in DOMAIN spans /\ now_ - 1 \in DOMAIN spans /\ now_ - 1 < now_
            BY <1>0, <2>1, <2>3 DEF now_
        <3>2. cur[1] \in Nat /\ cur[2] \in Nat
            BY <1>0, <2>3 DEF Span, VideoFrames
        <3> QED BY <1>0, <2>3, <3>1, <3>2 DEF now_
    <2> HIDE DEF span
    <2>5. longer[1] = cur[1] /\ longer[2] = span[2] /\ longer \in Span
        <3>1. cur[2] \in Int /\ span[2] \in Int /\ cur[2] < span[2]
            BY <2>4
        <3>2. Max({cur[2], span[2]}) = span[2]
            <4>1. Max({cur[2], span[2]}) \in {cur[2], span[2]} /\ Max({cur[2], span[2]}) >= span[2]
                BY <3>1, MaxOfTwo
            <4> QED BY <3>1, <4>1
        <3>3. longer = <<cur[1], span[2]>>
            BY <3>2
        <3> QED BY <2>3, <2>4, <3>3 DEF Span
    <2> HIDE DEF longer, near, tooLong
    <2>6. /\ Len(out) \in Nat /\ DOMAIN out = 1 .. Len(out) /\ \A i \in DOMAIN out : out[i][2] \in Nat
          /\ \A e \in Span : /\ Append(out, e) \in Seq(Span) /\ DOMAIN Append(out, e) = 1 .. Len(out) + 1
                             /\ Append(out, e)[Len(out) + 1] = e
                             /\ \A i \in 1 .. Len(out) : Append(out, e)[i] = out[i]
        <3>1. /\ Len(out) \in Nat /\ DOMAIN out = 1 .. Len(out) /\ \A i \in DOMAIN out : out[i] \in Span
            BY <2>3, LenProperties, ElementOfSeq
        <3>2. \A e \in Span : /\ Append(out, e) \in Seq(Span) /\ Len(Append(out, e)) = Len(out) + 1
                             /\ Append(out, e)[Len(out) + 1] = e
                             /\ \A i \in 1 .. Len(out) : Append(out, e)[i] = out[i]
            BY <2>3, AppendProperties
        <3>3. \A e \in Span : DOMAIN Append(out, e) = 1 .. Len(out) + 1
            BY <3>2, LenProperties
        <3> QED BY <1>0, <3>1, <3>2, <3>3 DEF Span, VideoFrames
    <2>7. ASSUME NEW e \in Span, cur[2] <= e[2], e[2] \in Nat
          PROVE  /\ Append(out, e) \in Seq(Span) /\ EndsInOrder(Append(out, e))
                 /\ \A i \in DOMAIN Append(out, e) : Append(out, e)[i][2] <= e[2]
                 /\ \A i \in DOMAIN out : i \in DOMAIN Append(out, e) /\ Append(out, e)[i] = out[i]
                 /\ \E i \in DOMAIN Append(out, e) : Append(out, e)[i] = e
        <3>1. /\ DOMAIN Append(out, e) = 1 .. Len(out) + 1 /\ Append(out, e)[Len(out) + 1] = e
              /\ \A i \in 1 .. Len(out) : Append(out, e)[i] = out[i]
            BY <2>6
        <3>2. \A i \in DOMAIN out : out[i][2] <= e[2]
            BY <2>3, <2>4, <2>6, <2>7
        <3>3. \A i \in DOMAIN Append(out, e) : i \in DOMAIN out \/ i = Len(out) + 1
            BY <2>6, <3>1
        <3>4. \A i \in DOMAIN Append(out, e) : Append(out, e)[i][2] <= e[2]
            BY <2>6, <2>7, <3>1, <3>2, <3>3
        <3>5. EndsInOrder(Append(out, e))
            BY <2>3, <2>6, <3>1, <3>2, <3>3, <3>4 DEF EndsInOrder
        <3> QED BY <2>6, <3>1, <3>4, <3>5
    <2>8. \A k \in 1 .. now_ : k \in 1 .. now_ - 1 \/ k = now_
        BY <2>3
    <2>9. \A x \in VideoFrames : x \in Nat
        BY <1>0 DEF VideoFrames
    <2>13. /\ span = spans[now_] /\ merging'.next - 1 = now_ /\ merging'.next \in 2 .. Len(spans) + 1
        BY <1>0, <2>1, <2>2, <2>3 DEF span, now_
    <2> DEFINE Fits(o, c) ==
                   /\ o \in Seq(Span) /\ EndsInOrder(o) /\ c \in Span
                   /\ c[1] <= span[1] /\ c[2] = span[2]
                   /\ \A i \in DOMAIN o : o[i][2] <= span[2]
                   /\ \A k \in 1 .. now_, x \in VideoFrames : Covers(spans[k], x) =>
                          Covers(c, x) \/ \E i \in DOMAIN o : Covers(o[i], x)
    <2>15. Fits(merging'.out, merging'.cur)
        <3>1. CASE ~near
            <4>1. merging'.out = Append(out, cur) /\ merging'.cur = span
                BY <2>2, <3>1
            <4>2. cur[2] <= span[2] /\ cur[2] <= cur[2]
                BY <2>4
            <4>6. /\ Append(out, cur) \in Seq(Span) /\ EndsInOrder(Append(out, cur))
                  /\ \A i \in DOMAIN out : i \in DOMAIN Append(out, cur) /\ Append(out, cur)[i] = out[i]
                  /\ \E i \in DOMAIN Append(out, cur) : Append(out, cur)[i] = cur
                BY <2>3, <2>4, <2>7, <4>2
            <4>3. \A i \in DOMAIN Append(out, cur) : Append(out, cur)[i][2] <= span[2]
                BY <2>3, <2>4, <2>6, <4>2
            <4>4. \A k \in 1 .. now_, x \in VideoFrames : Covers(spans[k], x) =>
                     Covers(span, x) \/ \E i \in DOMAIN Append(out, cur) : Covers(Append(out, cur)[i], x)
                BY <2>3, <2>8, <2>13, <4>6
            <4>7. span[1] <= span[1] /\ span[2] = span[2]
                BY <2>4
            <4> QED BY <2>4, <4>1, <4>3, <4>4, <4>6, <4>7
        <3>2. CASE near /\ tooLong
            <4>1. merging'.out = Append(out, longer) /\ merging'.cur = span
                BY <2>2, <3>2
            <4>2. cur[2] <= longer[2] /\ longer[2] \in Nat /\ longer[2] <= span[2]
                BY <2>4, <2>5
            <4>6. /\ Append(out, longer) \in Seq(Span) /\ EndsInOrder(Append(out, longer))
                  /\ \A i \in DOMAIN out : i \in DOMAIN Append(out, longer) /\ Append(out, longer)[i] = out[i]
                  /\ \E i \in DOMAIN Append(out, longer) : Append(out, longer)[i] = longer
                BY <2>5, <2>7, <4>2
            <4>3. \A x \in VideoFrames : Covers(cur, x) => Covers(longer, x)
                BY <2>4, <2>5, <2>9 DEF Covers
            <4>4. \A k \in 1 .. now_, x \in VideoFrames : Covers(spans[k], x) =>
                     Covers(span, x) \/ \E i \in DOMAIN Append(out, longer) : Covers(Append(out, longer)[i], x)
                BY <2>3, <2>8, <2>13, <4>3, <4>6
            <4>5. \A i \in DOMAIN Append(out, longer) : Append(out, longer)[i][2] <= span[2]
                BY <2>5, <2>7, <4>2
            <4>7. span[1] <= span[1] /\ span[2] = span[2]
                BY <2>4
            <4> QED BY <2>4, <4>1, <4>4, <4>5, <4>6, <4>7
        <3>3. CASE near /\ ~tooLong
            <4>1. merging'.out = out /\ merging'.cur = longer
                BY <2>2, <3>3
            <4>2. \A x \in VideoFrames : Covers(cur, x) \/ Covers(span, x) => Covers(longer, x)
                BY <2>4, <2>5, <2>9 DEF Covers
            <4>3. \A k \in 1 .. now_, x \in VideoFrames : Covers(spans[k], x) =>
                     Covers(longer, x) \/ \E i \in DOMAIN out : Covers(out[i], x)
                BY <2>3, <2>8, <2>13, <4>2
            <4>4. /\ \A i \in DOMAIN out : out[i][2] <= longer[2]
                  /\ longer[1] <= span[1]
                BY <2>3, <2>4, <2>5, <2>6
            <4> QED BY <2>1, <2>2, <2>3, <2>4, <2>5, <4>1, <4>3, <4>4
        <3> QED BY <3>1, <3>2, <3>3
    <2>16. /\ spans'[merging'.next - 1] = span /\ 1 .. merging'.next - 1 = 1 .. now_
           /\ merging'.next \in 2 .. Len(spans') + 1
        BY <2>1, <2>13
    <2> QED BY <2>1, <2>2, <2>15, <2>16 DEF MergingInv
<1>3. CASE UNCHANGED batchVars
    BY <1>3 DEF batchVars, MergingInv
<1>4. step # "merge" => Probed
    BY <1>3 DEF BatchNext, Stretch, Probed, JoinSpan, Merge, ExportFrame, ExportEnds, Fails, Score, batchVars
<1>5. step = "merge" => JoinSpan \/ UNCHANGED batchVars
    BY DEF BatchNext, Stretch, Probed, JoinSpan, Merge, ExportFrame, ExportEnds, Fails, Score
<1> QED BY <1>1, <1>2, <1>3, <1>4, <1>5

\* Padding keeps the order of the ends and what a span covers.
LEMMA PaddedCovers ==
    ASSUME NEW span \in Span, batch \in BatchSetups
    PROVE  /\ Padded(span) \in Int \X Int
           /\ Padded(span)[2] = Min({N - 1, span[2] + batch.post})
           /\ \A x \in VideoFrames : Covers(span, x) => Covers(Padded(span), x)
<1>1. N \in Nat /\ batch.pre \in Nat /\ batch.post \in Nat
    BY BatchAssumption
<1>2. span[1] \in Nat /\ span[2] \in Nat
    BY <1>1 DEF Span, VideoFrames
<1> DEFINE first == Max({0, span[1] - batch.pre})  last == Min({N - 1, span[2] + batch.post})
<1>3. first \in {0, span[1] - batch.pre} /\ first >= 0 /\ first <= span[1] /\ first \in Int
    <2>1. span[1] - batch.pre \in Int /\ 0 \in Int
        BY <1>1, <1>2
    <2>2. first \in {0, span[1] - batch.pre}
        BY <2>1, MaxOfTwo
    <2>3. first >= 0
        BY <2>1, MaxOfTwo
    <2> HIDE DEF first
    <2> QED BY <1>1, <1>2, <2>1, <2>2, <2>3
<1>4. last \in {N - 1, span[2] + batch.post} /\ last \in Int
    <2>1. N - 1 \in Int /\ span[2] + batch.post \in Int
        BY <1>1, <1>2
    <2>2. last \in {N - 1, span[2] + batch.post}
        BY <2>1, MinOfTwo
    <2> HIDE DEF last
    <2> QED BY <2>1, <2>2
<1>5. Padded(span) = <<first, last>>
    BY DEF Padded
<1> HIDE DEF first, last
<1>6. \A x \in VideoFrames : Covers(span, x) => first <= x /\ x <= last
    <2> TAKE x \in VideoFrames
    <2>1. x \in Nat /\ x <= N - 1
        BY <1>1 DEF VideoFrames
    <2> QED BY <1>1, <1>2, <1>3, <1>4, <2>1 DEF Covers
<1>7. Padded(span)[1] = first /\ Padded(span)[2] = last
    BY <1>5
<1>8. Padded(span) \in Int \X Int
    BY <1>3, <1>4, <1>5
<1>9. \A x \in VideoFrames : Covers(span, x) => Covers(Padded(span), x)
    BY <1>6, <1>7 DEF Covers
<1>10. last = Min({N - 1, span[2] + batch.post})
    BY DEF last
<1> QED BY <1>7, <1>8, <1>9, <1>10

LEMMA MinMonotone ==
    ASSUME NEW a \in Int, NEW b \in Int, NEW c \in Int, b <= c
    PROVE  Min({a, b}) <= Min({a, c})
<1>1. Min({a, b}) \in {a, b} /\ Min({a, b}) <= a /\ Min({a, b}) <= b
    BY MinOfTwo
<1>2. Min({a, c}) \in {a, c} /\ Min({a, c}) <= a /\ Min({a, c}) <= c
    BY MinOfTwo
<1> QED BY <1>1, <1>2

LEMMA MergedStep ==
    SpansInv /\ BeforeInv /\ MergingInv /\ MergedInv /\ [BatchNext]_batchVars => MergedInv'
<1> SUFFICES ASSUME SpansInv, BeforeInv, MergingInv, MergedInv, [BatchNext]_batchVars, step' \notin {"motion", "merge"}
             PROVE MergedInv'
    BY DEF MergedInv
<1>1. CASE Merge
    <2> DEFINE all == Append(merging.out, merging.cur)
    <2>1. /\ step = "merge" /\ merging.next > Len(spans) /\ spans' = spans
          /\ merged' = [i \in DOMAIN all |-> Padded(all[i])] /\ made' = [i \in DOMAIN merged' |-> {}]
        BY <1>1 DEF Merge
    <2>2. /\ merging.next \in 2 .. Len(spans) + 1 /\ merging.out \in Seq(Span) /\ EndsInOrder(merging.out)
          /\ merging.cur \in Span
          /\ \A i \in DOMAIN merging.out : merging.out[i][2] <= merging.cur[2]
          /\ \A k \in 1 .. merging.next - 1, x \in VideoFrames : Covers(spans[k], x) =>
                 Covers(merging.cur, x) \/ \E i \in DOMAIN merging.out : Covers(merging.out[i], x)
        BY <2>1 DEF MergingInv
    <2>3. /\ Len(merging.out) \in Nat /\ DOMAIN merging.out = 1 .. Len(merging.out)
          /\ all \in Seq(Span) /\ DOMAIN all = 1 .. Len(merging.out) + 1
          /\ all[Len(merging.out) + 1] = merging.cur /\ \A i \in 1 .. Len(merging.out) : all[i] = merging.out[i]
        BY <2>2, AppendProperties, LenProperties
    <2> HIDE DEF all
    <2>4. \A i \in DOMAIN all : all[i] \in Span /\ all[i][1] \in Nat /\ all[i][2] \in Nat
        <3>1. \A i \in DOMAIN all : all[i] \in Span
            BY <2>3, ElementOfSeq, LenProperties
        <3> QED BY <3>1, BatchAssumption DEF Span, VideoFrames
    <2>5. EndsInOrder(all)
        <3> SUFFICES ASSUME NEW i \in DOMAIN all, NEW j \in DOMAIN all, i < j PROVE all[i][2] <= all[j][2]
            BY DEF EndsInOrder
        <3>1. i \in 1 .. Len(merging.out) /\ all[i] = merging.out[i]
            BY <2>3
        <3>2. CASE j = Len(merging.out) + 1
            BY <2>2, <2>3, <3>1, <3>2
        <3>3. CASE j # Len(merging.out) + 1
            <4>1. j \in DOMAIN merging.out /\ i \in DOMAIN merging.out /\ all[j] = merging.out[j]
                BY <2>3, <3>1, <3>3
            <4>2. merging.out[i][2] <= merging.out[j][2]
                BY <2>2, <4>1 DEF EndsInOrder
            <4> QED BY <3>1, <4>1, <4>2
        <3> QED BY <3>2, <3>3
    <2>6. batch \in BatchSetups /\ N \in Nat /\ batch.post \in Nat
        BY BatchAssumption DEF BeforeInv
    <2>7. DOMAIN merged' = DOMAIN all /\ \A i \in DOMAIN all : merged'[i] = Padded(all[i])
        BY <2>1
    <2>8. \A i \in DOMAIN all : /\ merged'[i] \in Int \X Int /\ merged'[i][2] = Min({N - 1, all[i][2] + batch.post})
                                /\ \A x \in VideoFrames : Covers(all[i], x) => Covers(merged'[i], x)
        BY <2>4, <2>6, <2>7, PaddedCovers
    <2>9. EndsInOrder(merged')
        <3> SUFFICES ASSUME NEW i \in DOMAIN all, NEW j \in DOMAIN all, i < j PROVE merged'[i][2] <= merged'[j][2]
            BY <2>7 DEF EndsInOrder
        <3>1. /\ N - 1 \in Int /\ all[i][2] + batch.post \in Int /\ all[j][2] + batch.post \in Int
              /\ all[i][2] + batch.post <= all[j][2] + batch.post
            BY <2>4, <2>5, <2>6 DEF EndsInOrder
        <3>2. Min({N - 1, all[i][2] + batch.post}) <= Min({N - 1, all[j][2] + batch.post})
            BY <3>1, MinMonotone
        <3> QED BY <2>8, <3>2
    <2>10. \A k \in DOMAIN spans, x \in VideoFrames : Covers(spans[k], x) => \E e \in DOMAIN all : Covers(all[e], x)
        <3> SUFFICES ASSUME NEW k \in DOMAIN spans, NEW x \in VideoFrames, Covers(spans[k], x)
                     PROVE  \E e \in DOMAIN all : Covers(all[e], x)
            OBVIOUS
        <3>1. k \in 1 .. merging.next - 1
            BY <2>1, <2>2, LenProperties DEF SpansInv
        <3>2. CASE Covers(merging.cur, x)
            BY <2>3, <3>2
        <3>3. CASE \E e \in DOMAIN merging.out : Covers(merging.out[e], x)
            BY <2>3, <3>3
        <3> QED BY <2>2, <3>1, <3>2, <3>3
    <2>11. \E top \in Nat : DOMAIN merged' = 1 .. top
        BY <2>3, <2>7
    <2>12. \A e \in DOMAIN merged' : merged'[e] \in Int \X Int
        BY <2>7, <2>8
    <2>13. \A k \in DOMAIN spans, x \in VideoFrames : Covers(spans[k], x) => \E e \in DOMAIN merged' : Covers(merged'[e], x)
        BY <2>7, <2>8, <2>10
    <2>14. DOMAIN made' = DOMAIN merged'
        BY <2>1
    <2> QED BY <2>1, <2>9, <2>11, <2>12, <2>13, <2>14 DEF MergedInv
<1>2. CASE Probed
    <2>1. merged' = <<>> /\ made' = <<>> /\ spans' = <<>>
        BY <1>2 DEF Probed, BeforeInv
    <2>2. DOMAIN merged' = 1 .. 0 /\ DOMAIN merged' = {} /\ DOMAIN made' = {} /\ DOMAIN spans' = {} /\ 0 \in Nat
        BY <2>1
    <2> QED BY <2>2 DEF MergedInv, EndsInOrder
<1>3. CASE ExportFrame
    <2>1. UNCHANGED <<spans, merged>> /\ step \notin {"motion", "merge"}
        BY <1>3 DEF ExportFrame
    <2>2. DOMAIN made' = DOMAIN made
        BY <1>3 DEF ExportFrame
    <2> QED BY <2>1, <2>2 DEF MergedInv
<1>4. CASE ExportEnds \/ Score \/ UNCHANGED batchVars
    <2>1. UNCHANGED <<spans, merged, made>> /\ step \notin {"motion", "merge"}
        BY <1>4 DEF ExportEnds, Fails, Score, batchVars
    <2> QED BY <2>1 DEF MergedInv
<1>5. ~Stretch /\ ~JoinSpan
    BY DEF Stretch, JoinSpan
<1> QED BY <1>1, <1>2, <1>3, <1>4, <1>5 DEF BatchNext

\* The event that has a frame is the last one that covers it.
LEMMA EventCovers ==
    ASSUME MergedInv, step \notin {"motion", "merge"}, NEW i \in Int
    PROVE  /\ EventOf(i) # NoOne => EventOf(i) \in DOMAIN merged /\ Covers(merged[EventOf(i)], i)
           /\ \A e \in DOMAIN merged : Covers(merged[e], i) => EventOf(i) # NoOne /\ e <= EventOf(i)
           /\ EventOf(i) \in Nat
<1> DEFINE those == {e \in DOMAIN merged : merged[e][1] <= i /\ i <= merged[e][2]}
<1>1. PICK top \in Nat : DOMAIN merged = 1 .. top
    BY DEF MergedInv
<1>2. EventOf(i) = IF those = {} THEN NoOne ELSE Max(those)
    BY DEF EventOf
<1>3. those \in SUBSET (1 .. top) /\ \A e \in DOMAIN merged : e \in those <=> Covers(merged[e], i)
    BY <1>1 DEF Covers
<1> HIDE DEF those
<1>4. CASE those = {}
    BY <1>2, <1>3, <1>4 DEF NoOne
<1>5. CASE those # {}
    <2>1. Max(those) \in those /\ \A k \in those : k <= Max(those)
        BY <1>3, <1>5, LastOne
    <2>2. EventOf(i) = Max(those)
        BY <1>2, <1>5
    <2>3. EventOf(i) \in 1 .. top /\ EventOf(i) \in those
        BY <1>3, <2>1, <2>2
    <2>4. \A e \in DOMAIN merged : Covers(merged[e], i) => e <= EventOf(i)
        BY <1>3, <2>1, <2>2
    <2> QED BY <1>1, <1>3, <2>3, <2>4 DEF NoOne
<1> QED BY <1>4, <1>5

\* The events of the frames never go back, and an event has no gap but for later ones.
LEMMA EventsForward ==
    ASSUME MergedInv, step \notin {"motion", "merge"}, NEW i \in Int, NEW k \in Int, i <= k,
           EventOf(i) # NoOne, EventOf(k) # NoOne
    PROVE  /\ EventOf(i) <= EventOf(k)
           /\ EventOf(i) = EventOf(k) => \A j \in i .. k : Covers(merged[EventOf(i)], j)
<1> DEFINE e == EventOf(i)  f == EventOf(k)
<1>1. e \in DOMAIN merged /\ Covers(merged[e], i) /\ f \in DOMAIN merged /\ Covers(merged[f], k)
    BY EventCovers
<1>2. /\ e \in Nat /\ f \in Nat /\ merged[e][1] \in Int /\ merged[e][2] \in Int /\ merged[f][1] \in Int /\ merged[f][2] \in Int
    BY <1>1 DEF MergedInv
<1> HIDE DEF e, f
<1>3. e <= f
    <2> SUFFICES ASSUME f < e PROVE FALSE
        BY <1>2
    <2>1. merged[f][2] <= merged[e][2]
        BY <1>1 DEF MergedInv, EndsInOrder
    <2>2. Covers(merged[e], k)
        BY <1>1, <1>2, <2>1 DEF Covers
    <2>3. e <= f
        BY <1>1, <2>2, EventCovers DEF f
    <2> QED BY <1>2, <2>3
<1>4. e = f => \A j \in i .. k : Covers(merged[e], j)
    BY <1>1, <1>2 DEF Covers
<1> QED BY <1>3, <1>4 DEF e, f

\* A position in the stride leads back less than one stride.
LEMMA StrideBack ==
    ASSUME NEW i \in Int, NEW s \in Nat, NEW k \in 0 .. s - 1
    PROVE  i - k \in (i - s + 1) .. i
OBVIOUS

LEMMA ExportStep ==
    SpansInv /\ BeforeInv /\ MergedInv /\ ExportInv /\ [BatchNext]_batchVars => ExportInv'
<1> SUFFICES ASSUME SpansInv, BeforeInv, MergedInv, ExportInv, [BatchNext]_batchVars, step' \notin {"motion", "merge"}
             PROVE ExportInv'
    BY DEF ExportInv
<1>1. CASE Probed \/ Merge
    <2>1. /\ opened = <<>> /\ open = NoOne /\ frame' = 0 /\ UNCHANGED <<open, opened>>
          /\ \A e \in DOMAIN made' : made'[e] = {}
          /\ phase' = 0 /\ batch' = batch
        <3>1. CASE Probed
            BY <1>1, <3>1 DEF Probed, BeforeInv
        <3>2. CASE Merge
            BY <1>1, <3>2 DEF Merge, BeforeInv
        <3> QED BY <1>1, <3>1, <3>2
    <2>2. <<>> \in Seq(Nat) /\ DOMAIN opened' = {}
        BY <2>1, EmptySeq
    <2>3. 0 .. frame' - 1 = {}
        BY <2>1
    <2>4. phase' \in 0 .. batch'.stride - 1
        BY <2>1, BatchAssumption DEF BeforeInv
    <2> QED BY <2>1, <2>2, <2>3, <2>4 DEF ExportInv
<1>2. CASE ExportFrame
    <2> DEFINE e == EventOf(frame)
    <2>1. /\ step = "export" /\ step' = step /\ frame < N /\ frame' = frame + 1 /\ open' = e
          /\ opened' = IF e \notin {open, NoOne} THEN Append(opened, e) ELSE opened
          /\ phase' = IF e # open \/ phase + 1 = batch.stride THEN 0 ELSE phase + 1
          /\ made' = IF e # NoOne /\ frame <= LastFrame(e) /\ phase' = 0 THEN [made EXCEPT ![e] = @ \cup {frame}] ELSE made
          /\ UNCHANGED <<batch, merged>>
        BY <1>2 DEF ExportFrame
    <2>2. \A i : EventOf(i)' = EventOf(i)
        BY <2>1 DEF EventOf
    <2>3. frame \in Nat /\ frame \in Int
        BY DEF SpansInv
    <2>4. /\ e # NoOne => e \in DOMAIN merged /\ Covers(merged[e], frame)
          /\ e \in Nat /\ DOMAIN made = DOMAIN merged
        BY <2>1, <2>3, EventCovers DEF MergedInv
    <2>5. /\ \A d \in DOMAIN made : \A i \in made[d] : i \in Int /\ EventOf(i) = d
          /\ batch.maxEvent = 0 => \A i \in 0 .. frame - 1 : EventOf(i) # NoOne => Sampled(i)
          /\ phase \in 0 .. batch.stride - 1
          /\ batch.maxEvent = 0 /\ open # NoOne => frame - 1 - phase \in made[open]
          /\ open = IF frame = 0 THEN NoOne ELSE EventOf(frame - 1)
          /\ opened \in Seq(Nat)
          /\ \A i, j \in DOMAIN opened : i < j => opened[i] < opened[j]
          /\ \A i \in DOMAIN opened : opened[i] # NoOne /\ \E x \in 0 .. frame - 1 : opened[i] = EventOf(x)
        BY <2>1 DEF ExportInv
    <2> HIDE DEF e
    <2>6. \A d \in DOMAIN made' : \A i \in made'[d] : i \in Int /\ EventOf(i) = d
        <3> SUFFICES ASSUME NEW d \in DOMAIN made', NEW i \in made'[d] PROVE i \in Int /\ EventOf(i) = d
            OBVIOUS
        <3>1. d \in DOMAIN made /\ (i \in made[d] \/ (i = frame /\ d = e))
            BY <2>1, <2>4
        <3> QED BY <2>3, <2>5, <3>1 DEF e
    <2>11. batch.stride \in Nat /\ batch.stride >= 1 /\ phase \in Int /\ phase' \in 0 .. batch.stride - 1 /\ phase' \in Int
        <3>1. batch.stride \in Nat \ {0}
            BY BatchAssumption DEF BeforeInv
        <3> QED BY <2>1, <2>5, <3>1
    <2>12. ASSUME batch.maxEvent = 0, e # NoOne PROVE frame - phase' \in made'[e]
        <3>1. e \in DOMAIN made /\ frame <= LastFrame(e)
            BY <2>4, <2>12 DEF LastFrame, Covers
        <3>2. CASE phase' = 0
            BY <2>1, <2>3, <2>12, <3>1, <3>2
        <3>3. CASE phase' # 0
            <4>1. e = open /\ phase' = phase + 1 /\ made' = made
                BY <2>1, <3>3
            <4>2. frame - 1 - phase \in made[open]
                BY <2>5, <2>12, <4>1
            <4>3. frame - phase' = frame - 1 - phase
                BY <2>3, <2>11, <4>1
            <4> QED BY <4>1, <4>2, <4>3
        <3> QED BY <3>2, <3>3
    <2>7. ASSUME batch.maxEvent = 0, NEW i \in 0 .. frame, EventOf(i) # NoOne PROVE Sampled(i)'
        <3>1. CASE i = frame
            <4>1. frame - phase' \in (i - batch.stride + 1) .. i
                BY <2>3, <2>11, <3>1, StrideBack
            <4>2. frame - phase' \in made'[EventOf(i)]
                BY <2>7, <2>12, <3>1 DEF e
            <4> QED BY <2>1, <2>2, <4>1, <4>2 DEF Sampled
        <3>2. CASE i # frame
            <4>1. i \in 0 .. frame - 1 /\ i \in Int
                BY <2>3, <2>7, <3>2
            <4>2. Sampled(i) /\ EventOf(i) \in DOMAIN made
                BY <2>1, <2>4, <2>5, <2>7, <4>1, EventCovers
            <4>3. made[EventOf(i)] \subseteq made'[EventOf(i)]
                BY <2>1, <4>2
            <4> QED BY <2>1, <2>2, <4>2, <4>3 DEF Sampled
        <3> QED BY <3>1, <3>2
    <2>13. batch'.maxEvent = 0 /\ open' # NoOne => frame' - 1 - phase' \in made'[open']
        <3>1. frame' - 1 - phase' = frame - phase'
            BY <2>1, <2>3, <2>11
        <3> QED BY <2>1, <2>12, <3>1
    <2>14. /\ batch'.maxEvent = 0 => \A i \in 0 .. frame' - 1 : EventOf(i)' # NoOne => Sampled(i)'
           /\ phase' \in 0 .. batch'.stride - 1
        <3>1. frame' - 1 = frame
            BY <2>1, <2>3
        <3> QED BY <2>1, <2>2, <2>7, <2>11, <3>1
    <2>8. open' = EventOf(frame' - 1) /\ frame' # 0 /\ 0 .. frame' - 1 = 0 .. frame
        BY <2>1, <2>3 DEF e
    <2>9. CASE e \notin {open, NoOne}
        <3>1. /\ opened' = Append(opened, e) /\ opened' \in Seq(Nat) /\ Len(opened) \in Nat /\ DOMAIN opened = 1 .. Len(opened)
              /\ DOMAIN opened' = 1 .. Len(opened) + 1
              /\ opened'[Len(opened) + 1] = e /\ \A i \in 1 .. Len(opened) : opened'[i] = opened[i]
            BY <2>1, <2>4, <2>5, <2>9, AppendProperties, LenProperties
        <3>2. ASSUME NEW i \in DOMAIN opened PROVE opened[i] < e
            <4>1. PICK x \in 0 .. frame - 1 : opened[i] = EventOf(x)
                BY <2>5, <3>2
            <4>2. opened[i] # NoOne /\ opened[i] \in Nat
                BY <2>5, <3>2, ElementOfSeq, LenProperties
            <4>3. x \in Int /\ x <= frame /\ frame - 1 \in x .. frame /\ x <= frame - 1 /\ frame - 1 \in Int /\ frame - 1 <= frame
                BY <2>3
            <4>4. opened[i] <= e
                BY <2>1, <2>3, <2>9, <4>1, <4>2, <4>3, EventsForward DEF e
            <4>5. ASSUME opened[i] = e PROVE FALSE
                <5>1. Covers(merged[e], frame - 1)
                    BY <2>1, <2>3, <2>9, <4>1, <4>2, <4>3, <4>5, EventsForward DEF e
                <5>2. EventOf(frame - 1) # NoOne /\ e <= EventOf(frame - 1) /\ EventOf(frame - 1) \in Nat
                    BY <2>1, <2>4, <2>9, <4>3, <5>1, EventCovers
                <5>3. EventOf(frame - 1) <= e
                    BY <2>1, <2>3, <2>9, <4>3, <5>2, EventsForward DEF e
                <5>4. EventOf(frame - 1) = open
                    BY <2>3, <2>5, <4>3
                <5> QED BY <2>4, <2>9, <5>2, <5>3, <5>4
            <4> QED BY <2>4, <4>2, <4>4, <4>5
        <3>3. \A i, j \in DOMAIN opened' : i < j => opened'[i] < opened'[j]
            <4> SUFFICES ASSUME NEW i \in DOMAIN opened', NEW j \in DOMAIN opened', i < j PROVE opened'[i] < opened'[j]
                OBVIOUS
            <4>1. i \in DOMAIN opened /\ opened'[i] = opened[i]
                BY <3>1
            <4>2. CASE j = Len(opened) + 1
                BY <3>1, <3>2, <4>1, <4>2
            <4>3. CASE j # Len(opened) + 1
                <5>1. j \in DOMAIN opened /\ opened'[j] = opened[j]
                    BY <3>1, <4>3
                <5> QED BY <2>5, <4>1, <5>1
            <4> QED BY <4>2, <4>3
        <3>4. \A i \in DOMAIN opened' : opened'[i] # NoOne /\ \E x \in 0 .. frame : opened'[i] = EventOf(x)
            <4> TAKE i \in DOMAIN opened'
            <4>1. CASE i = Len(opened) + 1
                BY <2>3, <2>9, <3>1, <4>1 DEF e
            <4>2. CASE i # Len(opened) + 1
                <5>1. i \in DOMAIN opened /\ opened'[i] = opened[i]
                    BY <3>1, <4>2
                <5>2. opened[i] # NoOne /\ \E x \in 0 .. frame - 1 : opened[i] = EventOf(x)
                    BY <2>5, <5>1
                <5> QED BY <2>3, <5>1, <5>2
            <4> QED BY <4>1, <4>2
        <3> QED BY <2>1, <2>2, <2>6, <2>8, <2>13, <2>14, <3>1, <3>3, <3>4 DEF ExportInv
    <2>10. CASE e \in {open, NoOne}
        <3>1. opened' = opened
            BY <2>1, <2>10
        <3>2. \A i \in DOMAIN opened : opened[i] # NoOne /\ \E x \in 0 .. frame : opened[i] = EventOf(x)
            <4>1. \A i \in DOMAIN opened : opened[i] # NoOne /\ \E x \in 0 .. frame - 1 : opened[i] = EventOf(x)
                BY <2>5
            <4>2. 0 .. frame - 1 \subseteq 0 .. frame
                BY <2>3
            <4> QED BY <4>1, <4>2
        <3>3. /\ opened' \in Seq(Nat)
              /\ \A i, j \in DOMAIN opened' : i < j => opened'[i] < opened'[j]
            BY <2>5, <3>1
        <3>4. \A i \in DOMAIN opened' : opened'[i] # NoOne /\ \E x \in 0 .. frame : opened'[i] = EventOf(x)
            BY <3>1, <3>2
        <3> QED BY <2>1, <2>2, <2>6, <2>8, <2>13, <2>14, <3>3, <3>4 DEF ExportInv
    <2> QED BY <2>9, <2>10
<1>3. CASE ExportEnds \/ Score \/ UNCHANGED batchVars
    <2>1. UNCHANGED <<batch, merged, made, frame, open, opened, phase>> /\ step \notin {"motion", "merge"}
        BY <1>3 DEF ExportEnds, Fails, Score, batchVars
    <2>2. \A i : EventOf(i)' = EventOf(i)
        BY <2>1 DEF EventOf
    <2>3. \A i : Sampled(i)' = Sampled(i)
        BY <2>1, <2>2 DEF Sampled
    <2> QED BY <2>1, <2>2, <2>3 DEF ExportInv
<1>4. ~Stretch /\ ~JoinSpan
    BY DEF Stretch, JoinSpan
<1> QED BY <1>1, <1>2, <1>3, <1>4 DEF BatchNext

LEMMA VideoStep == VideoInv /\ [BatchNext]_batchVars => VideoInv'
BY SpansStep, BeforeStep, MergingStep, MergedStep, ExportStep DEF VideoInv

LEMMA VideoHolds == VideoInv => ExportedOnce
<1> SUFFICES ASSUME VideoInv, step = "reported" PROVE ExportedOnce
    BY DEF ExportedOnce
<1>1. /\ MergedInv /\ ExportInv /\ step \notin {"motion", "merge"} /\ (frame = N \/ spans = <<>>)
      /\ N \in Nat
    BY BatchAssumption DEF VideoInv, BeforeInv
<1>2. \A i, j \in DOMAIN opened : i # j => opened[i] # opened[j]
    <2> SUFFICES ASSUME NEW i \in DOMAIN opened, NEW j \in DOMAIN opened, i # j PROVE opened[i] # opened[j]
        OBVIOUS
    <2>1. i \in Nat /\ j \in Nat /\ opened[i] \in Nat /\ opened[j] \in Nat
        BY <1>1, ElementOfSeq, LenProperties DEF ExportInv
    <2>2. (i < j => opened[i] < opened[j]) /\ (j < i => opened[j] < opened[i])
        BY <1>1 DEF ExportInv
    <2> QED BY <2>1, <2>2
<1>3. ASSUME NEW i \in VideoFrames
      PROVE  /\ Cardinality({e \in DOMAIN made : i \in made[e]}) <= 1
             /\ (\E k \in DOMAIN spans : spans[k][1] <= i /\ i <= spans[k][2]) /\ batch.maxEvent = 0 =>
                  EventOf(i) # NoOne /\ Sampled(i)
    <2> DEFINE events == {e \in DOMAIN made : i \in made[e]}
    <2>1. events \subseteq {EventOf(i)}
        BY <1>1 DEF ExportInv
    <2>2. Cardinality(events) <= 1
        <3>1. IsFiniteSet({EventOf(i)}) /\ Cardinality({EventOf(i)}) = 1
            BY FS_Singleton
        <3> HIDE DEF events
        <3>2. Cardinality(events) <= Cardinality({EventOf(i)})
            BY <2>1, <3>1, FS_Subset
        <3> QED BY <3>1, <3>2
    <2>3. ASSUME NEW k \in DOMAIN spans, spans[k][1] <= i, i <= spans[k][2], batch.maxEvent = 0 PROVE EventOf(i) # NoOne /\ Sampled(i)
        <3>1. Covers(spans[k], i)
            BY <2>3 DEF Covers
        <3>2. i \in Int /\ i \in 0 .. N - 1
            BY <1>1, <1>3 DEF VideoFrames
        <3>3. PICK e \in DOMAIN merged : Covers(merged[e], i)
            BY <1>1, <1>3, <2>3, <3>1 DEF MergedInv
        <3>4. EventOf(i) # NoOne /\ EventOf(i) \in DOMAIN merged
            BY <1>1, <3>2, <3>3, EventCovers
        <3>5. frame = N
            <4>1. spans # <<>>
                BY <2>3
            <4> QED BY <1>1, <4>1
        <3> QED BY <1>1, <2>3, <3>2, <3>4, <3>5 DEF ExportInv
    <2> QED BY <2>2, <2>3
<1> QED BY <1>2, <1>3 DEF ExportedOnce, Sampled

(*********************** the queue based live pipeline **********************)
\* What a camera is, in every state.
CamFields == {"at", "frame", "stint", "pre", "event", "count", "closed", "queued", "row", "then", "joined", "clips"}
LiveShape ==
    /\ \A c \in Cams : DOMAIN cam[c] = CamFields
    /\ Sequential(clips) /\ Sequential(jobs) /\ Sequential(hub)

\* An event of camera c is named after it and holds frames of one stretch only.
Own(c, stint, ev) ==
    /\ DOMAIN ev = {"id", "stints", "n", "hits", "last"} /\ ev.stints = {stint}
    /\ DOMAIN ev.id = 1 .. 2 /\ ev.id[1] = c
MotionInv ==
    \A c \in Cams :
        /\ cam[c].pre \in Seq({cam[c].stint})
        /\ Active(c) => Own(c, cam[c].stint, cam[c].event)
        /\ \A stints \in cam[c].clips : \E x : stints = {x}
        /\ \A id \in cam[c].closed \cup cam[c].queued : DOMAIN id = 1 .. 2 /\ id[1] = c

\* What a step of a camera may do, as far as the others see it.
Others(c) == DOMAIN cam' = Cams /\ \A d \in Cams \ {c} : cam'[d] = cam[d]
Same(c) == cam'[c].joined = cam[c].joined /\ cam'[c].closed = cam[c].closed /\ cam'[c].queued = cam[c].queued /\ cam'[c].clips = cam[c].clips
Awake == {"open", "run", "retry", "blocked"}
Passes(c) ==
    /\ cam[c].at \in Awake /\ cam'[c].at \in Awake \cup {"gone"} /\ Same(c)
    /\ UNCHANGED <<mainVars, clipVars, jobVars, hubVars>>
Told(c) ==
    /\ cam[c].at = "row" /\ PutRow(EventRow(cam[c].row)) /\ Same(c)
    /\ UNCHANGED <<mainVars, clipVars, jobVars>>
Marks(c) ==
    /\ cam[c].at = "status" /\ PutStatus /\ Same(c)
    /\ UNCHANGED <<mainVars, clipVars, jobVars>>
Closes(c, ev) ==
    /\ cam[c].at = "run" /\ cam'[c].at = "row" /\ cam'[c].row = ev.id /\ cam'[c].joined = cam[c].joined
    /\ cam'[c].closed = cam[c].closed \cup {ev.id} /\ cam'[c].clips = cam[c].clips \cup {ev.stints}
    /\ \/ clips' = Append(clips, ev.id) /\ UNCHANGED <<saved, unsaved>>
       \/ clips' = clips /\ Saves(ev.id)
    /\ \/ cam'[c].queued = cam[c].queued /\ jobs' = jobs
       \/ cam'[c].queued = cam[c].queued \cup {ev.id} /\ jobs' = Append(jobs, ev.id)
    /\ UNCHANGED <<mainVars, clipWriter, stage3, judged, submitted, hubVars>>
Does(c) == Passes(c) \/ Told(c) \/ Marks(c) \/ \E ev : Own(c, cam[c].stint, ev) /\ Closes(c, ev)

\* What the camera keeps of itself.
Moved(c) ==
    /\ Others(c) /\ DOMAIN cam'[c] = CamFields /\ cam'[c].pre \in Seq({cam'[c].stint})
    /\ cam'[c].event = NoEvent \/ Own(c, cam'[c].stint, cam'[c].event)

LEMMA AlterIs ==
    ASSUME LiveShape, NEW c \in Cams, NEW fields, NEW more, Alter(c, fields, more)
    PROVE  /\ Others(c) /\ DOMAIN cam'[c] = CamFields
           /\ \A k \in CamFields : cam'[c][k] = IF k \in DOMAIN fields THEN fields[k]
                                               ELSE IF k \in DOMAIN more THEN more[k] ELSE cam[c][k]
BY DEF LiveShape, Alter, With, Others, Cams

LEMMA SetIs ==
    ASSUME LiveShape, NEW c \in Cams, NEW fields, Set(c, fields)
    PROVE  /\ Others(c) /\ DOMAIN cam'[c] = CamFields
           /\ \A k \in CamFields : cam'[c][k] = IF k \in DOMAIN fields THEN fields[k] ELSE cam[c][k]
BY DEF LiveShape, Set, With, Others, Cams

\* What a frame sets of a camera beside its event.
Fits(c, fields) ==
    /\ DOMAIN fields \cap CamFields \subseteq {"frame", "stint", "pre", "count"}
    /\ (IF "pre" \in DOMAIN fields THEN fields.pre ELSE cam[c].pre)
          \in Seq({IF "stint" \in DOMAIN fields THEN fields.stint ELSE cam[c].stint})

LEMMA Closing ==
    ASSUME LiveShape, NEW c \in Cams, cam[c].at = "run", NEW ev, Own(c, cam[c].stint, ev), NEW reason, NEW then,
           NEW fields, Fits(c, fields), CloseEvent(c, ev, reason, then, fields)
    PROVE  Moved(c) /\ Does(c) /\ LiveShape'
<1>1. PICK data \in BOOLEAN :
        LET room == Len(clips) < ClipCap
            wanted == GoodEnough(ev, reason, data)
            taken == wanted /\ Len(jobs) < JobCap IN
        /\ clips' = Queues(clips, ClipCap, ev.id) /\ clipWriter' = clipWriter
        /\ IF room THEN UNCHANGED <<saved, unsaved>> ELSE Saves(ev.id)
        /\ jobs' = IF wanted THEN Queues(jobs, JobCap, ev.id) ELSE jobs
        /\ Alter(c, [at |-> "row", row |-> ev.id, then |-> then, event |-> NoEvent,
                   closed |-> cam[c].closed \cup {ev.id}, clips |-> cam[c].clips \cup {ev.stints},
                   queued |-> IF taken THEN cam[c].queued \cup {ev.id} ELSE cam[c].queued], fields)
        /\ UNCHANGED <<stage3, judged, submitted, hubVars, mainVars>>
    BY DEF CloseEvent
<1> DEFINE wanted == GoodEnough(ev, reason, data)
           taken == wanted /\ Len(jobs) < JobCap
           ends == [at |-> "row", row |-> ev.id, then |-> then, event |-> NoEvent,
                       closed |-> cam[c].closed \cup {ev.id}, clips |-> cam[c].clips \cup {ev.stints},
                       queued |-> IF taken THEN cam[c].queued \cup {ev.id} ELSE cam[c].queued]
<1>2. /\ Others(c) /\ DOMAIN cam'[c] = CamFields
      /\ \A k \in CamFields : cam'[c][k] = IF k \in DOMAIN ends THEN ends[k]
                                          ELSE IF k \in DOMAIN fields THEN fields[k] ELSE cam[c][k]
    <2>1. Alter(c, ends, fields)
        BY <1>1
    <2> HIDE DEF ends
    <2> QED BY <2>1, AlterIs
<1>3. /\ cam'[c].at = "row" /\ cam'[c].row = ev.id /\ cam'[c].event = NoEvent
      /\ cam'[c].closed = cam[c].closed \cup {ev.id} /\ cam'[c].clips = cam[c].clips \cup {ev.stints}
      /\ cam'[c].queued = IF taken THEN cam[c].queued \cup {ev.id} ELSE cam[c].queued
    BY <1>2 DEF CamFields
<1>4. cam'[c].joined = cam[c].joined
    BY <1>2 DEF CamFields, Fits
<1>5. /\ cam'[c].pre = IF "pre" \in DOMAIN fields THEN fields.pre ELSE cam[c].pre
      /\ cam'[c].stint = IF "stint" \in DOMAIN fields THEN fields.stint ELSE cam[c].stint
    BY <1>2 DEF CamFields
<1>6. Moved(c)
    BY <1>2, <1>3, <1>5 DEF Moved, Fits
<1>7. \/ clips' = Append(clips, ev.id) /\ UNCHANGED <<saved, unsaved>>
      \/ clips' = clips /\ Saves(ev.id)
    BY <1>1 DEF Queues
<1>8. \/ cam'[c].queued = cam[c].queued /\ jobs' = jobs
      \/ cam'[c].queued = cam[c].queued \cup {ev.id} /\ jobs' = Append(jobs, ev.id)
    <2>1. CASE taken
        BY <1>1, <1>3, <2>1 DEF Queues
    <2>2. CASE ~wanted
        BY <1>1, <1>3, <2>2
    <2>3. CASE ~(Len(jobs) < JobCap)
        BY <1>1, <1>3, <2>3 DEF Queues
    <2> QED BY <2>1, <2>2, <2>3
<1>9. Closes(c, ev)
    <2>1. UNCHANGED <<mainVars, clipWriter, stage3, judged, submitted, hubVars>>
        BY <1>1
    <2> HIDE DEF taken
    <2> QED BY <1>3, <1>4, <1>7, <1>8, <2>1 DEF Closes
<1>10. LiveShape'
    <2>1. hub' = hub
        BY <1>1 DEF hubVars
    <2>2. Sequential(clips')
        <3>1. Sequential(clips) /\ Sequential(Append(clips, ev.id))
            BY AppendGrows DEF LiveShape
        <3> QED BY <1>7, <3>1
    <2>3. Sequential(jobs')
        <3>1. Sequential(jobs) /\ Sequential(Append(jobs, ev.id))
            BY AppendGrows DEF LiveShape
        <3> QED BY <1>8, <3>1
    <2> QED BY <1>2, <2>1, <2>2, <2>3 DEF LiveShape, Others, Cams
<1> QED BY <1>6, <1>9, <1>10 DEF Does

LEMMA Staying ==
    ASSUME LiveShape, MotionInv, NEW c \in Cams, cam[c].at \in Awake, NEW fields, Stays(c, fields),
           \/ Fits(c, fields) /\ (Active(c) => "stint" \notin DOMAIN fields)
           \/ DOMAIN fields = {"at"} /\ fields.at \in Awake \cup {"gone"}
    PROVE  Moved(c) /\ Does(c) /\ LiveShape'
<1>1. /\ Others(c) /\ DOMAIN cam'[c] = CamFields
      /\ \A k \in CamFields : cam'[c][k] = IF k \in DOMAIN fields THEN fields[k] ELSE cam[c][k]
    BY SetIs DEF Stays
<1>2. UNCHANGED <<mainVars, clipVars, jobVars, hubVars>>
    BY DEF Stays
<1>3. cam'[c].event = cam[c].event /\ cam'[c].at \in Awake \cup {"gone"}
    BY <1>1 DEF CamFields, Fits
<1>4. Same(c)
    BY <1>1 DEF CamFields, Fits, Same
<1>5. cam'[c].pre \in Seq({cam'[c].stint})
    BY <1>1 DEF CamFields, Fits, MotionInv
<1>6. cam[c].event # NoEvent => cam'[c].stint = cam[c].stint
    BY <1>1 DEF CamFields, Fits, Active
<1>7. Moved(c)
    BY <1>1, <1>3, <1>5, <1>6 DEF Moved, MotionInv, Active
<1>8. LiveShape'
    BY <1>1, <1>2 DEF LiveShape, Others, Cams, clipVars, jobVars, hubVars
<1> QED BY <1>2, <1>3, <1>4, <1>7, <1>8 DEF Does, Passes

\* The rows a queue holds, and what a put or a get changes of them.
Rows(q) == {q[i] : i \in 1 .. Len(q)}

LEMMA RowsAppend ==
    ASSUME NEW q, Sequential(q), NEW e
    PROVE  Sequential(Append(q, e)) /\ Rows(Append(q, e)) = Rows(q) \cup {e}
<1>1. /\ Sequential(Append(q, e)) /\ Len(q) \in Nat /\ Len(Append(q, e)) = Len(q) + 1
      /\ \A i \in 1 .. Len(q) : Append(q, e)[i] = q[i]
      /\ Append(q, e)[Len(q) + 1] = e
    BY AppendGrows
<1> DEFINE t == Append(q, e)
<1> HIDE DEF t
<1>2. \A i \in 1 .. Len(q) + 1 : i \in 1 .. Len(q) \/ i = Len(q) + 1
    BY <1>1
<1>3. Len(q) + 1 \in 1 .. Len(q) + 1 /\ \A i \in 1 .. Len(q) : i \in 1 .. Len(q) + 1
    BY <1>1
<1>4. Rows(t) \subseteq Rows(q) \cup {e}
    BY <1>1, <1>2 DEF Rows, t
<1>5. Rows(q) \cup {e} \subseteq Rows(t)
    BY <1>1, <1>3 DEF Rows, t
<1> QED BY <1>1, <1>4, <1>5 DEF t

LEMMA RowsTail ==
    ASSUME NEW q, Sequential(q), q # <<>>
    PROVE  Sequential(Tail(q)) /\ Rows(q) \subseteq Rows(Tail(q)) \cup {Head(q)} /\ Rows(Tail(q)) \subseteq Rows(q)
<1>1. /\ Sequential(Tail(q)) /\ Len(q) \in Nat \ {0} /\ Len(Tail(q)) = Len(q) - 1 /\ Head(q) = q[1]
      /\ \A i \in 1 .. Len(q) - 1 : Tail(q)[i] = q[i + 1]
    BY TailShifts
<1> DEFINE t == Tail(q)
           m == Len(q)
<1> HIDE DEF t, m
<1>2. \A i \in 1 .. m : i = 1 \/ (i - 1 \in 1 .. m - 1 /\ (i - 1) + 1 = i)
    BY <1>1 DEF m
<1>3. \A i \in 1 .. m - 1 : i + 1 \in 1 .. m
    BY <1>1 DEF m
<1>4. \A i \in 1 .. m : q[i] = q[1] \/ \E j \in 1 .. m - 1 : q[i] = t[j]
    BY <1>1, <1>2 DEF t, m
<1>5. Rows(q) = {q[i] : i \in 1 .. m} /\ Rows(t) = {t[i] : i \in 1 .. m - 1}
    BY <1>1 DEF Rows, t, m
<1>6. \A i \in 1 .. m - 1 : t[i] = q[i + 1]
    BY <1>1 DEF t, m
<1>7. Rows(t) \subseteq Rows(q)
    BY <1>3, <1>5, <1>6
<1>8. Rows(q) \subseteq Rows(t) \cup {q[1]}
    BY <1>4, <1>5
<1> QED BY <1>1, <1>7, <1>8 DEF t

LEMMA HeadIsRow == ASSUME NEW q, Sequential(q), q # <<>> PROVE Head(q) \in Rows(q)
<1>1. Len(q) \in Nat \ {0} /\ Head(q) = q[1]
    BY TailShifts
<1> QED BY <1>1 DEF Rows

LEMMA RowsNone == ASSUME NEW q, q = <<>> PROVE Sequential(q) /\ Rows(q) = {}
BY EmptySeq DEF Sequential, Rows

\* A status row displaces the oldest row, if any, and is never displaced itself.
LEMMA StatusPut ==
    ASSUME Sequential(hub), PutStatus
    PROVE  /\ Sequential(hub') /\ UNCHANGED <<hubAt, written>>
           /\ \A row : row # Status /\ row \in Rows(hub) => row \in Rows(hub') \cup displaced'
           /\ displaced \subseteq displaced'
<1>1. CASE Len(hub) < HubCap
    BY <1>1, RowsAppend DEF PutStatus
<1>2. CASE ~(Len(hub) < HubCap)
    <2>1. hub # <<>>
        <3>1. Len(<<>>) = 0
            BY EmptySeq
        <3> QED BY <1>2, <3>1, LiveAssumption
    <2>2. Sequential(Tail(hub)) /\ Rows(hub) \subseteq Rows(Tail(hub)) \cup {Head(hub)}
        BY <2>1, RowsTail
    <2>3. Sequential(Append(Tail(hub), Status)) /\ Rows(Append(Tail(hub), Status)) = Rows(Tail(hub)) \cup {Status}
        BY <2>2, RowsAppend
    <2>4. hub' = Append(Tail(hub), Status) /\ displaced' = displaced \cup ({Head(hub)} \ {Status}) /\ UNCHANGED <<hubAt, written>>
        BY <1>2 DEF PutStatus
    <2> QED BY <2>2, <2>3, <2>4
<1> QED BY <1>1, <1>2

LEMMA BufferedIs ==
    ASSUME MotionInv, NEW c \in Cams
    PROVE  /\ Buffered(c) \in Seq({cam[c].stint}) /\ ToSet(Buffered(c)) = {cam[c].stint}
<1> DEFINE s == Append(cam[c].pre, cam[c].stint)
<1>1. s \in Seq({cam[c].stint}) /\ Len(s) \in Nat \ {0}
    <2>1. cam[c].pre \in Seq({cam[c].stint}) /\ cam[c].stint \in {cam[c].stint}
        BY DEF MotionInv
    <2> QED BY <2>1, AppendProperties, LenProperties
<1>2. PreLen \in Nat \ {0}
    BY LiveAssumption
<1> HIDE DEF s
<1>3. LastOf(s, PreLen) \in Seq({cam[c].stint}) /\ Len(LastOf(s, PreLen)) >= 1
    <2>1. CASE Len(s) <= PreLen
        BY <1>1, <2>1 DEF LastOf
    <2>2. CASE Len(s) > PreLen
        <3> DEFINE from == Len(s) - PreLen + 1
        <3>1. from \in 1 .. Len(s) + 1 /\ Len(s) \in from - 1 .. Len(s) /\ Len(s) - from + 1 = PreLen
            BY <1>1, <1>2, <2>2
        <3>2. LastOf(s, PreLen) = SubSeq(s, from, Len(s))
            BY <1>1, <1>2, <2>2 DEF LastOf
        <3> HIDE DEF from
        <3>3. SubSeq(s, from, Len(s)) \in Seq({cam[c].stint}) /\ Len(SubSeq(s, from, Len(s))) = PreLen
            BY <1>1, <1>2, <3>1, SubSeqProperties
        <3> QED BY <1>2, <3>2, <3>3
    <2> QED BY <1>1, <1>2, <2>1, <2>2
<1>4. Buffered(c) = LastOf(s, PreLen)
    BY DEF Buffered, s
<1> DEFINE t == Buffered(c)
<1>5. t \in Seq({cam[c].stint}) /\ Len(t) >= 1
    BY <1>3, <1>4
<1> HIDE DEF t
<1>6. DOMAIN t = 1 .. Len(t) /\ Len(t) \in Nat /\ \A i \in 1 .. Len(t) : t[i] = cam[c].stint
    BY <1>5, ElementOfSeq, LenProperties
<1>7. 1 \in DOMAIN t
    BY <1>5, <1>6
<1>8. ToSet(t) = {cam[c].stint}
    BY <1>6, <1>7 DEF ToSet
<1> QED BY <1>5, <1>8 DEF t

LEMMA FieldsFit ==
    ASSUME MotionInv, NEW c \in Cams
    PROVE  /\ Fits(c, <<>>) /\ Fits(c, IdleReset(c)) /\ Fits(c, [frame |-> cam[c].frame + 1])
           /\ Fits(c, [frame |-> cam[c].frame + 1, pre |-> Buffered(c)])
           /\ \A k : Fits(c, [frame |-> cam[c].frame + 1, pre |-> Buffered(c), count |-> k])
<1>1. cam[c].pre \in Seq({cam[c].stint}) /\ Buffered(c) \in Seq({cam[c].stint})
    BY BufferedIs DEF MotionInv
<1>2. Fits(c, <<>>)
    <2>1. DOMAIN <<>> = {}
        OBVIOUS
    <2> QED BY <1>1, <2>1 DEF Fits
<1>3. Fits(c, IdleReset(c))
    <2>1. <<>> \in Seq({cam[c].stint + 1})
        BY EmptySeq
    <2> QED BY <2>1 DEF Fits, IdleReset
<1> QED BY <1>1, <1>2, <1>3 DEF Fits

LEMMA StartedIs ==
    ASSUME MotionInv, NEW c \in Cams
    PROVE  /\ Own(c, cam[c].stint, Started(c))
           /\ \A ev, positive : Own(c, cam[c].stint, ev) => Own(c, cam[c].stint, Appended(c, ev, positive))
<1>1. Own(c, cam[c].stint, Started(c))
    <2>1. CASE Active(c)
        BY <2>1 DEF MotionInv, Started
    <2>2. CASE ~Active(c)
        <3> DEFINE name == <<c, cam[c].count + 1>>
        <3>1. DOMAIN name = 1 .. 2 /\ name[1] = c
            OBVIOUS
        <3>2. ToSet(Buffered(c)) = {cam[c].stint}
            BY BufferedIs
        <3> HIDE DEF name
        <3>3. Started(c) = [id |-> name, stints |-> ToSet(Buffered(c)), n |-> Len(Buffered(c)), hits |-> 1, last |-> cam[c].frame + 1]
            BY <2>2 DEF Started, name
        <3> QED BY <3>1, <3>2, <3>3 DEF Own
    <2> QED BY <2>1, <2>2
<1>2. ASSUME NEW ev, NEW positive, Own(c, cam[c].stint, ev) PROVE Own(c, cam[c].stint, Appended(c, ev, positive))
    BY <1>2 DEF Own, Appended
<1> QED BY <1>1, <1>2

LEMMA Growing ==
    ASSUME LiveShape, MotionInv, NEW c \in Cams, cam[c].at = "run", NEW ev, Own(c, cam[c].stint, ev),
           NEW fields, Fits(c, fields), "stint" \notin DOMAIN fields, Grows(c, ev, fields)
    PROVE  Moved(c) /\ Does(c) /\ LiveShape'
<1>1. CASE ev.n >= MaxEventFrames
    BY <1>1, Closing DEF Grows
<1>2. CASE ~(ev.n >= MaxEventFrames)
    <2>1. Alter(c, [event |-> ev], fields) /\ UNCHANGED <<mainVars, clipVars, jobVars, hubVars, late>>
        BY <1>2 DEF Grows
    <2>2. /\ Others(c) /\ DOMAIN cam'[c] = CamFields
          /\ \A k \in CamFields : cam'[c][k] = IF k \in DOMAIN [event |-> ev] THEN [event |-> ev][k]
                                              ELSE IF k \in DOMAIN fields THEN fields[k] ELSE cam[c][k]
        BY <2>1, AlterIs
    <2>3. cam'[c].event = ev /\ cam'[c].stint = cam[c].stint /\ cam'[c].at = "run" /\ Same(c)
        BY <2>2 DEF CamFields, Fits, Same
    <2>4. cam'[c].pre \in Seq({cam'[c].stint})
        BY <2>2, <2>3 DEF CamFields, Fits
    <2>5. Moved(c)
        BY <2>2, <2>3, <2>4 DEF Moved
    <2>6. LiveShape'
        BY <2>1, <2>2 DEF LiveShape, Others, Cams, clipVars, jobVars, hubVars
    <2> QED BY <2>1, <2>3, <2>5, <2>6 DEF Does, Passes, Awake
<1> QED BY <1>1, <1>2

LEMMA Telling ==
    ASSUME LiveShape, MotionInv, NEW c \in Cams, Reports(c) \/ Statuses(c)
    PROVE  Moved(c) /\ Does(c) /\ LiveShape'
<1>1. CASE Reports(c)
    <2>1. Camera(c, "row") /\ PutRow(EventRow(cam[c].row)) /\ Set(c, [at |-> "status"])
          /\ UNCHANGED <<mainVars, clipVars, jobVars, late>>
        BY <1>1 DEF Reports
    <2>2. /\ Others(c) /\ DOMAIN cam'[c] = CamFields
          /\ \A k \in CamFields : cam'[c][k] = IF k \in DOMAIN [at |-> "status"] THEN [at |-> "status"][k] ELSE cam[c][k]
        BY <2>1, SetIs
    <2>3. /\ cam'[c].pre = cam[c].pre /\ cam'[c].stint = cam[c].stint /\ cam'[c].event = cam[c].event /\ Same(c)
        BY <2>2 DEF CamFields, Same
    <2>4. Moved(c)
        BY <2>2, <2>3 DEF Moved, MotionInv, Active
    <2>5. Sequential(hub')
        BY <2>1, AppendGrows DEF LiveShape, PutRow
    <2>6. LiveShape'
        BY <2>1, <2>2, <2>5 DEF LiveShape, Others, Cams, clipVars, jobVars
    <2> QED BY <2>1, <2>3, <2>4, <2>6 DEF Does, Told, Camera
<1>2. CASE Statuses(c)
    <2>1. Camera(c, "status") /\ PutStatus /\ Set(c, [at |-> cam[c].then])
          /\ UNCHANGED <<mainVars, clipVars, jobVars, late>>
        BY <1>2 DEF Statuses
    <2>2. /\ Others(c) /\ DOMAIN cam'[c] = CamFields
          /\ \A k \in CamFields : cam'[c][k] = IF k \in DOMAIN [at |-> cam[c].then] THEN [at |-> cam[c].then][k] ELSE cam[c][k]
        BY <2>1, SetIs
    <2>3. /\ cam'[c].pre = cam[c].pre /\ cam'[c].stint = cam[c].stint /\ cam'[c].event = cam[c].event /\ Same(c)
        BY <2>2 DEF CamFields, Same
    <2>4. Moved(c)
        BY <2>2, <2>3 DEF Moved, MotionInv, Active
    <2>5. Sequential(hub')
        BY <2>1, StatusPut DEF LiveShape
    <2>6. LiveShape'
        BY <2>1, <2>2, <2>5 DEF LiveShape, Others, Cams, clipVars, jobVars
    <2> QED BY <2>1, <2>3, <2>4, <2>6 DEF Does, Marks, Camera
<1> QED BY <1>1, <1>2

LEMMA CameraMoves ==
    ASSUME LiveShape, MotionInv, NEW c \in Cams, CameraStep(c) \/ CameraEnds(c) \/ ReadBlocks(c) \/ ReadReturns(c)
    PROVE  Moved(c) /\ Does(c) /\ LiveShape'
<1> USE DEF Camera, Awake
<1>1. CASE Opens(c)
    <2>1. PICK place \in {"run", "gone"} : Set(c, [at |-> place])
        BY <1>1 DEF Opens
    <2>2. Stays(c, [at |-> place])
        BY <1>1, <2>1 DEF Opens, Stays
    <2> QED BY <1>1, <2>2, Staying DEF Opens
<1>2. CASE Still(c)
    <2>1. cam[c].at = "run" /\ Fits(c, IdleReset(c))
        BY <1>2, FieldsFit DEF Still, Reads
    <2>2. CASE Active(c)
        BY <1>2, <2>1, <2>2, Closing DEF Still, MotionInv
    <2>3. CASE ~Active(c)
        BY <1>2, <2>1, <2>3, Staying DEF Still
    <2> QED BY <2>2, <2>3
<1>3. CASE PosePositive(c)
    <2> DEFINE fields == [frame |-> cam[c].frame + 1, pre |-> Buffered(c), count |-> cam[c].count + IF Active(c) THEN 0 ELSE 1]
               ev == Appended(c, Started(c), TRUE)
    <2>1. cam[c].at = "run" /\ Grows(c, ev, fields)
        BY <1>3 DEF PosePositive, Reads
    <2>2. Fits(c, fields) /\ "stint" \notin DOMAIN fields
        BY FieldsFit
    <2>3. Own(c, cam[c].stint, ev)
        BY StartedIs
    <2> HIDE DEF fields, ev
    <2> QED BY <2>1, <2>2, <2>3, Growing
<1>4. CASE PoseNegative(c)
    <2> DEFINE fields == [frame |-> cam[c].frame + 1, pre |-> Buffered(c)]
    <2>1. /\ cam[c].at = "run"
          /\ IF ~Active(c) THEN Stays(c, fields)
             ELSE IF Lapsed(c) THEN CloseEvent(c, cam[c].event, "pose_timeout", "run", fields)
             ELSE Grows(c, Appended(c, cam[c].event, FALSE), fields)
        BY <1>4 DEF PoseNegative, Reads
    <2>2. Fits(c, fields) /\ "stint" \notin DOMAIN fields
        BY FieldsFit
    <2> HIDE DEF fields
    <2>3. CASE ~Active(c)
        BY <2>1, <2>2, <2>3, Staying
    <2>4. CASE Active(c)
        <3>1. Own(c, cam[c].stint, cam[c].event) /\ Own(c, cam[c].stint, Appended(c, cam[c].event, FALSE))
            BY <2>4, StartedIs DEF MotionInv
        <3>2. CASE Lapsed(c)
            BY <2>1, <2>2, <2>4, <3>1, <3>2, Closing
        <3>3. CASE ~Lapsed(c)
            BY <2>1, <2>2, <2>4, <3>1, <3>3, Growing
        <3> QED BY <3>2, <3>3
    <2> QED BY <2>3, <2>4
<1>5. ASSUME NEW reason, NoRegion(c, reason) PROVE Moved(c) /\ Does(c) /\ LiveShape'
    <2> DEFINE fields == [frame |-> cam[c].frame + 1]
    <2>1. /\ cam[c].at = "run"
          /\ IF Active(c) /\ Lapsed(c) THEN CloseEvent(c, cam[c].event, reason, "run", fields) ELSE Stays(c, fields)
        BY <1>5 DEF NoRegion, Reads
    <2>2. Fits(c, fields) /\ "stint" \notin DOMAIN fields
        BY FieldsFit
    <2> HIDE DEF fields
    <2>3. CASE Active(c) /\ Lapsed(c)
        BY <2>1, <2>2, <2>3, Closing DEF MotionInv
    <2>4. CASE ~(Active(c) /\ Lapsed(c))
        BY <2>1, <2>2, <2>4, Staying
    <2> QED BY <2>3, <2>4
<1>6. CASE FileEof(c)
    <2>1. CASE Active(c)
        BY <1>6, <2>1, FieldsFit, Closing DEF FileEof, MotionInv
    <2>2. CASE ~Active(c)
        BY <1>6, <2>2, Staying DEF FileEof
    <2> QED BY <2>1, <2>2
<1>7. CASE Shutdown(c)
    <2>1. CASE Active(c)
        BY <1>7, <2>1, FieldsFit, Closing DEF Shutdown, MotionInv
    <2>2. CASE ~Active(c)
        BY <1>7, <2>2, Staying DEF Shutdown
    <2> QED BY <2>1, <2>2
<1>8. CASE ReadFails(c)
    BY <1>8, Staying DEF ReadFails
<1>9. CASE Reopens(c)
    BY <1>9, Staying DEF Reopens
<1>10. CASE ReadBlocks(c)
    BY <1>10, Staying DEF ReadBlocks
<1>11. CASE ReadReturns(c)
    BY <1>11, Staying DEF ReadReturns
<1>12. CASE Reports(c) \/ Statuses(c)
    BY <1>12, Telling
<1> QED BY <1>1, <1>2, <1>3, <1>4, <1>5, <1>6, <1>7, <1>8, <1>9, <1>10, <1>11, <1>12 DEF CameraStep, CameraEnds

\* What the other threads do: the cameras stay, but for the marks of main.
LEMMA ThreadsKeep ==
    ASSUME LiveWorkers \/ HubWrites \/ HubLeaves \/ StopAsked \/ JoinClips \/ JoinJobs \/ CloseAll \/ CloseHub
    PROVE  cam' = cam
BY DEF LiveWorkers, ClipTakes, ClipSaves, ClipLeaves, Stage3Takes, Stage3Infers, Stage3Reports, Stage3Statuses, Stage3Leaves,
       HubWrites, HubLeaves, StopAsked, JoinClips, JoinJobs, CloseAll, CloseHub, Moves

LEMMA JoinCamerasIs ==
    ASSUME LiveShape, JoinCameras
    PROVE  /\ DOMAIN cam' = Cams
           /\ \A c \in Cams : DOMAIN cam'[c] = CamFields /\ cam'[c].joined = (cam[c].at = "gone")
           /\ \A c \in Cams : \A k \in CamFields \ {"joined"} : cam'[c][k] = cam[c][k]
BY DEF LiveShape, JoinCameras, Cams, CamFields

LEMMA ShapeStep == LiveShape /\ MotionInv /\ [LiveNext]_liveVars => LiveShape' /\ MotionInv'
<1> SUFFICES ASSUME LiveShape, MotionInv, [LiveNext]_liveVars PROVE LiveShape' /\ MotionInv'
    OBVIOUS
<1>1. ASSUME NEW c \in Cams, CameraStep(c) \/ CameraEnds(c) \/ ReadBlocks(c) \/ ReadReturns(c)
      PROVE LiveShape' /\ MotionInv'
    <2>1. Moved(c) /\ Does(c) /\ LiveShape'
        BY <1>1, CameraMoves
    <2>2. /\ DOMAIN cam' = Cams /\ \A d \in Cams \ {c} : cam'[d] = cam[d]
          /\ cam'[c].pre \in Seq({cam'[c].stint})
          /\ cam'[c].event # NoEvent => Own(c, cam'[c].stint, cam'[c].event)
        BY <2>1 DEF Moved, Others
    <2>3. \A stints \in cam'[c].clips : \E x : stints = {x}
        <3>1. CASE Passes(c) \/ Told(c) \/ Marks(c)
            BY <3>1 DEF Passes, Told, Marks, Same, MotionInv
        <3>2. ASSUME NEW ev, Own(c, cam[c].stint, ev), Closes(c, ev) PROVE \A stints \in cam'[c].clips : \E x : stints = {x}
            <4>1. cam'[c].clips = cam[c].clips \cup {ev.stints} /\ ev.stints = {cam[c].stint}
                BY <3>2 DEF Own, Closes
            <4>2. \A stints \in cam[c].clips : \E x : stints = {x}
                BY DEF MotionInv
            <4> QED BY <4>1, <4>2
        <3> QED BY <2>1, <3>1, <3>2 DEF Does
    <2>4. \A id \in cam'[c].closed \cup cam'[c].queued : DOMAIN id = 1 .. 2 /\ id[1] = c
        <3>1. CASE Passes(c) \/ Told(c) \/ Marks(c)
            BY <3>1 DEF Passes, Told, Marks, Same, MotionInv
        <3>2. ASSUME NEW ev, Own(c, cam[c].stint, ev), Closes(c, ev)
              PROVE \A id \in cam'[c].closed \cup cam'[c].queued : DOMAIN id = 1 .. 2 /\ id[1] = c
            <4>1. /\ cam'[c].closed \cup cam'[c].queued \subseteq cam[c].closed \cup cam[c].queued \cup {ev.id}
                  /\ DOMAIN ev.id = 1 .. 2 /\ ev.id[1] = c
                BY <3>2 DEF Own, Closes
            <4>2. \A id \in cam[c].closed \cup cam[c].queued : DOMAIN id = 1 .. 2 /\ id[1] = c
                BY DEF MotionInv
            <4> QED BY <4>1, <4>2
        <3> QED BY <2>1, <3>1, <3>2 DEF Does
    <2>5. \A d \in Cams :
            /\ cam'[d].pre \in Seq({cam'[d].stint})
            /\ cam'[d].event # NoEvent => Own(d, cam'[d].stint, cam'[d].event)
            /\ \A stints \in cam'[d].clips : \E x : stints = {x}
            /\ \A id \in cam'[d].closed \cup cam'[d].queued : DOMAIN id = 1 .. 2 /\ id[1] = d
        <3> SUFFICES ASSUME NEW d \in Cams
                     PROVE  /\ cam'[d].pre \in Seq({cam'[d].stint})
                            /\ cam'[d].event # NoEvent => Own(d, cam'[d].stint, cam'[d].event)
                            /\ \A stints \in cam'[d].clips : \E x : stints = {x}
                            /\ \A id \in cam'[d].closed \cup cam'[d].queued : DOMAIN id = 1 .. 2 /\ id[1] = d
            OBVIOUS
        <3>1. CASE d = c
            BY <2>2, <2>3, <2>4, <3>1
        <3>2. CASE d # c
            BY <2>2, <3>2 DEF MotionInv, Active
        <3> QED BY <3>1, <3>2
    <2>6. MotionInv'
        BY <2>2, <2>5 DEF MotionInv, Active, Cams
    <2> QED BY <2>1, <2>6
<1>2. CASE LiveWorkers \/ HubWrites \/ HubLeaves \/ StopAsked \/ JoinClips \/ JoinJobs \/ CloseAll \/ CloseHub
    <2>1. cam' = cam
        BY <1>2, ThreadsKeep
    <2>2. MotionInv'
        BY <2>1 DEF MotionInv, Active, Cams
    <2>3. LiveShape'
        <3>1. Sequential(clips')
            <4>1. clips' = clips \/ (clips # <<>> /\ clips' = Tail(clips))
                BY <1>2 DEF LiveWorkers, ClipTakes, ClipSaves, ClipLeaves, Stage3Takes, Stage3Infers, Stage3Reports, Stage3Statuses,
                            Stage3Leaves, HubWrites, HubLeaves, StopAsked, JoinClips, JoinJobs, CloseAll, CloseHub, Moves, clipVars
            <4> QED BY <4>1, RowsTail DEF LiveShape
        <3>2. Sequential(jobs')
            <4>1. jobs' = jobs \/ (jobs # <<>> /\ jobs' = Tail(jobs))
                BY <1>2 DEF LiveWorkers, ClipTakes, ClipSaves, ClipLeaves, Stage3Takes, Stage3Infers, Stage3Reports, Stage3Statuses,
                            Stage3Leaves, HubWrites, HubLeaves, StopAsked, JoinClips, JoinJobs, CloseAll, CloseHub, Moves, jobVars
            <4> QED BY <4>1, RowsTail DEF LiveShape
        <3>3. Sequential(hub')
            <4>1. \/ hub' = hub
                  \/ (hub # <<>> /\ hub' = Tail(hub))
                  \/ \E row : hub' = Append(hub, row)
                  \/ PutStatus
                BY <1>2 DEF LiveWorkers, ClipTakes, ClipSaves, ClipLeaves, Stage3Takes, Stage3Infers, Stage3Reports, Stage3Statuses,
                            Stage3Leaves, HubWrites, HubLeaves, StopAsked, JoinClips, JoinJobs, CloseAll, CloseHub, Moves, hubVars, PutRow
            <4>2. ASSUME NEW row, hub' = Append(hub, row) PROVE Sequential(hub')
                BY <4>2, RowsAppend DEF LiveShape
            <4> QED BY <4>1, <4>2, RowsTail, StatusPut DEF LiveShape
        <3> QED BY <2>1, <3>1, <3>2, <3>3 DEF LiveShape, Cams
    <2> QED BY <2>2, <2>3
<1>3. CASE JoinCameras
    <2>1. /\ DOMAIN cam' = Cams
          /\ \A c \in Cams : DOMAIN cam'[c] = CamFields
          /\ \A c \in Cams : \A k \in CamFields \ {"joined"} : cam'[c][k] = cam[c][k]
        BY <1>3, JoinCamerasIs
    <2>2. \A c \in Cams : /\ cam'[c].pre = cam[c].pre /\ cam'[c].stint = cam[c].stint /\ cam'[c].event = cam[c].event
                          /\ cam'[c].clips = cam[c].clips /\ cam'[c].closed = cam[c].closed /\ cam'[c].queued = cam[c].queued
        BY <2>1 DEF CamFields
    <2>3. MotionInv'
        <3>1. \A c \in Cams : /\ cam[c].pre \in Seq({cam[c].stint})
                              /\ cam[c].event # NoEvent => Own(c, cam[c].stint, cam[c].event)
                              /\ \A stints \in cam[c].clips : \E x : stints = {x}
                              /\ \A id \in cam[c].closed \cup cam[c].queued : DOMAIN id = 1 .. 2 /\ id[1] = c
            BY DEF MotionInv, Active
        <3>2. \A c \in Cams : /\ cam'[c].pre \in Seq({cam'[c].stint})
                              /\ cam'[c].event # NoEvent => Own(c, cam'[c].stint, cam'[c].event)
                              /\ \A stints \in cam'[c].clips : \E x : stints = {x}
                              /\ \A id \in cam'[c].closed \cup cam'[c].queued : DOMAIN id = 1 .. 2 /\ id[1] = c
            <4> SUFFICES ASSUME NEW c \in Cams
                         PROVE  /\ cam'[c].pre \in Seq({cam'[c].stint})
                                /\ cam'[c].event # NoEvent => Own(c, cam'[c].stint, cam'[c].event)
                                /\ \A stints \in cam'[c].clips : \E x : stints = {x}
                                /\ \A id \in cam'[c].closed \cup cam'[c].queued : DOMAIN id = 1 .. 2 /\ id[1] = c
                OBVIOUS
            <4>1. /\ cam'[c].pre = cam[c].pre /\ cam'[c].stint = cam[c].stint /\ cam'[c].event = cam[c].event
                  /\ cam'[c].clips = cam[c].clips /\ cam'[c].closed = cam[c].closed /\ cam'[c].queued = cam[c].queued
                BY <2>2
            <4> QED BY <3>1, <4>1
        <3> QED BY <2>1, <3>2 DEF MotionInv, Active, Cams
    <2>4. LiveShape'
        BY <1>3, <2>1 DEF LiveShape, Cams, JoinCameras, clipVars, jobVars, hubVars
    <2> QED BY <2>3, <2>4
<1>4. CASE UNCHANGED liveVars
    BY <1>4 DEF liveVars, LiveShape, MotionInv, Active, Cams, clipVars, jobVars, hubVars
<1> QED BY <1>1, <1>2, <1>3, <1>4 DEF LiveNext, Main

\* How far main has come, what it has marked and what the report thread was told.
StageInv ==
    /\ main \in {"run", "cameras", "clips", "jobs", "close", "hub", "done"}
    /\ \A c \in Cams : cam[c].joined => cam[c].at = "gone" /\ main \notin {"run", "cameras"}
    /\ hubAt # "run" => main \in {"hub", "done"}
    /\ main = "done" => hubAt = "left" \/ live.slow

\* A clip on its way: every event that was closed is on disk or logged as failed, in the clip queue or with its
\* writer, and main goes on only when those of the cameras it has marked are dealt with.
ClipInv ==
    \A c \in Cams :
        /\ cam[c].closed \subseteq saved \cup unsaved \cup Rows(clips) \cup {clipWriter}
        /\ cam[c].joined /\ main \in {"jobs", "close", "hub", "done"} => cam[c].closed \subseteq saved \cup unsaved

\* The same for what Stage3 was asked: what comes later is of other cameras, so that the
\* incidents are closed after the last answer about one that main has marked.
Judging == IF stage3[1] = "infer" THEN {stage3[2]} ELSE {}
JobInv ==
    \A c \in Cams :
        /\ cam[c].queued \subseteq judged \cup Rows(jobs) \cup Judging
        /\ cam[c].joined /\ main \in {"close", "hub", "done"} =>
             cam[c].queued \subseteq judged /\ cam[c].queued \cap (Rows(jobs) \cup Judging) = {}
        /\ cam[c].joined /\ main \in {"hub", "done"} => cam[c].queued \cap submitted \subseteq closedWith

\* The row of a closed event is written, displaced or in the report queue, or its camera waits
\* for room in it; the report thread leaves an empty queue behind.
RowInv ==
    \A c \in Cams : \A id \in cam[c].closed :
        /\ \/ EventRow(id) \in written \cup displaced \cup Rows(hub)
           \/ cam[c].at = "row" /\ cam[c].row = id
        /\ hubAt = "left" /\ cam[c].joined => EventRow(id) \in written \cup displaced

LiveInv == LiveShape /\ MotionInv /\ StageInv /\ ClipInv /\ JobInv /\ RowInv

LEMMA StageStep == LiveShape /\ MotionInv /\ StageInv /\ [LiveNext]_liveVars => StageInv'
<1> SUFFICES ASSUME LiveShape, MotionInv, StageInv, [LiveNext]_liveVars PROVE StageInv'
    OBVIOUS
<1>1. ASSUME NEW c \in Cams, CameraStep(c) \/ CameraEnds(c) \/ ReadBlocks(c) \/ ReadReturns(c) PROVE StageInv'
    <2>1. Others(c) /\ Does(c)
        BY <1>1, CameraMoves DEF Moved
    <2>2. main' = main /\ hubAt' = hubAt /\ live' = live
        BY <2>1 DEF Does, Passes, Told, Marks, Closes, mainVars, hubVars, PutRow, PutStatus
    <2>3. cam[c].at # "gone" /\ cam'[c].joined = cam[c].joined
        BY <2>1 DEF Does, Passes, Told, Marks, Closes, Same, Awake
    <2> QED BY <2>1, <2>2, <2>3 DEF StageInv, Others, Cams
<1>2. CASE LiveWorkers \/ HubWrites \/ HubLeaves \/ StopAsked \/ JoinClips \/ JoinJobs \/ CloseAll \/ CloseHub
    <2>1. cam' = cam
        BY <1>2, ThreadsKeep
    <2>2. CASE LiveWorkers \/ HubWrites
        BY <2>1, <2>2 DEF StageInv, Cams, LiveWorkers, ClipTakes, ClipSaves, ClipLeaves, Stage3Takes, Stage3Infers, Stage3Reports,
                          Stage3Statuses, Stage3Leaves, HubWrites, mainVars, hubVars, PutRow, PutStatus
    <2>3. CASE HubLeaves \/ StopAsked \/ JoinClips \/ JoinJobs \/ CloseAll \/ CloseHub
        BY <2>1, <2>3 DEF StageInv, Cams, HubLeaves, StopAsked, JoinClips, JoinJobs, CloseAll, CloseHub, Moves, mainVars, hubVars
    <2> QED BY <1>2, <2>2, <2>3
<1>3. CASE JoinCameras
    <2>1. /\ DOMAIN cam' = Cams /\ \A c \in Cams : cam'[c].joined = (cam[c].at = "gone") /\ cam'[c].at = cam[c].at
        BY <1>3, JoinCamerasIs DEF CamFields
    <2>2. main = "cameras" /\ main' = "clips" /\ hubAt' = hubAt /\ live' = live
        BY <1>3 DEF JoinCameras, hubVars
    <2> QED BY <2>1, <2>2 DEF StageInv, Cams
<1>4. CASE UNCHANGED liveVars
    BY <1>4 DEF liveVars, StageInv, mainVars, Cams, hubVars
<1> QED BY <1>1, <1>2, <1>3, <1>4 DEF LiveNext, Main

\* An event is not one of the two places where a worker has nothing.
LEMMA NamesDiffer ==
    ASSUME MotionInv, NEW c \in Cams, NEW id \in cam[c].closed \cup cam[c].queued
    PROVE  id # Unoccupied /\ id # Left
<1>1. 2 \in DOMAIN id
    <2>1. \A name \in cam[c].closed \cup cam[c].queued : DOMAIN name = 1 .. 2
        BY DEF MotionInv
    <2>2. DOMAIN id = 1 .. 2
        BY <2>1
    <2> QED BY <2>2
<1>2. 2 \notin DOMAIN Unoccupied /\ 2 \notin DOMAIN Left
    BY DEF Unoccupied, Left
<1> QED BY <1>1, <1>2

LEMMA ClipStep == LiveShape /\ MotionInv /\ StageInv /\ ClipInv /\ [LiveNext]_liveVars => ClipInv'
<1> SUFFICES ASSUME LiveShape, MotionInv, StageInv, ClipInv, [LiveNext]_liveVars PROVE ClipInv'
    OBVIOUS
<1>1. ASSUME NEW c \in Cams, CameraStep(c) \/ CameraEnds(c) \/ ReadBlocks(c) \/ ReadReturns(c) PROVE ClipInv'
    <2>1. Others(c) /\ Does(c)
        BY <1>1, CameraMoves DEF Moved
    <2>2. main' = main /\ cam'[c].joined = cam[c].joined /\ ~cam[c].joined
        BY <2>1 DEF Does, Passes, Told, Marks, Closes, mainVars, Same, Awake, StageInv
    <2>3. CASE Passes(c) \/ Told(c) \/ Marks(c)
        <3>1. UNCHANGED <<saved, unsaved, clips, clipWriter>> /\ cam'[c].closed = cam[c].closed
            BY <2>3 DEF Passes, Told, Marks, Same, clipVars
        <3> QED BY <2>1, <2>2, <3>1 DEF ClipInv, Others, Cams
    <2>4. ASSUME NEW ev, Closes(c, ev) PROVE ClipInv'
        <3>1. cam'[c].closed = cam[c].closed \cup {ev.id} /\ clipWriter' = clipWriter
            BY <2>4 DEF Closes
        <3>2. /\ saved \cup unsaved \subseteq saved' \cup unsaved'
              /\ saved \cup unsaved \cup Rows(clips) \cup {ev.id} \subseteq saved' \cup unsaved' \cup Rows(clips')
            <4>1. CASE clips' = Append(clips, ev.id) /\ UNCHANGED <<saved, unsaved>>
                BY <4>1, RowsAppend DEF LiveShape
            <4>2. CASE clips' = clips /\ Saves(ev.id)
                BY <4>2 DEF Saves
            <4> QED BY <2>4, <4>1, <4>2 DEF Closes
        <3> QED BY <2>1, <2>2, <3>1, <3>2 DEF ClipInv, Others, Cams
    <2> QED BY <2>1, <2>3, <2>4 DEF Does
<1>2. CASE LiveWorkers \/ HubWrites \/ HubLeaves \/ StopAsked \/ JoinClips \/ JoinJobs \/ CloseAll \/ CloseHub
    <2>1. cam' = cam
        BY <1>2, ThreadsKeep
    <2>2. CASE ClipTakes
        <3>1. clipWriter = Unoccupied /\ clips # <<>> /\ clipWriter' = Head(clips) /\ clips' = Tail(clips) /\ UNCHANGED <<main, saved, unsaved>>
            BY <2>2 DEF ClipTakes, mainVars
        <3>2. Rows(clips) \subseteq Rows(clips') \cup {clipWriter'}
            BY <3>1, RowsTail DEF LiveShape
        <3> QED BY <2>1, <3>1, <3>2, NamesDiffer DEF ClipInv, Cams
    <2>3. CASE ClipSaves
        BY <2>1, <2>3 DEF ClipSaves, Saves, mainVars, ClipInv, Cams
    <2>4. CASE ClipLeaves
        <3>1. clipWriter = Unoccupied /\ UNCHANGED <<main, saved, unsaved, clips>>
            BY <2>4 DEF ClipLeaves, mainVars
        <3> QED BY <2>1, <3>1, NamesDiffer DEF ClipInv, Cams
    <2>5. CASE JoinClips
        <3>1. clips = <<>> /\ clipWriter \in {Unoccupied, Left} /\ UNCHANGED <<saved, unsaved, clips, clipWriter>>
            BY <2>5 DEF JoinClips, Moves, clipVars
        <3>2. \A c \in Cams : cam[c].closed \subseteq saved \cup unsaved
            BY <3>1, RowsNone, NamesDiffer DEF ClipInv
        <3> QED BY <2>1, <3>1, <3>2 DEF ClipInv, Cams
    <2>6. CASE JoinJobs \/ CloseAll \/ CloseHub \/ StopAsked
        BY <2>1, <2>6 DEF JoinJobs, CloseAll, CloseHub, StopAsked, Moves, clipVars, ClipInv, Cams
    <2>7. CASE Stage3Takes \/ Stage3Infers \/ Stage3Reports \/ Stage3Statuses \/ Stage3Leaves \/ HubWrites \/ HubLeaves
        <3>1. UNCHANGED <<main, saved, unsaved, clips, clipWriter>>
            BY <2>7 DEF Stage3Takes, Stage3Infers, Stage3Reports, Stage3Statuses, Stage3Leaves, HubWrites, HubLeaves, mainVars, clipVars
        <3> QED BY <2>1, <3>1 DEF ClipInv, Cams
    <2> QED BY <1>2, <2>2, <2>3, <2>4, <2>5, <2>6, <2>7 DEF LiveWorkers
<1>3. CASE JoinCameras
    <2>1. /\ DOMAIN cam' = Cams /\ \A c \in Cams : cam'[c].closed = cam[c].closed
        BY <1>3, JoinCamerasIs DEF CamFields
    <2>2. main' = "clips" /\ UNCHANGED <<saved, unsaved, clips, clipWriter>>
        BY <1>3 DEF JoinCameras, clipVars
    <2> QED BY <2>1, <2>2 DEF ClipInv, Cams
<1>4. CASE UNCHANGED liveVars
    BY <1>4 DEF liveVars, ClipInv, mainVars, Cams, clipVars
<1> QED BY <1>1, <1>2, <1>3, <1>4 DEF LiveNext, Main

LEMMA LiveStart == LiveInit => LiveInv
<1> SUFFICES ASSUME LiveInit PROVE LiveInv
    OBVIOUS
<1>1. /\ main = "run" /\ hubAt = "run" /\ clips = <<>> /\ jobs = <<>> /\ hub = <<>>
      /\ \A c \in Cams : /\ DOMAIN cam[c] = CamFields /\ cam[c].at = "open" /\ cam[c].pre = <<>> /\ cam[c].event = NoEvent
                         /\ cam[c].closed = {} /\ cam[c].queued = {} /\ cam[c].clips = {} /\ cam[c].joined = FALSE
    BY DEF LiveInit, Cams, CamFields
<1>2. LiveShape
    BY <1>1, RowsNone DEF LiveShape
<1>3. MotionInv
    BY <1>1, EmptySeq DEF MotionInv, Active
<1>4. StageInv
    BY <1>1 DEF StageInv
<1>5. ClipInv /\ JobInv /\ RowInv
    BY <1>1 DEF ClipInv, JobInv, RowInv
<1> QED BY <1>2, <1>3, <1>4, <1>5 DEF LiveInv

LEMMA LiveHolds == LiveInv => LiveDelivered /\ ClipOfOneMotion
<1> SUFFICES ASSUME LiveInv PROVE LiveDelivered /\ ClipOfOneMotion
    OBVIOUS
<1>1. ClipOfOneMotion
    <2> SUFFICES ASSUME NEW c \in Cams, NEW stints \in cam[c].clips PROVE Cardinality(stints) = 1
        BY DEF ClipOfOneMotion
    <2>1. PICK x : stints = {x}
        BY DEF LiveInv, MotionInv
    <2> QED BY <2>1, FS_Singleton
<1>2. ASSUME main = "done", NEW c \in Cams, cam[c].joined
      PROVE  /\ cam[c].closed \subseteq saved \cup unsaved
             /\ cam[c].queued \subseteq judged
             /\ cam[c].queued \cap submitted \subseteq closedWith
             /\ {EventRow(id) : id \in cam[c].closed}
                  \subseteq written \cup displaced \cup IF live.slow /\ hubAt # "left" THEN ToSet(hub) ELSE {}
    <2>1. hubAt = "left" \/ live.slow
        BY <1>2 DEF LiveInv, StageInv
    <2>2. hubAt = "left" => \A id \in cam[c].closed : EventRow(id) \in written \cup displaced
        BY <1>2 DEF LiveInv, RowInv
    <2>3. \A id \in cam[c].closed : EventRow(id) \in written \cup displaced \cup Rows(hub)
        <3>1. cam[c].at # "row"
            BY <1>2 DEF LiveInv, StageInv
        <3> QED BY <3>1 DEF LiveInv, RowInv
    <2>4. Rows(hub) = ToSet(hub)
        BY DEF LiveInv, LiveShape, Sequential, Rows, ToSet
    <2>5. /\ cam[c].closed \subseteq saved \cup unsaved
          /\ cam[c].queued \subseteq judged
          /\ cam[c].queued \cap submitted \subseteq closedWith
        BY <1>2 DEF LiveInv, ClipInv, JobInv
    <2> QED BY <2>1, <2>2, <2>3, <2>4, <2>5
<1> QED BY <1>1, <1>2 DEF LiveDelivered

LEMMA JobStep == LiveShape /\ MotionInv /\ StageInv /\ JobInv /\ [LiveNext]_liveVars => JobInv'
<1> SUFFICES ASSUME LiveShape, MotionInv, StageInv, JobInv, [LiveNext]_liveVars PROVE JobInv'
    OBVIOUS
<1> DEFINE Sure(c) == /\ cam[c].queued \subseteq judged' \cup Rows(jobs') \cup Judging'
                      /\ cam[c].joined /\ main' \in {"close", "hub", "done"} =>
                           cam[c].queued \subseteq judged' /\ cam[c].queued \cap (Rows(jobs') \cup Judging') = {}
                      /\ cam[c].joined /\ main' \in {"hub", "done"} => cam[c].queued \cap submitted' \subseteq closedWith'
<1>1. ASSUME NEW c \in Cams, CameraStep(c) \/ CameraEnds(c) \/ ReadBlocks(c) \/ ReadReturns(c) PROVE JobInv'
    <2>1. Others(c) /\ Does(c)
        BY <1>1, CameraMoves DEF Moved
    <2>2. /\ UNCHANGED <<main, closedWith>> /\ cam'[c].joined = cam[c].joined /\ ~cam[c].joined
        BY <2>1 DEF Does, Passes, Told, Marks, Closes, mainVars, Same, Awake, StageInv
    <2>3. UNCHANGED <<stage3, judged, submitted>>
        BY <2>1 DEF Does, Passes, Told, Marks, Closes, jobVars
    <2>4. Judging' = Judging
        BY <2>3 DEF Judging
    <2>5. CASE Passes(c) \/ Told(c) \/ Marks(c)
        <3>1. jobs' = jobs /\ cam'[c].queued = cam[c].queued
            BY <2>5 DEF Passes, Told, Marks, Same, jobVars
        <3> QED BY <2>1, <2>2, <2>3, <2>4, <3>1 DEF JobInv, Others, Cams
    <2>6. ASSUME NEW ev, Own(c, cam[c].stint, ev), Closes(c, ev) PROVE JobInv'
        <3>1. \/ cam'[c].queued = cam[c].queued /\ jobs' = jobs
              \/ cam'[c].queued = cam[c].queued \cup {ev.id} /\ jobs' = Append(jobs, ev.id)
            BY <2>6 DEF Closes
        <3>2. CASE jobs' = jobs /\ cam'[c].queued = cam[c].queued
            BY <2>1, <2>2, <2>3, <2>4, <3>2 DEF JobInv, Others, Cams
        <3>3. CASE jobs' = Append(jobs, ev.id) /\ cam'[c].queued = cam[c].queued \cup {ev.id}
            <4>1. Rows(jobs') = Rows(jobs) \cup {ev.id}
                BY <3>3, RowsAppend DEF LiveShape
            <4>2. ASSUME NEW d \in Cams \ {c} PROVE ev.id \notin cam[d].queued
                <5>1. \A id \in cam[d].closed \cup cam[d].queued : id[1] = d
                    BY DEF MotionInv
                <5> QED BY <2>6, <5>1 DEF Own
            <4>3. ASSUME NEW d \in Cams \ {c} PROVE cam'[d] = cam[d] /\ Sure(d)
                <5>1. cam'[d] = cam[d]
                    BY <2>1 DEF Others
                <5>2. /\ cam[d].queued \subseteq judged \cup Rows(jobs) \cup Judging
                      /\ cam[d].joined /\ main \in {"close", "hub", "done"} =>
                           cam[d].queued \subseteq judged /\ cam[d].queued \cap (Rows(jobs) \cup Judging) = {}
                      /\ cam[d].joined /\ main \in {"hub", "done"} => cam[d].queued \cap submitted \subseteq closedWith
                    BY DEF JobInv
                <5> QED BY <2>2, <2>3, <2>4, <4>1, <4>2, <5>1, <5>2
            <4>4. cam'[c].queued \subseteq judged' \cup Rows(jobs') \cup Judging'
                BY <2>3, <2>4, <3>3, <4>1 DEF JobInv
            <4> QED BY <2>1, <2>2, <4>3, <4>4 DEF JobInv, Others, Cams
        <3> QED BY <3>1, <3>2, <3>3
    <2> QED BY <2>1, <2>5, <2>6 DEF Does
<1>2. CASE LiveWorkers \/ HubWrites \/ HubLeaves \/ StopAsked \/ JoinClips \/ JoinJobs \/ CloseAll \/ CloseHub
    <2>1. cam' = cam
        BY <1>2, ThreadsKeep
    <2>2. (\A c \in Cams : Sure(c)) => JobInv'
        BY <2>1 DEF JobInv, Cams
    <2>3. CASE Stage3Takes
        <3>1. /\ stage3 = Unoccupied /\ jobs # <<>> /\ stage3' = <<"infer", Head(jobs)>> /\ jobs' = Tail(jobs)
              /\ UNCHANGED <<main, closedWith, judged, submitted>>
            BY <2>3 DEF Stage3Takes, mainVars
        <3>2. Judging = {} /\ Judging' = {Head(jobs)}
            BY <3>1 DEF Judging, Unoccupied
        <3>3. Rows(jobs) \subseteq Rows(jobs') \cup Judging' /\ Rows(jobs') \subseteq Rows(jobs) /\ Head(jobs) \in Rows(jobs)
            BY <3>1, <3>2, RowsTail, HeadIsRow DEF LiveShape
        <3>4. \A c \in Cams : Sure(c)
            BY <3>1, <3>2, <3>3 DEF JobInv
        <3> QED BY <2>2, <3>4
    <2>4. CASE Stage3Infers
        <3>1. stage3[1] = "infer" /\ judged' = judged \cup {stage3[2]} /\ UNCHANGED <<main, closedWith, jobs>>
              /\ submitted' \subseteq submitted \cup {stage3[2]} /\ (stage3' = <<"row", stage3[2]>> \/ stage3' = Unoccupied)
            BY <2>4 DEF Stage3Infers, mainVars
        <3>2. Judging = {stage3[2]} /\ Judging' = {}
            BY <3>1 DEF Judging, Unoccupied
        <3>3. \A c \in Cams : Sure(c)
            <4> SUFFICES ASSUME NEW c \in Cams PROVE Sure(c)
                OBVIOUS
            <4>1. /\ cam[c].queued \subseteq judged \cup Rows(jobs) \cup Judging
                  /\ cam[c].joined /\ main \in {"close", "hub", "done"} =>
                       cam[c].queued \subseteq judged /\ cam[c].queued \cap (Rows(jobs) \cup Judging) = {}
                  /\ cam[c].joined /\ main \in {"hub", "done"} => cam[c].queued \cap submitted \subseteq closedWith
                BY DEF JobInv
            <4> QED BY <3>1, <3>2, <4>1
        <3> QED BY <2>2, <3>3
    <2>5. CASE Stage3Reports \/ Stage3Statuses \/ Stage3Leaves
        <3>1. UNCHANGED <<main, closedWith, jobs, judged, submitted>> /\ stage3[1] # "infer" /\ stage3'[1] # "infer"
            BY <2>5 DEF Stage3Reports, Stage3Statuses, Stage3Leaves, mainVars, Unoccupied, Left
        <3>2. Judging = {} /\ Judging' = {}
            BY <3>1 DEF Judging
        <3>3. \A c \in Cams : Sure(c)
            BY <3>1, <3>2 DEF JobInv
        <3> QED BY <2>2, <3>3
    <2>6. CASE JoinJobs
        <3>1. jobs = <<>> /\ stage3[1] # "infer" /\ main' = "close" /\ UNCHANGED <<jobs, stage3, judged, submitted>>
            BY <2>6 DEF JoinJobs, JobsDone, Moves, jobVars, Unoccupied, Left
        <3>2. Judging = {} /\ Judging' = {} /\ Rows(jobs) = {}
            BY <3>1, RowsNone DEF Judging
        <3>3. \A c \in Cams : Sure(c)
            BY <3>1, <3>2 DEF JobInv
        <3> QED BY <2>2, <3>3
    <2>7. CASE CloseAll
        <3>1. main = "close" /\ main' = "hub" /\ closedWith' = submitted /\ UNCHANGED <<jobs, stage3, judged, submitted>>
            BY <2>7 DEF CloseAll, Moves, jobVars
        <3>2. Judging' = Judging
            BY <3>1 DEF Judging
        <3>3. \A c \in Cams : Sure(c)
            BY <3>1, <3>2 DEF JobInv
        <3> QED BY <2>2, <3>3
    <2>8. CASE JoinClips \/ CloseHub \/ StopAsked
        <3>1. /\ UNCHANGED <<jobs, stage3, judged, submitted, closedWith>>
              /\ (main' \in {"jobs", "cameras"} \/ (main = "hub" /\ main' = "done"))
            BY <2>8 DEF JoinClips, CloseHub, StopAsked, Moves, jobVars
        <3>2. Judging' = Judging
            BY <3>1 DEF Judging
        <3>3. \A c \in Cams : Sure(c)
            BY <3>1, <3>2 DEF JobInv
        <3> QED BY <2>2, <3>3
    <2>9. CASE ClipTakes \/ ClipSaves \/ ClipLeaves \/ HubWrites \/ HubLeaves
        <3>1. UNCHANGED <<main, jobs, stage3, judged, submitted, closedWith>>
            BY <2>9 DEF ClipTakes, ClipSaves, ClipLeaves, HubWrites, HubLeaves, mainVars, jobVars
        <3>2. Judging' = Judging
            BY <3>1 DEF Judging
        <3>3. \A c \in Cams : Sure(c)
            BY <3>1, <3>2 DEF JobInv
        <3> QED BY <2>2, <3>3
    <2> QED BY <1>2, <2>3, <2>4, <2>5, <2>6, <2>7, <2>8, <2>9 DEF LiveWorkers
<1>3. CASE JoinCameras
    <2>1. /\ DOMAIN cam' = Cams /\ \A c \in Cams : cam'[c].queued = cam[c].queued
        BY <1>3, JoinCamerasIs DEF CamFields
    <2>2. main' = "clips" /\ UNCHANGED <<jobs, stage3, judged, submitted>>
        BY <1>3 DEF JoinCameras, jobVars
    <2>3. Judging' = Judging
        BY <2>2 DEF Judging
    <2> QED BY <2>1, <2>2, <2>3 DEF JobInv, Cams
<1>4. CASE UNCHANGED liveVars
    BY <1>4 DEF liveVars, JobInv, mainVars, Cams, jobVars, Judging
<1> QED BY <1>1, <1>2, <1>3, <1>4 DEF LiveNext, Main

\* Rows of the report: what is put in, written and displaced.
LEMMA RowPut ==
    ASSUME LiveShape, NEW row, PutRow(row)
    PROVE  Rows(hub') = Rows(hub) \cup {row} /\ UNCHANGED <<hubAt, written, displaced>>
BY RowsAppend DEF LiveShape, PutRow

LEMMA RowStep == LiveShape /\ MotionInv /\ StageInv /\ RowInv /\ [LiveNext]_liveVars => RowInv'
<1> SUFFICES ASSUME LiveShape, MotionInv, StageInv, RowInv, [LiveNext]_liveVars PROVE RowInv'
    OBVIOUS
<1> DEFINE Out == written \cup displaced
           Known == Out \cup Rows(hub)
<1>0. \A id : EventRow(id) # Status
    BY DEF EventRow, Status
<1>1. ASSUME NEW c \in Cams, CameraStep(c) \/ CameraEnds(c) \/ ReadBlocks(c) \/ ReadReturns(c) PROVE RowInv'
    <2>1. Others(c) /\ Does(c)
        BY <1>1, CameraMoves DEF Moved
    <2>2. hubAt' = hubAt /\ cam'[c].joined = cam[c].joined /\ ~cam[c].joined
        BY <2>1 DEF Does, Passes, Told, Marks, Closes, hubVars, PutRow, PutStatus, Same, Awake, StageInv
    <2>3. Out \subseteq Out' /\ \A id : EventRow(id) \in Known => EventRow(id) \in Known'
        <3>1. CASE Passes(c)
            BY <3>1 DEF Passes, hubVars
        <3>2. CASE Told(c)
            BY <3>2, RowPut DEF Told
        <3>3. CASE Marks(c)
            BY <1>0, <3>3, StatusPut DEF Marks, LiveShape
        <3>4. ASSUME NEW ev, Closes(c, ev) PROVE UNCHANGED <<hub, written, displaced>>
            BY <3>4 DEF Closes, hubVars
        <3> QED BY <2>1, <3>1, <3>2, <3>3, <3>4 DEF Does
    <2>4. ASSUME NEW id \in cam'[c].closed PROVE EventRow(id) \in Known' \/ (cam'[c].at = "row" /\ cam'[c].row = id)
        <3>1. CASE Passes(c)
            BY <2>3, <2>4, <3>1 DEF Passes, Same, RowInv, Awake
        <3>2. CASE Told(c)
            BY <2>3, <2>4, <3>2, RowPut DEF Told, Same, RowInv
        <3>3. CASE Marks(c)
            BY <2>3, <2>4, <3>3 DEF Marks, Same, RowInv
        <3>4. ASSUME NEW ev, Closes(c, ev) PROVE EventRow(id) \in Known' \/ (cam'[c].at = "row" /\ cam'[c].row = id)
            BY <2>3, <2>4, <3>4 DEF Closes, RowInv
        <3> QED BY <2>1, <3>1, <3>2, <3>3, <3>4 DEF Does
    <2> HIDE DEF Out, Known
    <2>5. ASSUME NEW d \in Cams, NEW id \in cam'[d].closed
          PROVE /\ EventRow(id) \in Known' \/ (cam'[d].at = "row" /\ cam'[d].row = id)
                /\ hubAt' = "left" /\ cam'[d].joined => EventRow(id) \in Out'
        <3>1. CASE d = c
            BY <2>2, <2>4, <2>5, <3>1
        <3>2. CASE d # c
            <4>1. cam'[d] = cam[d]
                BY <2>1, <3>2 DEF Others
            <4>2. /\ EventRow(id) \in Known \/ (cam[d].at = "row" /\ cam[d].row = id)
                  /\ hubAt = "left" /\ cam[d].joined => EventRow(id) \in Out
                BY <2>5, <4>1 DEF RowInv, Known, Out
            <4> QED BY <2>2, <2>3, <4>1, <4>2
        <3> QED BY <3>1, <3>2
    <2> QED BY <2>1, <2>5 DEF RowInv, Others, Cams, Out, Known
<1>2. CASE LiveWorkers \/ HubWrites \/ HubLeaves \/ StopAsked \/ JoinClips \/ JoinJobs \/ CloseAll \/ CloseHub
    <2>1. cam' = cam
        BY <1>2, ThreadsKeep
    <2>2. CASE HubWrites
        <3>1. hub # <<>> /\ hub' = Tail(hub) /\ written' = written \cup ({Head(hub)} \ {Status}) /\ UNCHANGED <<hubAt, displaced>>
            BY <2>2 DEF HubWrites
        <3>2. Rows(hub) \subseteq Rows(hub') \cup {Head(hub)}
            BY <3>1, RowsTail DEF LiveShape
        <3>3. \A id : EventRow(id) \in written \cup displaced \cup Rows(hub) => EventRow(id) \in written' \cup displaced' \cup Rows(hub')
            BY <1>0, <3>1, <3>2
        <3> QED BY <2>1, <3>1, <3>3 DEF RowInv, Cams
    <2>3. CASE HubLeaves
        <3>1. hub = <<>> /\ UNCHANGED <<hub, written, displaced>>
            BY <2>3 DEF HubLeaves, HubEmpty
        <3>2. \A c \in Cams : cam[c].joined => cam[c].at # "row"
            BY DEF StageInv
        <3> QED BY <2>1, <3>1, <3>2, RowsNone DEF RowInv, Cams
    <2>4. CASE Stage3Reports
        <3>1. PutRow(Stage3Row(stage3[2]))
            BY <2>4 DEF Stage3Reports
        <3>2. Rows(hub) \subseteq Rows(hub') /\ UNCHANGED <<hubAt, written, displaced>>
            BY <3>1, RowPut
        <3> QED BY <2>1, <3>2 DEF RowInv, Cams
    <2>5. CASE Stage3Statuses
        <3>1. PutStatus
            BY <2>5 DEF Stage3Statuses
        <3>2. /\ UNCHANGED <<hubAt, written>> /\ displaced \subseteq displaced'
              /\ \A id : EventRow(id) \in Rows(hub) => EventRow(id) \in Rows(hub') \cup displaced'
            BY <1>0, <3>1, StatusPut DEF LiveShape
        <3> QED BY <2>1, <3>2 DEF RowInv, Cams
    <2>6. CASE CloseAll
        BY <2>1, <2>6 DEF CloseAll, RowInv, Cams
    <2>7. CASE ClipTakes \/ ClipSaves \/ ClipLeaves \/ Stage3Takes \/ Stage3Infers \/ Stage3Leaves \/ StopAsked \/ JoinClips \/ JoinJobs \/ CloseHub
        <3>1. UNCHANGED <<hub, hubAt, written, displaced>>
            BY <2>7 DEF ClipTakes, ClipSaves, ClipLeaves, Stage3Takes, Stage3Infers, Stage3Leaves, StopAsked, JoinClips, JoinJobs, CloseHub, hubVars
        <3> QED BY <2>1, <3>1 DEF RowInv, Cams
    <2> QED BY <1>2, <2>2, <2>3, <2>4, <2>5, <2>6, <2>7 DEF LiveWorkers
<1>3. CASE JoinCameras
    <2>1. /\ DOMAIN cam' = Cams
          /\ \A c \in Cams : cam'[c].closed = cam[c].closed /\ cam'[c].at = cam[c].at /\ cam'[c].row = cam[c].row
        BY <1>3, JoinCamerasIs DEF CamFields
    <2>2. UNCHANGED <<hub, hubAt, written, displaced>> /\ hubAt # "left"
        BY <1>3 DEF JoinCameras, hubVars, StageInv
    <2> QED BY <2>1, <2>2 DEF RowInv, Cams
<1>4. CASE UNCHANGED liveVars
    BY <1>4 DEF liveVars, RowInv, hubVars, Cams
<1> QED BY <1>1, <1>2, <1>3, <1>4 DEF LiveNext, Main

LEMMA LiveStep == LiveInv /\ [LiveNext]_liveVars => LiveInv'
BY ShapeStep, StageStep, ClipStep, JobStep, RowStep DEF LiveInv

\* The four programs together: one of them runs, the others stay as they are.
ClassicInv == LiveInv /\ StaticInv /\ VideoInv

LEMMA ClassicStart == ClassicInit => ClassicInv
BY LiveStart, StaticStart, VideoStart DEF ClassicInit, ClassicInv

LEMMA ClassicStep == ClassicInv /\ [ClassicNext]_classicVars => ClassicInv'
<1> SUFFICES ASSUME ClassicInv, [ClassicNext]_classicVars PROVE ClassicInv'
    OBVIOUS
<1>1. /\ [LiveNext]_liveVars
      /\ [StaticNext]_staticVars
      /\ [BatchNext]_batchVars
    BY DEF ClassicNext, Queue, Static, Loop, Batch, Rests, classicVars
<1> QED BY <1>1, LiveStep, StaticStep, VideoStep DEF ClassicInv

\* What each of the older programs says it has done is done: the events, clips and rows of the
\* cameras main has marked as ended when the queue pipeline says that its shutdown is complete,
\* every event of a file the static runtime has read to its end, every frame of an accepted
\* stretch of motion in exactly one event of the batch run; and no clip of the queue pipeline
\* joins two stretches of motion.
THEOREM ClassicDeliveredHolds == ClassicSpec => []ClassicDelivered
<1>1. ClassicInit => ClassicInv
    BY ClassicStart
<1>2. ClassicInv /\ [ClassicNext]_classicVars => ClassicInv'
    BY ClassicStep
<1>3. ClassicInv => ClassicDelivered
    BY LiveHolds, StaticHolds, VideoHolds DEF ClassicInv, ClassicDelivered
<1> QED BY <1>1, <1>2, <1>3, PTL DEF ClassicSpec
=============================================================================
