----------------------------- MODULE BatchExport ----------------------------
(***************************************************************************)
(* pipeline/run_full.py: a video is searched for motion, every stretch of  *)
(* motion is probed for two persons, the accepted ones are merged and cut  *)
(* out as event directories (yolo/src/stage2/run_export_events.py), and    *)
(* every directory that is found is scored (3D_CNN/src/infer.py).          *)
(* Frames are 0..N-1; what is on a frame is data.                          *)
(***************************************************************************)
EXTENDS Integers, FiniteSets, Sequences, SequencesExt, FiniteSetsExt

CONSTANTS N, Probes, Need2p, MergeGap, BatchSetups

ASSUME BatchAssumption ==
  /\ {N, Probes, Need2p, MergeGap} \subseteq Nat
  /\ \A b \in BatchSetups : {b.pre, b.post, b.maxLen, b.maxEvent} \subseteq Nat /\ b.stride \in Nat \ {0}

VARIABLES batch,              \* padding, longest merge, longest event and sample stride of this run
          step,
          spans, merging, merged, \* accepted spans, the merge so far, merged spans
          frame, open, opened, made,  \* export: next frame, event, openings, frames written
          phase,              \* export: where in the stride the event is, (ev_frames_seen - 1) % sample_stride
          dirs, scored        \* event directories on disk, and those in the report

batchVars == <<batch, step, spans, merging, merged, frame, open, opened, made, phase, dirs, scored>>
VideoFrames == 0..(N - 1)
NoOne == 0

\* An earlier run of the same video has left its directories: nothing clears them.
BatchInit ==
  /\ batch \in BatchSetups
  /\ step = "motion" /\ spans = <<>> /\ merging = <<>> /\ merged = <<>>
  /\ frame = 0 /\ open = NoOne /\ opened = <<>> /\ made = <<>> /\ phase = 0
  /\ dirs = batch.left /\ scored = {}

\* uniform_probe_indices: ends and middle, or every frame of a short stretch.
Round(a, b) == LET q == a \div b r == a % b IN IF 2 * r > b \/ (2 * r = b /\ q % 2 = 1) THEN q + 1 ELSE q
Plan(span) ==
  LET length == span[2] - span[1] + 1 IN
  IF Probes >= length THEN span[1]..span[2]
  ELSE {span[1] + Round(i * (length - 1), Probes - 1) : i \in 0..(Probes - 1)}
\* Decided after Probes frames: a stretch with fewer of them is dropped unheard.
Accepts(span, twoPersons) ==
  Cardinality(Plan(span)) >= Probes /\ Cardinality(Plan(span) \cap twoPersons) >= Need2p

Fails(why) == step' = why /\ UNCHANGED <<batch, spans, merging, merged, frame, open, opened, made, phase, dirs, scored>>

\* Motion, stretch by stretch, apart from each other; the exporter's first pass over
\* the video decides about each of them.
Stretch ==
  /\ step = "motion"
  /\ \E first \in VideoFrames, last \in VideoFrames :
       /\ frame <= first /\ first <= last /\ frame' = last + 2
       /\ \E twoPersons \in SUBSET Plan(<<first, last>>) :
            spans' = IF Accepts(<<first, last>>, twoPersons) THEN Append(spans, <<first, last>>) ELSE spans
  /\ UNCHANGED <<batch, step, merging, merged, open, opened, made, phase, dirs, scored>>
\* Without an accepted stretch it makes no directory.
Probed ==
  /\ step = "motion" /\ frame' = 0
  /\ IF spans = <<>> THEN step' = "score" /\ UNCHANGED merging
     ELSE step' = "merge" /\ merging' = [cur |-> spans[1], out |-> <<>>, next |-> 2]
  /\ UNCHANGED <<batch, spans, merged, open, opened, made, phase, dirs, scored>>

\* Mutant: the span that made the event too long is left out of both.
JoinsDropped(acc, span) ==
  LET cur == acc.cur IN
  IF span[1] > cur[2] + MergeGap THEN [out |-> Append(acc.out, cur), cur |-> span, next |-> acc.next + 1]
  ELSE LET longer == <<cur[1], Max({cur[2], span[2]})>> IN
       IF batch.maxLen > 0 /\ longer[2] - longer[1] + 1 > batch.maxLen
       THEN [out |-> acc.out, cur |-> cur, next |-> acc.next + 1]
       ELSE [out |-> acc.out, cur |-> longer, next |-> acc.next + 1]
\* merge_segments_by_gap: spans close to each other become one event; when it gets
\* too long it ends, and the span that made it so begins the next one as well.
Joins(acc, span) ==
  LET cur == acc.cur
      longer == <<cur[1], Max({cur[2], span[2]})>>
      near == span[1] <= cur[2] + MergeGap
      tooLong == batch.maxLen > 0 /\ longer[2] - longer[1] + 1 > batch.maxLen
  IN [out |-> CASE ~near -> Append(acc.out, cur)
                [] near /\ tooLong -> Append(acc.out, longer)
                [] OTHER -> acc.out,
      cur |-> IF near /\ ~tooLong THEN longer ELSE span, next |-> acc.next + 1]
Padded(span) == <<Max({0, span[1] - batch.pre}), Min({N - 1, span[2] + batch.post})>>
JoinSpan ==
  /\ step = "merge" /\ merging.next <= Len(spans)
  /\ merging' = Joins(merging, spans[merging.next])
  /\ UNCHANGED <<batch, step, spans, merged, frame, open, opened, made, phase, dirs, scored>>
Merge ==
  /\ step = "merge" /\ merging.next > Len(spans) /\ step' = "export"
  /\ LET all == Append(merging.out, merging.cur) IN merged' = [i \in DOMAIN all |-> Padded(all[i])]
  /\ made' = [i \in DOMAIN merged' |-> {}]
  /\ UNCHANGED <<batch, spans, merging, frame, open, opened, phase, dirs, scored>>

\* merged_id_map: where events overlap, the later one has the frame.
EventOf(i) ==
  LET those == {e \in DOMAIN merged : merged[e][1] <= i /\ i <= merged[e][2]} IN
  IF those = {} THEN NoOne ELSE Max(those)
\* max_event_sec cuts an event short.
LastFrame(e) == IF batch.maxEvent = 0 THEN merged[e][2] ELSE Min({merged[e][2], merged[e][1] + batch.maxEvent - 1})
\* An event that is opened begins its stride anew; only its first frame of every
\* sample_stride is kept.
ExportFrame ==
  /\ step = "export" /\ frame < N /\ frame' = frame + 1
  /\ open' = EventOf(frame)
  /\ opened' = IF open' \notin {open, NoOne} THEN Append(opened, open') ELSE opened
  /\ dirs' = dirs \cup ({open'} \ {NoOne})
  /\ phase' = IF open' # open \/ phase + 1 = batch.stride THEN 0 ELSE phase + 1
  /\ made' = IF open' # NoOne /\ frame <= LastFrame(open') /\ phase' = 0
             THEN [made EXCEPT ![open'] = @ \cup {frame}] ELSE made
  /\ UNCHANGED <<batch, step, spans, merging, merged, scored>>
ExportEnds == step = "export" /\ frame = N /\ Fails("score")

\* Every event_* directory that is there is scored, whoever made it.
Score ==
  /\ step = "score"
  /\ step' = (IF dirs = {} THEN "failed" ELSE "reported") /\ scored' = dirs
  /\ UNCHANGED <<batch, spans, merging, merged, frame, open, opened, made, phase, dirs>>

BatchNext == Stretch \/ Probed \/ JoinSpan \/ Merge \/ ExportFrame \/ ExportEnds \/ Score

\* No event directory is opened twice, and a frame is cut out into one event at most,
\* whatever padding and splitting do to the events; without a limit on events the event
\* of a frame of an accepted stretch holds it, or one less than a sample stride before it.
ExportedOnce ==
  step = "reported" =>
    /\ \A i, j \in DOMAIN opened : i # j => opened[i] # opened[j]
    /\ \A i \in VideoFrames :
         /\ Cardinality({e \in DOMAIN made : i \in made[e]}) <= 1
         /\ (\E k \in DOMAIN spans : spans[k][1] <= i /\ i <= spans[k][2]) /\ batch.maxEvent = 0 =>
              EventOf(i) # NoOne /\ \E j \in (i - batch.stride + 1) .. i : j \in made[EventOf(i)]
=============================================================================
