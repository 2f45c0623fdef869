------------------------- MODULE SpeedMeasurement -------------------------
(***************************************************************************)
(* How the speed of a vehicle is measured (HizTespiti): the motion gate    *)
(* decides whether a frame is looked at, the tracker keeps the identity of *)
(* a vehicle, the estimator times it between two lines (or scales pixels), *)
(* and the decider confirms a violation and spares the next ones.          *)
(*                                                                         *)
(* The road has one dimension: a position is a number and a line a         *)
(* position.  Frames are numbered; times are in half frames, so that a     *)
(* line passed midway between two positions has a time of its own.         *)
(***************************************************************************)
EXTENDS Naturals, Integers, Sequences, SequencesExt, FiniteSets

CONSTANTS LineA, LineB,         \* where the two lines cross the road
          Reach,                \* farthest a box may move and still overlap
          MaxAge, MinHits,      \* of a track
          HistoryLength,        \* points a track remembers
          OpenFrames, CloseFrames, IgnoreFrames, \* of the motion gate
          MinDelta, MaxDelta,   \* bounds on a measured time, in half frames
          MinSpeed, MaxSpeed,   \* speeds that are believed, positions per frame
          Threshold,            \* limit and tolerance
          MinPoints,            \* of a pixel measurement
          ConfirmFrames, EmitFrames, Cooldown

ASSUME MeasurementAssumption ==
  /\ LineA \in Nat /\ LineB \in Nat /\ LineA < LineB
  /\ Reach \in Nat /\ MaxAge \in Nat /\ MinHits \in Nat \ {0}
  /\ HistoryLength \in Nat \ {0, 1} /\ MinPoints \in Nat \ {0, 1}
  /\ OpenFrames \in Nat \ {0} /\ CloseFrames \in Nat \ {0} /\ IgnoreFrames \in Nat
  /\ MinDelta \in Nat /\ MaxDelta \in Nat
  /\ MinSpeed \in Nat /\ MaxSpeed \in Nat /\ Threshold \in Nat
  /\ ConfirmFrames \in Nat \ {0} /\ EmitFrames \in Nat /\ Cooldown \in Nat

Gap(x, y) == IF x < y THEN y - x ELSE x - y

-----------------------------------------------------------------------------
(* The motion gate. *)

ClosedGate == [active |-> FALSE, open |-> 0, close |-> 0]

\* MotionGate.update; the counters matter up to their limits only.
GateAfter(gate, n, motion) ==
  LET open  == IF motion THEN Min({gate.open + 1, OpenFrames}) ELSE 0
      close == IF motion THEN 0 ELSE Min({gate.close + 1, CloseFrames})
  IN IF n < IgnoreFrames THEN gate
     ELSE [active |-> (gate.active \/ open >= OpenFrames) /\ close < CloseFrames,
           open |-> open, close |-> close]

\* While it warms up a frame is not looked at, whatever the gate says.
GateLets(gate, n) == n >= IgnoreFrames /\ gate.active

-----------------------------------------------------------------------------
(* The tracker: its tracks, known by their number, the oldest has the lowest. *)

NewTrack(id, n, x) == [id |-> id, hits |-> 1, missed |-> 0, hist |-> <<[f |-> n, x |-> x]>>]

At(track) == Last(track.hist).x

Matched(track, n, x) ==
  LET long == Append(track.hist, [f |-> n, x |-> x])
  IN [track EXCEPT !.hits = Min({@ + 1, MinHits}), !.missed = 0,
        !.hist = IF Len(long) > HistoryLength THEN Tail(long) ELSE long]

Missed(track) == [track EXCEPT !.missed = @ + 1]

\* The best overlap wins, the oldest track among equals; none if none overlaps.
Nearer(t, u, x) == Gap(At(t), x) < Gap(At(u), x) \/ (Gap(At(t), x) = Gap(At(u), x) /\ t.id <= u.id)
BestMatch(tracks, x) == {t \in tracks : Gap(At(t), x) <= Reach /\ \A u \in tracks : Nearer(t, u, x)}

\* SimpleIoUTracker.update with the boxes of at most one vehicle.
TracksAfter(tracks, seen, n, nextTrack) ==
  LET hit(t) == {x \in seen : t \in BestMatch(tracks, x)}
      kept == {Missed(t) : t \in {u \in tracks : hit(u) = {}}}
      matched == {Matched(t, n, CHOOSE x \in hit(t) : TRUE) : t \in {u \in tracks : hit(u) # {}}}
      new == {NewTrack(nextTrack, n, x) : x \in {y \in seen : BestMatch(tracks, y) = {}}}
  IN {t \in kept \cup matched \cup new : t.missed <= MaxAge}

\* active_tracks: a track that was just missed is not among them.
ActiveTracks(tracks) == {t \in tracks : t.hits >= MinHits /\ t.missed = 0}

-----------------------------------------------------------------------------
(* The estimator. *)

Untimed == [stage |-> "first", second |-> "none", first |-> 0, last |-> -1,
            pass |-> <<>>, done |-> 0]

LineAt(name) == IF name = "A" THEN LineA ELSE LineB

\* _crossing_frame: has the line been touched or passed between two points?
Crosses(p, q, line) == p.x = line \/ q.x = line \/ (p.x < line) # (q.x < line)
CrossTime(p, q, line) == IF p.x = line THEN 2 * p.f
                         ELSE IF q.x = line THEN 2 * q.f
                         ELSE 2 * p.f + (2 * (q.f - p.f) * Gap(line, p.x)) \div Gap(q.x, p.x)

Nothing == [valid |-> FALSE, dist |-> 0, time |-> 1]

\* _validate_speed: a distance over a time in half frames.
Speed(dist, time) == [valid |-> 2 * dist >= MinSpeed * time /\ 2 * dist <= MaxSpeed * time,
                      dist |-> dist, time |-> time]
TooFast(result) == 2 * result.dist > Threshold * result.time

\* The lines the first one may be; A is tried before B.
Firsts(mode) == CASE mode = "A_TO_B" -> {"A"} [] mode = "B_TO_A" -> {"B"} [] OTHER -> {"A", "B"}
Other(name) == IF name = "A" THEN "B" ELSE "A"

\* waiting_first: the first line that the last two points cross.
FindFirst(e, p, q, mode) ==
  LET crossed == {l \in Firsts(mode) : Crosses(p, q, LineAt(l))}
      first == IF "A" \in crossed THEN "A" ELSE "B"
  IN IF crossed = {} THEN e
     ELSE [e EXCEPT !.stage = "second", !.second = Other(first), !.first = CrossTime(p, q, LineAt(first))]

\* waiting_second: a time out of bounds leaves the state as it is.
FindSecond(e, p, q) ==
  LET at == CrossTime(p, q, LineAt(e.second))
      delta == at - e.first
  IN IF Crosses(p, q, LineAt(e.second)) /\ delta > 0 /\ delta >= MinDelta /\ delta <= MaxDelta
     THEN [e EXCEPT !.stage = "done", !.pass = <<e.first, at>>, !.done = q.f] ELSE e

Measured(e) == Speed(LineB - LineA, e.pass[2] - e.pass[1])

\* Mutant: the result of a passage is given once.
WithinOnce(e, n) == n <= e.done

\* A measured speed is repeated for some frames, so that it can be confirmed.
Within(e, n) == n <= e.done + EmitFrames

\* _estimate_two_line: the new state and the result.
TwoLines(e, track, mode) ==
  LET p == track.hist[Len(track.hist) - 1]
      q == Last(track.hist)
      seen == [e EXCEPT !.last = q.f]
      next == IF e.stage = "first" THEN FindFirst(seen, p, q, mode) ELSE FindSecond(seen, p, q)
  IN IF Len(track.hist) < 2 THEN [state |-> e, result |-> Nothing]
     ELSE IF e.stage = "done"
     THEN [state |-> e, result |-> IF Within(e, q.f) THEN Measured(e) ELSE Nothing]
     ELSE IF q.f <= e.last THEN [state |-> e, result |-> Nothing]
     ELSE [state |-> next, result |-> IF next.stage = "done" THEN Measured(next) ELSE Nothing]

\* _estimate_pixel_scale: the remembered points, with no state.
PixelScale(e, track) ==
  LET p == Head(track.hist)
      q == Last(track.hist)
      time == 2 * Max({1, q.f - p.f})
  IN [state |-> e,
      result |-> IF Len(track.hist) < MinPoints \/ time < MinDelta \/ time > MaxDelta THEN Nothing
                 ELSE Speed(Gap(p.x, q.x), time)]

Estimate(e, track, mode) == IF mode = "pixel_scale" THEN PixelScale(e, track)
                            ELSE TwoLines(e, track, mode)

-----------------------------------------------------------------------------
(* The decider. *)

Unseen == [over |-> 0, reported |-> FALSE, at |-> 0]

\* Mutant: the time of the report is not kept.
DecideForgetful(d, result, now) ==
  LET over == IF result.valid /\ TooFast(result) THEN Min({d.over + 1, ConfirmFrames}) ELSE 0
      report == over >= ConfirmFrames
  IN [state |-> [d EXCEPT !.over = over, !.reported = @ \/ report], report |-> report]

\* ViolationDecider.update; now is the clock on the wall, not the frame's.
Decide(d, result, now) ==
  LET over == IF result.valid /\ TooFast(result) THEN Min({d.over + 1, ConfirmFrames}) ELSE 0
      cooling == d.reported /\ now - d.at < Cooldown
      report == over >= ConfirmFrames /\ ~cooling
  IN [state |-> IF report THEN [over |-> over, reported |-> TRUE, at |-> now]
                ELSE [d EXCEPT !.over = over],
      report |-> report]
=============================================================================
