------------------------------ MODULE LiveLoop ------------------------------
(***************************************************************************)
(* pipeline/run_live.py: one camera, one loop, an alarm that is switched   *)
(* on and off by counters.  A frame is what motion, persons, the pair, the *)
(* region and the pose say of it; the short holds (a pair, a region or a   *)
(* pose of a second ago still counts) may or may not apply to a frame.     *)
(***************************************************************************)
EXTENDS Integers

CONSTANTS OnNeed, OffNeed,           \* fight_on_need, fight_off_need
          ClipLen, ClipReset, InvalidDrop, InvalidReset, MinPair, Stride,
          LoopSetups

VARIABLES loop,                       \* file or camera, with or without a pose model
          loopAt, odd,                \* the frame counter, modulo 2
          still, missed, invalid, pair, \* last frame at rest; roi_miss_frames, roi_invalid_ctr, two_p_ctr
          clip, cooldown, on, off, alarm

loopVars == <<loop, loopAt, odd, still, missed, invalid, pair, clip, cooldown, on, off, alarm>>

LoopInit ==
  /\ loop \in LoopSetups
  /\ loopAt = "run" /\ odd = FALSE /\ still = TRUE /\ missed = 0 /\ invalid = 0 /\ pair = 0
  /\ clip = 0 /\ cooldown = 0 /\ on = 0 /\ off = 0 /\ alarm = FALSE

UpTo(n, bound) == IF n > bound THEN bound ELSE n
Down(n) == IF n = 0 THEN 0 ELSE n - 1
\* A region of persons that are not there, and a missing region, are counted.
Invalid(seen) == IF seen.roi /\ (seen.pair \/ seen.persons) THEN 0 ELSE UpTo(invalid + 1, InvalidReset)
Region(seen) == seen.roi /\ Invalid(seen) < InvalidDrop
Missed(seen) == IF Region(seen) THEN 0 ELSE UpTo(missed + 1, ClipReset + 1)

HardReset(seen) ==
  \/ ~seen.motion \/ Missed(seen) > ClipReset \/ Invalid(seen) >= InvalidReset
  \/ loop.pose /\ seen.poseGone
\* What is forgotten with the scene, and what only with a shorter gap.
Forgets(seen) == ~seen.motion \/ Invalid(seen) >= InvalidReset

\* Mutant: only a verdict of the model counts against the alarm.
ResetsOnly(seen) ==
  /\ HardReset(seen)
  /\ clip' = 0 /\ on' = 0 /\ off' = off
  /\ missed' = (IF Forgets(seen) THEN 0 ELSE Missed(seen))
  /\ invalid' = (IF Forgets(seen) THEN 0 ELSE Invalid(seen))
  /\ pair' = (IF Forgets(seen) THEN 0 ELSE seen.run)
  /\ cooldown' = Down(cooldown) /\ alarm' = alarm
\* A frame of a scene that has ended counts against the alarm.
Resets(seen) ==
  /\ HardReset(seen)
  /\ clip' = 0 /\ on' = 0 /\ off' = UpTo(off + 1, OffNeed)
  /\ missed' = (IF Forgets(seen) THEN 0 ELSE Missed(seen))
  /\ invalid' = (IF Forgets(seen) THEN 0 ELSE Invalid(seen))
  /\ pair' = (IF Forgets(seen) THEN 0 ELSE seen.run)
  /\ cooldown' = Down(cooldown)
  /\ alarm' = (alarm /\ off' < OffNeed)

\* The clip grows while there is a pair and the pose has triggered; without a
\* trigger only its second half is kept.
Collected(seen) ==
  IF Region(seen) /\ seen.trigger /\ seen.held THEN UpTo(clip + 1, ClipLen)
  ELSE IF Region(seen) /\ ~seen.trigger THEN UpTo(clip, ClipLen \div 2) ELSE clip
CanClassify(seen) ==
  /\ seen.held /\ Region(seen) /\ seen.trigger
  /\ seen.run >= MinPair /\ Collected(seen) >= ClipLen /\ Down(cooldown) = 0

\* A verdict for a fight counts for the alarm and clears what was against it, and the reverse.
Judged(fight) ==
  /\ on' = (IF fight THEN UpTo(on + 1, OnNeed) ELSE 0)
  /\ off' = (IF fight THEN 0 ELSE UpTo(off + 1, OffNeed))
  /\ alarm' = ((alarm \/ on' >= OnNeed) /\ off' < OffNeed)
Goes(seen) ==
  /\ ~HardReset(seen)
  /\ clip' = Collected(seen) /\ missed' = Missed(seen) /\ invalid' = Invalid(seen) /\ pair' = seen.run
  /\ IF CanClassify(seen)
     THEN cooldown' = Stride /\ \E fight \in BOOLEAN : Judged(fight)
     ELSE cooldown' = Down(cooldown) /\ UNCHANGED <<on, off, alarm>>

Seen == [motion : BOOLEAN, pair : BOOLEAN, held : BOOLEAN, roi : BOOLEAN, persons : BOOLEAN,
         trigger : BOOLEAN, poseGone : BOOLEAN, run : 0..MinPair]
\* No pair without motion; two_p_ctr grows with a pair and lapses after a while.
Possible(seen) ==
  /\ seen.pair => seen.motion /\ seen.held
  /\ ~seen.motion => ~seen.persons /\ ~seen.roi
  /\ ~loop.pose => seen.trigger
  /\ seen.run \in IF seen.pair THEN {UpTo(pair + 1, MinPair)} ELSE {pair, 0}

LoopFrame ==
  /\ loopAt = "run"
  /\ \E seen \in {s \in Seen : Possible(s)} : still' = ~seen.motion /\ (Resets(seen) \/ Goes(seen))
  /\ odd' = ~odd /\ UNCHANGED <<loop, loopAt>>
\* A file ends; a camera that fails is opened again, and the alarm stays as it is.
LoopEnds == loopAt = "run" /\ loop.file /\ loopAt' = "ended" /\ UNCHANGED <<loop, odd, still, missed, invalid, pair, clip, cooldown, on, off, alarm>>
LoopNext == LoopFrame \/ LoopEnds

\* The alarm does not outlive the scene: once nothing moves any more it goes off,
\* although the model, which switched it on, is no longer asked.
AlarmFalls == <>[](still /\ loopAt = "run") => []<>~alarm
=============================================================================
