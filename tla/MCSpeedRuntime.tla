-------------------------- MODULE MCSpeedRuntime --------------------------
(* Model values for SpeedRuntime: a short road and a few frames. *)
EXTENDS SpeedRuntime

With(host, file, mode, stride, motion, frames) ==
  [host |-> host, file |-> file, mode |-> mode, stride |-> stride, motion |-> motion,
   frames |-> frames, pace |-> {1}]

\* A program whose frames take their time.
Uneven(program) == [program EXCEPT !.pace = {0, 1}]

\* The consumer of the runtime on a file and on a live camera, the older
\* programs, all modes, with and without the motion gate, the gate with a stride.
MCSetups == {With("service", TRUE, "A_TO_B", 1, FALSE, 5), With("service", TRUE, "AUTO", 2, FALSE, 3),
             With("service", FALSE, "AUTO", 1, FALSE, 3),
             With("process", TRUE, "AUTO", 1, TRUE, 8), With("process", FALSE, "pixel_scale", 1, TRUE, 6),
             With("process", TRUE, "A_TO_B", 2, FALSE, 8), With("single", TRUE, "A_TO_B", 1, TRUE, 8),
             With("single", FALSE, "B_TO_A", 1, TRUE, 6), With("single", TRUE, "A_TO_B", 2, TRUE, 11),
             Uneven(With("single", TRUE, "AUTO", 2, FALSE, 10))}
=============================================================================
