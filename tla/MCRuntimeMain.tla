--------------------------- MODULE MCRuntimeMain ---------------------------
(* Model values for RuntimeMain: time passes, or a run of a few events ends.
   An inference takes two units at most, with a file one. *)
EXTENDS RuntimeMain

With(file, faultsOf, outagesOf, clock) ==
  [file |-> file, faults |-> faultsOf, outages |-> outagesOf, clock |-> clock,
   kinds |-> IF clock THEN {"camera"} ELSE {"camera", "worker", "disk"},
   slow |-> IF file THEN 1 ELSE 2, shared |-> ~file,
   stop |-> ~clock, events |-> IF clock THEN 0 ELSE IF file THEN 1 ELSE 2, budget |-> 1]
MCSetups ==
  {[With(FALSE, 1, 0, FALSE) EXCEPT !.events = 1],
   [With(TRUE, 1, 0, FALSE) EXCEPT !.stop = FALSE], [With(TRUE, 1, 0, FALSE) EXCEPT !.events = 0],
   With(FALSE, 1, 0, TRUE), With(TRUE, 0, 0, TRUE), With(FALSE, 0, 1, TRUE)}
  \cup {[With(file, 2, 0, FALSE) EXCEPT !.kinds = {"camera", "disk"}, !.stop = FALSE, !.events = 0] :
        file \in BOOLEAN}

\* With time, a file is followed through its first generation and into the second.
FirstGeneration == setup.file /\ setup.clock => gen = 1
=============================================================================
