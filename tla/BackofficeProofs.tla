-------------------------- MODULE BackofficeProofs --------------------------
(***************************************************************************)
(* Theorems about the web application, for any cameras, requests, trees of  *)
(* locations, units, rules, incidents and bounds: no command is lost, a     *)
(* user is shown only what his units are responsible for, and the audit of  *)
(* every incident is true.                                                  *)
(***************************************************************************)
EXTENDS Backoffice, SequenceCounting, WellFoundedInduction

(***************************************************************************)
(* The desired document.  Everything rests on one fact about an update that *)
(* is under way (Current): the document it was computed from is not newer   *)
(* than the stored one, and is the stored one if it has its revision.  The  *)
(* store accepts an update only with a greater revision, so what it accepts *)
(* was computed from exactly what it replaces.                              *)
(***************************************************************************)
Current(r) == r.base.rev <= doc.rev /\ (r.base.rev = doc.rev => r.base = doc)
BaseInv ==
    /\ \A p \in Callers : At(p, "write") => Current(caller[p])
    /\ \A r \in late : Current(r)
\* Nobody has paused anything in a document that nobody has written.
FreshInv == doc.rev = 0 => ~doc.sp /\ ~doc.ap

\* The document is what its own pauses leave of it.
Withdrawn == doc.cams = Masked(doc.cams, doc.sp, doc.ap)
IInv == TypeOK /\ BaseInv /\ FreshInv /\ IntentKept /\ Withdrawn
-----------------------------------------------------------------------------
(***************************************************************************)
(* The documents that are sent.                                             *)
(***************************************************************************)
LEMMA MaskedType ==
    ASSUME NEW cams \in Registry, NEW sp \in BOOLEAN, NEW ap \in BOOLEAN
    PROVE  Masked(cams, sp, ap) \in Registry
<1> SUFFICES ASSUME NEW c \in Cameras
             PROVE (IF cams[c] = None THEN None
                    ELSE cams[c] \ (IF ap THEN Capabilities ELSE IF sp THEN {"Speed"} ELSE {}))
                   \in Modes
    BY DEF Masked, Registry
<1>1. CASE cams[c] = None
    BY <1>1 DEF Modes
<1>2. CASE cams[c] # None
    BY <1>2 DEF Modes, Registry
<1> QED BY <1>1, <1>2

\* Withdrawing twice is withdrawing once, and the wider pause contains the narrower.
LEMMA MaskedAgain ==
    ASSUME NEW cams \in Registry, NEW sp \in BOOLEAN, NEW ap \in BOOLEAN
    PROVE  /\ Masked(Masked(cams, sp, ap), sp, ap) = Masked(cams, sp, ap)
           /\ Masked(Masked(cams, TRUE, FALSE), TRUE, FALSE) = Masked(cams, TRUE, FALSE)
           /\ Masked(cams, FALSE, FALSE) = cams
           /\ cams = Masked(cams, sp, TRUE) =>
                /\ Masked(cams, FALSE, TRUE) = cams
                /\ Masked(Masked(cams, TRUE, FALSE), TRUE, TRUE) = Masked(cams, TRUE, FALSE)
<1>1. \A x \in Registry : \A c \in Cameras : x[c] = None \/ (x[c] \in SUBSET Capabilities)
    BY DEF Registry, Modes
<1>2. \A x \in Registry : x = [c \in Cameras |-> x[c]]
    BY DEF Registry
<1>3. Masked(cams, FALSE, FALSE) = cams
    BY <1>1, <1>2 DEF Masked
<1>4. Masked(Masked(cams, sp, ap), sp, ap) = Masked(cams, sp, ap)
    BY <1>1 DEF Masked, Capabilities
<1>5. Masked(Masked(cams, TRUE, FALSE), TRUE, FALSE) = Masked(cams, TRUE, FALSE)
    BY <1>1 DEF Masked, Capabilities
<1>6. ASSUME cams = Masked(cams, sp, TRUE)
      PROVE  /\ Masked(cams, FALSE, TRUE) = cams
             /\ Masked(Masked(cams, TRUE, FALSE), TRUE, TRUE) = Masked(cams, TRUE, FALSE)
  <2>1. \A c \in Cameras : cams[c] # None => cams[c] = {}
      BY <1>1, <1>6 DEF Masked
  <2> QED BY <2>1, <1>2 DEF Masked
<1> QED BY <1>3, <1>4, <1>5, <1>6

LEMMA UpdateType ==
    ASSUME NEW r \in Caller
    PROVE  Update(r) \in Document /\ Update(r).rev = r.base.rev + 1
<1>1. r.snap \in Registry /\ r.base \in Document
    BY DEF Caller
<1>2. r.base.cams \in Registry /\ r.base.rev \in Nat /\ r.base.sp \in BOOLEAN /\ r.base.ap \in BOOLEAN
    BY <1>1 DEF Document
<1>3. /\ Masked(r.snap, TRUE, TRUE) \in Registry
      /\ Masked(r.base.cams, TRUE, FALSE) \in Registry
      /\ Masked(r.snap, r.base.sp, r.base.ap) \in Registry
    BY <1>1, <1>2, MaskedType
<1>4. \A cams \in Registry, sp, ap \in BOOLEAN :
        Sends(r, cams, sp, ap) \in Document /\ Sends(r, cams, sp, ap).rev = r.base.rev + 1
    BY <1>2 DEF Sends, Document
<1>5. CASE r.cmd = "pause"
    BY <1>3, <1>4, <1>5 DEF Update
<1>6. CASE r.cmd = "resume"
    BY <1>1, <1>4, <1>6 DEF Update
<1>7. CASE r.cmd = "speedStop"
    BY <1>2, <1>3, <1>4, <1>7 DEF Update
<1>8. CASE r.cmd = "speedStart"
    BY <1>2, <1>4, <1>8 DEF Update
<1>9. CASE r.cmd \notin {"pause", "resume", "speedStop", "speedStart"}
  <2>1. Update(r) = Sends(r, Masked(r.snap, r.base.sp, r.base.ap), r.base.sp, r.base.ap)
      BY <1>9 DEF Update
  <2> QED BY <2>1, <1>2, <1>3, <1>4
<1> QED BY <1>5, <1>6, <1>7, <1>8, <1>9

\* What a writer sends withdraws what it pauses; a reconciler passes the pauses on.
LEMMA UpdateWithdrawn ==
    ASSUME NEW r \in Caller, r.base.cams = Masked(r.base.cams, r.base.sp, r.base.ap)
    PROVE  /\ Update(r).cams = Masked(Update(r).cams, Update(r).sp, Update(r).ap)
           /\ r.cmd \in Ticks => Update(r).sp = r.base.sp /\ Update(r).ap = r.base.ap
<1>1. /\ r.snap \in Registry /\ r.base.cams \in Registry
      /\ r.base.sp \in BOOLEAN /\ r.base.ap \in BOOLEAN
    BY DEF Caller, Document
<1>2. CASE r.cmd = "pause"
    BY <1>1, <1>2, MaskedAgain DEF Update, Sends, Ticks
<1>3. CASE r.cmd = "resume"
    BY <1>1, <1>3, MaskedAgain DEF Update, Sends, Ticks
<1>4. CASE r.cmd = "speedStop"
  <2>1. Update(r).cams = Masked(r.base.cams, TRUE, FALSE) /\ Update(r).sp = TRUE /\ Update(r).ap = r.base.ap
      BY <1>4 DEF Update, Sends
  <2>2. CASE r.base.ap = TRUE
      BY <1>1, <2>1, <2>2, <1>4, MaskedAgain DEF Ticks
  <2>3. CASE r.base.ap = FALSE
    <3>1. Masked(Masked(r.base.cams, TRUE, FALSE), TRUE, FALSE) = Masked(r.base.cams, TRUE, FALSE)
        BY <1>1, MaskedAgain
    <3> QED BY <2>1, <2>3, <1>4, <3>1 DEF Ticks
  <2> QED BY <1>1, <2>2, <2>3
<1>5. CASE r.cmd = "speedStart"
  <2>1. Update(r).cams = r.base.cams /\ Update(r).sp = FALSE /\ Update(r).ap = r.base.ap
      BY <1>5 DEF Update, Sends
  <2>2. CASE r.base.ap = TRUE
      BY <1>1, <2>1, <2>2, <1>5, MaskedAgain DEF Ticks
  <2>3. CASE r.base.ap = FALSE
    <3>1. Masked(r.base.cams, FALSE, FALSE) = r.base.cams
        BY <1>1, MaskedAgain
    <3> QED BY <2>1, <2>3, <1>5, <3>1 DEF Ticks
  <2> QED BY <1>1, <2>2, <2>3
<1>6. CASE r.cmd \notin {"pause", "resume", "speedStop", "speedStart"}
  <2>1. Update(r) = Sends(r, Masked(r.snap, r.base.sp, r.base.ap), r.base.sp, r.base.ap)
      BY <1>6 DEF Update
  <2>2. /\ Update(r).cams = Masked(r.snap, r.base.sp, r.base.ap)
        /\ Update(r).sp = r.base.sp /\ Update(r).ap = r.base.ap
      BY <2>1 DEF Sends
  <2>3. Masked(Masked(r.snap, r.base.sp, r.base.ap), r.base.sp, r.base.ap)
          = Masked(r.snap, r.base.sp, r.base.ap)
      BY <1>1, MaskedAgain
  <2> QED BY <2>2, <2>3
<1> QED BY <1>2, <1>3, <1>4, <1>5, <1>6
-----------------------------------------------------------------------------
(***************************************************************************)
(* What the store accepts.                                                  *)
(***************************************************************************)
DocInv == TypeOK /\ FreshInv /\ IntentKept /\ Withdrawn

\* An update the store accepts was computed from what it replaces.
LEMMA AcceptedIsCurrent ==
    ASSUME DocInv, NEW r \in Caller, Current(r), Newer(Update(r))
    PROVE  r.base = doc /\ Update(r).rev = doc.rev + 1
<1>1. doc.rev \in Nat /\ r.base.rev \in Nat
    BY DEF DocInv, TypeOK, Document, Caller
<1> QED BY <1>1, UpdateType DEF Current, Newer

\* The conjuncts about the document, after it has been accepted.
LEMMA StoresDoc ==
    ASSUME DocInv, NEW r \in Caller, Current(r), Newer(Update(r)), Stores(r)
    PROVE  /\ doc' \in Document /\ intent' \in [sp : BOOLEAN, ap : BOOLEAN]
           /\ FreshInv' /\ IntentKept' /\ Withdrawn'
           /\ doc'.rev = doc.rev + 1
<1>1. r.base = doc /\ Update(r).rev = doc.rev + 1 /\ Update(r) \in Document
    BY AcceptedIsCurrent, UpdateType
<1>2. doc.rev \in Nat /\ doc' = Update(r) /\ doc'.sp \in BOOLEAN /\ doc'.ap \in BOOLEAN
    BY <1>1 DEF DocInv, TypeOK, Document, Stores
<1>3. /\ Update(r).cams = Masked(Update(r).cams, Update(r).sp, Update(r).ap)
      /\ r.cmd \in Ticks => Update(r).sp = doc.sp /\ Update(r).ap = doc.ap
    BY <1>1, UpdateWithdrawn DEF DocInv, Withdrawn
<1>4. Withdrawn'
    BY <1>2, <1>3 DEF Withdrawn
<1>5. IntentKept' /\ intent' \in [sp : BOOLEAN, ap : BOOLEAN]
    BY <1>2, <1>3 DEF DocInv, IntentKept, Stores, TypeOK
<1> QED BY <1>1, <1>2, <1>4, <1>5 DEF FreshInv

\* The document of a first launch.
LEMMA LaunchesDoc ==
    ASSUME DocInv, NEW snap \in Registry, Launches(snap)
    PROVE  /\ doc' \in Document /\ intent' = intent
           /\ FreshInv' /\ IntentKept' /\ Withdrawn'
           /\ doc' = doc \/ (doc.rev = 0 /\ doc'.rev = 1)
<1>1. CASE doc' = doc
    BY <1>1 DEF DocInv, TypeOK, FreshInv, IntentKept, Withdrawn, Launches
<1>2. CASE doc' # doc
  <2>1. doc.rev = 0 /\ doc' = [rev |-> 1, cams |-> snap, sp |-> FALSE, ap |-> FALSE]
      BY <1>2 DEF Launches, Empty
  <2>2. doc' \in Document
      BY <2>1 DEF Document
  <2>3. doc'.cams = snap /\ doc'.sp = FALSE /\ doc'.ap = FALSE /\ doc'.rev = 1
      BY <2>1
  <2>4. Withdrawn'
      BY <2>3, MaskedAgain DEF Withdrawn
  <2> QED BY <2>1, <2>2, <2>3, <2>4 DEF DocInv, TypeOK, FreshInv, IntentKept, Launches
<1> QED BY <1>1, <1>2
-----------------------------------------------------------------------------
(***************************************************************************)
(* The invariant.                                                           *)
(***************************************************************************)
LEMMA InitIInv == Init => IInv
<1> SUFFICES ASSUME Init PROVE IInv
    OBVIOUS
<1>1. NoCameras \in Registry /\ [Cameras -> {None, Capabilities}] \subseteq Registry
    BY DEF NoCameras, Registry, Modes
<1>2. Empty \in Document
    BY <1>1 DEF Empty, Document
<1>3. Resting \in Caller
    BY <1>1, <1>2 DEF Resting, Caller, Jobs, CallerPlaces, RuntimeStates
<1>4. TypeOK
    BY <1>1, <1>2, <1>3 DEF Init, TypeOK, RuntimeStates
<1>5. BaseInv
    BY DEF Init, BaseInv, At, Resting
<1>6. FreshInv /\ IntentKept
    BY DEF Init, FreshInv, IntentKept, Empty
<1>7. Masked(NoCameras, FALSE, FALSE) = NoCameras
    BY <1>1, MaskedAgain
<1>8. Withdrawn
    BY <1>7 DEF Init, Withdrawn, Empty
<1> QED BY <1>4, <1>5, <1>6, <1>8 DEF IInv

\* A step keeps BaseInv if it leaves the document or moves it on, and makes no
\* request but from the document as it is.
LEMMA BaseKept ==
    ASSUME IInv, doc' \in Document, caller' \in [Callers -> Caller], late' \subseteq Caller,
           doc' = doc \/ doc'.rev > doc.rev,
           \A p \in Callers : caller'[p].at = "write" =>
               \/ caller[p].at = "write" /\ caller'[p].base = caller[p].base
               \/ caller'[p].base = doc,
           \A r \in late' : r \in late \/ \E p \in Callers : At(p, "write") /\ r = caller[p]
    PROVE  BaseInv'
<1>1. doc.rev \in Nat /\ doc'.rev \in Nat
    BY DEF IInv, TypeOK, Document
<1>2. \A b : /\ b \in Document
              /\ \/ b.rev <= doc.rev /\ (b.rev = doc.rev => b = doc)
                 \/ b = doc
              => b.rev <= doc'.rev /\ (b.rev = doc'.rev => b = doc')
    BY <1>1 DEF Document
<1>3. \A r \in Caller : Current(r) \/ r.base = doc => Current(r)'
    BY <1>2 DEF Current, Caller
<1>4. \A p \in Callers : At(p, "write")' => Current(caller[p])'
  <2> SUFFICES ASSUME NEW p \in Callers, caller'[p].at = "write" PROVE Current(caller[p])'
      BY DEF At
  <2>1. caller'[p].base \in Document
      BY DEF Caller
  <2>2. CASE caller[p].at = "write" /\ caller'[p].base = caller[p].base
      BY <1>2, <2>1, <2>2 DEF IInv, BaseInv, At, Current
  <2>3. CASE caller'[p].base = doc
      BY <1>2, <2>1, <2>3 DEF Current
  <2> QED BY <2>2, <2>3
<1>5. \A r \in late' : Current(r)'
    BY <1>3 DEF IInv, BaseInv, TypeOK
<1> QED BY <1>4, <1>5 DEF BaseInv

\* The rest of the invariant, for a step that leaves the document alone.
LEMMA DocKept ==
    ASSUME IInv, UNCHANGED <<doc, intent>> PROVE FreshInv' /\ IntentKept' /\ Withdrawn'
BY DEF IInv, FreshInv, IntentKept, Withdrawn

\* What a step may do to the callers: set one of them to a record that is no
\* request, or a request from the document as it is.
Harmless(r) == r \in Caller /\ (r.at = "write" => r.base = doc)
OneCaller(p) == \E r : Harmless(r) /\ caller' = [caller EXCEPT ![p] = r]

LEMMA OneCallerKeeps ==
    ASSUME IInv, NEW p \in Callers, OneCaller(p) \/ UNCHANGED caller
    PROVE  /\ caller' \in [Callers -> Caller]
           /\ \A q \in Callers : caller'[q].at = "write" =>
                \/ caller[q].at = "write" /\ caller'[q].base = caller[q].base
                \/ caller'[q].base = doc
BY DEF IInv, TypeOK, OneCaller, Harmless

LEMMA RestingHarmless == Harmless(Resting)
<1>1. NoCameras \in Registry
    BY DEF NoCameras, Registry, Modes
<1>2. Empty \in Document
    BY <1>1 DEF Empty, Document
<1> QED BY <1>1, <1>2 DEF Harmless, Resting, Caller, Jobs, CallerPlaces, RuntimeStates

\* A caller that quits, or goes on to a place where it sends no update.
LEMMA GoesHarmless ==
    ASSUME IInv, NEW p \in Callers, NEW place \in CallerPlaces \ {"write"},
           Goes(p, place) \/ Quits(p)
    PROVE  OneCaller(p)
<1>1. CASE Quits(p)
    BY <1>1, RestingHarmless DEF Quits, OneCaller
<1>2. CASE Goes(p, place)
  <2> DEFINE r == [caller[p] EXCEPT !.at = place]
  <2>1. caller' = [caller EXCEPT ![p] = r]
      BY <1>2 DEF Goes
  <2>2. r \in Caller /\ r.at = place
      BY DEF IInv, TypeOK, Caller
  <2> QED BY <2>1, <2>2 DEF OneCaller, Harmless
<1> QED BY <1>1, <1>2

LEMMA BeginsHarmless ==
    ASSUME IInv, NEW p \in Callers, NEW cmd \in Jobs, NEW place \in CallerPlaces \ {"write"},
           Begins(p, cmd, place)
    PROVE  OneCaller(p)
<1> DEFINE r == [Resting EXCEPT !.cmd = cmd, !.at = place]
<1>1. caller' = [caller EXCEPT ![p] = r]
    BY DEF Begins
<1>2. r \in Caller /\ r.at = place
    BY RestingHarmless DEF Harmless, Caller, Resting
<1> QED BY <1>1, <1>2 DEF OneCaller, Harmless

LEMMA SnapshotHarmless ==
    ASSUME IInv, NEW p \in Callers, Snapshot(p) \/ Look(p) PROVE OneCaller(p)
<1>1. CASE Snapshot(p)
  <2> DEFINE place == IF caller[p].cmd \in {"pause", "resume"} THEN "look" ELSE "read"
             r == [caller[p] EXCEPT !.snap = db, !.at = place]
  <2>1. caller' = [caller EXCEPT ![p] = r]
      BY <1>1 DEF Snapshot
  <2>2. r \in Caller /\ r.at # "write"
      BY DEF IInv, TypeOK, Caller, CallerPlaces
  <2> QED BY <2>1, <2>2 DEF OneCaller, Harmless
<1>2. CASE Look(p)
  <2> DEFINE r == [caller[p] EXCEPT !.told = rt, !.at = "read"]
  <2>1. CASE Quits(p) \/ Goes(p, "snapshot")
      BY <2>1, GoesHarmless DEF CallerPlaces
  <2>2. CASE caller' = [caller EXCEPT ![p] = r]
    <3>1. r \in Caller /\ r.at # "write"
        BY DEF IInv, TypeOK, Caller, CallerPlaces
    <3> QED BY <2>2, <3>1 DEF OneCaller, Harmless
  <2> QED BY <1>2, <2>1, <2>2 DEF Look
<1> QED BY <1>1, <1>2

LEMMA SnapshotStartHarmless ==
    ASSUME IInv, NEW p \in Callers, SnapshotStart(p) PROVE OneCaller(p)
<1> DEFINE r == [caller[p] EXCEPT !.snap = FightSources, !.at = "launch"]
<1>1. CASE Quits(p)
    BY <1>1, GoesHarmless DEF CallerPlaces
<1>2. CASE caller' = [caller EXCEPT ![p] = r]
  <2>1. FightSources \in Registry
      BY DEF FightSources, Registry, Modes, Capabilities
  <2>2. r \in Caller /\ r.at # "write"
      BY <2>1 DEF IInv, TypeOK, Caller, CallerPlaces
  <2> QED BY <1>2, <2>2 DEF OneCaller, Harmless
<1> QED BY <1>1, <1>2 DEF SnapshotStart

LEMMA ReadHarmless ==
    ASSUME IInv, NEW p \in Callers, Read(p) PROVE OneCaller(p)
<1> DEFINE r == [caller[p] EXCEPT !.base = doc]
           quiet == [caller[p] EXCEPT !.at = "checkHold"]
           sends == [r EXCEPT !.at = "write"]
<1>1. caller' = [caller EXCEPT ![p] = quiet] \/ caller' = [caller EXCEPT ![p] = sends]
    BY DEF Read
<1>2. quiet \in Caller /\ quiet.at # "write"
    BY DEF IInv, TypeOK, Caller, CallerPlaces
<1>3. sends \in Caller /\ sends.base = doc
  <2>1. r \in Caller /\ r.base = doc
      BY DEF IInv, TypeOK, Caller
  <2> HIDE DEF r
  <2> QED BY <2>1 DEF Caller, CallerPlaces
<1> QED BY <1>1, <1>2, <1>3 DEF OneCaller, Harmless

LEMMA WriteHarmless ==
    ASSUME IInv, NEW p \in Callers, Write(p) PROVE OneCaller(p)
<1> DEFINE next == NextAfter(caller[p].cmd)
           cmd == IF caller[p].cmd = "speedStart" THEN "speedTick" ELSE caller[p].cmd
           r == [caller[p] EXCEPT !.at = next, !.base = Empty, !.cmd = cmd]
<1>1. next \in CallerPlaces \ {"write"}
    BY DEF NextAfter, CallerPlaces
<1>2. CASE Quits(p)
    BY <1>2, GoesHarmless, <1>1
<1>3. CASE caller' = [caller EXCEPT ![p] = r]
  <2>1. Empty \in Document
      BY RestingHarmless DEF Harmless, Caller, Resting
  <2>2. cmd \in Jobs
      BY DEF IInv, TypeOK, Caller, Jobs
  <2>3. r \in Caller /\ r.at = next
      BY <1>1, <2>1, <2>2 DEF IInv, TypeOK, Caller
  <2> QED BY <1>1, <1>3, <2>3 DEF OneCaller, Harmless
<1> QED BY <1>2, <1>3 DEF Write

\* A step that touches neither the document nor what is late.
Quiet == UNCHANGED <<doc, intent, late>>
Plain ==
    /\ db' \in Registry /\ held' \in BOOLEAN /\ rt' \in RuntimeStates /\ lateStarts' \subseteq Registry
    /\ commands' \in Nat /\ changes' \in Nat /\ faults' \in Nat

LEMMA QuietStep ==
    ASSUME IInv, Quiet, Plain, UNCHANGED caller \/ \E p \in Callers : OneCaller(p)
    PROVE  IInv'
<1>1. FreshInv' /\ IntentKept' /\ Withdrawn'
    BY DocKept DEF Quiet
<1>2. /\ caller' \in [Callers -> Caller]
      /\ \A q \in Callers : caller'[q].at = "write" =>
           \/ caller[q].at = "write" /\ caller'[q].base = caller[q].base
           \/ caller'[q].base = doc
  <2>1. CASE UNCHANGED caller
      BY <2>1 DEF IInv, TypeOK
  <2>2. ASSUME NEW p \in Callers, OneCaller(p)
        PROVE  /\ caller' \in [Callers -> Caller]
               /\ \A q \in Callers : caller'[q].at = "write" =>
                    \/ caller[q].at = "write" /\ caller'[q].base = caller[q].base
                    \/ caller'[q].base = doc
      BY <2>2, OneCallerKeeps
  <2> QED BY <2>1, <2>2
<1>3. TypeOK'
    BY <1>2 DEF IInv, TypeOK, Quiet, Plain
<1>4. BaseInv'
    BY <1>2, <1>3, BaseKept DEF Quiet, TypeOK
<1> QED BY <1>1, <1>3, <1>4 DEF IInv

\* A step in which the document moves on.
LEMMA StoringStep ==
    ASSUME IInv, late' \subseteq late, Plain, UNCHANGED caller \/ \E p \in Callers : OneCaller(p),
           \/ \E r \in Caller : Current(r) /\ Newer(Update(r)) /\ Stores(r)
           \/ \E snap \in Registry : Launches(snap)
    PROVE  IInv'
<1>1. DocInv
    BY DEF IInv, DocInv
<1>2. /\ doc' \in Document /\ intent' \in [sp : BOOLEAN, ap : BOOLEAN]
      /\ FreshInv' /\ IntentKept' /\ Withdrawn'
      /\ doc' = doc \/ doc'.rev > doc.rev
  <2>1. ASSUME NEW r \in Caller, Current(r), Newer(Update(r)), Stores(r)
        PROVE  /\ doc' \in Document /\ intent' \in [sp : BOOLEAN, ap : BOOLEAN]
               /\ FreshInv' /\ IntentKept' /\ Withdrawn'
               /\ doc'.rev > doc.rev
    <3>1. doc.rev \in Nat
        BY DEF IInv, TypeOK, Document
    <3> QED BY <1>1, <2>1, <3>1, StoresDoc
  <2>2. ASSUME NEW snap \in Registry, Launches(snap)
        PROVE  /\ doc' \in Document /\ intent' \in [sp : BOOLEAN, ap : BOOLEAN]
               /\ FreshInv' /\ IntentKept' /\ Withdrawn'
               /\ doc' = doc \/ doc'.rev > doc.rev
      BY <1>1, <2>2, LaunchesDoc DEF IInv, TypeOK
  <2> QED BY <2>1, <2>2
<1>3. /\ caller' \in [Callers -> Caller]
      /\ \A q \in Callers : caller'[q].at = "write" =>
           \/ caller[q].at = "write" /\ caller'[q].base = caller[q].base
           \/ caller'[q].base = doc
  <2>1. CASE UNCHANGED caller
      BY <2>1 DEF IInv, TypeOK
  <2>2. ASSUME NEW p \in Callers, OneCaller(p)
        PROVE  /\ caller' \in [Callers -> Caller]
               /\ \A q \in Callers : caller'[q].at = "write" =>
                    \/ caller[q].at = "write" /\ caller'[q].base = caller[q].base
                    \/ caller'[q].base = doc
      BY <2>2, OneCallerKeeps
  <2> QED BY <2>1, <2>2
<1>4. TypeOK'
    BY <1>2, <1>3 DEF IInv, TypeOK, Plain
<1>5. BaseInv'
    BY <1>2, <1>3, <1>4, BaseKept DEF TypeOK
<1> QED BY <1>2, <1>4, <1>5 DEF IInv

LEMMA StepIInv == IInv /\ [Next]_vars => IInv'
<1> SUFFICES ASSUME IInv, [Next]_vars PROVE IInv'
    OBVIOUS
<1>0. /\ db \in Registry /\ held \in BOOLEAN /\ rt \in RuntimeStates /\ lateStarts \subseteq Registry
      /\ commands \in Nat /\ changes \in Nat /\ faults \in Nat
      /\ caller \in [Callers -> Caller] /\ late \subseteq Caller
    BY DEF IInv, TypeOK
<1>1. CASE UNCHANGED vars
    BY <1>0, <1>1, QuietStep DEF vars, Quiet, Plain
<1>2. CASE TickBegins
  <2>1. OneCaller(Daemon)
      BY <1>2, BeginsHarmless DEF TickBegins, Callers, Jobs, CallerPlaces
  <2> QED BY <1>0, <1>2, <2>1, QuietStep DEF TickBegins, Begins, Quiet, Plain, Callers
<1>3. ASSUME NEW p \in Web, NEW cmd \in Commands, CommandBegins(p, cmd) PROVE IInv'
  <2>1. cmd \in Jobs /\ FirstPlace(cmd) \in CallerPlaces \ {"write"} /\ p \in Callers
      BY DesiredAssumption DEF Jobs, FirstPlace, CallerPlaces, Callers
  <2>2. OneCaller(p)
      BY <1>3, <2>1, BeginsHarmless DEF CommandBegins
  <2> QED BY <1>0, <1>3, <2>1, <2>2, QuietStep DEF CommandBegins, Begins, Quiet, Plain
<1>4. ASSUME NEW p \in Callers, Snapshot(p) \/ SnapshotStart(p) \/ Look(p) \/ Read(p)
      PROVE IInv'
  <2>1. OneCaller(p)
      BY <1>4, SnapshotHarmless, SnapshotStartHarmless, ReadHarmless
  <2> QED BY <1>0, <1>4, <2>1, QuietStep
          DEF Snapshot, SnapshotStart, Look, Read, Quiet, Plain, StoresNothing, Others, NoFault
<1>5. ASSUME NEW p \in Callers, Write(p) PROVE IInv'
  <2>1. OneCaller(p)
      BY <1>5, WriteHarmless
  <2>2. Current(caller[p]) /\ caller[p] \in Caller
      BY <1>0, <1>5 DEF Write, IInv, BaseInv
  <2>3. Plain /\ late' = late
      BY <1>0, <1>5 DEF Write, Others, NoFault, Plain
  <2>4. CASE Newer(Update(caller[p])) /\ Stores(caller[p])
      BY <2>1, <2>2, <2>3, <2>4, StoringStep
  <2>5. CASE StoresNothing
      BY <2>1, <2>3, <2>5, QuietStep DEF StoresNothing, Quiet
  <2> QED BY <1>5, <2>4, <2>5 DEF Write
<1>6. ASSUME NEW p \in Callers, WriteFails(p) PROVE IInv'
  <2>1. OneCaller(p)
      BY <1>6, GoesHarmless DEF WriteFails, CallerPlaces
  <2>2. Current(caller[p]) /\ caller[p] \in Caller
      BY <1>0, <1>6 DEF WriteFails, IInv, BaseInv
  <2>3. Plain /\ late' = late
      BY <1>0, <1>6 DEF WriteFails, Others, Fault, Plain
  <2>4. CASE Stores(caller[p])
      BY <1>6, <2>1, <2>2, <2>3, <2>4, StoringStep DEF WriteFails
  <2>5. CASE StoresNothing
      BY <2>1, <2>3, <2>5, QuietStep DEF StoresNothing, Quiet
  <2> QED BY <1>6, <2>4, <2>5 DEF WriteFails
<1>7. ASSUME NEW p \in Callers, WriteTimesOut(p) PROVE IInv'
  <2>1. OneCaller(p) /\ At(p, "write") /\ late' = late \cup {caller[p]}
      BY <1>7, GoesHarmless DEF WriteTimesOut, CallerPlaces
  <2>2. Plain /\ UNCHANGED <<doc, intent>>
      BY <1>0, <1>7 DEF WriteTimesOut, StoresNothing, Fault, Plain
  <2>3. TypeOK'
      BY <1>0, <2>1, <2>2, OneCallerKeeps DEF IInv, TypeOK, Plain
  <2>4. BaseInv'
      BY <2>1, <2>2, <2>3, OneCallerKeeps, BaseKept DEF TypeOK
  <2> QED BY <2>2, <2>3, <2>4, DocKept DEF IInv
<1>8. ASSUME NEW p \in Callers,
             WriteRefused(p) \/ CallFails(p) \/ Unhold(p) \/ CheckHold(p) \/ CheckStatus(p)
               \/ Hold(p) \/ Halt(p) \/ LaunchTimesOut(p)
      PROVE IInv'
  <2>1. Quits(p) \/ (\E place \in CallerPlaces \ {"write"} : Goes(p, place))
      BY <1>8 DEF WriteRefused, CallFails, Unhold, CheckHold, CheckStatus, Hold, Halt,
                  LaunchTimesOut, Done, CallerPlaces
  <2>2. OneCaller(p)
      BY <2>1, GoesHarmless DEF CallerPlaces
  <2>3. Quiet /\ UNCHANGED <<db, commands, changes>> /\ faults' \in Nat
      BY <1>0, <1>8 DEF WriteRefused, CallFails, Unhold, CheckHold, CheckStatus, Hold, Halt,
                  LaunchTimesOut, Quiet, StoresNothing, Others, NoFault, Fault
  <2>4. held' \in BOOLEAN /\ rt' \in RuntimeStates /\ lateStarts' \subseteq Registry
      BY <1>0, <1>8 DEF WriteRefused, CallFails, Unhold, CheckHold, CheckStatus, Hold, Halt,
                  LaunchTimesOut, Others, RuntimeStates, Caller
  <2> QED BY <1>0, <2>2, <2>3, <2>4, QuietStep DEF Plain
<1>9. ASSUME NEW p \in Callers, Launch(p) PROVE IInv'
  <2>1. OneCaller(p)
      BY <1>9, GoesHarmless DEF Launch, CallerPlaces
  <2>2. Plain /\ late' = late
      BY <1>0, <1>9 DEF Launch, Launches, Plain, RuntimeStates
  <2>3. caller[p].snap \in Registry /\ Launches(caller[p].snap)
      BY <1>0, <1>9 DEF Launch, Caller
  <2> QED BY <2>1, <2>2, <2>3, StoringStep
<1>10. ASSUME NEW r \in late, LateWrite(r) PROVE IInv'
  <2>1. Plain /\ late' \subseteq late /\ caller' = caller
      BY <1>0, <1>10 DEF LateWrite, Plain
  <2>2. r \in Caller /\ Current(r)
      BY <1>0, <1>10 DEF IInv, BaseInv
  <2>3. CASE Newer(Update(r))
      BY <1>10, <2>1, <2>2, <2>3, StoringStep DEF LateWrite
  <2>4. CASE ~Newer(Update(r))
    <3>1. UNCHANGED <<doc, intent>> /\ late' = late \ {r}
        BY <1>10, <2>4 DEF LateWrite, StoresNothing
    <3>2. TypeOK'
        BY <1>0, <2>1, <3>1 DEF IInv, TypeOK, Plain
    <3>3. BaseInv'
        BY <2>1, <3>1, <3>2, BaseKept DEF TypeOK
    <3> QED BY <3>1, <3>2, <3>3, DocKept DEF IInv
  <2> QED BY <2>3, <2>4
<1>11. ASSUME NEW snap \in lateStarts, LateStart(snap) PROVE IInv'
  <2>1. Plain /\ late' = late /\ caller' = caller
      BY <1>0, <1>11 DEF LateStart, Launches, Plain, RuntimeStates
  <2> QED BY <1>0, <1>11, <2>1, StoringStep DEF LateStart
<1>12. CASE RuntimeExits
    BY <1>0, <1>12, QuietStep DEF RuntimeExits, StoresNothing, Fault, Quiet, Plain, RuntimeStates
<1>13. ASSUME NEW c \in Cameras, NEW mode \in Modes, Change(c, mode) PROVE IInv'
    BY <1>0, <1>13, QuietStep DEF Change, StoresNothing, Quiet, Plain, Registry
<1> QED BY <1>1, <1>2, <1>3, <1>4, <1>5, <1>6, <1>7, <1>8, <1>9, <1>10, <1>11, <1>12, <1>13
        DEF Next, CallerStep, FaultStep

\* Every state of the document and of the updates that are under way.
THEOREM Invariance == Spec => []IInv
BY InitIInv, StepIInv, PTL DEF Spec
-----------------------------------------------------------------------------
\* Types: TypeOK holds of every state.
THEOREM TypeCorrect == Spec => []TypeOK
<1>1. IInv => TypeOK
    BY DEF IInv
<1> QED BY <1>1, Invariance, PTL

LEMMA InvariantKeeps == IInv => PausesKept
<1>1. ASSUME IInv PROVE PausedWithdrawn
  <2> SUFFICES ASSUME NEW c \in Cameras, doc.cams[c] # None
               PROVE (doc.ap => doc.cams[c] = {}) /\ (doc.sp => "Speed" \notin doc.cams[c])
      BY DEF PausedWithdrawn
  <2>1. doc.cams[c] \in SUBSET Capabilities
      BY <1>1 DEF IInv, TypeOK, Document, Registry, Modes
  <2>2. doc.cams[c] = doc.cams[c] \ (IF doc.ap THEN Capabilities ELSE IF doc.sp THEN {"Speed"} ELSE {})
      BY <1>1 DEF IInv, Withdrawn, Masked
  <2> QED BY <2>1, <2>2 DEF Capabilities
<1> QED BY <1>1 DEF IInv, PausesKept

\* The document's pauses are those of the last command it accepted, and no
\* camera advertises what they withdraw, whatever the reconcilers do in between
\* and however late a request comes.
THEOREM NoIntentLost == Spec => []PausesKept
    BY Invariance, InvariantKeeps, PTL

\* A revision of the document names one content, and revisions only grow.
THEOREM RevisionsGrow == Spec => RevisionMonotone
<1> DEFINE Grows == doc' = doc \/ doc'.rev > doc.rev
<1>1. ASSUME IInv, Next PROVE Grows
  <2>1. doc.rev \in Nat
      BY <1>1 DEF IInv, TypeOK, Document
  <2>2. ASSUME NEW p \in Callers, Write(p) PROVE Grows
    <3>1. CASE Newer(Update(caller[p])) /\ Stores(caller[p])
        BY <3>1 DEF Newer, Stores
    <3>2. CASE StoresNothing
        BY <3>2 DEF StoresNothing
    <3> QED BY <2>2, <3>1, <3>2 DEF Write
  <2>3. ASSUME NEW p \in Callers, WriteFails(p) PROVE Grows
      BY <2>3 DEF WriteFails, Newer, Stores, StoresNothing
  <2>4. ASSUME NEW snap, Launches(snap) PROVE Grows
    <3>1. CASE doc' = doc
        BY <3>1
    <3>2. CASE doc' # doc
      <4>1. doc.rev = 0 /\ doc' = [Empty EXCEPT !.rev = 1, !.cams = snap]
          BY <2>4, <3>2 DEF Launches
      <4>2. doc'.rev = 1
          BY <4>1 DEF Empty
      <4> QED BY <4>1, <4>2
    <3> QED BY <3>1, <3>2
  <2>5. ASSUME NEW p \in Callers, Launch(p) PROVE Grows
      BY <2>4, <2>5 DEF Launch
  <2>6. ASSUME NEW p \in Callers, CallerStep(p), ~Write(p), ~Launch(p) PROVE doc' = doc
      BY <2>6 DEF CallerStep, Snapshot, SnapshotStart, Look, Read, WriteRefused, Unhold, CheckHold, CheckStatus,
                  Hold, Halt, StoresNothing
  <2>7. ASSUME NEW p \in Callers, FaultStep(p), ~WriteFails(p) PROVE doc' = doc
      BY <2>7 DEF FaultStep, WriteTimesOut, CallFails, LaunchTimesOut, StoresNothing
  <2>8. ASSUME NEW r \in late, LateWrite(r) PROVE Grows
      BY <2>8 DEF LateWrite, Stores, StoresNothing, Newer
  <2>9. ASSUME NEW snap \in lateStarts, LateStart(snap) PROVE Grows
      BY <2>4, <2>9 DEF LateStart
  <2>10. CASE TickBegins \/ \E p \in Web, cmd \in Commands : CommandBegins(p, cmd)
      BY <2>10 DEF TickBegins, CommandBegins, Begins
  <2>11. CASE RuntimeExits \/ \E c \in Cameras, mode \in Modes : Change(c, mode)
      BY <2>11 DEF RuntimeExits, Change, StoresNothing
  <2> QED BY <1>1, <2>2, <2>3, <2>5, <2>6, <2>7, <2>8, <2>9, <2>10, <2>11 DEF Next
<1>2. ASSUME IInv, [Next]_vars PROVE [RevisionStep]_vars
  <2>1. doc.rev \in Nat /\ doc'.rev \in Nat
    <3>1. IInv'
        BY <1>2, StepIInv
    <3> QED BY <1>2, <3>1 DEF IInv, TypeOK, Document
  <2>2. CASE Next
    <3>1. Grows
        BY <1>1, <1>2, <2>2
    <3> QED BY <2>1, <3>1 DEF RevisionStep
  <2>3. CASE UNCHANGED vars
      BY <2>3
  <2> QED BY <1>2, <2>2, <2>3
<1>3. IInv /\ [Next]_vars => [RevisionStep]_vars
    BY <1>2
<1> QED BY <1>3, Invariance, PTL DEF Spec, RevisionMonotone
-----------------------------------------------------------------------------
(***************************************************************************)
(* Recurrences.  Induction over 0..N is the well-foundedness of its initial *)
(* segments under inclusion.                                                *)
(***************************************************************************)
LEMMA UpToAll ==
    ASSUME NEW N \in Nat, NEW S, 0 \in S, \A n \in 0..(N - 1) : n \in S => n + 1 \in S
    PROVE  \A n \in 0..N : n \in S
<1> DEFINE T == {U \in FiniteSubsetsOf(Nat) : \E k \in 0..N : k \notin S /\ U = 0..k}
           R == StrictSubsetOrdering(Nat)
<1> SUFFICES ASSUME NEW m \in 0..N, m \notin S PROVE FALSE
    OBVIOUS
<1>1. \A k \in 0..N : k \notin S => 0..k \in T
  <2> TAKE k \in 0..N
  <2>1. IsFiniteSet(0..k) /\ 0..k \in SUBSET Nat
      BY FS_Interval
  <2> QED BY <2>1 DEF FiniteSubsetsOf
<1>2. IsWellFoundedOn(R, FiniteSubsetsOf(Nat))
    BY FS_StrictSubsetOrderingWellFounded
<1>3. T \subseteq FiniteSubsetsOf(Nat) /\ T # {}
    BY <1>1
<1> HIDE DEF T, R
<1>4. PICK U \in T : \A V \in T : ~(<<V, U>> \in R)
    BY <1>2, <1>3, WFMin
<1>5. PICK k \in 0..N : k \notin S /\ U = 0..k
    BY <1>4 DEF T
<1>6. k # 0 /\ k - 1 \in 0..(N - 1) /\ (k - 1) + 1 = k
    BY <1>5
<1>7. k - 1 \notin S /\ k - 1 \in 0..N
    BY <1>5, <1>6
<1>8. 0..(k - 1) \in T
    BY <1>1, <1>7
<1>9. <<0..(k - 1), 0..k>> \in R
  <2>1. 0..(k - 1) \subseteq 0..k /\ k \in 0..k /\ k \notin 0..(k - 1) /\ 0..k \subseteq Nat
      BY <1>6
  <2> QED BY <2>1 DEF R, StrictSubsetOrdering
<1> QED BY <1>4, <1>5, <1>8, <1>9

\* What a definition by recursion over 0..N says of a function.
Solves(g, N, b, F) == g[0] = b /\ \A n \in 1..N : g[n] = F[n][g[n - 1]]

\* Every such definition has a solution.
LEMMA Iterates ==
    ASSUME NEW N \in Nat, NEW D, NEW b \in D, NEW F \in [1..N -> [D -> D]]
    PROVE  \E g \in [0..N -> D] : Solves(g, N, b, F)
<1> DEFINE S == {k \in 0..N : \E g \in [0..k -> D] : Solves(g, k, b, F)}
<1>1. 0 \in S
  <2> DEFINE g == [n \in 0..0 |-> b]
  <2>1. g \in [0..0 -> D] /\ g[0] = b /\ 1..0 = {}
      OBVIOUS
  <2> HIDE DEF g
  <2>2. Solves(g, 0, b, F)
      BY <2>1 DEF Solves
  <2>3. 0 \in 0..N
      OBVIOUS
  <2> QED BY <2>1, <2>2, <2>3
<1>2. ASSUME NEW k \in 0..(N - 1), k \in S PROVE k + 1 \in S
  <2>1. PICK g \in [0..k -> D] : Solves(g, k, b, F)
      BY <1>2
  <2> DEFINE h == [n \in 0..(k + 1) |-> IF n = k + 1 THEN F[k + 1][g[k]] ELSE g[n]]
  <2>2. k \in 0..k /\ k + 1 \in 1..N /\ k + 1 \in 0..N
      OBVIOUS
  <2>3. h \in [0..(k + 1) -> D]
      BY <2>2
  <2>4. h[0] = b /\ h[k + 1] = F[k + 1][h[(k + 1) - 1]]
      BY <2>1 DEF Solves
  <2>5. ASSUME NEW n \in 1..k PROVE h[n] = F[n][h[n - 1]]
    <3>1. n \in 0..k /\ n - 1 \in 0..k /\ n # k + 1 /\ n - 1 # k + 1
        OBVIOUS
    <3> QED BY <2>1, <3>1 DEF Solves
  <2>6. \A n \in 1..(k + 1) : n = k + 1 \/ n \in 1..k
      OBVIOUS
  <2> HIDE DEF h
  <2>7. \A n \in 1..(k + 1) : h[n] = F[n][h[n - 1]]
      BY <2>4, <2>5, <2>6
  <2> QED BY <2>2, <2>3, <2>4, <2>7 DEF Solves
<1>3. \A k \in 0..N : k \in S
  <2> HIDE DEF S
  <2> QED BY <1>1, <1>2, UpToAll
<1> QED BY <1>3

\* And a function that satisfies the equations stays in the set they stay in.
Follows(w, N, D, b, F) == w[0] = b /\ \A n \in 1..N : w[n - 1] \in D => w[n] = F[n][w[n - 1]]
LEMMA IteratesType ==
    ASSUME NEW N \in Nat, NEW D, NEW b \in D, NEW F \in [1..N -> [D -> D]], NEW w,
           Follows(w, N, D, b, F)
    PROVE  \A n \in 0..N : w[n] \in D
<1> DEFINE S == {n \in 0..N : w[n] \in D}
<1>1. 0 \in S
    BY DEF Follows
<1>2. \A n \in 0..(N - 1) : n \in S => n + 1 \in S
  <2> TAKE n \in 0..(N - 1)
  <2>1. n + 1 \in 1..N /\ (n + 1) - 1 = n /\ n + 1 \in 0..N
      OBVIOUS
  <2>2. \A m \in 1..N, X \in D : F[m][X] \in D
      OBVIOUS
  <2> QED BY <2>1, <2>2 DEF Follows
<1> HIDE DEF S
<1>3. \A n \in 0..N : n \in S
    BY <1>1, <1>2, UpToAll
<1> QED BY <1>3 DEF S
-----------------------------------------------------------------------------
(***************************************************************************)
(* The walks over the tree.                                                 *)
(***************************************************************************)
Tree == parent \in [Locations -> Locations \cup {NoLocation}]

UpStep(X) == UNION {{x, parent[x]} \ {NoLocation} : x \in X}
UpBody(l, up) == [n \in 0..Depth |-> IF n = 0 THEN {l}
                    ELSE UNION {{x, parent[x]} \ {NoLocation} : x \in up[n - 1]}]
UpWalk(l) == CHOOSE up : up = UpBody(l, up)

DownStep(covered, X) == X \cup {c \in Locations \ covered : parent[c] \in X /\ Effective(c)}
DownBody(root, covered, down) == [n \in 0..Depth |-> IF n = 0 THEN {root}
        ELSE LET above == down[n - 1]
             IN above \cup {c \in Locations \ covered : parent[c] \in above /\ Effective(c)}]
DownWalk(root, covered) == CHOOSE down : down = DownBody(root, covered, down)

RowStep(units, k, X) ==
  LET c == Coverages[k] IN
  IF k \notin covering \/ c.unit \notin units \/ ~Effective(c.loc) THEN X
  ELSE X \cup IF c.deep THEN Below(c.loc, X) ELSE {c.loc}
RowBody(units, seen) == [k \in 0..Len(Coverages) |-> IF k = 0 THEN {}
        ELSE LET c == Coverages[k] IN
             IF k \notin covering \/ c.unit \notin units \/ ~Effective(c.loc) THEN seen[k - 1]
             ELSE seen[k - 1] \cup IF c.deep THEN Below(c.loc, seen[k - 1]) ELSE {c.loc}]
RowWalk(units) == CHOOSE seen : seen = RowBody(units, seen)

\* The recursive definitions are what their equations say.
LEMMA WalksAre ==
    /\ \A l : Ancestors(l) = UpWalk(l)[Depth]
    /\ \A root, covered : Below(root, covered) = DownWalk(root, covered)[Depth]
    /\ \A units : CoveredBy(units) = RowWalk(units)[Len(Coverages)]
<1>1. \A l : Ancestors(l) = UpWalk(l)[Depth]
    BY DEF Ancestors, UpWalk, UpBody
<1>2. \A root, covered : Below(root, covered) = DownWalk(root, covered)[Depth]
    BY DEF Below, DownWalk, DownBody
<1>3. \A units : CoveredBy(units) = RowWalk(units)[Len(Coverages)]
    BY DEF CoveredBy, RowWalk, RowBody
<1> QED BY <1>1, <1>2, <1>3

LEMMA DepthIsNat == Depth \in Nat
BY ScopeAssumption, FS_CardinalityType DEF Depth

LEMMA CoveragesAre ==
    /\ Len(Coverages) \in Nat /\ DOMAIN Coverages = 1..Len(Coverages)
    /\ \A k \in 1..Len(Coverages) : Coverages[k] \in [unit : Units, loc : Locations, deep : BOOLEAN] /\ Coverages[k].loc \in Locations
<1> DEFINE Row == [unit : Units, loc : Locations, deep : BOOLEAN]
<1>1. Coverages \in Seq(Row)
    BY ScopeAssumption
<1>2. \A r \in Row : r.loc \in Locations
    OBVIOUS
<1> HIDE DEF Row
<1>3. Len(Coverages) \in Nat /\ DOMAIN Coverages = 1..Len(Coverages) /\ Coverages \in [1..Len(Coverages) -> Row]
    BY <1>1, LenProperties
<1> QED BY <1>2, <1>3 DEF Row

LEMMA UpWalkIs ==
    ASSUME Tree, NEW l \in Locations
    PROVE  /\ UpWalk(l) \in [0..Depth -> SUBSET Locations]
           /\ UpWalk(l)[0] = {l}
           /\ \A n \in 1..Depth : UpWalk(l)[n] = UpStep(UpWalk(l)[n - 1])
<1> DEFINE D == SUBSET Locations
           F == [n \in 1..Depth |-> [X \in D |-> UpStep(X)]]
<1>0. Depth \in Nat
    BY DepthIsNat
<1>1. \A X \in D : UpStep(X) \in D
    BY DEF Tree, UpStep
<1>2. {l} \in D /\ F \in [1..Depth -> [D -> D]]
    BY <1>1
<1>3. \A n \in 1..Depth, X \in D : F[n][X] = UpStep(X)
    OBVIOUS
<1> HIDE DEF F, D
<1>4. PICK g \in [0..Depth -> D] : Solves(g, Depth, {l}, F)
    BY <1>0, <1>2, Iterates
<1>5. \A n \in 1..Depth : n - 1 \in 0..Depth /\ n \in 0..Depth /\ n # 0
    BY <1>0
<1>6. 0 \in 0..Depth /\ \A n \in 0..Depth : n = 0 \/ n \in 1..Depth
    BY <1>0
<1>7. g = UpBody(l, g)
    BY <1>3, <1>4, <1>5, <1>6 DEF UpBody, UpStep, Solves
<1>8. UpWalk(l) = UpBody(l, UpWalk(l))
    BY <1>7 DEF UpWalk
<1> DEFINE w == UpWalk(l)
<1> HIDE DEF w
<1>9. w = UpBody(l, w)
    BY <1>8 DEF w
<1>10. w[0] = {l} /\ \A n \in 1..Depth : w[n] = UpStep(w[n - 1])
    BY <1>5, <1>6, <1>9 DEF UpBody, UpStep
<1>11. Follows(w, Depth, D, {l}, F)
    BY <1>3, <1>10 DEF Follows
<1>12. \A n \in 0..Depth : w[n] \in D
    BY <1>0, <1>2, <1>11, IteratesType
<1>13. w \in [0..Depth -> D]
    BY <1>9, <1>12 DEF UpBody
<1> QED BY <1>10, <1>13 DEF w, D

LEMMA DownWalkIs ==
    ASSUME NEW root \in Locations, NEW covered
    PROVE  /\ DownWalk(root, covered) \in [0..Depth -> SUBSET Locations]
           /\ DownWalk(root, covered)[0] = {root}
           /\ \A n \in 1..Depth : DownWalk(root, covered)[n] = DownStep(covered, DownWalk(root, covered)[n - 1])
<1> DEFINE D == SUBSET Locations
           F == [n \in 1..Depth |-> [X \in D |-> DownStep(covered, X)]]
<1>0. Depth \in Nat
    BY DepthIsNat
<1>1. \A X \in D : DownStep(covered, X) \in D
    BY DEF DownStep
<1>2. {root} \in D /\ F \in [1..Depth -> [D -> D]]
    BY <1>1
<1>3. \A n \in 1..Depth, X \in D : F[n][X] = DownStep(covered, X)
    OBVIOUS
<1> HIDE DEF F, D
<1>4. PICK g \in [0..Depth -> D] : Solves(g, Depth, {root}, F)
    BY <1>0, <1>2, Iterates
<1>5. \A n \in 1..Depth : n - 1 \in 0..Depth /\ n \in 0..Depth /\ n # 0
    BY <1>0
<1>6. 0 \in 0..Depth /\ \A n \in 0..Depth : n = 0 \/ n \in 1..Depth
    BY <1>0
<1>7. g = DownBody(root, covered, g)
    BY <1>3, <1>4, <1>5, <1>6 DEF DownBody, DownStep, Solves
<1>8. DownWalk(root, covered) = DownBody(root, covered, DownWalk(root, covered))
    BY <1>7 DEF DownWalk
<1> DEFINE w == DownWalk(root, covered)
<1> HIDE DEF w
<1>9. w = DownBody(root, covered, w)
    BY <1>8 DEF w
<1>10. w[0] = {root} /\ \A n \in 1..Depth : w[n] = DownStep(covered, w[n - 1])
    BY <1>5, <1>6, <1>9 DEF DownBody, DownStep
<1>11. Follows(w, Depth, D, {root}, F)
    BY <1>3, <1>10 DEF Follows
<1>12. \A n \in 0..Depth : w[n] \in D
    BY <1>0, <1>2, <1>11, IteratesType
<1>13. w \in [0..Depth -> D]
    BY <1>9, <1>12 DEF DownBody
<1> QED BY <1>10, <1>13 DEF w, D

LEMMA RowWalkIs ==
    ASSUME NEW units
    PROVE  /\ RowWalk(units) \in [0..Len(Coverages) -> SUBSET Locations]
           /\ RowWalk(units)[0] = {}
           /\ \A k \in 1..Len(Coverages) : RowWalk(units)[k] = RowStep(units, k, RowWalk(units)[k - 1])
<1> DEFINE D == SUBSET Locations
           N == Len(Coverages)
           F == [k \in 1..N |-> [X \in D |-> RowStep(units, k, X)]]
<1>0. N \in Nat /\ \A k \in 1..N : Coverages[k].loc \in Locations
    BY CoveragesAre
<1>1. \A k \in 1..N, X \in D : RowStep(units, k, X) \in D
  <2> SUFFICES ASSUME NEW k \in 1..N, NEW X \in D PROVE RowStep(units, k, X) \in D
      OBVIOUS
  <2>1. Below(Coverages[k].loc, X) \in D
      BY <1>0, DownWalkIs, WalksAre, DepthIsNat
  <2> QED BY <1>0, <2>1 DEF RowStep
<1>2. {} \in D /\ F \in [1..N -> [D -> D]]
    BY <1>1
<1>3. \A k \in 1..N, X \in D : F[k][X] = RowStep(units, k, X)
    OBVIOUS
<1> HIDE DEF F, D, N
<1>4. PICK g \in [0..N -> D] : Solves(g, N, {}, F)
    BY <1>0, <1>2, Iterates
<1>5. \A n \in 1..N : n - 1 \in 0..N /\ n \in 0..N /\ n # 0
    BY <1>0
<1>6. 0 \in 0..N /\ \A n \in 0..N : n = 0 \/ n \in 1..N
    BY <1>0
<1>7. g = RowBody(units, g)
    BY <1>3, <1>4, <1>5, <1>6 DEF RowBody, RowStep, Solves, N
<1>8. RowWalk(units) = RowBody(units, RowWalk(units))
    BY <1>7 DEF RowWalk
<1> DEFINE w == RowWalk(units)
<1> HIDE DEF w
<1>9. w = RowBody(units, w)
    BY <1>8 DEF w
<1>10. w[0] = {} /\ \A n \in 1..N : w[n] = RowStep(units, n, w[n - 1])
    BY <1>5, <1>6, <1>9 DEF RowBody, RowStep, N
<1>11. Follows(w, N, D, {}, F)
    BY <1>3, <1>10 DEF Follows
<1>12. \A n \in 0..N : w[n] \in D
    BY <1>0, <1>2, <1>11, IteratesType
<1>13. w \in [0..N -> D]
    BY <1>9, <1>12 DEF RowBody, N
<1> QED BY <1>10, <1>13 DEF w, D, N

-----------------------------------------------------------------------------
\* Going up, nothing is forgotten, and what is above the parent is above the child
\* one step later.
LEMMA UpGrows ==
    ASSUME Tree, NEW l \in Locations
    PROVE  /\ l \in Ancestors(l)
           /\ \A n \in 0..Depth : UpWalk(l)[n] \subseteq Ancestors(l)
<1> DEFINE w == UpWalk(l)
           S == {n \in 0..Depth : \A m \in 0..n : w[m] \subseteq w[n]}
<1>0. Depth \in Nat
    BY DepthIsNat
<1>1. /\ w \in [0..Depth -> SUBSET Locations] /\ w[0] = {l}
      /\ \A n \in 1..Depth : w[n] = UpStep(w[n - 1])
    BY UpWalkIs
<1> HIDE DEF w
<1>2. \A X \in SUBSET Locations : X \subseteq UpStep(X)
    BY ScopeAssumption DEF UpStep
<1>3. 0 \in S
    BY <1>0, <1>1
<1>4. \A n \in 0..(Depth - 1) : n \in S => n + 1 \in S
  <2> SUFFICES ASSUME NEW n \in 0..(Depth - 1), n \in S PROVE n + 1 \in S
      OBVIOUS
  <2>1. n \in 0..Depth /\ n + 1 \in 0..Depth /\ n + 1 \in 1..Depth /\ (n + 1) - 1 = n
      BY <1>0
  <2>2. w[n] \subseteq w[n + 1]
      BY <1>1, <1>2, <2>1
  <2>3. \A m \in 0..(n + 1) : m = n + 1 \/ m \in 0..n
      BY <2>1
  <2> QED BY <2>1, <2>2, <2>3
<1> HIDE DEF S
<1>5. \A n \in 0..Depth : n \in S
    BY <1>0, <1>3, <1>4, UpToAll
<1>6. \A n \in 0..Depth : w[n] \subseteq w[Depth]
    BY <1>0, <1>5 DEF S
<1>7. w[Depth] = Ancestors(l)
    BY WalksAre DEF w
<1> QED BY <1>0, <1>1, <1>6, <1>7 DEF w

LEMMA UpFromChild ==
    ASSUME Tree, NEW c \in Locations, parent[c] \in Locations
    PROVE  \A n \in 0..Depth : n < Depth => UpWalk(parent[c])[n] \subseteq UpWalk(c)[n + 1]
<1> DEFINE v == UpWalk(parent[c])
           w == UpWalk(c)
           S == {n \in 0..Depth : n < Depth => v[n] \subseteq w[n + 1]}
<1>0. Depth \in Nat
    BY DepthIsNat
<1>1. /\ v \in [0..Depth -> SUBSET Locations] /\ v[0] = {parent[c]}
      /\ \A n \in 1..Depth : v[n] = UpStep(v[n - 1])
    BY UpWalkIs
<1>2. /\ w \in [0..Depth -> SUBSET Locations] /\ w[0] = {c}
      /\ \A n \in 1..Depth : w[n] = UpStep(w[n - 1])
    BY UpWalkIs
<1> HIDE DEF v, w
<1>3. parent[c] \in UpStep({c})
    BY ScopeAssumption DEF UpStep
<1>4. \A X, Y \in SUBSET Locations : X \subseteq Y => UpStep(X) \subseteq UpStep(Y)
    BY DEF UpStep
<1>5. 0 \in S
  <2>1. 0 < Depth => 1 \in 1..Depth /\ 1 - 1 = 0 /\ 0 + 1 = 1
      BY <1>0
  <2>2. 0 < Depth => w[0 + 1] = UpStep({c})
      BY <1>2, <2>1
  <2>3. 0 < Depth => v[0] \subseteq w[0 + 1]
      BY <1>1, <1>3, <2>2
  <2> QED BY <1>0, <2>3
<1>6. \A n \in 0..(Depth - 1) : n \in S => n + 1 \in S
  <2> SUFFICES ASSUME NEW n \in 0..(Depth - 1), n \in S, n + 1 < Depth PROVE v[n + 1] \subseteq w[(n + 1) + 1]
      BY <1>0
  <2>1. /\ n \in 0..Depth /\ n < Depth /\ n + 1 \in 0..Depth /\ n + 1 \in 1..Depth /\ (n + 1) - 1 = n
        /\ (n + 1) + 1 \in 1..Depth /\ ((n + 1) + 1) - 1 = n + 1
      BY <1>0
  <2>2. v[n] \subseteq w[n + 1]
      BY <2>1
  <2>3. v[n + 1] = UpStep(v[n]) /\ w[(n + 1) + 1] = UpStep(w[n + 1])
      BY <1>1, <1>2, <2>1
  <2> QED BY <1>1, <1>2, <1>4, <2>1, <2>2, <2>3
<1> HIDE DEF S
<1>7. \A n \in 0..Depth : n \in S
    BY <1>0, <1>5, <1>6, UpToAll
<1> QED BY <1>7 DEF S, v, w

\* What the walk down finds is open, and going up from there finds its root.
LEMMA DownIsBelow ==
    ASSUME Tree, NEW root \in Locations, Effective(root), NEW covered
    PROVE  \A x \in Below(root, covered) : x \in Locations /\ Effective(x) /\ root \in Ancestors(x)
<1> DEFINE d == DownWalk(root, covered)
           S == {n \in 0..Depth : \A x \in d[n] : Effective(x) /\ \E m \in 0..n : root \in UpWalk(x)[m]}
<1>0. Depth \in Nat
    BY DepthIsNat
<1>1. /\ d \in [0..Depth -> SUBSET Locations] /\ d[0] = {root}
      /\ \A n \in 1..Depth : d[n] = DownStep(covered, d[n - 1])
    BY DownWalkIs
<1> HIDE DEF d
<1>2. 0 \in S
    BY <1>0, <1>1, UpWalkIs
<1>3. \A n \in 0..(Depth - 1) : n \in S => n + 1 \in S
  <2> SUFFICES ASSUME NEW n \in 0..(Depth - 1), n \in S, NEW x \in d[n + 1]
               PROVE  Effective(x) /\ \E m \in 0..(n + 1) : root \in UpWalk(x)[m]
      BY <1>0
  <2>1. n \in 0..Depth /\ n < Depth /\ n + 1 \in 1..Depth /\ (n + 1) - 1 = n
      BY <1>0
  <2>2. d[n + 1] = DownStep(covered, d[n]) /\ d[n] \subseteq Locations
      BY <1>1, <2>1
  <2>3. CASE x \in d[n]
      BY <2>1, <2>3
  <2>4. CASE x \in Locations /\ parent[x] \in d[n] /\ Effective(x)
    <3>1. PICK m \in 0..n : root \in UpWalk(parent[x])[m]
        BY <2>1, <2>4
    <3>2. m \in 0..Depth /\ m < Depth /\ m + 1 \in 0..(n + 1)
        BY <1>0, <2>1
    <3>3. UpWalk(parent[x])[m] \subseteq UpWalk(x)[m + 1]
        BY <2>2, <2>4, <3>2, UpFromChild
    <3> QED BY <2>4, <3>1, <3>2, <3>3
  <2> QED BY <2>2, <2>3, <2>4 DEF DownStep
<1> HIDE DEF S
<1>4. \A n \in 0..Depth : n \in S
    BY <1>0, <1>2, <1>3, UpToAll
<1>5. Below(root, covered) = d[Depth]
    BY WalksAre DEF d
<1>6. \A x \in d[Depth] : x \in Locations /\ Effective(x) /\ \E m \in 0..Depth : root \in UpWalk(x)[m]
    BY <1>0, <1>1, <1>4 DEF S
<1> QED BY <1>5, <1>6, UpGrows

\* A location that is covered is covered by one of the rows.
LEMMA CoveredByRow ==
    ASSUME Tree, NEW units
    PROVE  \A l \in CoveredBy(units) :
             /\ l \in Locations /\ Effective(l)
             /\ \E k \in covering \cap (1..Len(Coverages)) :
                  /\ Coverages[k].unit \in units
                  /\ Coverages[k].loc = l \/ (Coverages[k].deep /\ Coverages[k].loc \in Ancestors(l))
<1> DEFINE N == Len(Coverages)
           w == RowWalk(units)
           ByRow(l) == \E k \in covering \cap (1..N) :
                  /\ Coverages[k].unit \in units
                  /\ Coverages[k].loc = l \/ (Coverages[k].deep /\ Coverages[k].loc \in Ancestors(l))
           S == {n \in 0..N : \A l \in w[n] : Effective(l) /\ ByRow(l)}
<1>0. N \in Nat
    BY CoveragesAre
<1>1. /\ w \in [0..N -> SUBSET Locations] /\ w[0] = {}
      /\ \A n \in 1..N : w[n] = RowStep(units, n, w[n - 1])
    BY RowWalkIs
<1> HIDE DEF w, N
<1>2. 0 \in S
    BY <1>0, <1>1
<1>3. \A n \in 0..(N - 1) : n \in S => n + 1 \in S
  <2> SUFFICES ASSUME NEW n \in 0..(N - 1), n \in S, NEW l \in w[n + 1]
               PROVE  Effective(l) /\ ByRow(l)
      BY <1>0
  <2> DEFINE c == Coverages[n + 1]
  <2>1. n \in 0..N /\ n + 1 \in 1..N /\ (n + 1) - 1 = n
      BY <1>0
  <2>2. w[n + 1] = RowStep(units, n + 1, w[n])
      BY <1>1, <2>1
  <2>3. CASE l \in w[n]
      BY <2>1, <2>3
  <2>4. CASE l \notin w[n]
    <3>1. /\ n + 1 \in covering /\ c.unit \in units /\ Effective(c.loc)
          /\ l \in IF c.deep THEN Below(c.loc, w[n]) ELSE {c.loc}
        BY <2>2, <2>4 DEF RowStep
    <3>2. c.loc \in Locations
        BY <2>1, CoveragesAre DEF N
    <3>3. Effective(l) /\ (c.loc = l \/ (c.deep /\ c.loc \in Ancestors(l)))
      <4>1. CASE c.deep
          BY <3>1, <3>2, <4>1, DownIsBelow
      <4>2. CASE ~c.deep
          BY <3>1, <4>2
      <4> QED BY <4>1, <4>2
    <3> QED BY <2>1, <3>1, <3>3
  <2> QED BY <2>3, <2>4
<1> HIDE DEF S
<1>4. \A n \in 0..N : n \in S
    BY <1>0, <1>2, <1>3, UpToAll
<1>5. CoveredBy(units) = w[N]
    BY WalksAre DEF w, N
<1>6. \A l \in w[N] : l \in Locations /\ Effective(l) /\ ByRow(l)
    BY <1>0, <1>1, <1>4 DEF S
<1> QED BY <1>5, <1>6 DEF N

\* Whatever the tree, the units, the rows and the assignments are.
LEMMA ContainedInTree == Tree => ScopeContained
<1> SUFFICES ASSUME Tree, NEW user \in Users \ {Admin}, NEW l \in CoveredBy(UnitsOf(user))
             PROVE  UnitsOf(user) \cap UnitsCovering(l) # {}
    BY DEF ScopeContained
<1>1. l \in Locations /\ Effective(l) /\ l # NoLocation
    BY CoveredByRow, ScopeAssumption
<1>2. PICK k \in covering \cap (1..Len(Coverages)) :
         /\ Coverages[k].unit \in UnitsOf(user)
         /\ Coverages[k].loc = l \/ (Coverages[k].deep /\ Coverages[k].loc \in Ancestors(l))
    BY CoveredByRow
<1>3. Coverages[k].unit \in unitOn
    BY <1>2 DEF UnitsOf
<1>4. Coverages[k].unit \in UnitsCovering(l)
    BY <1>1, <1>2, <1>3 DEF UnitsCovering
<1> QED BY <1>2, <1>4
-----------------------------------------------------------------------------
(***************************************************************************)
(* The rows of the incidents.                                               *)
(***************************************************************************)
Acts   == {"INGESTED", "ROUTED", "ESCALATED", "ROUTING_FAILED", "ACKNOWLEDGED", "RESOLVED"}
Events == [act : Acts, unit : Units \cup {NoUnit}, stage : Nat]
Routes == [unit : Units, stage : Nat, acked : BOOLEAN]
Row    == [status : {"absent", "OPEN", "ACKNOWLEDGED", "RESOLVED"}, started : Nat,
           state : {"PENDING", "ROUTED", "UNROUTED"}, routes : SUBSET Routes, by : Units \cup {NoUnit},
           audit : Seq(Events)]

Of(acts)          == {e \in Events : e.act \in acts}
OfRoute(u, stage) == {e \in Events : e.act \in Routing /\ e.unit = u /\ e.stage = stage}
Acked(row)        == {r \in row.routes : r.acked}

\* The routes, each with its entry, and the entries, each with its route.
RoutesTold(row) ==
    /\ IsFiniteSet(row.routes)
    /\ \A r, q \in row.routes : r.unit = q.unit /\ r.stage = q.stage => r = q
    /\ \A r \in row.routes : CountIn(row.audit, OfRoute(r.unit, r.stage)) = 1
    /\ \A k \in DOMAIN row.audit : row.audit[k].act \in Routing =>
         \E r \in row.routes : r.unit = row.audit[k].unit /\ r.stage = row.audit[k].stage
    /\ CountIn(row.audit, Of(Routing)) = Cardinality(row.routes)

\* Nobody has taken it, or one unit has and nothing was routed since.
Untaken(row) ==
    /\ row.by = NoUnit /\ Acked(row) = {}
    /\ CountIn(row.audit, Of({"ACKNOWLEDGED"})) = 0 /\ CountIn(row.audit, Of({"RESOLVED"})) = 0
Taken(row) ==
    /\ CountIn(row.audit, Of({"ACKNOWLEDGED"})) = 1
    /\ {r.unit : r \in Acked(row)} = {row.by} \ {NoUnit}
    /\ \A k \in DOMAIN row.audit : row.audit[k].act = "ACKNOWLEDGED" =>
         /\ row.audit[k].unit = row.by
         /\ \A j \in DOMAIN row.audit : row.audit[j].act \in Routing \cup {"ROUTING_FAILED"} => j < k
    /\ CountIn(row.audit, Of({"RESOLVED"})) = IF row.status = "RESOLVED" THEN 1 ELSE 0

RowTold(row) ==
    /\ row \in Row /\ RoutesTold(row)
    /\ row.state = "ROUTED" => row.routes # {}
    /\ row.status \in {"absent", "OPEN"} => Untaken(row)
    /\ row.status \in {"ACKNOWLEDGED", "RESOLVED"} => Taken(row)
RowsInv == incident \in [Incidents -> Row] /\ \A i \in Incidents : RowTold(incident[i])

\* What a tick carries along.
TickInv ==
    /\ now \in Nat
    /\ tick = [at |-> tick.at, list |-> tick.list, time |-> tick.time, units |-> tick.units,
               rules |-> tick.rules, central |-> tick.central]
    /\ rulesOn \subseteq Rules /\ tick.rules \subseteq Rules /\ tick.central \subseteq Central
-----------------------------------------------------------------------------
\* What one more entry, and a set of entries, make of the audit.
LEMMA AuditAppend ==
    ASSUME NEW q \in Seq(Events), NEW e \in Events, NEW kind
    PROVE  /\ Append(q, e) \in Seq(Events)
           /\ CountIn(Append(q, e), kind) = CountIn(q, kind) + IF e \in kind THEN 1 ELSE 0
           /\ DOMAIN q = 1..Len(q) /\ DOMAIN Append(q, e) = 1..(Len(q) + 1) /\ Len(q) \in Nat
           /\ \A k \in DOMAIN Append(q, e) : IF k \in DOMAIN q THEN Append(q, e)[k] = q[k] ELSE k = Len(q) + 1 /\ Append(q, e)[k] = e
<1>1. CountIn(Append(q, e), kind) = CountIn(q, kind) + IF e \in kind THEN 1 ELSE 0
    BY CountAppend
<1>2. Len(q) \in Nat /\ DOMAIN q = 1..Len(q) /\ DOMAIN Append(q, e) = 1..(Len(q) + 1) /\ Append(q, e) \in Seq(Events)
    BY AppendProperties, LenProperties
<1>3. \A k \in 1..(Len(q) + 1) : k \in 1..Len(q) \/ (k = Len(q) + 1 /\ k \notin 1..Len(q))
    BY <1>2
<1>4. (\A k \in 1..Len(q) : Append(q, e)[k] = q[k]) /\ Append(q, e)[Len(q) + 1] = e
    BY AppendProperties
<1> QED BY <1>1, <1>2, <1>3, <1>4

LEMMA AuditAdd ==
    ASSUME NEW q \in Seq(Events), NEW E, E \subseteq Events, IsFiniteSet(E), NEW kind
    PROVE  /\ q \o SetToSeq(E) \in Seq(Events)
           /\ CountIn(q \o SetToSeq(E), kind) = CountIn(q, kind) + Cardinality(E \cap kind)
           /\ \A k \in DOMAIN (q \o SetToSeq(E)) :
                (k \in DOMAIN q /\ (q \o SetToSeq(E))[k] = q[k]) \/ (q \o SetToSeq(E))[k] \in E
<1> DEFINE t == SetToSeq(E)
<1>1. t \in Seq(E)
    BY SetSeqIs
<1>2. t \in Seq(Events)
    BY <1>1, SeqMonotonic
<1>3. CountIn(t, kind) = Cardinality(E \cap kind)
    BY CountSetSeq
<1>4. \A i \in 1..Len(t) : t[i] \in E
    BY <1>1, ElementOfSeq
<1> HIDE DEF t
<1>5. /\ q \o t \in Seq(Events) /\ Len(q) \in Nat /\ Len(t) \in Nat
      /\ DOMAIN q = 1..Len(q) /\ DOMAIN (q \o t) = 1..(Len(q) + Len(t))
      /\ \A i \in 1..(Len(q) + Len(t)) : (q \o t)[i] = IF i <= Len(q) THEN q[i] ELSE t[i - Len(q)]
    BY <1>2, LenProperties, ConcatProperties
<1>6. \A i \in 1..(Len(q) + Len(t)) : (i <= Len(q) /\ i \in 1..Len(q)) \/ (~(i <= Len(q)) /\ i - Len(q) \in 1..Len(t))
    BY <1>5
<1>7. \A k \in DOMAIN (q \o t) : (k \in DOMAIN q /\ (q \o t)[k] = q[k]) \/ (q \o t)[k] \in E
    BY <1>4, <1>5, <1>6
<1>8. CountIn(q \o t, kind) = CountIn(q, kind) + CountIn(t, kind)
    BY <1>2, CountConcat
<1> QED BY <1>3, <1>5, <1>7, <1>8 DEF t
-----------------------------------------------------------------------------
\* get_or_create makes the routes that are wanted and not there, each with its entry.
Wanted(wanted) == IsFiniteSet(wanted) /\ \A w \in wanted : w.unit \in Units /\ w.stage \in Nat

LEMMA AddedTold ==
    ASSUME NEW row \in Row, RoutesTold(row), Untaken(row), NEW wanted, Wanted(wanted)
    PROVE  /\ Added(row, wanted) \in Row /\ RoutesTold(Added(row, wanted)) /\ Untaken(Added(row, wanted))
           /\ row.routes \subseteq Added(row, wanted).routes
           /\ \A w \in wanted : Has(Added(row, wanted), w.unit, w.stage)
           /\ Added(row, wanted).status = row.status
<1> DEFINE new == {w \in wanted : ~Has(row, w.unit, w.stage)}
           entry(w) == Event(IF w.stage > 0 THEN "ESCALATED" ELSE "ROUTED", w.unit, w.stage)
           route(w) == [unit |-> w.unit, stage |-> w.stage, acked |-> FALSE]
           E == {entry(w) : w \in new}
           N == {route(w) : w \in new}
           a == Added(row, wanted)
           q == row.audit
           q2 == q \o SetToSeq(E)
           R2 == row.routes \cup N
\* The new entries and the new routes, one for one.
<1>1. \A w \in new : /\ w.unit \in Units /\ w.stage \in Nat /\ ~Has(row, w.unit, w.stage)
                     /\ entry(w) \in Events /\ entry(w).act \in Routing
                     /\ entry(w).unit = w.unit /\ entry(w).stage = w.stage
                     /\ route(w) \in Routes /\ route(w).acked = FALSE
                     /\ route(w).unit = w.unit /\ route(w).stage = w.stage
    BY DEF Wanted, Events, Event, Acts, Routing, Routes
<1>2. \A w, v \in new : w.unit = v.unit /\ w.stage = v.stage => entry(w) = entry(v) /\ route(w) = route(v)
    OBVIOUS
<1>3. a = [row EXCEPT !.routes = @ \cup N, !.audit = @ \o SetToSeq(E)]
    BY DEF Added
<1>4. /\ IsFiniteSet(N) /\ IsFiniteSet(E) /\ Cardinality(E) = Cardinality(N)
  <2> DEFINE g == [w \in new |-> route(w)]
             f == [r \in N |-> Event(IF r.stage > 0 THEN "ESCALATED" ELSE "ROUTED", r.unit, r.stage)]
  <2>1. IsFiniteSet(new)
      BY FS_Subset DEF Wanted
  <2>2. g \in Surjection(new, N)
      BY DEF Surjection
  <2>3. IsFiniteSet(N)
    <3> HIDE DEF g, new, N
    <3> QED BY <2>1, <2>2, FS_Surjection
  <2>4. \A w \in new : route(w) \in N /\ f[route(w)] = entry(w)
      BY <1>1 DEF Event
  <2>5. f \in Bijection(N, E)
    <3>1. DOMAIN f = N /\ f = [r \in N |-> f[r]]
        OBVIOUS
    <3>2. \A r \in N : \E w \in new : r = route(w)
        OBVIOUS
    <3>3. \A e \in E : \E w \in new : e = entry(w)
        OBVIOUS
    <3>4. \A w \in new : entry(w) \in E
        OBVIOUS
    <3> HIDE DEF f, N, E, new, entry, route
    <3>5. f \in [N -> E]
        BY <2>4, <3>1, <3>2, <3>4
    <3>6. \A r, s \in N : f[r] = f[s] => r = s
        BY <1>1, <1>2, <2>4, <3>2
    <3>7. \A e \in E : \E r \in N : f[r] = e
        BY <2>4, <3>3
    <3> QED BY <3>5, <3>6, <3>7 DEF Bijection, Injection, Surjection, IsInjective
  <2> HIDE DEF f, N, E
  <2> QED BY <2>3, <2>5, FS_Bijection DEF ExistsBijection
<1>5. /\ \A e \in E : \E w \in new : e = entry(w)
      /\ \A r \in N : \E w \in new : r = route(w)
      /\ \A w \in new : entry(w) \in E /\ route(w) \in N
    OBVIOUS
<1>6. \A w \in wanted : Has(row, w.unit, w.stage) \/ w \in new
    OBVIOUS
<1> HIDE DEF a, E, N, new, entry, route
<1>7. E \subseteq Events /\ N \subseteq Routes /\ \A e \in E : e \in Of(Routing)
    BY <1>1, <1>5 DEF Of
<1>8. q \in Seq(Events) /\ row.routes \in SUBSET Routes
    BY DEF Row
<1>9. /\ q2 \in Seq(Events)
      /\ \A kind : CountIn(q2, kind) = CountIn(q, kind) + Cardinality(E \cap kind)
      /\ \A k \in DOMAIN q2 : (k \in DOMAIN q /\ q2[k] = q[k]) \/ q2[k] \in E
    BY <1>4, <1>7, <1>8, AuditAdd
<1>10. /\ a.status = row.status /\ a.by = row.by /\ a.routes = R2 /\ a.audit = q2
       /\ a = [status |-> row.status, started |-> row.started, state |-> row.state, routes |-> R2, by |-> row.by, audit |-> q2]
    BY <1>3 DEF Row
<1> HIDE DEF q2, R2
<1>11. a \in Row
    BY <1>7, <1>8, <1>9, <1>10 DEF Row, R2
<1>12. \A r \in R2 : r \in row.routes \/ \E w \in new : r = route(w)
    BY <1>5 DEF R2
<1>13. IsFiniteSet(R2) /\ Cardinality(R2) = Cardinality(row.routes) + Cardinality(N)
  <2>1. row.routes \cap N = {}
      BY <1>1, <1>5 DEF Has
  <2>2. IsFiniteSet(row.routes)
      BY DEF RoutesTold
  <2>3. /\ IsFiniteSet(row.routes \cup N)
        /\ Cardinality(row.routes \cup N) = Cardinality(row.routes) + Cardinality(N) - Cardinality({})
      BY <1>4, <2>1, <2>2, FS_Union
  <2>4. Cardinality(row.routes) \in Nat /\ Cardinality(N) \in Nat /\ Cardinality({}) = 0
      BY <1>4, <2>2, FS_CardinalityType, FS_EmptySet
  <2> QED BY <2>3, <2>4 DEF R2
<1>14. \A r, s \in R2 : r.unit = s.unit /\ r.stage = s.stage => r = s
  <2> SUFFICES ASSUME NEW r \in R2, NEW s \in R2, r.unit = s.unit, r.stage = s.stage PROVE r = s
      OBVIOUS
  <2>1. CASE r \in row.routes /\ s \in row.routes
      BY <2>1 DEF RoutesTold
  <2>2. CASE r \in row.routes /\ \E w \in new : s = route(w)
      BY <1>1, <2>2 DEF Has
  <2>3. CASE s \in row.routes /\ \E w \in new : r = route(w)
      BY <1>1, <2>3 DEF Has
  <2>4. CASE (\E w \in new : r = route(w)) /\ (\E w \in new : s = route(w))
      BY <1>1, <1>2, <2>4
  <2> QED BY <1>12, <2>1, <2>2, <2>3, <2>4
<1>15. \A r \in R2 : CountIn(q2, OfRoute(r.unit, r.stage)) = 1
  <2> SUFFICES ASSUME NEW r \in R2 PROVE CountIn(q2, OfRoute(r.unit, r.stage)) = 1
      OBVIOUS
  <2> DEFINE kind == OfRoute(r.unit, r.stage)
  <2>0. CountIn(q2, kind) = CountIn(q, kind) + Cardinality(E \cap kind)
      BY <1>9
  <2>1. CASE r \in row.routes
    <3>1. CountIn(q, kind) = 1
        BY <2>1 DEF RoutesTold
    <3>2. E \cap kind = {}
        BY <1>1, <1>5, <2>1 DEF Has, OfRoute
    <3> QED BY <2>0, <3>1, <3>2, FS_EmptySet
  <2>2. CASE \E w \in new : r = route(w)
    <3>1. PICK w \in new : r = route(w)
        BY <2>2
    <3>2. E \cap kind = {entry(w)}
        BY <1>1, <1>2, <1>5, <3>1 DEF OfRoute
    <3>3. Cardinality(E \cap kind) = 1
        BY <3>2, FS_Singleton
    <3>4. CountIn(q, kind) = 0
      <4>1. \A k \in 1..Len(q) : q[k] \notin kind
          BY <1>1, <1>8, <3>1, LenProperties DEF RoutesTold, OfRoute, Has
      <4> QED BY <1>8, <4>1, CountZero
    <3> QED BY <2>0, <3>3, <3>4
  <2> QED BY <1>12, <2>1, <2>2
<1>16. \A k \in DOMAIN q2 : q2[k].act \in Routing => \E r \in R2 : r.unit = q2[k].unit /\ r.stage = q2[k].stage
  <2> SUFFICES ASSUME NEW k \in DOMAIN q2, q2[k].act \in Routing
               PROVE  \E r \in R2 : r.unit = q2[k].unit /\ r.stage = q2[k].stage
      OBVIOUS
  <2>1. CASE k \in DOMAIN q /\ q2[k] = q[k]
      BY <2>1 DEF RoutesTold, R2
  <2>2. CASE q2[k] \in E
      BY <1>1, <1>5, <2>2 DEF R2
  <2> QED BY <1>9, <2>1, <2>2
<1>17. CountIn(q2, Of(Routing)) = Cardinality(R2)
  <2>1. E \cap Of(Routing) = E
      BY <1>7
  <2>2. CountIn(q2, Of(Routing)) = CountIn(q, Of(Routing)) + Cardinality(E)
      BY <1>9, <2>1
  <2> QED BY <1>4, <1>13, <2>2 DEF RoutesTold
<1>18. RoutesTold(a)
    BY <1>10, <1>13, <1>14, <1>15, <1>16, <1>17 DEF RoutesTold
<1>19. Untaken(a)
  <2>1. E \cap Of({"ACKNOWLEDGED"}) = {} /\ E \cap Of({"RESOLVED"}) = {}
      BY <1>7 DEF Of, Routing
  <2>2. /\ CountIn(q2, Of({"ACKNOWLEDGED"})) = 0 + 0 /\ CountIn(q2, Of({"RESOLVED"})) = 0 + 0
      BY <1>9, <2>1, FS_EmptySet DEF Untaken
  <2>3. Acked(a) = {}
      BY <1>1, <1>10, <1>12 DEF Acked, Untaken
  <2> QED BY <1>10, <2>2, <2>3 DEF Untaken
<1>20. \A w \in wanted : Has(a, w.unit, w.stage)
    BY <1>1, <1>5, <1>6, <1>10 DEF Has, R2
<1> QED BY <1>10, <1>11, <1>18, <1>19, <1>20 DEF a, R2

\* Another entry, that tells of no route, and routes that are the same but for who
\* has acknowledged them.
LEMMA RoutesStayTold ==
    ASSUME NEW row \in Row, RoutesTold(row), NEW e \in Events, e.act \notin Routing,
           NEW new, new.audit = Append(row.audit, e),
           IsFiniteSet(new.routes), Cardinality(new.routes) = Cardinality(row.routes),
           \A r, q \in new.routes : r.unit = q.unit /\ r.stage = q.stage => r = q,
           \A r \in new.routes : \E q \in row.routes : r.unit = q.unit /\ r.stage = q.stage,
           \A r \in row.routes : \E q \in new.routes : r.unit = q.unit /\ r.stage = q.stage
    PROVE  RoutesTold(new)
<1>1. row.audit \in Seq(Events)
    BY DEF Row
<1>2. \A kind : e \notin kind => CountIn(new.audit, kind) = CountIn(row.audit, kind)
  <2> SUFFICES ASSUME NEW kind, e \notin kind PROVE CountIn(new.audit, kind) = CountIn(row.audit, kind)
      OBVIOUS
  <2>1. CountIn(row.audit, kind) \in Nat
      BY <1>1, CountType
  <2> QED BY <1>1, <2>1, AuditAppend
<1>3. e \notin Of(Routing) /\ \A u, stage : e \notin OfRoute(u, stage)
    BY DEF Of, OfRoute
<1>4. CountIn(new.audit, Of(Routing)) = Cardinality(new.routes)
    BY <1>2, <1>3 DEF RoutesTold
<1>5. \A r \in new.routes : CountIn(new.audit, OfRoute(r.unit, r.stage)) = 1
    BY <1>2, <1>3 DEF RoutesTold
<1>6. \A k \in DOMAIN new.audit : new.audit[k].act \in Routing =>
         \E r \in new.routes : r.unit = new.audit[k].unit /\ r.stage = new.audit[k].stage
  <2> SUFFICES ASSUME NEW k \in DOMAIN new.audit, new.audit[k].act \in Routing
               PROVE  \E r \in new.routes : r.unit = new.audit[k].unit /\ r.stage = new.audit[k].stage
      OBVIOUS
  <2>1. k \in DOMAIN row.audit /\ new.audit[k] = row.audit[k]
      BY <1>1, AuditAppend
  <2> QED BY <2>1 DEF RoutesTold
<1> QED BY <1>4, <1>5, <1>6 DEF RoutesTold

\* An entry of another kind changes no count.
LEMMA CountKept ==
    ASSUME NEW q \in Seq(Events), NEW e \in Events, NEW kind, e \notin kind
    PROVE  CountIn(Append(q, e), kind) = CountIn(q, kind)
<1>1. CountIn(q, kind) \in Nat
    BY CountType
<1> QED BY <1>1, AuditAppend

LEMMA RoutedTold ==
    ASSUME NEW i, NEW row, RowTold(row), NEW rules \in SUBSET Rules, NEW central \in SUBSET Central, NEW time
    PROVE  RowTold(Routed(i, row, rules, central, time))
<1>1. CASE ~MayRoute(i, row)
    BY <1>1 DEF Routed
<1>2. CASE MayRoute(i, row) /\ rules = {}
  <2> DEFINE wanted == {[unit |-> u, stage |-> 0] : u \in central}
             a == Added(row, wanted)
             state == IF central = {} THEN "UNROUTED" ELSE "ROUTED"
             e == Event("ROUTING_FAILED", NoUnit, 0)
             b == Fallback(row, central)
  <2>1. Wanted(wanted)
    <3> DEFINE g == [u \in central |-> [unit |-> u, stage |-> 0]]
    <3>1. IsFiniteSet(central) /\ central \subseteq Units
        BY ScopeAssumption, RoutingAssumption, FS_Subset
    <3>2. g \in Surjection(central, wanted)
        BY DEF Surjection
    <3>3. \A w \in wanted : w.unit \in Units /\ w.stage \in Nat
        BY <3>1
    <3> HIDE DEF g, wanted
    <3>4. IsFiniteSet(wanted)
        BY <3>1, <3>2, FS_Surjection
    <3> QED BY <3>3, <3>4 DEF Wanted
  <2>2. central # {} => \E w \in wanted : TRUE
      OBVIOUS
  <2>3. b = [a EXCEPT !.state = state,
                      !.audit = IF state = "UNROUTED" /\ row.state # state THEN Append(@, e) ELSE @]
      BY DEF Fallback
  <2> HIDE DEF a, b, wanted
  <2>4. row \in Row /\ RoutesTold(row) /\ Untaken(row) /\ row.status = "OPEN"
      BY <1>2 DEF RowTold, MayRoute
  <2>5. /\ a \in Row /\ RoutesTold(a) /\ Untaken(a) /\ a.status = "OPEN"
        /\ \A w \in wanted : Has(a, w.unit, w.stage)
      BY <2>1, <2>4, AddedTold DEF a
  <2>6. e \in Events /\ e.act = "ROUTING_FAILED" /\ a.audit \in Seq(Events)
      BY <2>5 DEF Events, Event, Acts, Row
  <2> HIDE DEF e
  <2>7. /\ b.status = "OPEN" /\ b.state = state /\ b.routes = a.routes /\ b.by = a.by
        /\ b.audit = IF state = "UNROUTED" /\ row.state # state THEN Append(a.audit, e) ELSE a.audit
        /\ b = [status |-> a.status, started |-> a.started, state |-> state, routes |-> a.routes, by |-> a.by, audit |-> b.audit]
      BY <2>3, <2>5 DEF Row
  <2> HIDE DEF state
  <2>8. b.audit \in Seq(Events)
      BY <2>6, <2>7, AuditAppend
  <2>9. b \in Row
    <3>1. state \in {"PENDING", "ROUTED", "UNROUTED"}
        BY DEF state
    <3> QED BY <2>5, <2>7, <2>8, <3>1 DEF Row
  <2>10. RoutesTold(b)
    <3>1. CASE b.audit = a.audit
        BY <2>5, <2>7, <3>1 DEF RoutesTold
    <3>2. CASE b.audit = Append(a.audit, e)
      <4>1. /\ IsFiniteSet(b.routes) /\ Cardinality(b.routes) = Cardinality(a.routes)
            /\ \A r, q \in b.routes : r.unit = q.unit /\ r.stage = q.stage => r = q
          BY <2>5, <2>7 DEF RoutesTold
      <4>2. e.act \notin Routing
          BY <2>6 DEF Routing
      <4> QED BY <2>5, <2>6, <2>7, <3>2, <4>1, <4>2, RoutesStayTold
    <3> QED BY <2>7, <3>1, <3>2
  <2>11. Untaken(b)
    <3>1. e \notin Of({"ACKNOWLEDGED"}) /\ e \notin Of({"RESOLVED"})
        BY <2>6 DEF Of
    <3>2. /\ CountIn(b.audit, Of({"ACKNOWLEDGED"})) = CountIn(a.audit, Of({"ACKNOWLEDGED"}))
          /\ CountIn(b.audit, Of({"RESOLVED"})) = CountIn(a.audit, Of({"RESOLVED"}))
        BY <2>6, <2>7, <3>1, CountKept
    <3>3. Acked(b) = Acked(a)
        BY <2>7 DEF Acked
    <3> QED BY <2>5, <2>7, <3>2, <3>3 DEF Untaken
  <2>12. b.state = "ROUTED" => b.routes # {}
      BY <2>2, <2>5, <2>7 DEF state, Has
  <2>13. RowTold(b)
      BY <2>7, <2>9, <2>10, <2>11, <2>12 DEF RowTold
  <2> QED BY <1>2, <2>13 DEF Routed, b
<1>3. CASE MayRoute(i, row) /\ rules # {}
  <2> DEFINE wanted == {r \in rules : row.started + r.delay <= time}
             a == Added(row, wanted)
             b == ByRules(row, rules, time)
             state == IF a.routes # {} THEN "ROUTED" ELSE "PENDING"
  <2>1. Wanted(wanted)
    <3>1. wanted \subseteq Rules /\ IsFiniteSet(Rules)
        BY RoutingAssumption
    <3>2. \A w \in Rules : w.unit \in Units /\ w.stage \in Nat
        BY RoutingAssumption
    <3> HIDE DEF wanted
    <3> QED BY <3>1, <3>2, FS_Subset DEF Wanted
  <2>2. b = [a EXCEPT !.state = state]
      BY DEF ByRules
  <2> HIDE DEF a, b, wanted
  <2>3. row \in Row /\ RoutesTold(row) /\ Untaken(row) /\ row.status = "OPEN"
      BY <1>3 DEF RowTold, MayRoute
  <2>4. a \in Row /\ RoutesTold(a) /\ Untaken(a) /\ a.status = "OPEN"
      BY <2>1, <2>3, AddedTold DEF a
  <2>5. /\ b.status = "OPEN" /\ b.state = state /\ b.routes = a.routes /\ b.by = a.by /\ b.audit = a.audit
        /\ b \in Row
      BY <2>2, <2>4 DEF Row
  <2>6. RoutesTold(b) /\ Untaken(b)
      BY <2>4, <2>5 DEF RoutesTold, Untaken, Acked
  <2>7. RowTold(b)
      BY <2>5, <2>6 DEF RowTold
  <2> QED BY <1>3, <2>7 DEF Routed, b
<1> QED BY <1>1, <1>2, <1>3

\* A row that has just been created.
LEMMA CreatedTold ==
    ASSUME NEW row, NEW time \in Nat,
           row = [Absent EXCEPT !.status = "OPEN", !.started = time, !.audit = <<Event("INGESTED", NoUnit, 0)>>]
    PROVE  RowTold(row)
<1> DEFINE e == Event("INGESTED", NoUnit, 0)
<1>1. e \in Events /\ e.act = "INGESTED"
    BY DEF Event, Events, Acts
<1>2. row.audit = <<e>>
    BY DEF Absent
<1> HIDE DEF e
<1>3. /\ row.status = "OPEN" /\ row.state = "PENDING" /\ row.routes = {} /\ row.by = NoUnit
      /\ row = [status |-> "OPEN", started |-> time, state |-> "PENDING", routes |-> {}, by |-> NoUnit, audit |-> row.audit]
    BY DEF Absent
<1>4. <<e>> = Append(<<>>, e) /\ <<>> \in Seq(Events)
    OBVIOUS
<1>5. row.audit \in Seq(Events) /\ \A kind : e \notin kind => CountIn(row.audit, kind) = 0
  <2>1. row.audit \in Seq(Events)
      BY <1>1, <1>2
  <2>2. ASSUME NEW kind, e \notin kind PROVE CountIn(row.audit, kind) = 0
    <3>1. CountIn(Append(<<>>, e), kind) = CountIn(<<>>, kind)
        BY <1>1, <1>4, <2>2, CountKept
    <3> QED BY <1>2, <1>4, <3>1, CountEmpty
  <2> QED BY <2>1, <2>2
<1>6. row \in Row
    BY <1>3, <1>5 DEF Row
<1>7. RoutesTold(row)
  <2>1. e \notin Of(Routing) /\ e \notin Of({"ACKNOWLEDGED"}) /\ e \notin Of({"RESOLVED"})
      BY <1>1 DEF Of, Routing
  <2>2. \A k \in DOMAIN row.audit : row.audit[k] = e
      BY <1>2
  <2>3. CountIn(row.audit, Of(Routing)) = Cardinality(row.routes) /\ IsFiniteSet(row.routes)
      BY <1>3, <1>5, <2>1, FS_EmptySet
  <2> QED BY <1>1, <1>3, <2>2, <2>3 DEF RoutesTold, Routing
<1>8. Untaken(row)
  <2>1. e \notin Of({"ACKNOWLEDGED"}) /\ e \notin Of({"RESOLVED"})
      BY <1>1 DEF Of
  <2> QED BY <1>3, <1>5, <2>1 DEF Untaken, Acked
<1> QED BY <1>3, <1>6, <1>7, <1>8 DEF RowTold

\* The first operator, with a route of a unit of his, or an administrator without.
LEMMA TakenTold ==
    ASSUME NEW row \in Row, RowTold(row), row.status = "OPEN", NEW new \in Row,
           NEW e \in Events, e.act = "ACKNOWLEDGED", e.unit = new.by, new.audit = Append(row.audit, e),
           new.status = "ACKNOWLEDGED", new.state = row.state,
           new.routes = {} <=> row.routes = {}, RoutesTold(new),
           {r.unit : r \in Acked(new)} = {new.by} \ {NoUnit}
    PROVE  RowTold(new)
<1>1. row.audit \in Seq(Events) /\ Untaken(row)
    BY DEF Row, RowTold
<1>2. e \in Of({"ACKNOWLEDGED"}) /\ e \notin Of({"RESOLVED"})
    BY DEF Of
<1>3. /\ CountIn(new.audit, Of({"ACKNOWLEDGED"})) = 0 + 1
      /\ CountIn(new.audit, Of({"RESOLVED"})) = 0
  <2>1. CountIn(new.audit, Of({"ACKNOWLEDGED"})) = CountIn(row.audit, Of({"ACKNOWLEDGED"})) + 1
      BY <1>1, <1>2, AuditAppend
  <2>2. CountIn(new.audit, Of({"RESOLVED"})) = CountIn(row.audit, Of({"RESOLVED"}))
      BY <1>1, <1>2, CountKept
  <2> QED BY <1>1, <2>1, <2>2 DEF Untaken
<1>4. \A k \in 1..Len(row.audit) : row.audit[k].act # "ACKNOWLEDGED"
  <2>1. \A k \in 1..Len(row.audit) : row.audit[k] \notin Of({"ACKNOWLEDGED"})
      BY <1>1, CountZero DEF Untaken
  <2>2. \A k \in 1..Len(row.audit) : row.audit[k] \in Events
      BY <1>1, ElementOfSeq
  <2> QED BY <2>1, <2>2 DEF Of
<1>5. /\ DOMAIN row.audit = 1..Len(row.audit) /\ DOMAIN new.audit = 1..(Len(row.audit) + 1) /\ Len(row.audit) \in Nat
      /\ \A k \in DOMAIN new.audit : IF k \in DOMAIN row.audit THEN new.audit[k] = row.audit[k]
                                     ELSE k = Len(row.audit) + 1 /\ new.audit[k] = e
    BY <1>1, AuditAppend
<1>6. \A k \in DOMAIN new.audit : new.audit[k].act = "ACKNOWLEDGED" => k = Len(row.audit) + 1 /\ new.audit[k] = e
    BY <1>4, <1>5
<1>7. \A j \in DOMAIN new.audit : new.audit[j].act \in Routing \cup {"ROUTING_FAILED"} => j < Len(row.audit) + 1
  <2> SUFFICES ASSUME NEW j \in DOMAIN new.audit, new.audit[j].act \in Routing \cup {"ROUTING_FAILED"}
               PROVE  j < Len(row.audit) + 1
      OBVIOUS
  <2>1. new.audit[j] # e
      BY DEF Routing
  <2>2. j \in 1..Len(row.audit)
      BY <1>5, <2>1
  <2> QED BY <1>5, <2>2
<1>8. Taken(new)
  <2>1. \A k \in DOMAIN new.audit : new.audit[k].act = "ACKNOWLEDGED" =>
           /\ new.audit[k].unit = new.by
           /\ \A j \in DOMAIN new.audit : new.audit[j].act \in Routing \cup {"ROUTING_FAILED"} => j < k
      BY <1>6, <1>7
  <2>2. CountIn(new.audit, Of({"ACKNOWLEDGED"})) = 1 /\ CountIn(new.audit, Of({"RESOLVED"})) = IF new.status = "RESOLVED" THEN 1 ELSE 0
      BY <1>3
  <2> QED BY <2>1, <2>2 DEF Taken
<1>9. new.state = "ROUTED" => new.routes # {}
    BY DEF RowTold
<1> QED BY <1>8, <1>9 DEF RowTold

LEMMA AcknowledgedTold ==
    ASSUME NEW row \in Row, RowTold(row), row.status = "OPEN", NEW r \in row.routes, NEW new,
           new = [row EXCEPT !.status = "ACKNOWLEDGED", !.by = r.unit,
                             !.routes = (@ \ {r}) \cup {[r EXCEPT !.acked = TRUE]},
                             !.audit = Append(@, Event("ACKNOWLEDGED", r.unit, r.stage))]
    PROVE  RowTold(new)
<1> DEFINE t == [r EXCEPT !.acked = TRUE]
           e == Event("ACKNOWLEDGED", r.unit, r.stage)
           R == (row.routes \ {r}) \cup {t}
<1>1. row.audit \in Seq(Events) /\ RoutesTold(row) /\ Untaken(row) /\ row.routes \subseteq Routes /\ IsFiniteSet(row.routes)
    BY DEF Row, RowTold, RoutesTold
<1>2. r \in Routes /\ r.unit \in Units /\ r.stage \in Nat /\ r.acked = FALSE
  <2>1. r \in Routes /\ ~r.acked
      BY <1>1 DEF Untaken, Acked
  <2> QED BY <2>1 DEF Routes
<1>3. t \in Routes /\ t.unit = r.unit /\ t.stage = r.stage /\ t.acked
    BY <1>2 DEF Routes
<1>4. e \in Events /\ e.act = "ACKNOWLEDGED" /\ e.unit = r.unit
    BY <1>2 DEF Events, Event, Acts
<1>5. new = [row EXCEPT !.status = "ACKNOWLEDGED", !.by = r.unit, !.routes = R, !.audit = Append(@, e)]
    OBVIOUS
<1> HIDE DEF t, e, R
<1>6. /\ new.status = "ACKNOWLEDGED" /\ new.state = row.state /\ new.by = r.unit /\ new.routes = R
      /\ new.audit = Append(row.audit, e)
      /\ new = [status |-> "ACKNOWLEDGED", started |-> row.started, state |-> row.state, routes |-> R, by |-> r.unit, audit |-> new.audit]
    BY <1>5 DEF Row
<1>7. new.audit \in Seq(Events)
    BY <1>1, <1>4, <1>6, AuditAppend
<1>8. R \subseteq Routes
    BY <1>1, <1>3 DEF R
<1>9. new \in Row
    BY <1>2, <1>6, <1>7, <1>8 DEF Row
<1>10. \A s \in R : s = t \/ (s \in row.routes /\ s # r)
    BY DEF R
<1>11. \A s, q \in R : s.unit = q.unit /\ s.stage = q.stage => s = q
    BY <1>1, <1>3, <1>10 DEF RoutesTold
<1>12. IsFiniteSet(R) /\ Cardinality(R) = Cardinality(row.routes)
  <2>1. t \notin row.routes
      BY <1>1, <1>3 DEF Untaken, Acked
  <2>2. /\ IsFiniteSet(row.routes \ {r}) /\ Cardinality(row.routes \ {r}) = Cardinality(row.routes) - 1
        /\ Cardinality(row.routes) \in Nat
      BY <1>1, FS_RemoveElement, FS_CardinalityType
  <2>3. /\ IsFiniteSet((row.routes \ {r}) \cup {t})
        /\ Cardinality((row.routes \ {r}) \cup {t}) = Cardinality(row.routes \ {r}) + 1
      BY <2>1, <2>2, FS_AddElement
  <2> QED BY <2>2, <2>3 DEF R
<1>13. /\ \A s \in R : \E q \in row.routes : s.unit = q.unit /\ s.stage = q.stage
       /\ \A s \in row.routes : \E q \in R : s.unit = q.unit /\ s.stage = q.stage
    BY <1>3 DEF R
<1>14. e.act \notin Routing
    BY <1>4 DEF Routing
<1>15. RoutesTold(new)
    BY <1>1, <1>4, <1>6, <1>11, <1>12, <1>13, <1>14, RoutesStayTold
<1>16. Acked(new) = {t}
    BY <1>1, <1>3, <1>6, <1>10 DEF Acked, Untaken, R
<1>17. {s.unit : s \in Acked(new)} = {new.by} \ {NoUnit}
    BY <1>2, <1>3, <1>6, <1>16, RoutingAssumption
<1>18. new.routes # {} /\ row.routes # {}
    BY <1>6 DEF R
<1>19. /\ new.audit = Append(row.audit, e) /\ new.status = "ACKNOWLEDGED" /\ new.state = row.state
       /\ e \in Events /\ e.act = "ACKNOWLEDGED" /\ e.unit = new.by
    BY <1>4, <1>6
<1> QED BY <1>9, <1>15, <1>17, <1>18, <1>19, TakenTold

LEMMA AdministratorTold ==
    ASSUME NEW row \in Row, RowTold(row), row.status = "OPEN", NEW new,
           new = [row EXCEPT !.status = "ACKNOWLEDGED", !.audit = Append(@, Event("ACKNOWLEDGED", NoUnit, 0))]
    PROVE  RowTold(new)
<1> DEFINE e == Event("ACKNOWLEDGED", NoUnit, 0)
<1>1. row.audit \in Seq(Events) /\ RoutesTold(row) /\ Untaken(row)
    BY DEF Row, RowTold
<1>2. e \in Events /\ e.act = "ACKNOWLEDGED" /\ e.unit = NoUnit /\ e.act \notin Routing
    BY DEF Events, Event, Acts, Routing
<1>3. new = [row EXCEPT !.status = "ACKNOWLEDGED", !.audit = Append(@, e)]
    OBVIOUS
<1> HIDE DEF e
<1>4. /\ new.status = "ACKNOWLEDGED" /\ new.state = row.state /\ new.by = row.by /\ new.routes = row.routes
      /\ new.audit = Append(row.audit, e)
      /\ new = [status |-> "ACKNOWLEDGED", started |-> row.started, state |-> row.state, routes |-> row.routes, by |-> row.by, audit |-> new.audit]
    BY <1>3 DEF Row
<1>5. new.audit \in Seq(Events)
    BY <1>1, <1>2, <1>4, AuditAppend
<1>6. new \in Row
    BY <1>4, <1>5 DEF Row
<1>7. /\ IsFiniteSet(new.routes) /\ Cardinality(new.routes) = Cardinality(row.routes)
      /\ \A r, q \in new.routes : r.unit = q.unit /\ r.stage = q.stage => r = q
    BY <1>1, <1>4 DEF RoutesTold
<1>8. RoutesTold(new)
    BY <1>1, <1>2, <1>4, <1>7, RoutesStayTold
<1>9. {r.unit : r \in Acked(new)} = {new.by} \ {NoUnit}
    BY <1>1, <1>4 DEF Acked, Untaken
<1>10. e.unit = new.by
    BY <1>1, <1>2, <1>4 DEF Untaken
<1>11. /\ new.audit = Append(row.audit, e) /\ new.status = "ACKNOWLEDGED" /\ new.state = row.state
       /\ new.routes = {} <=> row.routes = {}
    BY <1>4
<1>12. e \in Events /\ e.act = "ACKNOWLEDGED"
    BY <1>2
<1> QED BY <1>6, <1>8, <1>9, <1>10, <1>11, <1>12, TakenTold

LEMMA ResolvedTold ==
    ASSUME NEW row \in Row, RowTold(row), row.status = "ACKNOWLEDGED", NEW new,
           new = [row EXCEPT !.status = "RESOLVED", !.audit = Append(@, Event("RESOLVED", row.by, 0))]
    PROVE  RowTold(new)
<1> DEFINE e == Event("RESOLVED", row.by, 0)
<1>1. row.audit \in Seq(Events) /\ RoutesTold(row) /\ Taken(row)
    BY DEF Row, RowTold
<1>2. e \in Events /\ e.act = "RESOLVED" /\ e.act \notin Routing
    BY DEF Events, Event, Acts, Routing, Row
<1>3. new = [row EXCEPT !.status = "RESOLVED", !.audit = Append(@, e)]
    OBVIOUS
<1> HIDE DEF e
<1>4. /\ new.status = "RESOLVED" /\ new.state = row.state /\ new.by = row.by /\ new.routes = row.routes
      /\ new.audit = Append(row.audit, e)
      /\ new = [status |-> "RESOLVED", started |-> row.started, state |-> row.state, routes |-> row.routes, by |-> row.by, audit |-> new.audit]
    BY <1>3 DEF Row
<1>5. new.audit \in Seq(Events)
    BY <1>1, <1>2, <1>4, AuditAppend
<1>6. new \in Row
    BY <1>4, <1>5 DEF Row
<1>7. /\ IsFiniteSet(new.routes) /\ Cardinality(new.routes) = Cardinality(row.routes)
      /\ \A r, q \in new.routes : r.unit = q.unit /\ r.stage = q.stage => r = q
    BY <1>1, <1>4 DEF RoutesTold
<1>8. RoutesTold(new)
    BY <1>1, <1>2, <1>4, <1>7, RoutesStayTold
<1>9. /\ DOMAIN row.audit = 1..Len(row.audit)
      /\ \A k \in DOMAIN new.audit : (k \in DOMAIN row.audit /\ new.audit[k] = row.audit[k]) \/ new.audit[k] = e
    BY <1>1, <1>2, <1>4, AuditAppend
<1>10. Taken(new)
  <2>1. e \notin Of({"ACKNOWLEDGED"}) /\ e \in Of({"RESOLVED"})
      BY <1>2 DEF Of
  <2>2. /\ CountIn(new.audit, Of({"ACKNOWLEDGED"})) = CountIn(row.audit, Of({"ACKNOWLEDGED"}))
        /\ CountIn(new.audit, Of({"RESOLVED"})) = CountIn(row.audit, Of({"RESOLVED"})) + 1
      BY <1>1, <1>2, <1>4, <2>1, AuditAppend, CountKept
  <2>3. CountIn(new.audit, Of({"ACKNOWLEDGED"})) = 1 /\ CountIn(new.audit, Of({"RESOLVED"})) = 0 + 1
      BY <1>1, <2>2 DEF Taken
  <2>4. Acked(new) = Acked(row)
      BY <1>4 DEF Acked
  <2>5. \A k \in DOMAIN new.audit : new.audit[k].act # "RESOLVED" => k \in DOMAIN row.audit /\ new.audit[k] = row.audit[k]
      BY <1>2, <1>9
  <2>6. \A k \in DOMAIN new.audit : new.audit[k].act = "ACKNOWLEDGED" =>
           /\ new.audit[k].unit = new.by
           /\ \A j \in DOMAIN new.audit : new.audit[j].act \in Routing \cup {"ROUTING_FAILED"} => j < k
      BY <1>1, <1>4, <2>5 DEF Taken, Routing
  <2>7. {r.unit : r \in Acked(new)} = {new.by} \ {NoUnit}
      BY <1>1, <1>4, <2>4 DEF Taken
  <2>8. CountIn(new.audit, Of({"RESOLVED"})) = IF new.status = "RESOLVED" THEN 1 ELSE 0
      BY <1>4, <2>3
  <2> QED BY <2>3, <2>6, <2>7, <2>8 DEF Taken
<1>11. new.state = "ROUTED" => new.routes # {}
    BY <1>4 DEF RowTold
<1> QED BY <1>4, <1>6, <1>8, <1>10, <1>11 DEF RowTold

\* What the invariant of a row says of its audit.
LEMMA EntriesAre ==
    ASSUME NEW row \in Row, NEW acts
    PROVE  /\ Cardinality(Entries(row, acts)) = CountIn(row.audit, Of(acts))
           /\ \A k : k \in Entries(row, acts) <=> k \in DOMAIN row.audit /\ row.audit[k].act \in acts
<1>1. row.audit \in Seq(Events)
    BY DEF Row
<1>2. \A k \in DOMAIN row.audit : row.audit[k] \in Events
    BY <1>1, ElementOfSeq, LenProperties
<1>3. Entries(row, acts) = Places(row.audit, Of(acts))
    BY <1>2 DEF Entries, Places, Of
<1> QED BY <1>3 DEF CountIn, Entries

LEMMA ToldIsTrue == RowsInv => AuditTrue
<1> SUFFICES ASSUME RowsInv, NEW i \in Incidents, NEW row, row = incident[i]
             PROVE  /\ \A r \in row.routes :
                         Cardinality({k \in Entries(row, Routing) : row.audit[k].unit = r.unit /\ row.audit[k].stage = r.stage}) = 1
                    /\ Cardinality(Entries(row, Routing)) = Cardinality(row.routes)
                    /\ Cardinality(Entries(row, {"ACKNOWLEDGED"})) = (IF row.status \in {"ACKNOWLEDGED", "RESOLVED"} THEN 1 ELSE 0)
                    /\ Cardinality(Entries(row, {"RESOLVED"})) = (IF row.status = "RESOLVED" THEN 1 ELSE 0)
                    /\ {r.unit : r \in {s \in row.routes : s.acked}} = {row.by} \ {NoUnit}
                    /\ \A k \in Entries(row, {"ACKNOWLEDGED"}) : row.audit[k].unit = row.by
                    /\ row.state = "ROUTED" => row.routes # {}
                    /\ \A a \in Entries(row, {"ACKNOWLEDGED"}), k \in Entries(row, Routing \cup {"ROUTING_FAILED"}) : k < a
    BY DEF AuditTrue
<1>1. row \in Row /\ RowTold(row) /\ RoutesTold(row) /\ row.audit \in Seq(Events)
    BY DEF RowsInv, RowTold, Row
<1>2. ASSUME NEW r \in row.routes
      PROVE  Cardinality({k \in Entries(row, Routing) : row.audit[k].unit = r.unit /\ row.audit[k].stage = r.stage}) = 1
  <2>1. \A k \in DOMAIN row.audit : row.audit[k] \in Events
      BY <1>1, ElementOfSeq, LenProperties
  <2>2. {k \in Entries(row, Routing) : row.audit[k].unit = r.unit /\ row.audit[k].stage = r.stage} = Places(row.audit, OfRoute(r.unit, r.stage))
      BY <2>1 DEF Entries, Places, OfRoute
  <2> QED BY <1>1, <2>2 DEF RoutesTold, CountIn
<1>3. /\ Cardinality(Entries(row, Routing)) = Cardinality(row.routes)
      /\ row.state = "ROUTED" => row.routes # {}
    BY <1>1, EntriesAre DEF RoutesTold, RowTold
<1>4. row.status \in {"absent", "OPEN"} \/ row.status \in {"ACKNOWLEDGED", "RESOLVED"}
    BY <1>1 DEF Row
<1>5. CASE row.status \in {"absent", "OPEN"}
  <2>1. Untaken(row)
      BY <1>1, <1>5 DEF RowTold
  <2>2. Entries(row, {"ACKNOWLEDGED"}) = {}
    <3>1. \A k \in 1..Len(row.audit) : row.audit[k] \notin Of({"ACKNOWLEDGED"}) /\ row.audit[k] \in Events
        BY <1>1, <2>1, CountZero, ElementOfSeq DEF Untaken
    <3> QED BY <1>1, <3>1, LenProperties DEF Entries, Of
  <2>3. Cardinality(Entries(row, {"ACKNOWLEDGED"})) = 0 /\ Cardinality(Entries(row, {"RESOLVED"})) = 0
      BY <1>1, <2>1, EntriesAre DEF Untaken
  <2>4. {r.unit : r \in {s \in row.routes : s.acked}} = {row.by} \ {NoUnit}
      BY <2>1 DEF Untaken, Acked
  <2> QED BY <1>2, <1>3, <1>5, <2>2, <2>3, <2>4
<1>6. CASE row.status \in {"ACKNOWLEDGED", "RESOLVED"}
  <2>1. Taken(row)
      BY <1>1, <1>6 DEF RowTold
  <2>2. /\ Cardinality(Entries(row, {"ACKNOWLEDGED"})) = 1
        /\ Cardinality(Entries(row, {"RESOLVED"})) = IF row.status = "RESOLVED" THEN 1 ELSE 0
      BY <1>1, <2>1, EntriesAre DEF Taken
  <2>3. {r.unit : r \in {s \in row.routes : s.acked}} = {row.by} \ {NoUnit}
      BY <2>1 DEF Taken, Acked
  <2>4. /\ \A k \in Entries(row, {"ACKNOWLEDGED"}) : row.audit[k].unit = row.by
        /\ \A a \in Entries(row, {"ACKNOWLEDGED"}), k \in Entries(row, Routing \cup {"ROUTING_FAILED"}) : k < a
      BY <1>1, <2>1, EntriesAre DEF Taken
  <2> QED BY <1>2, <1>3, <1>6, <2>2, <2>3, <2>4
<1> QED BY <1>4, <1>5, <1>6
-----------------------------------------------------------------------------
TreeInv ==
    /\ Tree
    /\ editing \in [Editors -> [loc : Locations \cup {NoLocation}, parent : Locations \cup {NoLocation}, active : BOOLEAN]]

LEMMA TreeSteps == TreeInv /\ (ScopeNext \/ UNCHANGED <<parent, editing>>) => TreeInv'
<1> SUFFICES ASSUME TreeInv, ScopeNext \/ UNCHANGED <<parent, editing>> PROVE TreeInv'
    OBVIOUS
<1> DEFINE Form == [loc : Locations \cup {NoLocation}, parent : Locations \cup {NoLocation}, active : BOOLEAN]
<1>1. CASE UNCHANGED <<parent, editing>>
    BY <1>1 DEF TreeInv, Tree
<1>2. ASSUME NEW e \in Editors, NEW l \in Locations, NEW p \in Locations \cup {NoLocation}, NEW on \in BOOLEAN,
             LocationChecked(e, l, p, on)
      PROVE  TreeInv'
  <2>1. [loc |-> l, parent |-> p, active |-> on] \in Form
      OBVIOUS
  <2> HIDE DEF Form
  <2>2. parent' = parent /\ editing' = [editing EXCEPT ![e] = [loc |-> l, parent |-> p, active |-> on]]
      BY <1>2 DEF LocationChecked
  <2>3. editing' \in [Editors -> Form]
      BY <2>1, <2>2 DEF TreeInv, Form
  <2> QED BY <2>2, <2>3 DEF TreeInv, Tree, Form
<1>3. ASSUME NEW e \in Editors, LocationSaved(e) PROVE TreeInv'
  <2>1. NoEdit \in Form /\ editing[e].parent \in Locations \cup {NoLocation}
      BY DEF NoEdit, TreeInv
  <2> HIDE DEF Form
  <2>2. /\ parent' = [parent EXCEPT ![editing[e].loc] = editing[e].parent]
        /\ editing' = [editing EXCEPT ![e] = NoEdit]
      BY <1>3 DEF LocationSaved
  <2>3. editing' \in [Editors -> Form]
      BY <2>1, <2>2 DEF TreeInv, Form
  <2>4. Tree'
      BY <2>1, <2>2 DEF TreeInv, Tree
  <2> QED BY <2>3, <2>4 DEF TreeInv, Form
<1>4. CASE ScopeNext /\ UNCHANGED <<parent, editing>>
    BY <1>1, <1>4
<1> QED BY <1>1, <1>2, <1>3 DEF ScopeNext, UnitToggled, CoverageToggled, UserEdited, UserJudged

LEMMA TickSteps ==
    ASSUME TickInv, RoutingNext \/ UNCHANGED routingVars PROVE TickInv'
<1>1. CASE UNCHANGED routingVars
    BY <1>1 DEF TickInv, routingVars
<1>2. ASSUME UNCHANGED <<now, rulesOn, tick>> PROVE TickInv'
    BY <1>2 DEF TickInv
<1>3. CASE TickLists
    BY <1>3 DEF TickInv, TickLists, Asleep
<1>12. CASE TickCovers
  <2> DEFINE units == [i \in Incidents |-> IF i \in ToSet(tick.list) THEN UnitsCovering(Place(i)) ELSE {}]
  <2>1. UNCHANGED <<now, rulesOn>> /\ tick' = [tick EXCEPT !.at = "rules", !.units = units]
    BY <1>12 DEF TickCovers
  <2>2. tick' = [at |-> "rules", list |-> tick.list, time |-> tick.time, units |-> units,
                 rules |-> tick.rules, central |-> tick.central]
    BY <2>1 DEF TickInv
  <2> QED BY <2>1, <2>2 DEF TickInv
<1>4. CASE TickRules
  <2>1. /\ UNCHANGED <<now, rulesOn>>
        /\ tick' = [tick EXCEPT !.at = "route", !.rules = {r \in rulesOn : r.unit \in unitOn}, !.central = Central \cap unitOn]
      BY <1>4 DEF TickRules
  <2>2. tick' = [at |-> "route", list |-> tick.list, time |-> tick.time, units |-> tick.units,
                 rules |-> {r \in rulesOn : r.unit \in unitOn}, central |-> Central \cap unitOn]
      BY <2>1 DEF TickInv
  <2> QED BY <2>1, <2>2 DEF TickInv
<1>5. CASE TickRoutes
  <2>1. UNCHANGED <<now, rulesOn>> /\ (tick' = Asleep \/ tick' = [tick EXCEPT !.list = Tail(@)])
      BY <1>5 DEF TickRoutes
  <2>2. tick' = [tick EXCEPT !.list = Tail(@)] =>
          tick' = [at |-> tick.at, list |-> Tail(tick.list), time |-> tick.time, units |-> tick.units,
                   rules |-> tick.rules, central |-> tick.central]
      BY DEF TickInv
  <2> QED BY <2>1, <2>2 DEF TickInv, Asleep
<1>6. CASE DispatcherRestarts
    BY <1>6 DEF TickInv, DispatcherRestarts, Asleep
<1>7. ASSUME NEW r \in Rules, RuleToggled(r) PROVE TickInv'
    BY <1>7 DEF TickInv, RuleToggled, Toggled
<1>8. CASE TimePasses
    BY <1>8 DEF TickInv, TimePasses
<1>9. ASSUME NEW i \in Incidents, Ingest(i) PROVE TickInv'
    BY <1>9, <1>2 DEF Ingest
<1>10. ASSUME NEW user \in Users, Acknowledges(user) \/ Resolves(user) \/ Refused(user) PROVE TickInv'
    BY <1>10, <1>2 DEF Acknowledges, Resolves, Refused, Answered
<1>11. ASSUME NEW user \in Users, NEW p, Posts(user, p) PROVE TickInv'
    BY <1>11, <1>2 DEF Posts
<1> QED BY <1>1, <1>2, <1>3, <1>4, <1>5, <1>6, <1>7, <1>8, <1>9, <1>10, <1>11, <1>12 DEF RoutingNext, Dispatcher

LEMMA RowsStep ==
    ASSUME RowsInv, NEW i, NEW new, i \in Incidents => RowTold(new), incident' = [incident EXCEPT ![i] = new]
    PROVE  RowsInv'
<1>1. i \in Incidents => new \in Row
    BY DEF RowTold
<1>2. incident' \in [Incidents -> Row]
    BY <1>1 DEF RowsInv
<1>3. \A j \in Incidents : incident'[j] = IF j = i THEN new ELSE incident[j]
    BY DEF RowsInv
<1>4. \A j \in Incidents : RowTold(incident'[j])
    BY <1>3 DEF RowsInv
<1> QED BY <1>2, <1>4 DEF RowsInv

LEMMA RowSteps ==
    ASSUME TickInv, RowsInv, RoutingNext \/ UNCHANGED routingVars PROVE RowsInv'
<1>1. ASSUME UNCHANGED incident PROVE RowsInv'
    BY <1>1 DEF RowsInv
<1>2. ASSUME NEW i \in Incidents, Ingest(i) PROVE RowsInv'
  <2> DEFINE row == [Absent EXCEPT !.status = "OPEN", !.started = now, !.audit = <<Event("INGESTED", NoUnit, 0)>>]
             units == UnitsCovering(Place(i))
             new == Routed(i, row, RulesFor(units), units \cap Central, now)
  <2>1. incident' = [incident EXCEPT ![i] = new]
      BY <1>2 DEF Ingest
  <2>2. RowTold(row)
      BY CreatedTold DEF TickInv
  <2>3. RulesFor(units) \in SUBSET Rules /\ units \cap Central \in SUBSET Central
      BY DEF RulesFor, TickInv
  <2> HIDE DEF row, units
  <2>4. RowTold(new)
      BY <2>2, <2>3, RoutedTold
  <2> HIDE DEF new
  <2> QED BY <2>1, <2>4, RowsStep
<1>3. CASE TickRoutes
  <2> DEFINE i == Head(tick.list)
             rules == {r \in tick.rules : r.unit \in tick.units[i]}
             central == tick.central \cap tick.units[i]
             new == Routed(i, incident[i], rules, central, tick.time)
  <2>1. incident' = [incident EXCEPT ![i] = new]
      BY <1>3 DEF TickRoutes
  <2>2. rules \in SUBSET Rules /\ central \in SUBSET Central
      BY DEF TickInv
  <2> HIDE DEF rules, central, i
  <2>3. i \in Incidents => RowTold(new)
      BY <2>2, RoutedTold DEF RowsInv
  <2> HIDE DEF new
  <2> QED BY <2>1, <2>3, RowsStep
<1>4. ASSUME NEW user \in Users, Acknowledges(user) PROVE RowsInv'
  <2> DEFINE i == posted[user].incident
             row == incident[i]
             taken(r) == [row EXCEPT !.status = "ACKNOWLEDGED", !.by = r.unit,
                           !.routes = (@ \ {r}) \cup {[r EXCEPT !.acked = TRUE]},
                           !.audit = Append(@, Event("ACKNOWLEDGED", r.unit, r.stage))]
             closed == [row EXCEPT !.status = "ACKNOWLEDGED", !.audit = Append(@, Event("ACKNOWLEDGED", NoUnit, 0))]
  <2>1. row.status = "OPEN"
      BY <1>4 DEF Acknowledges, IsOpen
  <2>2. \/ \E r \in Chosen(user, posted[user]) : incident' = [incident EXCEPT ![i] = taken(r)]
        \/ incident' = [incident EXCEPT ![i] = closed]
      BY <1>4 DEF Acknowledges
  <2>3. \A r \in Chosen(user, posted[user]) : r \in row.routes
      BY DEF Chosen, RoutesOf
  <2>4. ASSUME i \in Incidents PROVE row \in Row /\ RowTold(row)
      BY <2>4 DEF RowsInv
  <2>5. ASSUME NEW r \in Chosen(user, posted[user]), incident' = [incident EXCEPT ![i] = taken(r)] PROVE RowsInv'
    <3>1. i \in Incidents => RowTold(taken(r))
        BY <2>1, <2>3, <2>4, AcknowledgedTold
    <3> HIDE DEF taken, i
    <3> QED BY <2>5, <3>1, RowsStep
  <2>6. ASSUME incident' = [incident EXCEPT ![i] = closed] PROVE RowsInv'
    <3>1. i \in Incidents => RowTold(closed)
        BY <2>1, <2>4, AdministratorTold
    <3> HIDE DEF closed, i
    <3> QED BY <2>6, <3>1, RowsStep
  <2> QED BY <2>2, <2>5, <2>6
<1>5. ASSUME NEW user \in Users, Resolves(user) PROVE RowsInv'
  <2> DEFINE i == posted[user].incident
             row == incident[i]
             new == [row EXCEPT !.status = "RESOLVED", !.audit = Append(@, Event("RESOLVED", row.by, 0))]
  <2>1. row.status = "ACKNOWLEDGED"
      BY <1>5 DEF Resolves, MayResolve
  <2>2. incident' = [incident EXCEPT ![i].status = "RESOLVED", ![i].audit = Append(@, Event("RESOLVED", incident[i].by, 0))]
      BY <1>5 DEF Resolves
  <2>3. incident' = [incident EXCEPT ![i] = new]
      BY <2>2 DEF RowsInv
  <2>4. i \in Incidents => RowTold(new)
      BY <2>1, ResolvedTold DEF RowsInv
  <2> HIDE DEF new, i
  <2> QED BY <2>3, <2>4, RowsStep
<1> QED BY <1>1, <1>2, <1>3, <1>4, <1>5 DEF RoutingNext, Dispatcher, TickLists, TickCovers, TickRules, DispatcherRestarts, Posts, Refused,
        RuleToggled, TimePasses, routingVars

-----------------------------------------------------------------------------
(***************************************************************************)
(* The web application.                                                     *)
(***************************************************************************)
BackofficeInv == IInv /\ TreeInv /\ TickInv /\ RowsInv

LEMMA BackofficeStarts == BackofficeInit => BackofficeInv
<1> SUFFICES ASSUME BackofficeInit PROVE BackofficeInv
    OBVIOUS
<1>1. Init /\ RoutingInit
    BY DEF BackofficeInit
<1>2. IInv
    BY <1>1, InitIInv
<1>3. TreeInv
  <2>1. NoEdit \in [loc : Locations \cup {NoLocation}, parent : Locations \cup {NoLocation}, active : BOOLEAN]
      BY DEF NoEdit
  <2>2. routing \in RoutingSetups /\ parent = routing.tree /\ editing = [e \in Editors |-> NoEdit]
      BY <1>1 DEF RoutingInit, ScopeInit
  <2> QED BY <2>1, <2>2, RoutingAssumption DEF TreeInv, Tree
<1>4. TickInv
    BY <1>1 DEF RoutingInit, TickInv, Asleep
<1>5. RowsInv
  <2>1. RowTold(Absent)
    <3>1. Absent.audit = <<>> /\ <<>> \in Seq(Events)
        BY DEF Absent
    <3>2. Absent \in Row
        BY <3>1 DEF Absent, Row
    <3>3. RoutesTold(Absent)
        BY <3>1, CountEmpty, FS_EmptySet DEF Absent, RoutesTold
    <3>4. Untaken(Absent)
        BY <3>1, CountEmpty DEF Absent, Untaken, Acked
    <3> QED BY <3>2, <3>3, <3>4 DEF RowTold, Absent
  <2>2. incident = [i \in Incidents |-> Absent]
      BY <1>1 DEF RoutingInit
  <2>3. Absent \in Row
      BY <2>1 DEF RowTold
  <2> QED BY <2>1, <2>2, <2>3 DEF RowsInv
<1> QED BY <1>2, <1>3, <1>4, <1>5 DEF BackofficeInv

LEMMA BackofficeSteps == BackofficeInv /\ [BackofficeNext]_backofficeVars => BackofficeInv'
<1> SUFFICES ASSUME BackofficeInv, [BackofficeNext]_backofficeVars PROVE BackofficeInv'
    OBVIOUS
<1>1. [Next]_vars /\ (RoutingNext \/ UNCHANGED routingVars)
    BY DEF BackofficeNext, CamerasNext, IncidentsNext, backofficeVars
<1>2. IInv'
    BY <1>1, StepIInv DEF BackofficeInv
<1>3. ScopeNext \/ UNCHANGED <<parent, editing>>
    BY <1>1 DEF RoutingNext, Ingest, Dispatcher, TickLists, TickCovers, TickRules, TickRoutes, DispatcherRestarts, Posts,
        Acknowledges, Resolves, Refused, Answered, RuleToggled, TimePasses, routingVars, scopeVars
<1>4. TreeInv'
    BY <1>3, TreeSteps DEF BackofficeInv
<1>5. TickInv' /\ RowsInv'
    BY <1>1, TickSteps, RowSteps DEF BackofficeInv
<1> QED BY <1>2, <1>4, <1>5 DEF BackofficeInv

\* Every state of the web application: the documents under way, the forms, what a
\* tick carries along, and the rows.
THEOREM BackofficeHolds == BackofficeSpec => []BackofficeInv
<1>1. BackofficeInv /\ [BackofficeNext]_backofficeVars => BackofficeInv'
    BY BackofficeSteps
<1> QED BY BackofficeStarts, <1>1, PTL DEF BackofficeSpec

\* What a user is shown, one of his units is responsible for, whatever two editors
\* make of the tree (_covered_location_ids, build_location_security_unit_index).
THEOREM ScopeContainedHolds == BackofficeSpec => []ScopeContained
<1>1. BackofficeInv => ScopeContained
    BY ContainedInTree DEF BackofficeInv, TreeInv
<1> QED BY <1>1, BackofficeHolds, PTL

\* Every route has its entry and every entry its route, one operator takes an
\* incident, and nothing is routed after that (routing.py, actions.py).
THEOREM AuditTrueHolds == BackofficeSpec => []AuditTrue
<1>1. BackofficeInv => AuditTrue
    BY ToldIsTrue DEF BackofficeInv
<1> QED BY <1>1, BackofficeHolds, PTL

\* The pauses again, beside the incidents.
THEOREM PausesKeptHolds == BackofficeSpec => []PausesKept
<1>1. BackofficeInv => PausesKept
    BY InvariantKeeps DEF BackofficeInv
<1> QED BY <1>1, BackofficeHolds, PTL
=============================================================================
