-------------------------- MODULE OfflineJobsProofs --------------------------
(***************************************************************************)
(* The state files, request.json and the import cursor implement the        *)
(* contract of the pages, for any number of runs, parents, crashes and      *)
(* cancellations, and no medium is opened twice.                            *)
(***************************************************************************)
EXTENDS OfflineJobs, SequenceCounting

Marker(r)   == [run |-> r, what |-> "marker"]
Results(r)  == {[run |-> r, what |-> "result"], [run |-> r, what |-> "no_evidence"]}
Messages    == [run : Runs, what : {"result", "no_evidence", "marker"}]

\* What a queue still holds of a run.
Holds(q, r)    == \E i \in DOMAIN q : q[i].run = r
MarkerIn(q, r) == \E i \in DOMAIN q : q[i] = Marker(r)
MarkerLast(q, r) == \A i, j \in DOMAIN q : q[i] = Marker(r) /\ i < j => q[j].run # r

\* The results of a run the outbox has, and those on their way to it.
Lines(r)   == CountIn(outbox, {r})
Carried(r) == CountIn(stage3q, Results(r)) + CountIn(incidentq, Results(r)) + held
LinesUpTo(r, n) == \A i \in 1 .. Len(outbox) : outbox[i] = r => i <= n

(***************************************************************************)
(* The invariant, part by part.                                             *)
(***************************************************************************)
\* The rows of the pages, and the request.
RowInv ==
    /\ row \in [Runs -> [state : {"ABSENT"} \cup Open \cup Terminal, cancel : BOOLEAN]]
    /\ asked \subseteq Runs
    /\ \A r \in Runs : row[r].cancel => r \in asked
    /\ \A r \in Runs : request.run = r => row[r].state # "ABSENT"

\* What the reconcile passes hold is of submitted runs; a cancel flag was asked for.
Known(x) == row[x.run].state # "ABSENT" /\ (x.cancel => x.run \in asked)
Queried  == [run : Runs, cancel : BOOLEAN]
Saved    == Terminal \cup {"PROCESSING"}
Hands    == [run : Runs \cup {0}, state : Saved \cup {"NONE"}, cancel : BOOLEAN]

PassInv ==
    /\ step \in [Passers -> {"idle", "rows", "save", "write", "done"}]
    /\ queried \in [Passers -> SUBSET Queried]
    /\ hand \in [Passers -> Hands]
    /\ \A p \in Passers : \A x \in queried[p] : Known(x)
    /\ \A p \in Passers : step[p] \in {"save", "write"} => hand[p].run \in Runs /\ Known(hand[p])
    /\ \A p \in Passers : step[p] = "save" => hand[p].state \in Saved

\* The state files and the parents that write them.
FileInv ==
    /\ file \in [Runs -> [state : {"NONE", "PROCESSING"} \cup Terminal, owner : Nat, offset : Nat]]
    /\ launches \in Nat /\ parent \in {0, launches}
    /\ \A r \in Runs : file[r].owner <= launches
    /\ \A r, q \in Active : r = q
    /\ \A r \in Runs : file[r].state # "NONE" => row[r].state # "ABSENT"

OpenInv ==
    /\ item \in {"none", "reading", "done", "failed"}
    /\ opened \in [Runs -> {0, 1}]
    /\ \A r \in Runs : file[r].state = "NONE" => opened[r] = 0
    /\ \A r \in Active : item = "none" => opened[r] = 0

\* A state that the file f, the cursor c and the wish to cancel account for.
Backed(f, c, wanted, s) ==
    /\ s = "PROCESSING" => f.state # "NONE"
    /\ s \in {"COMPLETED", "FAILED"} => f.state = s
    /\ s = "COMPLETED" => f.offset <= c
    /\ s = "CANCELLED" => wanted \/ f.state = s

\* What a row shows is accounted for, and so is what a pass is about to save.
ShownInv ==
    /\ \A r \in Runs : Backed(file[r], cursor, r \in asked, row[r].state)
    /\ \A p \in Passers : step[p] = "save" =>
         Backed(file[hand[p].run], cursor, hand[p].run \in asked, hand[p].state)

QueueInv ==
    /\ stage3q \in Seq(Messages) /\ incidentq \in Seq(Messages)
    /\ held \in Nat /\ (held # 0 => \E r \in Runs : Current(r))
    /\ failure \in [Runs -> {"none", "evidence", "other"}]

OutboxInv ==
    /\ outbox \in Seq(Runs) /\ cursor \in 0 .. Len(outbox)
    /\ ack \in [Runs -> Nat \cup {NoAck}] /\ produced \in [Runs -> Nat]

\* Nothing exists of a run whose medium no parent has opened.
Unopened(r) == file[r].state = "NONE" \/ (r \in Active /\ item = "none")

FreshInv ==
    \A r \in Runs : Unopened(r) =>
        /\ ~Holds(stage3q, r) /\ ~Holds(incidentq, r)
        /\ ack[r] = NoAck /\ failure[r] = "none" /\ produced[r] = 0 /\ Lines(r) = 0

\* The marker of the active run is behind its results, wherever it is.
MarkerInv ==
    \A r \in Active :
        /\ ~sent => ~MarkerIn(stage3q, r) /\ ~MarkerIn(incidentq, r) /\ ack[r] = NoAck
        /\ sent => item \in {"done", "failed"}
        /\ MarkerLast(stage3q, r) /\ MarkerLast(incidentq, r)
        /\ MarkerIn(incidentq, r) => ~Holds(stage3q, r) /\ ack[r] = NoAck
        /\ ack[r] # NoAck => ~Holds(stage3q, r) /\ ~Holds(incidentq, r) /\ held = 0 /\ LinesUpTo(r, ack[r])
        /\ Kind[r] = "SPEED" => ~Holds(stage3q, r)

\* Every result found is in the outbox or on its way to it, unless a failure is
\* recorded; a run that completed has them all in the outbox.
BalanceInv ==
    /\ \A r \in Runs : Lines(r) <= produced[r]
    /\ \A r \in Active : /\ Lines(r) + Carried(r) <= produced[r]
                         /\ failure[r] = "none" => Lines(r) + Carried(r) = produced[r]
    /\ \A r \in Runs : file[r].state = "COMPLETED" => Lines(r) = produced[r] /\ LinesUpTo(r, file[r].offset)

JobsInv ==
    /\ RowInv /\ PassInv /\ FileInv /\ OpenInv /\ ShownInv /\ QueueInv /\ OutboxInv
    /\ FreshInv /\ MarkerInv /\ BalanceInv
-----------------------------------------------------------------------------
\* The parts of the system that read the rows and never write them.
Runtime ==
    \/ \E r \in Runs : Tick(r) \/ Consumers(r)
    \/ Import \/ ParentStart \/ ParentCrash \/ ParentStop \/ Stage3Step \/ IncidentStep

LEMMA RuntimeKeepsRows == Runtime => UNCHANGED <<row, asked, step, queried, hand, request>>
BY DEF Runtime, Tick, Claim, FailInterrupted, OpenMedia, OpenFails, TickCancelled, TickFailed, SendMarker,
       TickAcknowledged, End, Consumers, FindFight, FindSpeed, FileDone, ConsumerFails, Publish, Import,
       ParentStart, ParentCrash, ParentStop, Vanish, Stage3Step, IncidentStep, web, recon

\* The steps of the pages and the reconciler, which change nothing else.
Pages == (\E r \in Runs : Submit(r) \/ Cancel(r)) \/ \E p \in Passers : Reconcile(p)

LEMMA PagesKeepRuntime == Pages => UNCHANGED <<durable, parent, run, pipe, outbox, cursor, produced, opened>>
BY DEF Pages, Submit, Cancel, Reconcile, ReconcileQuery, ReconcileRead, ReconcileSave, ReconcilePick, ReconcileWrite

LEMMA NextIs == Next => Pages \/ Runtime
BY DEF Next, Pages, Runtime

\* The steps that leave rows and passes alone.
Elsewhere == Runtime \/ UNCHANGED vars

LEMMA PassSteps ==
    [Next]_vars => \/ \E r \in Runs : Submit(r) \/ Cancel(r)
                   \/ \E p \in Passers : Reconcile(p)
                   \/ Elsewhere
BY NextIs DEF Pages, Elsewhere

LEMMA ElsewhereKeeps == Elsewhere => UNCHANGED <<row, asked, step, queried, hand, request>>
BY RuntimeKeepsRows DEF Elsewhere, vars, web, recon

\* What a save writes.
LEMMA SaveIs ==
    ASSUME RowInv, PassInv, NEW p \in Passers, ReconcileSave(p)
    PROVE  /\ hand[p].run \in Runs /\ hand[p].state \in Saved /\ hand[p].cancel \in BOOLEAN /\ Known(hand[p])
           /\ row' = [row EXCEPT ![hand[p].run] = [state |-> hand[p].state, cancel |-> hand[p].cancel]]
           /\ UNCHANGED <<asked, request>>
<1>1. step[p] = "save" /\ UNCHANGED <<asked, request>>
      /\ row' = [row EXCEPT ![hand[p].run] = [state |-> hand[p].state, cancel |-> hand[p].cancel]]
    BY DEF ReconcileSave
<1>2. hand[p] \in Hands
    BY DEF PassInv
<1> QED BY <1>1, <1>2 DEF PassInv, Hands

\* A row never goes back to ABSENT, and a wish to cancel is remembered.
LEMMA RowsStay ==
    ASSUME RowInv, PassInv, [Next]_vars, NEW r \in Runs
    PROVE  /\ row[r].state # "ABSENT" => row'[r].state # "ABSENT"
           /\ r \in asked => r \in asked'
<1>1. CASE \E q \in Runs : Submit(q)
    BY <1>1 DEF Submit, NewRow, RowInv
<1>2. CASE \E q \in Runs : Cancel(q)
    BY <1>2 DEF Cancel, RowInv
<1>3. ASSUME NEW p \in Passers, ReconcileSave(p)
      PROVE  (row[r].state # "ABSENT" => row'[r].state # "ABSENT") /\ asked' = asked
  <2>1. hand[p].run \in Runs /\ hand[p].state # "ABSENT" /\ asked' = asked
        /\ row' = [row EXCEPT ![hand[p].run] = [state |-> hand[p].state, cancel |-> hand[p].cancel]]
      BY <1>3, SaveIs DEF Saved, Terminal
  <2>2. \A q \in Runs : row'[q].state = IF q = hand[p].run THEN hand[p].state ELSE row[q].state
      BY <2>1 DEF RowInv
  <2> QED BY <2>1, <2>2
<1>4. ASSUME NEW p \in Passers, ReconcileQuery(p) \/ ReconcileRead(p) \/ ReconcilePick(p) \/ ReconcileWrite(p)
      PROVE  UNCHANGED <<row, asked>>
    BY <1>4 DEF ReconcileQuery, ReconcileRead, ReconcilePick, ReconcileWrite, web
<1>5. CASE Elsewhere
    BY <1>5, ElsewhereKeeps
<1> QED BY <1>1, <1>2, <1>3, <1>4, <1>5, PassSteps DEF Reconcile

LEMMA RowStep == RowInv /\ PassInv /\ [Next]_vars => RowInv'
<1> SUFFICES ASSUME RowInv, PassInv, [Next]_vars PROVE RowInv'
    OBVIOUS
<1>1. ASSUME NEW r \in Runs, Submit(r) PROVE RowInv'
  <2>1. row' = [row EXCEPT ![r] = [state |-> "QUEUED", cancel |-> FALSE]] /\ UNCHANGED <<asked, request>>
      BY <1>1 DEF Submit, NewRow, recon
  <2> QED BY <2>1 DEF RowInv, Open
<1>2. ASSUME NEW r \in Runs, Cancel(r) PROVE RowInv'
  <2>1. row' = [row EXCEPT ![r].cancel = TRUE] /\ asked' = asked \cup {r} /\ request' = request
      BY <1>2 DEF Cancel, recon
  <2>2. \A q \in Runs : row'[q].state = row[q].state
      BY <2>1 DEF RowInv
  <2>3. row' \in [Runs -> [state : {"ABSENT"} \cup Open \cup Terminal, cancel : BOOLEAN]]
      BY <2>1 DEF RowInv
  <2>4. \A q \in Runs : row'[q].cancel => q \in asked'
      BY <2>1 DEF RowInv
  <2> QED BY <2>1, <2>2, <2>3, <2>4 DEF RowInv
<1>3. ASSUME NEW p \in Passers, ReconcileSave(p) PROVE RowInv'
  <2> DEFINE h == hand[p]
  <2>1. /\ h.run \in Runs /\ h.state \in Open \cup Terminal /\ h.state # "ABSENT" /\ h.cancel \in BOOLEAN
        /\ (h.cancel => h.run \in asked)
      BY <1>3, SaveIs DEF Saved, Open, Terminal, Known
  <2>2. row' = [row EXCEPT ![h.run] = [state |-> h.state, cancel |-> h.cancel]] /\ UNCHANGED <<asked, request>>
      BY <1>3, SaveIs
  <2> HIDE DEF h
  <2>3. row' \in [Runs -> [state : {"ABSENT"} \cup Open \cup Terminal, cancel : BOOLEAN]]
      BY <2>1, <2>2 DEF RowInv
  <2>4. \A q \in Runs : (row'[q].cancel => q \in asked') /\ (request'.run = q => row'[q].state # "ABSENT")
      BY <2>1, <2>2 DEF RowInv
  <2> QED BY <2>2, <2>3, <2>4 DEF RowInv
<1>4. ASSUME NEW p \in Passers, ReconcileQuery(p) \/ ReconcileRead(p) \/ ReconcilePick(p) PROVE RowInv'
  <2>1. UNCHANGED <<row, asked, request>>
      BY <1>4 DEF ReconcileQuery, ReconcileRead, ReconcilePick, web
  <2> QED BY <2>1 DEF RowInv
<1>5. ASSUME NEW p \in Passers, ReconcileWrite(p) PROVE RowInv'
  <2>1. step[p] = "write" /\ request' = [run |-> hand[p].run, cancel |-> hand[p].cancel] /\ UNCHANGED <<row, asked>>
      BY <1>5 DEF ReconcileWrite, web
  <2>2. request'.run = hand[p].run /\ row[hand[p].run].state # "ABSENT"
      BY <2>1 DEF PassInv, Known
  <2> QED BY <2>1, <2>2 DEF RowInv
<1>6. CASE Elsewhere
    BY <1>6, ElsewhereKeeps DEF RowInv
<1> QED BY <1>1, <1>2, <1>3, <1>4, <1>5, <1>6, PassSteps DEF Reconcile

\* What a pass still holds stays what it was, whoever moves.
LEMMA KnownStays ==
    ASSUME RowInv, PassInv, [Next]_vars
    PROVE  /\ \A x \in Queried : Known(x) => Known(x)'
           /\ \A p \in Passers : hand[p].run \in Runs /\ Known(hand[p])
                => row'[hand[p].run].state # "ABSENT" /\ (hand[p].cancel => hand[p].run \in asked')
<1>1. \A x \in Queried : x.run \in Runs
    BY DEF Queried
<1> QED BY <1>1, RowsStay DEF Known

LEMMA PassStep == RowInv /\ PassInv /\ FileInv /\ [Next]_vars => PassInv'
<1> SUFFICES ASSUME RowInv, PassInv, FileInv, [Next]_vars PROVE PassInv'
    OBVIOUS
<1> DEFINE Steps == {"idle", "rows", "save", "write", "done"}
           RowsOf(p) == queried'[p] \subseteq Queried /\ \A x \in queried'[p] : Known(x)'
           HandOf(p) == /\ hand'[p] \in Hands
                        /\ step'[p] \in {"save", "write"} =>
                             /\ hand'[p].run \in Runs /\ row'[hand'[p].run].state # "ABSENT"
                             /\ hand'[p].cancel => hand'[p].run \in asked'
                        /\ step'[p] = "save" => hand'[p].state \in Saved
<1>a. /\ step \in [Passers -> Steps] /\ queried \in [Passers -> SUBSET Queried] /\ hand \in [Passers -> Hands]
    BY DEF PassInv
<1>b. ASSUME step' \in [Passers -> Steps], DOMAIN queried' = Passers, DOMAIN hand' = Passers,
             queried' = [p \in Passers |-> queried'[p]], hand' = [p \in Passers |-> hand'[p]],
             \A p \in Passers : RowsOf(p) /\ HandOf(p)
      PROVE  PassInv'
  <2>1. queried' \in [Passers -> SUBSET Queried] /\ hand' \in [Passers -> Hands]
      BY <1>b
  <2> QED BY <1>b, <2>1 DEF PassInv, Known
<1>c. ASSUME NEW p \in Passers, queried'[p] \subseteq queried[p] PROVE RowsOf(p)
  <2>1. queried[p] \subseteq Queried /\ \A x \in queried[p] : Known(x)
      BY DEF PassInv
  <2>2. \A x \in Queried : Known(x) => Known(x)'
      BY KnownStays
  <2> QED BY <1>c, <2>1, <2>2
<1>d. ASSUME NEW p \in Passers, hand'[p] = hand[p], step'[p] = step[p] PROVE HandOf(p)
  <2>1. hand[p] \in Hands /\ (step[p] \in {"save", "write"} => hand[p].run \in Runs /\ Known(hand[p]))
        /\ (step[p] = "save" => hand[p].state \in Saved)
      BY DEF PassInv
  <2>2. hand[p].run \in Runs /\ Known(hand[p])
        => row'[hand[p].run].state # "ABSENT" /\ (hand[p].cancel => hand[p].run \in asked')
      BY KnownStays
  <2> QED BY <1>d, <2>1, <2>2
<1>e. ASSUME NEW p \in Passers, hand'[p] \in Hands, step'[p] \notin {"save", "write"} PROVE HandOf(p)
    BY <1>e
<1>n. NoHand \in Hands
    BY DEF NoHand, Hands
<1> HIDE DEF RowsOf, HandOf
<1>1. ASSUME NEW p \in Passers, ReconcileQuery(p) PROVE PassInv'
  <2>1. /\ step' = [step EXCEPT ![p] = "rows"] /\ UNCHANGED <<hand, row, asked>>
        /\ queried' = [queried EXCEPT ![p] = {[run |-> r, cancel |-> row[r].cancel] : r \in Outstanding}]
      BY <1>1 DEF ReconcileQuery, web
  <2>2. RowsOf(p)
    <3>1. queried'[p] = {[run |-> r, cancel |-> row[r].cancel] : r \in Outstanding}
        BY <2>1, <1>a
    <3>2. ASSUME NEW x \in queried'[p] PROVE x \in Queried /\ Known(x)'
      <4>1. PICK r \in Outstanding : x = [run |-> r, cancel |-> row[r].cancel]
          BY <3>1, <3>2
      <4>2. r \in Runs /\ row[r].cancel \in BOOLEAN /\ row[r].state # "ABSENT" /\ (row[r].cancel => r \in asked)
          BY DEF Outstanding, RowInv, Open
      <4>3. x \in Queried
          BY <4>1, <4>2 DEF Queried
      <4> QED BY <4>1, <4>2, <4>3, <2>1 DEF Known
    <3> QED BY <3>2 DEF RowsOf
  <2>3. HandOf(p)
      BY <2>1, <1>a, <1>e
  <2>4. \A q \in Passers \ {p} : RowsOf(q) /\ HandOf(q)
      BY <2>1, <1>a, <1>c, <1>d
  <2> QED BY <2>1, <2>2, <2>3, <2>4, <1>a, <1>b
<1>2. ASSUME NEW p \in Passers, ReconcileRead(p) PROVE PassInv'
  <2>1. PICK x \in queried[p] :
          /\ queried' = [queried EXCEPT ![p] = @ \ {x}]
          /\ IF StateToSave(x) = "NONE"
             THEN UNCHANGED <<step, hand>>
             ELSE /\ step' = [step EXCEPT ![p] = "save"]
                  /\ hand' = [hand EXCEPT ![p] = [run |-> x.run, state |-> StateToSave(x), cancel |-> x.cancel]]
      BY <1>2 DEF ReconcileRead
  <2>2. RowsOf(p)
      BY <2>1, <1>a, <1>c
  <2>3. x \in Queried /\ Known(x)'
      BY KnownStays DEF PassInv
  <2>4. StateToSave(x) = "NONE" \/ StateToSave(x) \in Saved
    <3>1. x.run \in Runs
        BY <2>3 DEF Queried
    <3>2. file[x.run].state \in {"NONE", "PROCESSING"} \cup Terminal
        BY <3>1 DEF FileInv
    <3> QED BY <3>2 DEF StateToSave, ReportedState, Saved, Terminal
  <2>5. CASE StateToSave(x) = "NONE"
      BY <2>1, <2>2, <2>5, <1>a, <1>b, <1>c, <1>d
  <2>6. CASE StateToSave(x) # "NONE"
    <3> DEFINE h == [run |-> x.run, state |-> StateToSave(x), cancel |-> x.cancel]
    <3>1. step' = [step EXCEPT ![p] = "save"] /\ hand' = [hand EXCEPT ![p] = h]
        BY <2>1, <2>6
    <3>2. h \in Hands /\ h.run \in Runs /\ h.state \in Saved
          /\ row'[h.run].state # "ABSENT" /\ (h.cancel => h.run \in asked')
        BY <2>3, <2>4, <2>6 DEF Hands, Queried, Known
    <3> HIDE DEF h
    <3>3. HandOf(p)
        BY <3>1, <3>2, <1>a DEF HandOf
    <3>4. \A q \in Passers \ {p} : RowsOf(q) /\ HandOf(q)
        BY <2>1, <3>1, <1>a, <1>c, <1>d
    <3> QED BY <2>1, <2>2, <3>1, <3>2, <3>3, <3>4, <1>a, <1>b
  <2> QED BY <2>5, <2>6
<1>3. ASSUME NEW p \in Passers, ReconcileSave(p) \/ ReconcileWrite(p) PROVE PassInv'
  <2>1. PICK t \in {"rows", "idle", "done"} :
          step' = [step EXCEPT ![p] = t] /\ hand' = [hand EXCEPT ![p] = NoHand] /\ queried' = queried
      BY <1>3 DEF ReconcileSave, ReconcileWrite, Over
  <2>2. HandOf(p)
      BY <2>1, <1>a, <1>n, <1>e
  <2>3. \A q \in Passers \ {p} : HandOf(q)
      BY <2>1, <1>a, <1>d
  <2>4. \A q \in Passers : RowsOf(q)
      BY <2>1, <1>c
  <2> QED BY <2>1, <2>2, <2>3, <2>4, <1>a, <1>b, <1>n
<1>4. ASSUME NEW p \in Passers, ReconcilePick(p) PROVE PassInv'
  <2>1. queried' = queried /\ UNCHANGED <<row, asked>>
      BY <1>4 DEF ReconcilePick, web
  <2>2. \A q \in Passers : RowsOf(q)
      BY <2>1, <1>c
  <2>3. CASE step' = [step EXCEPT ![p] = Over(p)] /\ hand' = hand
    <3>1. Over(p) \in {"idle", "done"}
        BY DEF Over
    <3>2. HandOf(p)
        BY <2>3, <3>1, <1>a, <1>e
    <3>3. \A q \in Passers \ {p} : HandOf(q)
        BY <2>3, <1>a, <1>d
    <3> QED BY <2>1, <2>2, <2>3, <3>1, <3>2, <3>3, <1>a, <1>b
  <2>4. ASSUME NEW r \in Runs, Oldest(r, Outstanding), step' = [step EXCEPT ![p] = "write"],
               hand' = [hand EXCEPT ![p] = [run |-> r, state |-> "NONE", cancel |-> row[r].cancel]]
        PROVE PassInv'
    <3> DEFINE h == [run |-> r, state |-> "NONE", cancel |-> row[r].cancel]
    <3>2. hand' = [hand EXCEPT ![p] = h]
        BY <2>4
    <3>3. row[r].state # "ABSENT" /\ row[r].cancel \in BOOLEAN /\ (row[r].cancel => r \in asked)
        BY <2>4 DEF Oldest, Outstanding, Open, RowInv
    <3>4. h \in Hands /\ h.run = r /\ (h.cancel => r \in asked)
        BY <3>3 DEF Hands
    <3> HIDE DEF h
    <3>5. HandOf(p)
        BY <2>1, <2>4, <3>2, <3>3, <3>4, <1>a DEF HandOf
    <3>6. \A q \in Passers \ {p} : HandOf(q)
        BY <2>4, <3>2, <1>a, <1>d
    <3> QED BY <2>1, <2>2, <2>4, <3>2, <3>4, <3>5, <3>6, <1>a, <1>b
  <2> QED BY <1>4, <2>3, <2>4 DEF ReconcilePick
<1>5. ASSUME UNCHANGED <<step, queried, hand>> PROVE PassInv'
    BY <1>5, <1>a, <1>b, <1>c, <1>d
<1>6. CASE \E r \in Runs : Submit(r) \/ Cancel(r)
    BY <1>6, <1>5 DEF Submit, Cancel, recon
<1>7. CASE Elsewhere
    BY <1>7, <1>5, ElsewhereKeeps
<1> QED BY <1>1, <1>2, <1>3, <1>4, <1>6, <1>7, PassSteps DEF Reconcile

-----------------------------------------------------------------------------
\* What happens to the state file of a run that ends.
Ended(r, state, offset) ==
    file' = [file EXCEPT ![r] = [state |-> state, owner |-> file[r].owner, offset |-> offset]]

LEMMA RecordIs ==
    ASSUME NEW States, NEW x \in [state : States, owner : Nat, offset : Nat], NEW state \in States
    PROVE  [x EXCEPT !.state = state] = [state |-> state, owner |-> x.owner, offset |-> x.offset]
OBVIOUS

LEMMA FileIs ==
    ASSUME FileInv, NEW r \in Runs, NEW state \in Terminal
    PROVE  [file[r] EXCEPT !.state = state] = [state |-> state, owner |-> file[r].owner, offset |-> file[r].offset]
<1> DEFINE States == {"NONE", "PROCESSING"} \cup Terminal
<1>1. file[r] \in [state : States, owner : Nat, offset : Nat] /\ state \in States
    BY DEF FileInv
<1> HIDE DEF States
<1> QED BY <1>1, RecordIs

LEMMA EndIs ==
    ASSUME NEW r \in Runs, NEW state, NEW offset, End(r, state, offset)
    PROVE  Ended(r, state, offset) /\ item' = "none" /\ held' = 0
           /\ UNCHANGED <<row, asked, step, queried, hand, request, cancels, launches, parent, sent, stage3q, incidentq, failure, ack,
                          outbox, cursor, produced, opened>>
BY DEF End, Ended, web, recon

LEMMA OpenFailsIs ==
    ASSUME FileInv, NEW r \in Runs, OpenFails(r) PROVE Ended(r, "FAILED", file[r].offset)
<1>1. file' = [file EXCEPT ![r] = [file[r] EXCEPT !.state = "FAILED"]]
    BY DEF OpenFails
<1>2. file[r].offset \in Nat
    BY DEF FileInv
<1> QED BY <1>1, <1>2, FileIs DEF Ended, Terminal

LEMMA FailInterruptedIs ==
    ASSUME FileInv, NEW r \in Runs, FailInterrupted(r) PROVE Ended(r, "FAILED", file[r].offset)
<1>1. file' = [file EXCEPT ![r] = [file[r] EXCEPT !.state = "FAILED"]]
    BY DEF FailInterrupted
<1>2. file[r].offset \in Nat
    BY DEF FileInv
<1> QED BY <1>1, <1>2, FileIs DEF Ended, Terminal

\* The steps of the runtime that write no state file and launch or lose no parent.
Steady ==
    \/ \E r \in Runs : OpenMedia(r) \/ SendMarker(r) \/ Consumers(r)
    \/ Import \/ Stage3Step \/ IncidentStep

LEMMA SteadyKeeps == Steady => UNCHANGED <<row, asked, step, queried, hand, request, cancels, file, launches, parent>>
BY DEF Steady, OpenMedia, SendMarker, Consumers, FindFight, FindSpeed, FileDone, ConsumerFails, Publish, Import,
       Stage3Step, IncidentStep, web, recon, durable

\* The active run leaves PROCESSING, and how it may end.
Leaves(r) ==
    \/ OpenFails(r)
    \/ TickCancelled(r) \/ TickFailed(r) \/ TickAcknowledged(r)

LEMMA StepIs ==
    [Next]_vars => \/ Pages \/ Steady \/ UNCHANGED vars
                   \/ \E r \in Runs : Claim(r) \/ FailInterrupted(r) \/ Leaves(r)
                   \/ ParentStart \/ ParentCrash \/ ParentStop
BY DEF Next, Pages, Steady, Leaves, Tick

\* A run that leaves ends in a terminal state, and it was the active one.
LEMMA LeavesIs ==
    ASSUME FileInv, OutboxInv, NEW r \in Runs, Leaves(r)
    PROVE  /\ r \in Active /\ UNCHANGED <<row, asked, step, queried, hand, request, launches, parent>>
           /\ \E state \in Terminal, offset \in Nat :
                /\ Ended(r, state, offset)
                /\ state = "COMPLETED" => TickAcknowledged(r) /\ failure[r] # "evidence" /\ offset = ack[r]
<1>1. CASE OpenFails(r)
  <2>1. r \in Active /\ UNCHANGED <<row, asked, step, queried, hand, request, launches, parent>>
      BY <1>1 DEF OpenFails, web, recon
  <2>2. file[r].offset \in Nat
      BY DEF FileInv
  <2> QED BY <1>1, <2>1, <2>2, OpenFailsIs DEF Terminal
<1>2. CASE TickCancelled(r)
  <2>1. End(r, "CANCELLED", 0) /\ r \in Active
      BY <1>2 DEF TickCancelled, Current
  <2> QED BY <2>1, EndIs DEF Terminal
<1>3. CASE TickFailed(r)
  <2>1. End(r, "FAILED", 0) /\ r \in Active
      BY <1>3 DEF TickFailed, Current
  <2> QED BY <2>1, EndIs DEF Terminal
<1>4. CASE TickAcknowledged(r)
  <2> DEFINE s == IF failure[r] = "evidence" THEN "FAILED" ELSE "COMPLETED"
  <2>1. End(r, s, ack[r]) /\ r \in Active /\ ack[r] # NoAck
      BY <1>4 DEF TickAcknowledged, Draining, Current
  <2>2. ack[r] \in Nat
      BY <2>1 DEF OutboxInv
  <2>3. s \in Terminal /\ (s = "COMPLETED" => failure[r] # "evidence")
      BY DEF Terminal
  <2>4. Ended(r, s, ack[r]) /\ UNCHANGED <<row, asked, step, queried, hand, request, launches, parent>>
      BY <2>1, <2>2, <2>3, EndIs
  <2> HIDE DEF s
  <2> QED BY <1>4, <2>1, <2>2, <2>3, <2>4
<1> QED BY <1>1, <1>2, <1>3, <1>4 DEF Leaves

\* After a run has ended, and after a parent is gone or is new, none is active.
LEMMA EndedActive ==
    ASSUME FileInv, NEW r \in Runs, NEW state \in Terminal, NEW offset, Ended(r, state, offset), parent' = parent
    PROVE  Active' = Active \ {r}
<1>1. file'[r].state = state /\ \A q \in Runs \ {r} : file'[q] = file[q]
    BY DEF Ended, FileInv
<1>2. state # "PROCESSING"
    BY DEF Terminal
<1> QED BY <1>1, <1>2 DEF Active

LEMMA ActiveChanges ==
    ASSUME FileInv, OutboxInv
    PROVE  /\ \A r \in Runs : Leaves(r) => Active' = {}
           /\ \A r \in Runs : FailInterrupted(r) => Active' = {} /\ Active = {}
           /\ \A r \in Runs : Claim(r) => Active' = {r} /\ Active = {}
           /\ ParentStart => Active = {} /\ Active' = {}
           /\ ParentCrash \/ ParentStop => Active' = {}
           /\ Pages \/ Steady \/ UNCHANGED vars => Active' = Active
<1>1. ASSUME NEW r \in Runs, Leaves(r) PROVE Active' = {}
  <2>1. r \in Active /\ parent' = parent
      BY <1>1, LeavesIs
  <2>2. Active' = Active \ {r}
      BY <1>1, LeavesIs, EndedActive
  <2> QED BY <2>1, <2>2 DEF FileInv
<1>2. ASSUME NEW r \in Runs, FailInterrupted(r) PROVE Active' = {} /\ Active = {}
  <2>1. Active = {} /\ parent' = parent
      BY <1>2 DEF FailInterrupted
  <2>2. Active' = Active \ {r}
      BY <1>2, <2>1, FailInterruptedIs, EndedActive DEF Terminal
  <2> QED BY <2>1, <2>2
<1>3. ASSUME NEW r \in Runs, Claim(r) PROVE Active' = {r} /\ Active = {}
  <2>1. Active = {} /\ parent' = parent /\ parent # 0
        /\ file' = [file EXCEPT ![r] = [state |-> "PROCESSING", owner |-> parent, offset |-> 0]]
      BY <1>3 DEF Claim
  <2> QED BY <2>1 DEF Active, FileInv
<1>4. ASSUME ParentStart PROVE Active = {} /\ Active' = {}
  <2>1. parent = 0 /\ parent' = launches + 1 /\ file' = file
      BY <1>4 DEF ParentStart
  <2>2. \A r \in Runs : file[r].owner \in Nat /\ file[r].owner <= launches
      BY DEF FileInv
  <2>3. \A r \in Runs : file[r].owner # launches + 1
      BY <2>2 DEF FileInv
  <2> QED BY <2>1, <2>3 DEF Active
<1>5. ASSUME ParentCrash \/ ParentStop PROVE Active' = {}
    BY <1>5 DEF ParentCrash, ParentStop, Vanish, Active
<1>6. ASSUME Pages \/ Steady \/ UNCHANGED vars PROVE Active' = Active
  <2>1. UNCHANGED <<file, parent>>
      BY <1>6, PagesKeepRuntime, SteadyKeeps DEF durable, vars
  <2> QED BY <2>1 DEF Active
<1> QED BY <1>1, <1>2, <1>3, <1>4, <1>5, <1>6

LEMMA FileStep == RowInv /\ PassInv /\ FileInv /\ OutboxInv /\ [Next]_vars => FileInv'
<1> SUFFICES ASSUME RowInv, PassInv, FileInv, OutboxInv, [Next]_vars PROVE FileInv'
    OBVIOUS
<1>a. \A r \in Runs : row[r].state # "ABSENT" => row'[r].state # "ABSENT"
    BY RowsStay
<1>1. ASSUME UNCHANGED <<file, launches, parent>> PROVE FileInv'
    BY <1>1, <1>a DEF FileInv, Active
<1>2. ASSUME NEW r \in Runs, Claim(r) PROVE FileInv'
  <2>1. Active' = {r}
      BY <1>2, ActiveChanges
  <2>2. /\ file' = [file EXCEPT ![r] = [state |-> "PROCESSING", owner |-> parent, offset |-> 0]]
        /\ UNCHANGED <<launches, parent>> /\ request.run = r
      BY <1>2 DEF Claim
  <2>3. parent \in Nat /\ parent <= launches
      BY DEF FileInv
  <2>4. row'[r].state # "ABSENT"
      BY <2>2, <1>a DEF RowInv
  <2>5. file' \in [Runs -> [state : {"NONE", "PROCESSING"} \cup Terminal, owner : Nat, offset : Nat]]
      BY <2>2, <2>3 DEF FileInv
  <2>6. \A q \in Runs : file'[q].owner <= launches' /\ (file'[q].state # "NONE" => row'[q].state # "ABSENT")
      BY <2>2, <2>3, <2>4, <1>a DEF FileInv
  <2> QED BY <2>1, <2>2, <2>5, <2>6 DEF FileInv
<1>3. ASSUME NEW r \in Runs, FailInterrupted(r) \/ Leaves(r) PROVE FileInv'
  <2>1. Active' = {} /\ UNCHANGED <<launches, parent>> /\ row[r].state # "ABSENT"
    <3>1. CASE FailInterrupted(r)
        BY <3>1, ActiveChanges DEF FailInterrupted, FileInv
    <3>2. CASE Leaves(r)
        BY <3>2, ActiveChanges, LeavesIs DEF Active, FileInv
    <3> QED BY <1>3, <3>1, <3>2
  <2>2. PICK s \in Terminal, n \in Nat : Ended(r, s, n)
    <3>1. file[r].offset \in Nat
        BY DEF FileInv
    <3> QED BY <1>3, <3>1, FailInterruptedIs, LeavesIs DEF Terminal
  <2>3. file' \in [Runs -> [state : {"NONE", "PROCESSING"} \cup Terminal, owner : Nat, offset : Nat]]
      BY <2>2 DEF FileInv, Ended
  <2>4. \A q \in Runs : file'[q].owner = file[q].owner /\ (file'[q].state # "NONE" => file[q].state # "NONE" \/ q = r)
      BY <2>2 DEF FileInv, Ended
  <2> QED BY <2>1, <2>3, <2>4, <1>a DEF FileInv
<1>4. CASE ParentStart
  <2>1. Active' = {} /\ file' = file /\ launches' = launches + 1 /\ parent' = launches + 1
      BY <1>4, ActiveChanges DEF ParentStart
  <2>2. launches' \in Nat /\ parent' \in {0, launches'} /\ \A r \in Runs : file'[r].owner <= launches'
      BY <2>1 DEF FileInv
  <2> QED BY <2>1, <2>2, <1>a DEF FileInv
<1>5. CASE ParentCrash
    BY <1>5, <1>a, ActiveChanges DEF ParentCrash, Vanish, FileInv
<1>6. CASE ParentStop
  <2>1. Active' = {} /\ parent' = 0 /\ launches' = launches
        /\ file' = [r \in Runs |-> IF r \in Active THEN [file[r] EXCEPT !.state = "FAILED"] ELSE file[r]]
      BY <1>6, ActiveChanges DEF ParentStop, Vanish
  <2>2. \A r \in Runs : file'[r] \in [state : {"NONE", "PROCESSING"} \cup Terminal, owner : Nat, offset : Nat]
                        /\ file'[r].owner = file[r].owner
                        /\ (file'[r].state # "NONE" => file[r].state # "NONE")
      BY <2>1 DEF FileInv, Terminal, Active
  <2>3. file' \in [Runs -> [state : {"NONE", "PROCESSING"} \cup Terminal, owner : Nat, offset : Nat]]
      BY <2>1, <2>2
  <2> QED BY <2>1, <2>2, <2>3, <1>a DEF FileInv
<1>7. CASE Pages \/ Steady \/ UNCHANGED vars
    BY <1>7, <1>1, PagesKeepRuntime, SteadyKeeps DEF durable, vars
<1> QED BY <1>2, <1>3, <1>4, <1>5, <1>6, <1>7, StepIs

-----------------------------------------------------------------------------
\* A state file is never taken back, and a terminal one is final.
LEMMA FileOnward ==
    ASSUME FileInv, OutboxInv, [Next]_vars, NEW r \in Runs
    PROVE  /\ file[r].state # "NONE" => file'[r].state # "NONE"
           /\ file[r].state \in Terminal => file'[r] = file[r]
<1>1. ASSUME NEW q \in Runs, Claim(q)
      PROVE  (file[r].state # "NONE" => r # q) /\ (r # q => file'[r] = file[r])
    BY <1>1 DEF Claim, FileInv
<1>2. ASSUME NEW q \in Runs, FailInterrupted(q) \/ Leaves(q)
      PROVE  file[q].state = "PROCESSING" /\ file'[q].state # "NONE" /\ (r # q => file'[r] = file[r])
  <2>1. file[q].state = "PROCESSING"
      BY <1>2, LeavesIs DEF FailInterrupted, Active
  <2>2. PICK s \in Terminal, n \in Nat : Ended(q, s, n)
    <3>1. file[q].offset \in Nat
        BY DEF FileInv
    <3> QED BY <1>2, <3>1, FailInterruptedIs, LeavesIs DEF Terminal
  <2> QED BY <2>1, <2>2 DEF Ended, FileInv, Terminal
<1>3. ASSUME ParentStop
      PROVE  /\ file[r].state \in Terminal => file'[r] = file[r]
             /\ file[r].state # "NONE" => file'[r].state # "NONE"
  <2>1. r \notin Active => file'[r] = file[r]
      BY <1>3 DEF ParentStop
  <2>2. r \in Active => file[r].state = "PROCESSING" /\ file'[r].state = "FAILED"
      BY <1>3 DEF ParentStop, Active, FileInv
  <2> QED BY <2>1, <2>2 DEF Terminal
<1>4. ASSUME Pages \/ Steady \/ UNCHANGED vars \/ ParentStart \/ ParentCrash PROVE file' = file
    BY <1>4, PagesKeepRuntime, SteadyKeeps DEF durable, vars, ParentStart, ParentCrash
<1> QED BY <1>1, <1>2, <1>3, <1>4, StepIs DEF Terminal

\* What accounts for a state goes on doing so.
LEMMA BackedStays ==
    ASSUME RowInv, PassInv, FileInv, OutboxInv, [Next]_vars, NEW r \in Runs
    PROVE  \A s : Backed(file[r], cursor, r \in asked, s) => Backed(file'[r], cursor', r \in asked', s)
<1>1. cursor \in Nat /\ cursor' \in Nat /\ cursor <= cursor'
  <2>1. cursor \in Nat
      BY LenProperties DEF OutboxInv
  <2>2. CASE Import
      BY <2>1, <2>2 DEF Import
  <2>3. CASE Stage3Step \/ IncidentStep \/ UNCHANGED vars
      BY <2>1, <2>3 DEF Stage3Step, IncidentStep, vars
  <2>4. CASE ParentStart \/ ParentCrash \/ ParentStop
      BY <2>1, <2>4 DEF ParentStart, ParentCrash, ParentStop
  <2>5. ASSUME NEW q \in Runs, Claim(q) \/ FailInterrupted(q) \/ Leaves(q) PROVE cursor' = cursor
      BY <2>5 DEF Claim, FailInterrupted, Leaves, OpenFails, TickCancelled, TickFailed, TickAcknowledged, End
  <2>6. ASSUME NEW q \in Runs, OpenMedia(q) \/ SendMarker(q) \/ Consumers(q) PROVE cursor' = cursor
      BY <2>6 DEF OpenMedia, SendMarker, Consumers, FindFight, FindSpeed, FileDone, ConsumerFails, Publish
  <2>7. Pages => cursor' = cursor
      BY PagesKeepRuntime
  <2> QED BY <2>1, <2>2, <2>3, <2>4, <2>5, <2>6, <2>7, StepIs DEF Steady
<1>2. /\ file[r].state # "NONE" => file'[r].state # "NONE"
      /\ file[r].state \in Terminal => file'[r] = file[r]
    BY FileOnward
<1>3. r \in asked => r \in asked'
    BY RowsStay
<1>4. file[r].offset \in Nat
    BY DEF FileInv
<1> QED BY <1>1, <1>2, <1>3, <1>4 DEF Backed, Terminal

\* What is read from the file, the cursor and the flag of a queried row accounts for itself.
LEMMA ReadBacked ==
    ASSUME FileInv, OutboxInv, NEW x \in Queried, Known(x), StateToSave(x) # "NONE"
    PROVE  Backed(file[x.run], cursor, x.run \in asked, StateToSave(x))
<1>1. x.run \in Runs /\ file[x.run].offset \in Nat /\ cursor \in Nat
      /\ file[x.run].state \in {"NONE", "PROCESSING"} \cup Terminal
    BY LenProperties DEF Queried, FileInv, OutboxInv
<1>2. CASE file[x.run].state = "NONE"
    BY <1>2 DEF StateToSave, Backed, Known
<1>3. CASE file[x.run].state # "NONE"
    BY <1>1, <1>3 DEF StateToSave, ReportedState, Backed, Terminal
<1> QED BY <1>2, <1>3

LEMMA ShownStep == RowInv /\ PassInv /\ FileInv /\ OutboxInv /\ ShownInv /\ [Next]_vars => ShownInv'
<1> SUFFICES ASSUME RowInv, PassInv, FileInv, OutboxInv, ShownInv, [Next]_vars PROVE ShownInv'
    OBVIOUS
<1> DEFINE RowOf(r)  == Backed(file'[r], cursor', r \in asked', row'[r].state)
           HandOf(p) == step'[p] = "save" =>
                          Backed(file'[hand'[p].run], cursor', hand'[p].run \in asked', hand'[p].state)
<1>a. ASSUME NEW r \in Runs, row'[r].state = row[r].state PROVE RowOf(r)
    BY <1>a, BackedStays DEF ShownInv
<1>b. ASSUME NEW p \in Passers, step'[p] = step[p], hand'[p] = hand[p] PROVE HandOf(p)
  <2>1. step[p] = "save" => hand[p].run \in Runs /\ Backed(file[hand[p].run], cursor, hand[p].run \in asked, hand[p].state)
      BY DEF PassInv, ShownInv
  <2> QED BY <1>b, <2>1, BackedStays
<1>t. step \in [Passers -> {"idle", "rows", "save", "write", "done"}] /\ hand \in [Passers -> Hands]
      /\ row \in [Runs -> [state : {"ABSENT"} \cup Open \cup Terminal, cancel : BOOLEAN]]
    BY DEF PassInv, RowInv
<1>q. ASSUME \A r \in Runs : RowOf(r), \A p \in Passers : HandOf(p) PROVE ShownInv'
    BY <1>q DEF ShownInv
<1> HIDE DEF RowOf, HandOf
<1>1. ASSUME NEW r \in Runs, Submit(r) PROVE ShownInv'
  <2>1. row' = [row EXCEPT ![r] = [state |-> "QUEUED", cancel |-> FALSE]] /\ UNCHANGED <<step, hand>>
      BY <1>1 DEF Submit, NewRow, recon
  <2>2. RowOf(r)
      BY <2>1, <1>t DEF RowOf, Backed
  <2>3. \A q \in Runs \ {r} : RowOf(q)
      BY <2>1, <1>t, <1>a
  <2> QED BY <2>1, <2>2, <2>3, <1>b, <1>q
<1>2. ASSUME NEW r \in Runs, Cancel(r) PROVE ShownInv'
  <2>1. row' = [row EXCEPT ![r].cancel = TRUE] /\ UNCHANGED <<step, hand>>
      BY <1>2 DEF Cancel, recon
  <2>2. \A q \in Runs : row'[q].state = row[q].state
      BY <2>1, <1>t
  <2> QED BY <2>1, <2>2, <1>a, <1>b, <1>q
<1>3. ASSUME NEW p \in Passers, ReconcileSave(p) PROVE ShownInv'
  <2>1. hand[p].run \in Runs /\ row' = [row EXCEPT ![hand[p].run] = [state |-> hand[p].state, cancel |-> hand[p].cancel]]
      BY <1>3, SaveIs
  <2>2. step[p] = "save" /\ step' = [step EXCEPT ![p] = "rows"] /\ hand' = [hand EXCEPT ![p] = NoHand]
      BY <1>3 DEF ReconcileSave
  <2>3. RowOf(hand[p].run)
    <3>1. Backed(file[hand[p].run], cursor, hand[p].run \in asked, hand[p].state)
        BY <2>2 DEF ShownInv
    <3>2. row'[hand[p].run].state = hand[p].state
        BY <2>1, <1>t
    <3> QED BY <2>1, <3>1, <3>2, BackedStays DEF RowOf
  <2>4. \A q \in Runs \ {hand[p].run} : RowOf(q)
      BY <2>1, <1>t, <1>a
  <2>5. HandOf(p)
      BY <2>2, <1>t DEF HandOf
  <2>6. \A q \in Passers \ {p} : HandOf(q)
      BY <2>2, <1>t, <1>b
  <2> QED BY <2>3, <2>4, <2>5, <2>6, <1>q
<1>4. ASSUME NEW p \in Passers, ReconcileRead(p) PROVE ShownInv'
  <2>1. PICK x \in queried[p] :
          IF StateToSave(x) = "NONE"
          THEN UNCHANGED <<step, hand>>
          ELSE /\ step' = [step EXCEPT ![p] = "save"]
               /\ hand' = [hand EXCEPT ![p] = [run |-> x.run, state |-> StateToSave(x), cancel |-> x.cancel]]
      BY <1>4 DEF ReconcileRead
  <2>2. UNCHANGED <<row, file, cursor, asked>>
      BY <1>4 DEF ReconcileRead, web, durable
  <2>3. \A r \in Runs : RowOf(r)
      BY <2>2, <1>a
  <2>4. CASE StateToSave(x) = "NONE"
      BY <2>1, <2>3, <2>4, <1>b, <1>q
  <2>5. CASE StateToSave(x) # "NONE"
    <3>1. step' = [step EXCEPT ![p] = "save"]
          /\ hand' = [hand EXCEPT ![p] = [run |-> x.run, state |-> StateToSave(x), cancel |-> x.cancel]]
        BY <2>1, <2>5
    <3>2. Backed(file[x.run], cursor, x.run \in asked, StateToSave(x))
        BY <2>5, ReadBacked DEF PassInv
    <3>3. HandOf(p)
        BY <2>2, <3>1, <3>2, <1>t DEF HandOf
    <3>4. \A q \in Passers \ {p} : HandOf(q)
        BY <3>1, <1>t, <1>b
    <3> QED BY <2>3, <3>3, <3>4, <1>q
  <2> QED BY <2>4, <2>5
<1>5. ASSUME NEW p \in Passers, ReconcileQuery(p) \/ ReconcilePick(p) \/ ReconcileWrite(p) PROVE ShownInv'
  <2>1. row' = row /\ step'[p] # "save" /\ \A q \in Passers \ {p} : step'[q] = step[q] /\ hand'[q] = hand[q]
      BY <1>5, <1>t DEF ReconcileQuery, ReconcilePick, ReconcileWrite, Over, web
  <2>2. HandOf(p)
      BY <2>1 DEF HandOf
  <2> QED BY <2>1, <2>2, <1>a, <1>b, <1>q
<1>6. CASE Elsewhere
    BY <1>6, <1>a, <1>b, <1>q, ElsewhereKeeps
<1> QED BY <1>1, <1>2, <1>3, <1>4, <1>5, <1>6, PassSteps DEF Reconcile

LEMMA OpenStep == FileInv /\ OutboxInv /\ OpenInv /\ [Next]_vars => OpenInv'
<1> SUFFICES ASSUME FileInv, OutboxInv, OpenInv, [Next]_vars PROVE OpenInv'
    OBVIOUS
<1>a. \A r \in Runs : file'[r].state = "NONE" => file[r].state = "NONE"
    BY FileOnward
<1>1. ASSUME NEW r \in Runs, OpenMedia(r) PROVE OpenInv'
  <2>1. r \in Active /\ item = "none" /\ item' = "reading" /\ opened' = [opened EXCEPT ![r] = @ + 1] /\ file' = file
      BY <1>1 DEF OpenMedia, durable
  <2>2. opened[r] = 0 /\ file[r].state = "PROCESSING"
      BY <2>1 DEF OpenInv, Active
  <2> QED BY <2>1, <2>2 DEF OpenInv
<1>3. ASSUME NEW r \in Runs, Claim(r) PROVE OpenInv'
  <2>1. file[r].state = "NONE" /\ item' = "none" /\ opened' = opened /\ Active' = {r}
      BY <1>3, ActiveChanges DEF Claim
  <2> QED BY <2>1, <1>a DEF OpenInv
<1>4. ASSUME NEW r \in Runs, FailInterrupted(r) \/ Leaves(r) PROVE OpenInv'
  <2>1. Active' = {} /\ opened' = opened /\ item' \in {item, "none"}
      BY <1>4, ActiveChanges, EndIs DEF FailInterrupted, Leaves, OpenFails, run,
         TickCancelled, TickFailed, TickAcknowledged, End
  <2> QED BY <2>1, <1>a DEF OpenInv
<1>5. CASE ParentStart \/ ParentCrash \/ ParentStop
  <2>1. Active' = {} /\ opened' = opened /\ item' \in {item, "none"}
      BY <1>5, ActiveChanges DEF ParentStart, ParentCrash, ParentStop, Vanish, run
  <2> QED BY <2>1, <1>a DEF OpenInv
<1>6. ASSUME NEW r \in Runs, FileDone(r) \/ ConsumerFails(r) PROVE OpenInv'
    BY <1>6, <1>a DEF FileDone, ConsumerFails, OpenInv
<1>7. ASSUME UNCHANGED <<item, opened>>, Active' = Active PROVE OpenInv'
    BY <1>7, <1>a DEF OpenInv
<1>8. CASE Pages \/ UNCHANGED vars
    BY <1>8, <1>7, PagesKeepRuntime, ActiveChanges DEF run, vars
<1>9. ASSUME NEW r \in Runs, SendMarker(r) \/ FindFight(r) \/ FindSpeed(r) \/ Publish(r)
      PROVE OpenInv'
  <2>1. UNCHANGED <<item, opened>>
      BY <1>9 DEF SendMarker, FindFight, FindSpeed, Publish, run
  <2>2. Steady
      BY <1>9 DEF Steady, Consumers
  <2> QED BY <2>1, <2>2, <1>7, ActiveChanges
<1>10. CASE Import \/ Stage3Step \/ IncidentStep
  <2>1. UNCHANGED <<item, opened>>
      BY <1>10 DEF Import, Stage3Step, IncidentStep, run
  <2> QED BY <2>1, <1>10, <1>7, ActiveChanges DEF Steady
<1> QED BY <1>1, <1>3, <1>4, <1>5, <1>6, <1>8, <1>9, <1>10, StepIs DEF Steady, Consumers

-----------------------------------------------------------------------------
\* What the operations of a queue do to what it holds of a run.
LEMMA QueueAppend ==
    ASSUME NEW q \in Seq(Messages), NEW msg \in Messages
    PROVE  /\ Append(q, msg) \in Seq(Messages)
           /\ \A r \in Runs : Holds(Append(q, msg), r) <=> Holds(q, r) \/ msg.run = r
           /\ \A r \in Runs : MarkerIn(Append(q, msg), r) <=> MarkerIn(q, r) \/ msg = Marker(r)
           /\ \A r \in Runs : MarkerLast(q, r) /\ ~(MarkerIn(q, r) /\ msg.run = r) => MarkerLast(Append(q, msg), r)
<1> DEFINE p == Append(q, msg)
<1>1. /\ p \in Seq(Messages) /\ Len(p) = Len(q) + 1 /\ Len(q) \in Nat
      /\ \A i \in 1 .. Len(q) : p[i] = q[i]
      /\ p[Len(q) + 1] = msg
      /\ DOMAIN q = 1 .. Len(q) /\ DOMAIN p = 1 .. Len(q) + 1
    BY AppendProperties, LenProperties
<1>n. PICK n \in Nat : n = Len(q)
    BY <1>1
<1> HIDE DEF p
<1>2. \A i \in DOMAIN p : (i \in DOMAIN q /\ p[i] = q[i]) \/ (i = Len(q) + 1 /\ p[i] = msg)
    BY <1>1, <1>n
<1>3. \A i \in DOMAIN q : i \in DOMAIN p /\ p[i] = q[i]
    BY <1>1
<1>4. Len(q) + 1 \in DOMAIN p /\ p[Len(q) + 1] = msg
    BY <1>1
<1>5. ASSUME NEW r \in Runs PROVE Holds(p, r) <=> Holds(q, r) \/ msg.run = r
    BY <1>2, <1>3, <1>4 DEF Holds
<1>6. ASSUME NEW r \in Runs PROVE MarkerIn(p, r) <=> MarkerIn(q, r) \/ msg = Marker(r)
    BY <1>2, <1>3, <1>4 DEF MarkerIn
<1>7. ASSUME NEW r \in Runs, MarkerLast(q, r), ~(MarkerIn(q, r) /\ msg.run = r) PROVE MarkerLast(p, r)
  <2> SUFFICES ASSUME NEW i \in DOMAIN p, NEW j \in DOMAIN p, p[i] = Marker(r), i < j PROVE p[j].run # r
      BY DEF MarkerLast
  <2>1. i \in DOMAIN q /\ p[i] = q[i]
      BY <1>1
  <2>2. MarkerIn(q, r)
      BY <2>1 DEF MarkerIn
  <2>3. CASE j \in DOMAIN q
      BY <2>1, <2>3, <1>3, <1>7 DEF MarkerLast
  <2>4. CASE j = Len(q) + 1
      BY <2>2, <2>4, <1>4, <1>7
  <2> QED BY <2>3, <2>4, <1>1
<1> QED BY <1>1, <1>5, <1>6, <1>7 DEF p

LEMMA QueueTail ==
    ASSUME NEW q \in Seq(Messages), q # <<>>
    PROVE  /\ Tail(q) \in Seq(Messages) /\ Head(q) \in Messages
           /\ Holds(q, Head(q).run)
           /\ \A r \in Runs : Holds(Tail(q), r) => Holds(q, r)
           /\ \A r \in Runs : MarkerIn(Tail(q), r) => MarkerIn(q, r)
           /\ \A r \in Runs : Head(q) = Marker(r) => MarkerIn(q, r)
           /\ \A r \in Runs : MarkerLast(q, r) => MarkerLast(Tail(q), r)
           /\ \A r \in Runs : MarkerLast(q, r) /\ Head(q) = Marker(r) => ~Holds(Tail(q), r)
<1> DEFINE p == Tail(q)
<1>1. /\ p \in Seq(Messages) /\ Len(p) = Len(q) - 1 /\ Len(q) \in Nat \ {0}
      /\ \A i \in 1 .. Len(q) - 1 : p[i] = q[i + 1]
      /\ Head(q) = q[1] /\ Head(q) \in Messages
      /\ DOMAIN q = 1 .. Len(q) /\ DOMAIN p = 1 .. Len(q) - 1
    BY HeadTailProperties, LenProperties, EmptySeq
<1>n. PICK n \in Nat \ {0} : n = Len(q)
    BY <1>1
<1> HIDE DEF p
<1>2. \A i \in DOMAIN p : i \in Nat /\ i >= 1 /\ i + 1 \in DOMAIN q /\ p[i] = q[i + 1]
    BY <1>1, <1>n
<1>3. 1 \in DOMAIN q /\ q[1] = Head(q)
    BY <1>1, <1>n
<1>4. \A r \in Runs : (Holds(p, r) => Holds(q, r)) /\ (MarkerIn(p, r) => MarkerIn(q, r))
    BY <1>2 DEF Holds, MarkerIn
<1>5. Holds(q, Head(q).run) /\ \A r \in Runs : Head(q) = Marker(r) => MarkerIn(q, r)
    BY <1>3 DEF Holds, MarkerIn
<1>6. ASSUME NEW r \in Runs, MarkerLast(q, r) PROVE MarkerLast(p, r)
    BY <1>2, <1>6 DEF MarkerLast
<1>7. ASSUME NEW r \in Runs, MarkerLast(q, r), Head(q) = Marker(r) PROVE ~Holds(p, r)
  <2>1. \A i \in DOMAIN p : 1 < i + 1 /\ q[i + 1].run # r
      BY <1>2, <1>3, <1>7 DEF MarkerLast
  <2> QED BY <2>1, <1>2 DEF Holds
<1> QED BY <1>1, <1>4, <1>5, <1>6, <1>7 DEF p

LEMMA EmptyQueue ==
    /\ <<>> \in Seq(Messages) /\ <<>> \in Seq(Runs)
    /\ \A r \in Runs : ~Holds(<<>>, r) /\ ~MarkerIn(<<>>, r) /\ MarkerLast(<<>>, r)
BY DEF Holds, MarkerIn, MarkerLast

\* What the Stage3 worker and the incident worker do with the head of their queue.
LEMMA Stage3Is ==
    ASSUME QueueInv, Stage3Step
    PROVE  /\ stage3q # <<>> /\ stage3q' = Tail(stage3q) /\ Head(stage3q) \in Messages
           /\ UNCHANGED <<row, asked, step, queried, hand, request, file, launches, parent, sent, item, held, ack, outbox, cursor, produced, opened>>
           /\ LET job == Head(stage3q) IN
              \/ Current(job.run) /\ job = Marker(job.run) /\ incidentq' = Append(incidentq, job) /\ failure' = failure
              \/ /\ Current(job.run) /\ job \in Results(job.run) /\ failure' = failure
                 /\ \E msg \in Results(job.run) : incidentq' = Append(incidentq, msg)
              \/ /\ Current(job.run) /\ job \in Results(job.run) /\ incidentq' = incidentq
                 /\ failure' = [failure EXCEPT ![job.run] = "other"]
              \/ ~Current(job.run) /\ UNCHANGED <<incidentq, failure>>
<1> DEFINE job == Head(stage3q)
<1>1. stage3q # <<>> /\ stage3q' = Tail(stage3q)
      /\ UNCHANGED <<row, asked, step, queried, hand, request, file, launches, parent, sent, item, held, ack, outbox, cursor, produced, opened>>
    BY DEF Stage3Step, web, recon, durable, run
<1>2. job \in Messages
    BY <1>1, QueueTail DEF QueueInv
<1>3. PassMarker(job) \/ DeliverResult(job) \/ JobFails(job) \/ DropStale(job)
    BY DEF Stage3Step
<1> HIDE DEF job
<1>4. job.what = "marker" => job = Marker(job.run)
    BY <1>2 DEF Messages, Marker
<1>5. job.what = "result" => job \in Results(job.run)
    BY <1>2 DEF Messages, Results
<1>6. job.what = "result" => \A w \in {"result", "no_evidence"} : [job EXCEPT !.what = w] \in Results(job.run)
    BY <1>2 DEF Messages, Results
<1>7. CASE DeliverResult(job)
    BY <1>1, <1>2, <1>5, <1>6, <1>7 DEF DeliverResult, job
<1>8. CASE PassMarker(job) \/ JobFails(job) \/ DropStale(job)
    BY <1>1, <1>2, <1>4, <1>5, <1>8 DEF PassMarker, JobFails, DropStale, job
<1> QED BY <1>3, <1>7, <1>8

LEMMA IncidentIs ==
    ASSUME QueueInv, IncidentStep
    PROVE  /\ incidentq # <<>> /\ incidentq' = Tail(incidentq) /\ Head(incidentq) \in Messages
           /\ UNCHANGED <<row, asked, step, queried, hand, request, file, launches, parent, sent, item, stage3q, cursor, produced, opened>>
           /\ LET msg == Head(incidentq) IN
              \/ /\ Current(msg.run) /\ msg \in Results(msg.run) /\ held' = held + 1
                 /\ UNCHANGED <<failure, ack, outbox>>
              \/ /\ Current(msg.run) /\ msg \in Results(msg.run) /\ UNCHANGED <<held, ack, outbox>>
                 /\ \E reason \in {"evidence", "other"} : failure' = [failure EXCEPT ![msg.run] = reason]
              \/ /\ Current(msg.run) /\ msg = Marker(msg.run) /\ held' = 0 /\ failure' = failure
                 /\ outbox' = outbox \o [i \in 1 .. held |-> msg.run] /\ ack' = [ack EXCEPT ![msg.run] = Len(outbox')]
              \/ ~Current(msg.run) /\ UNCHANGED <<held, failure, ack, outbox>>
<1> DEFINE msg == Head(incidentq)
<1>1. incidentq # <<>> /\ incidentq' = Tail(incidentq)
      /\ UNCHANGED <<row, asked, step, queried, hand, request, file, launches, parent, sent, item, stage3q, cursor, produced, opened>>
    BY DEF IncidentStep, web, recon, durable, run
<1>2. msg \in Messages
    BY <1>1, QueueTail DEF QueueInv
<1>3. \/ Current(msg.run) /\ msg.what = "result" /\ Aggregate(msg.run)
      \/ Current(msg.run) /\ msg.what = "result" /\ RecordFailure(msg.run, "other")
      \/ Current(msg.run) /\ msg.what = "no_evidence" /\ RecordFailure(msg.run, "evidence")
      \/ Current(msg.run) /\ msg.what = "marker" /\ Drain(msg.run)
      \/ ~Current(msg.run) /\ UNCHANGED <<held, failure, ack, outbox>>
    BY DEF IncidentStep
<1> HIDE DEF msg
<1>4. msg.what = "marker" => msg = Marker(msg.run)
    BY <1>2 DEF Messages, Marker
<1>5. msg.what \in {"result", "no_evidence"} => msg \in Results(msg.run)
    BY <1>2 DEF Messages, Results
<1> QED BY <1>1, <1>2, <1>3, <1>4, <1>5 DEF Aggregate, RecordFailure, Drain, msg

-----------------------------------------------------------------------------
LEMMA HeldFree ==
    ASSUME FileInv, QueueInv, Active = {} \/ item = "none" PROVE held = 0
BY DEF QueueInv, Current

LEMMA QueueStep == FileInv /\ OutboxInv /\ OpenInv /\ QueueInv /\ [Next]_vars => QueueInv'
<1> SUFFICES ASSUME FileInv, OutboxInv, OpenInv, QueueInv, [Next]_vars PROVE QueueInv'
    OBVIOUS
<1> DEFINE HeldIsOfCurrent == held # 0 => \E r \in Runs : r \in Active /\ item # "none"
<1>a. stage3q \in Seq(Messages) /\ incidentq \in Seq(Messages) /\ held \in Nat
      /\ failure \in [Runs -> {"none", "evidence", "other"}] /\ HeldIsOfCurrent
    BY DEF QueueInv, Current
<1>b. ASSUME stage3q' \in Seq(Messages) /\ incidentq' \in Seq(Messages) /\ held' \in Nat
             /\ failure' \in [Runs -> {"none", "evidence", "other"}] /\ HeldIsOfCurrent'
      PROVE  QueueInv'
    BY <1>b DEF QueueInv, Current
<1>c. ASSUME UNCHANGED <<stage3q, incidentq, failure>>, held' = 0 PROVE QueueInv'
    BY <1>a, <1>b, <1>c
<1>d. ASSUME UNCHANGED <<stage3q, incidentq, failure, held, item>>, Active' = Active PROVE QueueInv'
    BY <1>a, <1>b, <1>d
<1>e. \A r \in Runs : Marker(r) \in Messages /\ [run |-> r, what |-> "result"] \in Messages
                      /\ Results(r) \subseteq Messages
    BY DEF Marker, Messages, Results
<1>f. \A q \in Seq(Messages), msg \in Messages : Append(q, msg) \in Seq(Messages)
    BY QueueAppend
<1>1. ASSUME NEW r \in Runs, Claim(r) \/ FailInterrupted(r) PROVE QueueInv'
  <2>1. Active = {} /\ UNCHANGED <<stage3q, incidentq, failure, held>>
      BY <1>1 DEF Claim, FailInterrupted, pipe
  <2> QED BY <2>1, <1>c, HeldFree
<1>2. ASSUME NEW r \in Runs, Leaves(r) PROVE QueueInv'
  <2>1. CASE OpenFails(r)
    <3>1. item = "none" /\ UNCHANGED <<stage3q, incidentq, failure, held>>
        BY <2>1 DEF OpenFails, pipe
    <3> QED BY <3>1, <1>c, HeldFree
  <2>2. CASE TickCancelled(r) \/ TickFailed(r) \/ TickAcknowledged(r)
    <3>1. UNCHANGED <<stage3q, incidentq, failure>> /\ held' = 0
        BY <2>2 DEF TickCancelled, TickFailed, TickAcknowledged, End
    <3> QED BY <3>1, <1>c
  <2> QED BY <1>2, <2>1, <2>2 DEF Leaves
<1>3. CASE ParentStart
  <2>1. Active = {} /\ UNCHANGED <<stage3q, incidentq, failure, held>>
      BY <1>3, ActiveChanges DEF ParentStart, pipe
  <2> QED BY <2>1, <1>c, HeldFree
<1>4. CASE ParentCrash \/ ParentStop
  <2>1. stage3q' = <<>> /\ incidentq' = <<>> /\ held' = 0 /\ failure' = failure
      BY <1>4 DEF ParentCrash, ParentStop, Vanish
  <2> QED BY <2>1, <1>a, <1>b, EmptyQueue
<1>5. CASE Pages \/ UNCHANGED vars
  <2>1. UNCHANGED <<stage3q, incidentq, failure, held, item>>
      BY <1>5, PagesKeepRuntime DEF pipe, run, vars
  <2> QED BY <2>1, <1>5, <1>d, ActiveChanges
<1>7. ASSUME NEW r \in Runs, OpenMedia(r) PROVE QueueInv'
  <2>1. item = "none" /\ UNCHANGED <<stage3q, incidentq, failure, held>>
      BY <1>7 DEF OpenMedia, pipe
  <2> QED BY <2>1, <1>c, HeldFree
<1>8. ASSUME NEW r \in Runs, SendMarker(r) PROVE QueueInv'
  <2>1. UNCHANGED <<held, failure, item>>
      BY <1>8 DEF SendMarker
  <2>2. \/ incidentq' = Append(incidentq, Marker(r)) /\ stage3q' = stage3q
        \/ stage3q' = Append(stage3q, Marker(r)) /\ incidentq' = incidentq
      BY <1>8 DEF SendMarker, Marker
  <2>3. stage3q' \in Seq(Messages) /\ incidentq' \in Seq(Messages)
      BY <2>2, <1>a, <1>e, <1>f
  <2>4. Active' = Active
      BY <1>8, ActiveChanges DEF Steady
  <2> QED BY <2>1, <2>3, <2>4, <1>a, <1>b
<1>9. ASSUME NEW r \in Runs, FindFight(r) PROVE QueueInv'
  <2>1. UNCHANGED <<held, failure, item, incidentq>> /\ stage3q' = Append(stage3q, [run |-> r, what |-> "result"])
      BY <1>9 DEF FindFight, run
  <2>2. stage3q' \in Seq(Messages)
      BY <2>1, <1>a, <1>e, QueueAppend
  <2>3. Active' = Active
      BY <1>9, ActiveChanges DEF Steady, Consumers
  <2> QED BY <2>1, <2>2, <2>3, <1>a, <1>b
<1>10. ASSUME NEW r \in Runs, FindSpeed(r) PROVE QueueInv'
  <2>1. UNCHANGED <<stage3q, incidentq, failure, held, item>>
      BY <1>10 DEF FindSpeed, pipe, run
  <2> QED BY <2>1, <1>10, <1>d, ActiveChanges DEF Steady, Consumers
<1>11. ASSUME NEW r \in Runs, FileDone(r) \/ ConsumerFails(r) PROVE QueueInv'
  <2>1. UNCHANGED <<stage3q, incidentq, failure, held>> /\ item' # "none"
      BY <1>11 DEF FileDone, ConsumerFails, pipe
  <2>2. Active' = Active
      BY <1>11, ActiveChanges DEF Steady, Consumers
  <2> QED BY <2>1, <2>2, <1>a, <1>b
<1>12. ASSUME NEW r \in Runs, Publish(r) PROVE QueueInv'
  <2>1. UNCHANGED <<stage3q, incidentq, failure, item>> /\ held' = held - 1 /\ held > 0
      BY <1>12 DEF Publish, run
  <2>2. Active' = Active
      BY <1>12, ActiveChanges DEF Steady, Consumers
  <2>3. held' \in Nat /\ held # 0
      BY <2>1, <1>a
  <2> QED BY <2>1, <2>2, <2>3, <1>a, <1>b
<1>13. CASE Import
  <2>1. UNCHANGED <<stage3q, incidentq, failure, held, item>>
      BY <1>13 DEF Import, pipe, run
  <2> QED BY <2>1, <1>13, <1>d, ActiveChanges DEF Steady
<1>14. CASE Stage3Step
  <2> DEFINE job == Head(stage3q)
  <2>1. stage3q # <<>> /\ stage3q' = Tail(stage3q) /\ job \in Messages /\ UNCHANGED <<held, item>>
      BY <1>14, Stage3Is
  <2>2. \/ incidentq' = incidentq \/ incidentq' = Append(incidentq, job)
        \/ \E msg \in Results(job.run) : incidentq' = Append(incidentq, msg)
      BY <1>14, Stage3Is
  <2>3. failure' = failure \/ failure' = [failure EXCEPT ![job.run] = "other"]
      BY <1>14, Stage3Is
  <2>4. job.run \in Runs
      BY <2>1 DEF Messages
  <2>5. incidentq' \in Seq(Messages)
      BY <2>1, <2>2, <2>4, <1>a, <1>e, <1>f
  <2>6. stage3q' \in Seq(Messages) /\ failure' \in [Runs -> {"none", "evidence", "other"}]
      BY <2>1, <2>3, <2>4, <1>a, QueueTail
  <2>7. Active' = Active
      BY <1>14, ActiveChanges DEF Steady
  <2> QED BY <2>1, <2>5, <2>6, <2>7, <1>a, <1>b
<1>15. CASE IncidentStep
  <2> DEFINE msg == Head(incidentq)
  <2>1. incidentq # <<>> /\ incidentq' = Tail(incidentq) /\ msg \in Messages /\ UNCHANGED <<stage3q, item>>
      BY <1>15, IncidentIs
  <2>2. held' = held \/ held' = 0 \/ (Current(msg.run) /\ held' = held + 1)
      BY <1>15, IncidentIs
  <2>3. failure' = failure \/ \E reason \in {"evidence", "other"} : failure' = [failure EXCEPT ![msg.run] = reason]
      BY <1>15, IncidentIs
  <2>4. msg.run \in Runs
      BY <2>1 DEF Messages
  <2>5. Active' = Active
      BY <1>15, ActiveChanges DEF Steady
  <2>6. incidentq' \in Seq(Messages) /\ failure' \in [Runs -> {"none", "evidence", "other"}]
      BY <2>1, <2>3, <2>4, <1>a, QueueTail
  <2>7. held' \in Nat /\ HeldIsOfCurrent'
      BY <2>1, <2>2, <2>4, <2>5, <1>a DEF Current
  <2> QED BY <2>1, <2>6, <2>7, <1>a, <1>b
<1> QED BY <1>1, <1>2, <1>3, <1>4, <1>5, <1>7, <1>8, <1>9, <1>10, <1>11, <1>12, <1>13, <1>14, <1>15, StepIs
        DEF Steady, Consumers

LEMMA OutboxStep == FileInv /\ OpenInv /\ QueueInv /\ OutboxInv /\ [Next]_vars => OutboxInv'
<1> SUFFICES ASSUME FileInv, OpenInv, QueueInv, OutboxInv, [Next]_vars PROVE OutboxInv'
    OBVIOUS
<1>a. outbox \in Seq(Runs) /\ Len(outbox) \in Nat /\ cursor \in Nat /\ cursor <= Len(outbox)
    BY LenProperties DEF OutboxInv
<1>b. \A r \in Runs : Append(outbox, r) \in Seq(Runs) /\ Len(Append(outbox, r)) = Len(outbox) + 1
    BY <1>a, AppendProperties
<1>c. ASSUME UNCHANGED <<ack, produced>>, outbox' \in Seq(Runs), cursor' \in Nat, cursor' <= Len(outbox')
      PROVE  OutboxInv'
    BY <1>c, LenProperties DEF OutboxInv
<1>1. ASSUME NEW r \in Runs, FindSpeed(r) \/ Publish(r) PROVE OutboxInv'
  <2>1. outbox' = Append(outbox, r) /\ UNCHANGED <<cursor, ack>>
      BY <1>1 DEF FindSpeed, Publish, pipe
  <2>2. produced' = produced \/ produced' = [produced EXCEPT ![r] = @ + 1]
      BY <1>1 DEF FindSpeed, Publish
  <2>3. produced' \in [Runs -> Nat]
      BY <2>2 DEF OutboxInv
  <2> QED BY <2>1, <2>3, <1>a, <1>b, LenProperties DEF OutboxInv
<1>2. ASSUME NEW r \in Runs, FindFight(r) PROVE OutboxInv'
  <2>1. UNCHANGED <<outbox, cursor, ack>> /\ produced' = [produced EXCEPT ![r] = @ + 1]
      BY <1>2 DEF FindFight
  <2> QED BY <2>1 DEF OutboxInv
<1>3. CASE IncidentStep
  <2> DEFINE msg == Head(incidentq)
             batch == [i \in 1 .. held |-> msg.run]
  <2>1. msg \in Messages /\ UNCHANGED <<cursor, produced>>
      BY <1>3, IncidentIs
  <2>2. UNCHANGED <<outbox, ack>> \/ (outbox' = outbox \o batch /\ ack' = [ack EXCEPT ![msg.run] = Len(outbox')])
      BY <1>3, IncidentIs
  <2>3. msg.run \in Runs /\ held \in Nat
      BY <2>1 DEF Messages, QueueInv
  <2>4. batch \in Seq(Runs) /\ Len(batch) = held
      BY <2>3, IsASeq
  <2>5. CASE UNCHANGED <<outbox, ack>>
      BY <2>1, <2>5 DEF OutboxInv
  <2>6. CASE outbox' = outbox \o batch /\ ack' = [ack EXCEPT ![msg.run] = Len(outbox')]
    <3> HIDE DEF batch, msg
    <3>1. outbox' \in Seq(Runs) /\ Len(outbox') = Len(outbox) + held
        BY <2>4, <2>6, <1>a, ConcatProperties
    <3>2. Len(outbox') \in Nat /\ cursor <= Len(outbox')
        BY <3>1, <2>3, <1>a
    <3>3. ack' \in [Runs -> Nat \cup {NoAck}]
        BY <2>6, <3>2 DEF OutboxInv
    <3> QED BY <2>1, <3>1, <3>2, <3>3, <1>a DEF OutboxInv
  <2> QED BY <2>2, <2>5, <2>6
<1>4. CASE Import
    BY <1>4, <1>a, <1>c DEF Import, pipe
<1>5. ASSUME UNCHANGED <<outbox, cursor, ack, produced>> PROVE OutboxInv'
    BY <1>5 DEF OutboxInv
<1>6. CASE Pages \/ UNCHANGED vars \/ ParentStart \/ ParentCrash \/ ParentStop
    BY <1>6, <1>5, PagesKeepRuntime DEF pipe, vars, ParentStart, ParentCrash, ParentStop, Vanish
<1>7. ASSUME NEW r \in Runs, Claim(r) \/ FailInterrupted(r) \/ Leaves(r) \/ OpenMedia(r) \/ SendMarker(r)
                             \/ FileDone(r) \/ ConsumerFails(r)
      PROVE OutboxInv'
    BY <1>7, <1>5 DEF Claim, FailInterrupted, Leaves, OpenFails, TickCancelled, TickFailed, TickAcknowledged, End,
       OpenMedia, SendMarker, FileDone, ConsumerFails, pipe
<1>8. CASE Stage3Step
    BY <1>8, <1>5, Stage3Is
<1> QED BY <1>1, <1>2, <1>3, <1>4, <1>6, <1>7, <1>8, StepIs DEF Steady, Consumers

-----------------------------------------------------------------------------
LEMMA UnopenedBefore ==
    ASSUME FileInv, OutboxInv, OpenInv, [Next]_vars, NEW r \in Runs, Unopened(r)'
    PROVE  Unopened(r)
<1>1. file'[r].state = "NONE" => file[r].state = "NONE"
    BY FileOnward
<1>2. ASSUME r \in Active', item' = "none" PROVE Unopened(r)
  <2>1. ASSUME NEW q \in Runs, Claim(q) PROVE file[r].state = "NONE"
      BY <2>1, <1>2, ActiveChanges DEF Claim
  <2>2. ASSUME Pages \/ Steady \/ UNCHANGED vars PROVE r \in Active /\ item = "none"
    <3>1. r \in Active
        BY <2>2, <1>2, ActiveChanges
    <3>2. item' = item \/ item' # "none"
        BY <2>2, PagesKeepRuntime DEF Steady, OpenMedia, SendMarker, Consumers, FindFight, FindSpeed, FileDone,
           ConsumerFails, Publish, Import, Stage3Step, IncidentStep, run, vars
    <3> QED BY <3>1, <3>2, <1>2
  <2>3. ~(ParentStart \/ ParentCrash \/ ParentStop) /\ \A q \in Runs : ~FailInterrupted(q) /\ ~Leaves(q)
      BY <1>2, ActiveChanges
  <2> QED BY <2>1, <2>2, <2>3, StepIs DEF Unopened
<1> QED BY <1>1, <1>2 DEF Unopened

\* An operator at work on the current run is at work on an opened one.
LEMMA CurrentOpened == \A r \in Runs : Current(r) => ~Unopened(r)
BY DEF Current, Unopened, Active

\* The lines of a run in the outbox, through every change of it.
LEMMA LinesIs ==
    ASSUME OutboxInv, NEW r \in Runs
    PROVE  /\ Lines(r) \in Nat
           /\ outbox' = outbox => Lines(r)' = Lines(r)
           /\ \A q \in Runs : outbox' = Append(outbox, q) => Lines(r)' = Lines(r) + (IF q = r THEN 1 ELSE 0)
           /\ \A q \in Runs, n \in Nat :
                outbox' = outbox \o [i \in 1 .. n |-> q] => Lines(r)' = Lines(r) + (IF q = r THEN n ELSE 0)
<1>1. outbox \in Seq(Runs)
    BY DEF OutboxInv
<1>2. Lines(r) \in Nat
    BY <1>1, CountType DEF Lines
<1>3. ASSUME NEW q \in Runs, outbox' = Append(outbox, q) PROVE Lines(r)' = Lines(r) + (IF q = r THEN 1 ELSE 0)
  <2>1. CountIn(Append(outbox, q), {r}) = CountIn(outbox, {r}) + (IF q \in {r} THEN 1 ELSE 0)
      BY <1>1, CountAppend
  <2> QED BY <2>1, <1>3 DEF Lines
<1>4. ASSUME NEW q \in Runs, NEW n \in Nat, outbox' = outbox \o [i \in 1 .. n |-> q]
      PROVE  Lines(r)' = Lines(r) + (IF q = r THEN n ELSE 0)
  <2>1. CountIn(outbox \o [i \in 1 .. n |-> q], {r}) = CountIn(outbox, {r}) + (IF q \in {r} THEN n ELSE 0)
      BY <1>1, CountCopies
  <2> QED BY <2>1, <1>4 DEF Lines
<1> QED BY <1>2, <1>3, <1>4 DEF Lines

LEMMA FreshStep == FileInv /\ OutboxInv /\ OpenInv /\ QueueInv /\ FreshInv /\ [Next]_vars => FreshInv'
<1> SUFFICES ASSUME FileInv, OutboxInv, OpenInv, QueueInv, FreshInv, [Next]_vars, NEW r \in Runs, Unopened(r)'
             PROVE  /\ ~Holds(stage3q', r) /\ ~Holds(incidentq', r)
                    /\ ack'[r] = NoAck /\ failure'[r] = "none" /\ produced'[r] = 0 /\ Lines(r)' = 0
    BY DEF FreshInv
<1>a. Unopened(r)
    BY UnopenedBefore
<1>b. /\ ~Holds(stage3q, r) /\ ~Holds(incidentq, r)
      /\ ack[r] = NoAck /\ failure[r] = "none" /\ produced[r] = 0 /\ Lines(r) = 0
    BY <1>a DEF FreshInv
<1>c. \A q \in Runs : Current(q) => q # r
    BY <1>a, CurrentOpened
<1>d. stage3q \in Seq(Messages) /\ incidentq \in Seq(Messages)
    BY DEF QueueInv
<1>e. \A q \in Runs \ {r} : outbox' = Append(outbox, q) => Lines(r)' = 0
    BY <1>b, LinesIs
<1>f. outbox' = outbox => Lines(r)' = 0
    BY <1>b, LinesIs
<1>g. \A q \in Seq(Messages), msg \in Messages : Holds(Append(q, msg), r) => Holds(q, r) \/ msg.run = r
    BY QueueAppend
<1>h. \A q \in Seq(Messages) : q # <<>> /\ Holds(Tail(q), r) => Holds(q, r)
    BY QueueTail
<1>1. ASSUME UNCHANGED <<stage3q, incidentq, ack, failure, produced, outbox>>
      PROVE  /\ ~Holds(stage3q', r) /\ ~Holds(incidentq', r)
             /\ ack'[r] = NoAck /\ failure'[r] = "none" /\ produced'[r] = 0 /\ Lines(r)' = 0
    BY <1>1, <1>b, <1>f
<1>2. CASE Pages \/ UNCHANGED vars \/ ParentStart \/ Import
    BY <1>2, <1>1, PagesKeepRuntime DEF pipe, vars, ParentStart, Import
<1>3. CASE \E q \in Runs : Claim(q) \/ FailInterrupted(q) \/ Leaves(q) \/ OpenMedia(q) \/ FileDone(q)
                            \/ ConsumerFails(q)
    BY <1>3, <1>1 DEF Claim, FailInterrupted, Leaves, OpenFails, TickCancelled, TickFailed, TickAcknowledged, End,
       OpenMedia, FileDone, ConsumerFails, pipe
<1>4. CASE ParentCrash \/ ParentStop
  <2>1. stage3q' = <<>> /\ incidentq' = <<>> /\ UNCHANGED <<ack, failure, produced, outbox>>
      BY <1>4 DEF ParentCrash, ParentStop, Vanish
  <2> QED BY <2>1, <1>b, <1>f, EmptyQueue
<1>5. ASSUME NEW q \in Runs, SendMarker(q)
      PROVE  /\ ~Holds(stage3q', r) /\ ~Holds(incidentq', r)
             /\ ack'[r] = NoAck /\ failure'[r] = "none" /\ produced'[r] = 0 /\ Lines(r)' = 0
  <2>1. q # r /\ UNCHANGED <<ack, failure, produced, outbox>>
      BY <1>5, <1>c DEF SendMarker, Draining
  <2>2. \/ incidentq' = Append(incidentq, Marker(q)) /\ stage3q' = stage3q
        \/ stage3q' = Append(stage3q, Marker(q)) /\ incidentq' = incidentq
      BY <1>5 DEF SendMarker, Marker
  <2>3. Marker(q) \in Messages /\ Marker(q).run = q
      BY DEF Marker, Messages
  <2> QED BY <2>1, <2>2, <2>3, <1>b, <1>d, <1>f, <1>g
<1>6. ASSUME NEW q \in Runs, FindFight(q)
      PROVE  /\ ~Holds(stage3q', r) /\ ~Holds(incidentq', r)
             /\ ack'[r] = NoAck /\ failure'[r] = "none" /\ produced'[r] = 0 /\ Lines(r)' = 0
  <2> DEFINE job == [run |-> q, what |-> "result"]
  <2>1. q # r /\ UNCHANGED <<incidentq, ack, failure, outbox>> /\ stage3q' = Append(stage3q, job)
        /\ produced' = [produced EXCEPT ![q] = @ + 1]
      BY <1>6, <1>c DEF FindFight
  <2>2. job \in Messages /\ job.run = q
      BY DEF Messages
  <2>3. produced'[r] = produced[r]
      BY <2>1 DEF OutboxInv
  <2> HIDE DEF job
  <2> QED BY <2>1, <2>2, <2>3, <1>b, <1>d, <1>f, <1>g
<1>7. ASSUME NEW q \in Runs, FindSpeed(q) \/ Publish(q)
      PROVE  /\ ~Holds(stage3q', r) /\ ~Holds(incidentq', r)
             /\ ack'[r] = NoAck /\ failure'[r] = "none" /\ produced'[r] = 0 /\ Lines(r)' = 0
  <2>1. q # r /\ UNCHANGED <<stage3q, incidentq, ack, failure>> /\ outbox' = Append(outbox, q)
        /\ (produced' = produced \/ produced' = [produced EXCEPT ![q] = @ + 1])
      BY <1>7, <1>c DEF FindSpeed, Publish, pipe
  <2>2. produced'[r] = produced[r]
      BY <2>1 DEF OutboxInv
  <2> QED BY <2>1, <2>2, <1>b, <1>e
<1>8. CASE Stage3Step
  <2> DEFINE job == Head(stage3q)
  <2>1. stage3q # <<>> /\ stage3q' = Tail(stage3q) /\ job \in Messages /\ UNCHANGED <<ack, outbox, produced>>
      BY <1>8, Stage3Is
  <2>2. \/ UNCHANGED <<incidentq, failure>>
        \/ /\ Current(job.run) /\ failure' = failure
           /\ \E msg \in Results(job.run) \cup {Marker(job.run)} : incidentq' = Append(incidentq, msg)
        \/ Current(job.run) /\ incidentq' = incidentq /\ failure' = [failure EXCEPT ![job.run] = "other"]
      BY <1>8, Stage3Is
  <2>3. job.run \in Runs
      BY <2>1 DEF Messages
  <2> HIDE DEF job
  <2>4. \A msg \in Results(job.run) \cup {Marker(job.run)} : msg \in Messages /\ msg.run = job.run
      BY <2>3 DEF Results, Marker, Messages
  <2>5. failure'[r] = failure[r]
      BY <2>2, <2>3, <1>c DEF QueueInv
  <2>6. ~Holds(incidentq', r)
      BY <2>2, <2>3, <2>4, <1>b, <1>c, <1>d, <1>g
  <2> QED BY <2>1, <2>5, <2>6, <1>b, <1>d, <1>f, <1>h
<1>9. CASE IncidentStep
  <2> DEFINE msg == Head(incidentq)
  <2>1. incidentq # <<>> /\ incidentq' = Tail(incidentq) /\ msg \in Messages /\ UNCHANGED <<stage3q, produced>>
      BY <1>9, IncidentIs
  <2>2. \/ UNCHANGED <<failure, ack, outbox>>
        \/ /\ Current(msg.run) /\ UNCHANGED <<ack, outbox>>
           /\ \E reason \in {"evidence", "other"} : failure' = [failure EXCEPT ![msg.run] = reason]
        \/ /\ Current(msg.run) /\ failure' = failure
           /\ outbox' = outbox \o [i \in 1 .. held |-> msg.run] /\ ack' = [ack EXCEPT ![msg.run] = Len(outbox')]
      BY <1>9, IncidentIs
  <2>3. msg.run \in Runs /\ held \in Nat
      BY <2>1 DEF Messages, QueueInv
  <2> HIDE DEF msg
  <2>4. failure'[r] = failure[r] /\ ack'[r] = ack[r]
      BY <2>2, <2>3, <1>c DEF QueueInv, OutboxInv
  <2>5. Lines(r)' = 0
    <3>1. CASE outbox' = outbox
        BY <3>1, <1>f
    <3>2. CASE Current(msg.run) /\ outbox' = outbox \o [i \in 1 .. held |-> msg.run]
      <4>1. Lines(r)' = Lines(r) + (IF msg.run = r THEN held ELSE 0)
          BY <3>2, <2>3, LinesIs
      <4> QED BY <4>1, <3>2, <2>3, <1>b, <1>c
    <3> QED BY <2>2, <3>1, <3>2
  <2> QED BY <2>1, <2>4, <2>5, <1>b, <1>d, <1>h
<1> QED BY <1>2, <1>3, <1>4, <1>5, <1>6, <1>7, <1>8, <1>9, StepIs DEF Steady, Consumers

-----------------------------------------------------------------------------
\* Only one run is active: whatever is current is the active run.
LEMMA CurrentIsActive == ASSUME FileInv, NEW r \in Active PROVE \A q : Current(q) => q = r
BY DEF FileInv, Current

\* MarkerInv of the active run.
MarkerOf(r) ==
    /\ ~sent => ~MarkerIn(stage3q, r) /\ ~MarkerIn(incidentq, r) /\ ack[r] = NoAck
    /\ sent => item \in {"done", "failed"}
    /\ MarkerLast(stage3q, r) /\ MarkerLast(incidentq, r)
    /\ MarkerIn(incidentq, r) => ~Holds(stage3q, r) /\ ack[r] = NoAck
    /\ ack[r] # NoAck => ~Holds(stage3q, r) /\ ~Holds(incidentq, r) /\ held = 0 /\ LinesUpTo(r, ack[r])
    /\ Kind[r] = "SPEED" => ~Holds(stage3q, r)

LEMMA MarkerInvIs == MarkerInv <=> \A r \in Active : MarkerOf(r)
BY DEF MarkerInv, MarkerOf

LEMMA MarkerStep == FileInv /\ OutboxInv /\ OpenInv /\ QueueInv /\ FreshInv /\ MarkerInv /\ [Next]_vars => MarkerInv'
<1> SUFFICES ASSUME FileInv, OutboxInv, OpenInv, QueueInv, FreshInv, MarkerInv, [Next]_vars,
                    NEW r \in Runs, r \in Active'
             PROVE  MarkerOf(r)'
    BY MarkerInvIs DEF Active, MarkerInv, MarkerOf
<1>d. stage3q \in Seq(Messages) /\ incidentq \in Seq(Messages) /\ held \in Nat
    BY DEF QueueInv
<1>n. \A q \in Runs : Marker(q) \in Messages /\ Marker(q).run = q
    BY DEF Marker, Messages
<1>r. \A q \in Runs : \A msg \in Results(q) : msg \in Messages /\ msg.run = q /\ \A p \in Runs : msg # Marker(p)
    BY DEF Results, Marker, Messages
<1>g. \A q \in Seq(Messages), msg \in Messages :
        /\ Holds(Append(q, msg), r) <=> Holds(q, r) \/ msg.run = r
        /\ MarkerIn(Append(q, msg), r) <=> MarkerIn(q, r) \/ msg = Marker(r)
        /\ MarkerLast(q, r) /\ ~(MarkerIn(q, r) /\ msg.run = r) => MarkerLast(Append(q, msg), r)
    BY QueueAppend
<1>h. \A q \in Seq(Messages) : q # <<>> =>
        /\ Head(q) \in Messages /\ Holds(q, Head(q).run)
        /\ Holds(Tail(q), r) => Holds(q, r)
        /\ MarkerIn(Tail(q), r) => MarkerIn(q, r)
        /\ Head(q) = Marker(r) => MarkerIn(q, r)
        /\ MarkerLast(q, r) => MarkerLast(Tail(q), r)
        /\ MarkerLast(q, r) /\ Head(q) = Marker(r) => ~Holds(Tail(q), r)
    BY QueueTail
<1>m. ASSUME r \in Active PROVE MarkerOf(r) /\ \A q : Current(q) => q = r
    BY <1>m, MarkerInvIs, CurrentIsActive
<1>1. CASE \E q \in Runs : FailInterrupted(q) \/ Leaves(q)
    BY <1>1, ActiveChanges
<1>2. CASE ParentStart \/ ParentCrash \/ ParentStop
    BY <1>2, ActiveChanges
<1>3. ASSUME NEW q \in Runs, Claim(q) PROVE MarkerOf(r)'
  <2>1. r = q /\ file[r].state = "NONE" /\ sent' = FALSE /\ UNCHANGED <<stage3q, incidentq, ack, held, outbox>>
      BY <1>3, ActiveChanges DEF Claim, pipe
  <2>2. ~Holds(stage3q, r) /\ ~Holds(incidentq, r) /\ ack[r] = NoAck
      BY <2>1 DEF FreshInv, Unopened
  <2>3. /\ ~MarkerIn(stage3q, r) /\ ~MarkerIn(incidentq, r)
        /\ MarkerLast(stage3q, r) /\ MarkerLast(incidentq, r)
      BY <2>2, <1>n DEF Holds, MarkerIn, MarkerLast
  <2> QED BY <2>1, <2>2, <2>3 DEF MarkerOf
<1>k. ASSUME Pages \/ Steady \/ UNCHANGED vars PROVE r \in Active /\ MarkerOf(r) /\ \A q : Current(q) => q = r
    BY <1>k, <1>m, ActiveChanges
<1>u. ASSUME MarkerOf(r), UNCHANGED <<sent, stage3q, incidentq, ack, held, outbox>>, sent => item' \in {"done", "failed"}
      PROVE MarkerOf(r)'
    BY <1>u DEF MarkerOf, LinesUpTo
<1>4. CASE Pages \/ UNCHANGED vars \/ Import
  <2>1. UNCHANGED <<sent, item, stage3q, incidentq, ack, held, outbox>>
      BY <1>4, PagesKeepRuntime DEF pipe, run, vars, Import
  <2>2. MarkerOf(r)
      BY <1>4, <1>k DEF Steady
  <2>3. sent => item' \in {"done", "failed"}
      BY <2>1, <2>2 DEF MarkerOf
  <2> QED BY <2>1, <2>2, <2>3, <1>u
<1>5. ASSUME NEW q \in Runs, OpenMedia(q) PROVE MarkerOf(r)'
  <2>1. MarkerOf(r) /\ item = "none" /\ UNCHANGED <<sent, stage3q, incidentq, ack, held, outbox>>
      BY <1>5, <1>k DEF Steady, OpenMedia, pipe
  <2>2. ~sent
      BY <2>1 DEF MarkerOf
  <2> QED BY <2>1, <2>2, <1>u
<1>6. ASSUME NEW q \in Runs, FileDone(q) \/ ConsumerFails(q) PROVE MarkerOf(r)'
  <2>1. MarkerOf(r)
      BY <1>6, <1>k DEF Steady, Consumers
  <2>2. item' \in {"done", "failed"} /\ UNCHANGED <<sent, stage3q, incidentq, ack, held, outbox>>
      BY <1>6 DEF FileDone, ConsumerFails, pipe
  <2> QED BY <2>1, <2>2, <1>u
<1>7. ASSUME NEW q \in Runs, SendMarker(q) PROVE MarkerOf(r)'
  <2>1. MarkerOf(r) /\ q = r
      BY <1>7, <1>k DEF Steady, SendMarker, Draining
  <2>2. ~sent /\ sent' = TRUE /\ item = "done" /\ UNCHANGED <<item, ack, held, outbox>>
      BY <1>7 DEF SendMarker, Draining
  <2>3. ~MarkerIn(stage3q, r) /\ ~MarkerIn(incidentq, r) /\ ack[r] = NoAck
      BY <2>1, <2>2 DEF MarkerOf
  <2>4. CASE Kind[r] = "SPEED"
    <3>1. incidentq' = Append(incidentq, Marker(r)) /\ stage3q' = stage3q
        BY <1>7, <2>1, <2>4 DEF SendMarker, Marker
    <3>2. MarkerLast(incidentq', r) /\ MarkerLast(stage3q', r) /\ ~Holds(stage3q', r)
        BY <3>1, <2>1, <2>3, <2>4, <1>d, <1>g, <1>n DEF MarkerOf
    <3> QED BY <2>2, <2>3, <3>2 DEF MarkerOf
  <2>5. CASE Kind[r] # "SPEED"
    <3>1. stage3q' = Append(stage3q, Marker(r)) /\ incidentq' = incidentq
        BY <1>7, <2>1, <2>5 DEF SendMarker, Marker
    <3>2. MarkerLast(stage3q', r) /\ MarkerLast(incidentq', r) /\ ~MarkerIn(incidentq', r)
        BY <3>1, <2>1, <2>3, <1>d, <1>g, <1>n DEF MarkerOf
    <3> QED BY <2>2, <2>3, <2>5, <3>2 DEF MarkerOf
  <2> QED BY <2>4, <2>5
<1>8. ASSUME NEW q \in Runs, FindFight(q) PROVE MarkerOf(r)'
  <2> DEFINE job == [run |-> q, what |-> "result"]
  <2>1. MarkerOf(r) /\ q = r
      BY <1>8, <1>k DEF Steady, Consumers, FindFight
  <2>2. /\ item = "reading" /\ Kind[r] # "SPEED" /\ UNCHANGED <<sent, item, incidentq, ack, held, outbox>>
        /\ stage3q' = Append(stage3q, job)
      BY <1>8, <2>1 DEF FindFight, run
  <2>3. ~sent /\ ~MarkerIn(stage3q, r) /\ ~MarkerIn(incidentq, r) /\ ack[r] = NoAck
      BY <2>1, <2>2 DEF MarkerOf
  <2>4. job \in Messages /\ job # Marker(r)
      BY DEF Messages, Marker
  <2> HIDE DEF job
  <2>5. MarkerLast(stage3q', r) /\ ~MarkerIn(stage3q', r)
      BY <2>1, <2>2, <2>3, <2>4, <1>d, <1>g DEF MarkerOf
  <2> QED BY <2>1, <2>2, <2>3, <2>5 DEF MarkerOf
<1>9. ASSUME NEW q \in Runs, FindSpeed(q) \/ Publish(q) PROVE MarkerOf(r)'
  <2>1. MarkerOf(r) /\ q = r
      BY <1>9, <1>k DEF Steady, Consumers, FindSpeed, Publish
  <2>2. UNCHANGED <<sent, item, stage3q, incidentq, ack>> /\ (item = "reading" \/ held > 0)
      BY <1>9 DEF FindSpeed, Publish, pipe, run
  <2>3. ack[r] = NoAck
      BY <2>1, <2>2 DEF MarkerOf
  <2> QED BY <2>1, <2>2, <2>3 DEF MarkerOf
<1>10. CASE Stage3Step
  <2> DEFINE job == Head(stage3q)
  <2>0. MarkerOf(r)
      BY <1>10, <1>k DEF Steady
  <2>1. stage3q # <<>> /\ stage3q' = Tail(stage3q) /\ job \in Messages /\ UNCHANGED <<sent, item, ack, held, outbox>>
      BY <1>10, Stage3Is
  <2>2. \/ incidentq' = incidentq
        \/ Current(job.run) /\ job = Marker(job.run) /\ incidentq' = Append(incidentq, job)
        \/ Current(job.run) /\ job \in Results(job.run) /\ \E msg \in Results(job.run) : incidentq' = Append(incidentq, msg)
      BY <1>10, Stage3Is
  <2>3. Holds(stage3q, job.run) /\ MarkerLast(stage3q', r) /\ (Holds(stage3q', r) => Holds(stage3q, r))
        /\ (MarkerIn(stage3q', r) => MarkerIn(stage3q, r))
      BY <2>0, <2>1, <1>d, <1>h DEF MarkerOf
  <2>4. job = Marker(r) => MarkerIn(stage3q, r) /\ ~Holds(stage3q', r)
      BY <2>0, <2>1, <1>d, <1>h DEF MarkerOf
  <2>5. Current(job.run) => job.run = r
      BY <1>10, <1>k DEF Steady
  <2> HIDE DEF job
  <2>6. CASE incidentq' = incidentq
      BY <2>0, <2>1, <2>3, <2>6 DEF MarkerOf, LinesUpTo
  <2>7. CASE incidentq' # incidentq
    <3>1. job.run = r /\ Kind[r] # "SPEED" /\ ~MarkerIn(incidentq, r) /\ ack[r] = NoAck
        BY <2>0, <2>2, <2>3, <2>5, <2>7 DEF MarkerOf
    <3>2. CASE job = Marker(r) /\ incidentq' = Append(incidentq, job)
      <4>1. sent /\ ~Holds(stage3q', r)
          BY <2>0, <2>4, <3>2 DEF MarkerOf
      <4>2. MarkerLast(incidentq', r)
          BY <2>0, <2>1, <3>1, <3>2, <1>d, <1>g DEF MarkerOf
      <4> QED BY <2>0, <2>1, <2>3, <3>1, <4>1, <4>2 DEF MarkerOf
    <3>3. ASSUME NEW msg \in Results(r), incidentq' = Append(incidentq, msg) PROVE MarkerOf(r)'
      <4>1. msg \in Messages /\ msg # Marker(r)
          BY <1>r
      <4>2. MarkerLast(incidentq', r) /\ ~MarkerIn(incidentq', r)
          BY <2>0, <3>1, <3>3, <4>1, <1>d, <1>g DEF MarkerOf
      <4> QED BY <2>0, <2>1, <2>3, <3>1, <4>2 DEF MarkerOf
    <3> QED BY <2>2, <2>7, <3>1, <3>2, <3>3
  <2> QED BY <2>6, <2>7
<1>11. CASE IncidentStep
  <2> DEFINE msg == Head(incidentq)
  <2>0. MarkerOf(r)
      BY <1>11, <1>k DEF Steady
  <2>1. incidentq # <<>> /\ incidentq' = Tail(incidentq) /\ msg \in Messages /\ UNCHANGED <<sent, item, stage3q>>
      BY <1>11, IncidentIs
  <2>2. \/ Current(msg.run) /\ UNCHANGED <<ack, outbox>>
        \/ /\ Current(msg.run) /\ msg = Marker(msg.run) /\ held' = 0 /\ ack' = [ack EXCEPT ![msg.run] = Len(outbox')]
        \/ UNCHANGED <<held, ack, outbox>>
      BY <1>11, IncidentIs
  <2>3. Holds(incidentq, msg.run) /\ MarkerLast(incidentq', r) /\ (Holds(incidentq', r) => Holds(incidentq, r))
        /\ (MarkerIn(incidentq', r) => MarkerIn(incidentq, r))
      BY <2>0, <2>1, <1>d, <1>h DEF MarkerOf
  <2>4. msg = Marker(r) => MarkerIn(incidentq, r) /\ ~Holds(incidentq', r)
      BY <2>0, <2>1, <1>d, <1>h DEF MarkerOf
  <2>5. Current(msg.run) => msg.run = r
      BY <1>11, <1>k DEF Steady
  <2> HIDE DEF msg
  <2>6. CASE UNCHANGED <<held, ack, outbox>>
      BY <2>0, <2>1, <2>3, <2>6 DEF MarkerOf, LinesUpTo
  <2>7. CASE Current(msg.run) /\ UNCHANGED <<ack, outbox>>
    <3>1. ack[r] = NoAck
        BY <2>0, <2>3, <2>5, <2>7 DEF MarkerOf
    <3> QED BY <2>0, <2>1, <2>3, <2>7, <3>1 DEF MarkerOf
  <2>8. CASE Current(msg.run) /\ msg = Marker(msg.run) /\ held' = 0 /\ ack' = [ack EXCEPT ![msg.run] = Len(outbox')]
    <3>1. msg = Marker(r) /\ ack'[r] = Len(outbox')
        BY <2>5, <2>8 DEF OutboxInv
    <3>2. ~Holds(stage3q, r) /\ ~Holds(incidentq', r) /\ sent /\ ~MarkerIn(incidentq', r)
        BY <2>0, <2>4, <3>1, <1>n DEF MarkerOf, Holds, MarkerIn
    <3>3. outbox' \in Seq(Runs)
        BY OutboxStep DEF OutboxInv
    <3>4. Len(outbox') \in Nat
        BY <3>3, LenProperties
    <3>5. LinesUpTo(r, ack[r])'
        BY <3>1, <3>4 DEF LinesUpTo
    <3> QED BY <2>0, <2>1, <2>3, <2>8, <3>2, <3>5 DEF MarkerOf
  <2> QED BY <2>2, <2>6, <2>7, <2>8
<1> QED BY <1>1, <1>2, <1>3, <1>4, <1>5, <1>6, <1>7, <1>8, <1>9, <1>10, <1>11, StepIs DEF Steady, Consumers

-----------------------------------------------------------------------------
\* The results a queue carries of a run, through every change of it.
LEMMA ResultsCount ==
    ASSUME NEW r \in Runs
    PROVE  /\ \A q \in Seq(Messages) : CountIn(q, Results(r)) \in Nat
           /\ \A q \in Seq(Messages) : ~Holds(q, r) => CountIn(q, Results(r)) = 0
           /\ \A q \in Seq(Messages), msg \in Messages :
                CountIn(Append(q, msg), Results(r)) = CountIn(q, Results(r)) + (IF msg \in Results(r) THEN 1 ELSE 0)
           /\ \A q \in Seq(Messages) : q # <<>> =>
                CountIn(q, Results(r)) = CountIn(Tail(q), Results(r)) + (IF Head(q) \in Results(r) THEN 1 ELSE 0)
<1>1. \A q \in Seq(Messages) : CountIn(q, Results(r)) \in Nat
    BY CountType
<1>2. ASSUME NEW q \in Seq(Messages), ~Holds(q, r) PROVE CountIn(q, Results(r)) = 0
  <2>1. \A i \in 1 .. Len(q) : q[i] \notin Results(r)
      BY <1>2, LenProperties DEF Holds, Results
  <2> QED BY <2>1, CountZero
<1>3. ASSUME NEW q \in Seq(Messages), NEW msg \in Messages
      PROVE CountIn(Append(q, msg), Results(r)) = CountIn(q, Results(r)) + (IF msg \in Results(r) THEN 1 ELSE 0)
    BY CountAppend
<1>4. ASSUME NEW q \in Seq(Messages), q # <<>>
      PROVE CountIn(q, Results(r)) = CountIn(Tail(q), Results(r)) + (IF Head(q) \in Results(r) THEN 1 ELSE 0)
    BY <1>4, CountTail
<1> QED BY <1>1, <1>2, <1>3, <1>4

\* The part of BalanceInv about the active run.
Balance(r) ==
    /\ Lines(r) + Carried(r) <= produced[r]
    /\ failure[r] = "none" => Lines(r) + Carried(r) = produced[r]

\* The numbers of the balance are numbers.
LEMMA BalanceTypes ==
    ASSUME OutboxInv, QueueInv, NEW r \in Runs
    PROVE  /\ Lines(r) \in Nat /\ produced[r] \in Nat /\ held \in Nat /\ Carried(r) \in Nat
           /\ CountIn(stage3q, Results(r)) \in Nat /\ CountIn(incidentq, Results(r)) \in Nat
<1>1. Lines(r) \in Nat
    BY LinesIs
<1>2. stage3q \in Seq(Messages) /\ incidentq \in Seq(Messages) /\ held \in Nat /\ produced[r] \in Nat
    BY DEF QueueInv, OutboxInv
<1>3. CountIn(stage3q, Results(r)) \in Nat /\ CountIn(incidentq, Results(r)) \in Nat
    BY <1>2, ResultsCount
<1> QED BY <1>1, <1>2, <1>3 DEF Carried

LEMMA BalanceSame ==
    ASSUME NEW r \in Runs, Balance(r), OutboxInv, UNCHANGED <<stage3q, incidentq, held, failure, produced, outbox>>
    PROVE  Balance(r)'
BY DEF Balance, Carried, Lines

\* A step of the consumers that moves a result keeps the balance of the active run.
LEMMA BalanceMoves ==
    ASSUME FileInv, OutboxInv, OpenInv, QueueInv, FreshInv, NEW r \in Active, Balance(r), Steady
    PROVE  Balance(r)'
<1> DEFINE s == CountIn(stage3q, Results(r))
           m == CountIn(incidentq, Results(r))
<1>d. stage3q \in Seq(Messages) /\ incidentq \in Seq(Messages) /\ r \in Runs
    BY DEF QueueInv, Active
<1>t. s \in Nat /\ m \in Nat /\ held \in Nat /\ Lines(r) \in Nat /\ produced[r] \in Nat
    BY <1>d, BalanceTypes
<1>b. Lines(r) + (s + m + held) <= produced[r]
      /\ (failure[r] = "none" => Lines(r) + (s + m + held) = produced[r])
    BY DEF Balance, Carried
<1>q. \A q : Current(q) => q = r
    BY CurrentIsActive
<1>c. ASSUME CountIn(stage3q', Results(r)) + CountIn(incidentq', Results(r)) + held' + Lines(r)'
               <= s + m + held + Lines(r) + produced'[r] - produced[r],
             failure'[r] = "none" => failure[r] = "none" /\
               CountIn(stage3q', Results(r)) + CountIn(incidentq', Results(r)) + held' + Lines(r)'
                 = s + m + held + Lines(r) + produced'[r] - produced[r],
             CountIn(stage3q', Results(r)) \in Nat, CountIn(incidentq', Results(r)) \in Nat,
             held' \in Nat, Lines(r)' \in Nat, produced'[r] \in Nat
      PROVE  Balance(r)'
  <2>1. Lines(r)' + (CountIn(stage3q', Results(r)) + CountIn(incidentq', Results(r)) + held') <= produced'[r]
      BY <1>b, <1>c, <1>t
  <2>2. failure'[r] = "none" =>
          Lines(r)' + (CountIn(stage3q', Results(r)) + CountIn(incidentq', Results(r)) + held') = produced'[r]
      BY <1>b, <1>c, <1>t
  <2> QED BY <2>1, <2>2 DEF Balance, Carried
<1>1. ASSUME NEW q \in Runs, OpenMedia(q) \/ FileDone(q) \/ ConsumerFails(q) PROVE Balance(r)'
    BY <1>1, <1>d, BalanceSame DEF OpenMedia, FileDone, ConsumerFails, pipe
<1>2. CASE Import
    BY <1>2, <1>d, BalanceSame DEF Import, pipe
<1>3. ASSUME NEW q \in Runs, SendMarker(q) PROVE Balance(r)'
  <2>1. UNCHANGED <<held, failure, produced, outbox>>
      BY <1>3 DEF SendMarker
  <2>2. \/ incidentq' = Append(incidentq, Marker(q)) /\ stage3q' = stage3q
        \/ stage3q' = Append(stage3q, Marker(q)) /\ incidentq' = incidentq
      BY <1>3 DEF SendMarker, Marker
  <2>3. Marker(q) \in Messages /\ Marker(q) \notin Results(r)
      BY DEF Marker, Messages, Results
  <2>4. CountIn(stage3q', Results(r)) = s /\ CountIn(incidentq', Results(r)) = m
    <3>1. /\ CountIn(Append(stage3q, Marker(q)), Results(r)) = s + 0
          /\ CountIn(Append(incidentq, Marker(q)), Results(r)) = m + 0
        BY <2>3, <1>d, ResultsCount
    <3> HIDE DEF s, m
    <3>2. s + 0 = s /\ m + 0 = m
        BY <1>t
    <3> QED BY <2>2, <3>1, <3>2 DEF s, m
  <2>5. Lines(r)' = Lines(r)
      BY <2>1 DEF Lines
  <2> QED BY <2>1, <2>4, <2>5, <1>t, <1>c
<1>4. ASSUME NEW q \in Runs, FindFight(q) PROVE Balance(r)'
  <2> DEFINE job == [run |-> q, what |-> "result"]
  <2>1. q = r /\ UNCHANGED <<incidentq, held, failure, outbox>> /\ stage3q' = Append(stage3q, job)
        /\ produced' = [produced EXCEPT ![q] = @ + 1]
      BY <1>4, <1>q DEF FindFight
  <2>2. job \in Messages /\ job \in Results(r)
      BY <2>1 DEF Messages, Results
  <2> HIDE DEF job
  <2>3. CountIn(stage3q', Results(r)) = s + 1
      BY <2>1, <2>2, <1>d, ResultsCount
  <2>4. produced'[r] = produced[r] + 1
      BY <2>1, <1>d DEF OutboxInv
  <2>5. Lines(r)' = Lines(r)
      BY <2>1 DEF Lines
  <2>6. CountIn(incidentq', Results(r)) = m
      BY <2>1
  <2> HIDE DEF s, m
  <2>7. (s + 1) + m + held + Lines(r) = s + m + held + Lines(r) + (produced[r] + 1) - produced[r]
        /\ s + 1 \in Nat /\ produced[r] + 1 \in Nat
      BY <1>t
  <2> QED BY <2>1, <2>3, <2>4, <2>5, <2>6, <2>7, <1>t, <1>c
<1>5. ASSUME NEW q \in Runs, FindSpeed(q) PROVE Balance(r)'
  <2>1. q = r /\ UNCHANGED <<stage3q, incidentq, held, failure>> /\ outbox' = Append(outbox, q)
        /\ produced' = [produced EXCEPT ![q] = @ + 1]
      BY <1>5, <1>q DEF FindSpeed, pipe
  <2>2. Lines(r)' = Lines(r) + 1
      BY <2>1, <1>d, LinesIs
  <2>3. produced'[r] = produced[r] + 1
      BY <2>1, <1>d DEF OutboxInv
  <2>4. CountIn(stage3q', Results(r)) = s /\ CountIn(incidentq', Results(r)) = m
      BY <2>1
  <2> HIDE DEF s, m
  <2>5. s + m + held + (Lines(r) + 1) = s + m + held + Lines(r) + (produced[r] + 1) - produced[r]
        /\ Lines(r) + 1 \in Nat /\ produced[r] + 1 \in Nat
      BY <1>t
  <2> QED BY <2>1, <2>2, <2>3, <2>4, <2>5, <1>t, <1>c
<1>6. ASSUME NEW q \in Runs, Publish(q) PROVE Balance(r)'
  <2>1. q = r /\ UNCHANGED <<stage3q, incidentq, failure, produced>> /\ outbox' = Append(outbox, q)
        /\ held > 0 /\ held' = held - 1
      BY <1>6, <1>q DEF Publish
  <2>2. Lines(r)' = Lines(r) + 1
      BY <2>1, <1>d, LinesIs
  <2>3. CountIn(stage3q', Results(r)) = s /\ CountIn(incidentq', Results(r)) = m
      BY <2>1
  <2> HIDE DEF s, m
  <2>4. s + m + (held - 1) + (Lines(r) + 1) = s + m + held + Lines(r) /\ Lines(r) + 1 \in Nat /\ held - 1 \in Nat
      BY <2>1, <1>t
  <2> QED BY <2>1, <2>2, <2>3, <2>4, <1>t, <1>c
<1>7. CASE Stage3Step
  <2> DEFINE job == Head(stage3q)
  <2>1. stage3q # <<>> /\ stage3q' = Tail(stage3q) /\ job \in Messages /\ UNCHANGED <<held, outbox, produced>>
      BY <1>7, Stage3Is
  <2>2. \/ Current(job.run) /\ job = Marker(job.run) /\ incidentq' = Append(incidentq, job) /\ failure' = failure
        \/ /\ Current(job.run) /\ job \in Results(job.run) /\ failure' = failure
           /\ \E msg \in Results(job.run) : incidentq' = Append(incidentq, msg)
        \/ /\ Current(job.run) /\ job \in Results(job.run) /\ incidentq' = incidentq
           /\ failure' = [failure EXCEPT ![job.run] = "other"]
        \/ ~Current(job.run) /\ UNCHANGED <<incidentq, failure>>
      BY <1>7, Stage3Is
  <2>3. Tail(stage3q) \in Seq(Messages) /\ Holds(stage3q, job.run)
      BY <2>1, <1>d, QueueTail
  <2>4. s = CountIn(stage3q', Results(r)) + (IF job \in Results(r) THEN 1 ELSE 0)
        /\ CountIn(stage3q', Results(r)) \in Nat
      BY <2>1, <2>3, <1>d, ResultsCount
  <2>5. Lines(r)' = Lines(r)
      BY <2>1 DEF Lines
  <2>6. Current(job.run) => job.run = r
      BY <1>q
  <2> HIDE DEF job
  <2>7. CASE Current(job.run) /\ job = Marker(job.run) /\ incidentq' = Append(incidentq, job) /\ failure' = failure
    <3>1. job \notin Results(r)
        BY <2>7 DEF Marker, Results
    <3>2. CountIn(incidentq', Results(r)) = m
        BY <3>1, <2>1, <2>7, <1>d, <1>t, ResultsCount
    <3> QED BY <3>1, <3>2, <2>1, <2>4, <2>5, <2>7, <1>t, <1>c
  <2>8. ASSUME Current(job.run), job \in Results(job.run), failure' = failure,
               NEW msg \in Results(job.run), incidentq' = Append(incidentq, msg)
        PROVE  Balance(r)'
    <3>1. job \in Results(r) /\ msg \in Results(r) /\ msg \in Messages
        BY <2>6, <2>8, <1>d DEF Results, Messages
    <3>2. CountIn(incidentq', Results(r)) = m + 1
        BY <3>1, <2>8, <1>d, ResultsCount
    <3>3. s = CountIn(stage3q', Results(r)) + 1 /\ produced'[r] = produced[r]
        BY <3>1, <2>1, <2>4
    <3> HIDE DEF s, m
    <3>4. CountIn(stage3q', Results(r)) + (m + 1) + held + Lines(r) = s + m + held + Lines(r) + produced[r] - produced[r]
          /\ m + 1 \in Nat
        BY <3>3, <2>4, <1>t
    <3> QED BY <3>2, <3>3, <3>4, <2>1, <2>4, <2>5, <2>8, <1>t, <1>c
  <2>9. CASE /\ Current(job.run) /\ job \in Results(job.run) /\ incidentq' = incidentq
             /\ failure' = [failure EXCEPT ![job.run] = "other"]
    <3>1. job \in Results(r) /\ failure'[r] = "other"
        BY <2>6, <2>9, <1>d DEF QueueInv
    <3> QED BY <3>1, <2>1, <2>4, <2>5, <2>9, <1>t, <1>c
  <2>10. CASE ~Current(job.run) /\ UNCHANGED <<incidentq, failure>>
    <3>1. job.run # r
      <4>1. r \in Active /\ item = "none" => ~Holds(stage3q, r)
          BY <1>d DEF FreshInv, Unopened
      <4> QED BY <4>1, <2>3, <2>10 DEF Current
    <3>2. job \notin Results(r)
        BY <3>1 DEF Results
    <3> QED BY <3>2, <2>1, <2>4, <2>5, <2>10, <1>t, <1>c
  <2> QED BY <2>2, <2>7, <2>8, <2>9, <2>10
<1>8. CASE IncidentStep
  <2> DEFINE msg == Head(incidentq)
  <2>1. incidentq # <<>> /\ incidentq' = Tail(incidentq) /\ msg \in Messages /\ UNCHANGED <<stage3q, produced>>
      BY <1>8, IncidentIs
  <2>2. \/ /\ Current(msg.run) /\ msg \in Results(msg.run) /\ held' = held + 1
           /\ UNCHANGED <<failure, ack, outbox>>
        \/ /\ Current(msg.run) /\ msg \in Results(msg.run) /\ UNCHANGED <<held, ack, outbox>>
           /\ \E reason \in {"evidence", "other"} : failure' = [failure EXCEPT ![msg.run] = reason]
        \/ /\ Current(msg.run) /\ msg = Marker(msg.run) /\ held' = 0 /\ failure' = failure
           /\ outbox' = outbox \o [i \in 1 .. held |-> msg.run] /\ ack' = [ack EXCEPT ![msg.run] = Len(outbox')]
        \/ ~Current(msg.run) /\ UNCHANGED <<held, failure, ack, outbox>>
      BY <1>8, IncidentIs
  <2>3. Tail(incidentq) \in Seq(Messages) /\ Holds(incidentq, msg.run)
      BY <2>1, <1>d, QueueTail
  <2>4. m = CountIn(incidentq', Results(r)) + (IF msg \in Results(r) THEN 1 ELSE 0)
        /\ CountIn(incidentq', Results(r)) \in Nat
      BY <2>1, <2>3, <1>d, ResultsCount
  <2>6. Current(msg.run) => msg.run = r
      BY <1>q
  <2> HIDE DEF msg
  <2>7. CASE /\ Current(msg.run) /\ msg \in Results(msg.run) /\ held' = held + 1
             /\ UNCHANGED <<failure, ack, outbox>>
    <3>1. msg \in Results(r) /\ Lines(r)' = Lines(r)
        BY <2>6, <2>7 DEF Lines
    <3>2. CountIn(stage3q', Results(r)) = s /\ m = CountIn(incidentq', Results(r)) + 1 /\ produced'[r] = produced[r]
        BY <3>1, <2>1, <2>4
    <3> HIDE DEF s, m
    <3>3. s + CountIn(incidentq', Results(r)) + (held + 1) + Lines(r) = s + m + held + Lines(r) + produced[r] - produced[r]
          /\ held + 1 \in Nat
        BY <3>2, <2>4, <1>t
    <3> QED BY <3>1, <3>2, <3>3, <2>1, <2>4, <2>7, <1>t, <1>c
  <2>8. CASE /\ Current(msg.run) /\ msg \in Results(msg.run) /\ UNCHANGED <<held, ack, outbox>>
             /\ \E reason \in {"evidence", "other"} : failure' = [failure EXCEPT ![msg.run] = reason]
    <3>1. msg \in Results(r) /\ failure'[r] # "none" /\ Lines(r)' = Lines(r)
        BY <2>6, <2>8, <1>d DEF QueueInv, Lines
    <3> QED BY <3>1, <2>1, <2>4, <2>8, <1>t, <1>c
  <2>9. CASE /\ Current(msg.run) /\ msg = Marker(msg.run) /\ held' = 0 /\ failure' = failure
             /\ outbox' = outbox \o [i \in 1 .. held |-> msg.run]
    <3>1. msg \notin Results(r)
        BY <2>9 DEF Marker, Results
    <3>2. Lines(r)' = Lines(r) + held
        BY <2>6, <2>9, <1>d, <1>t, LinesIs
    <3> QED BY <3>1, <3>2, <2>1, <2>4, <2>9, <1>t, <1>c
  <2>10. CASE ~Current(msg.run) /\ UNCHANGED <<held, failure, ack, outbox>>
    <3>1. msg.run # r
      <4>1. r \in Active /\ item = "none" => ~Holds(incidentq, r)
          BY <1>d DEF FreshInv, Unopened
      <4> QED BY <4>1, <2>3, <2>10 DEF Current
    <3>2. msg \notin Results(r) /\ Lines(r)' = Lines(r)
        BY <3>1, <2>10 DEF Results, Lines
    <3> QED BY <3>2, <2>1, <2>4, <2>10, <1>t, <1>c
  <2> QED BY <2>2, <2>7, <2>8, <2>9, <2>10
<1> QED BY <1>1, <1>2, <1>3, <1>4, <1>5, <1>6, <1>7, <1>8 DEF Steady, Consumers

-----------------------------------------------------------------------------
\* The outbox only grows, and only by lines of the current run.
LEMMA OutboxGrows ==
    ASSUME OutboxInv, QueueInv, [Next]_vars
    PROVE  /\ outbox' \in Seq(Runs) /\ Len(outbox) \in Nat /\ Len(outbox') \in Nat /\ Len(outbox) <= Len(outbox')
           /\ \A i \in 1 .. Len(outbox) : outbox'[i] = outbox[i]
           /\ \A i \in 1 .. Len(outbox') : i > Len(outbox) => Current(outbox'[i])
           /\ \A r \in Runs : ~Current(r) => produced'[r] = produced[r] /\ Lines(r)' = Lines(r)
<1>a. outbox \in Seq(Runs) /\ Len(outbox) \in Nat /\ produced \in [Runs -> Nat] /\ held \in Nat
    BY LenProperties DEF OutboxInv, QueueInv
<1>1. ASSUME UNCHANGED <<outbox, produced>>
      PROVE  /\ outbox' \in Seq(Runs) /\ Len(outbox') = Len(outbox)
             /\ \A i \in 1 .. Len(outbox) : outbox'[i] = outbox[i]
             /\ \A r \in Runs : produced'[r] = produced[r] /\ Lines(r)' = Lines(r)
    BY <1>1, <1>a DEF Lines
<1>2. ASSUME NEW q \in Runs, Current(q), outbox' = Append(outbox, q),
             produced' = produced \/ produced' = [produced EXCEPT ![q] = @ + 1]
      PROVE  /\ outbox' \in Seq(Runs) /\ Len(outbox') = Len(outbox) + 1
             /\ \A i \in 1 .. Len(outbox) : outbox'[i] = outbox[i]
             /\ \A i \in 1 .. Len(outbox') : i > Len(outbox) => Current(outbox'[i])
             /\ \A r \in Runs : ~Current(r) => produced'[r] = produced[r] /\ Lines(r)' = Lines(r)
  <2>1. /\ outbox' \in Seq(Runs) /\ Len(outbox') = Len(outbox) + 1
        /\ \A i \in 1 .. Len(outbox) : outbox'[i] = outbox[i]
        /\ outbox'[Len(outbox) + 1] = q
      BY <1>2, <1>a, AppendProperties
  <2>2. \A i \in 1 .. Len(outbox') : i > Len(outbox) => i = Len(outbox) + 1
      BY <2>1, <1>a
  <2>3. ASSUME NEW r \in Runs, ~Current(r) PROVE produced'[r] = produced[r] /\ Lines(r)' = Lines(r)
    <3>1. r # q
        BY <1>2, <2>3
    <3>2. Lines(r)' = Lines(r) + (IF q = r THEN 1 ELSE 0) /\ Lines(r) \in Nat
        BY <1>2, LinesIs
    <3> QED BY <3>1, <3>2, <1>2, <1>a
  <2> QED BY <2>1, <2>2, <2>3, <1>2
<1>3. ASSUME NEW q \in Runs, Current(q), outbox' = outbox \o [i \in 1 .. held |-> q], produced' = produced
      PROVE  /\ outbox' \in Seq(Runs) /\ Len(outbox') = Len(outbox) + held
             /\ \A i \in 1 .. Len(outbox) : outbox'[i] = outbox[i]
             /\ \A i \in 1 .. Len(outbox') : i > Len(outbox) => Current(outbox'[i])
             /\ \A r \in Runs : ~Current(r) => produced'[r] = produced[r] /\ Lines(r)' = Lines(r)
  <2> DEFINE batch == [i \in 1 .. held |-> q]
  <2>1. batch \in Seq(Runs) /\ Len(batch) = held /\ \A i \in 1 .. held : batch[i] = q
      BY <1>a, IsASeq
  <2> HIDE DEF batch
  <2>2. /\ outbox' \in Seq(Runs) /\ Len(outbox') = Len(outbox) + held
        /\ \A i \in 1 .. Len(outbox) + held :
             outbox'[i] = IF i <= Len(outbox) THEN outbox[i] ELSE batch[i - Len(outbox)]
      BY <1>3, <1>a, <2>1, ConcatProperties DEF batch
  <2>3. ASSUME NEW i \in 1 .. Len(outbox'), i > Len(outbox) PROVE outbox'[i] = q
    <3>1. i - Len(outbox) \in 1 .. held /\ i \in 1 .. Len(outbox) + held /\ ~(i <= Len(outbox))
        BY <2>2, <2>3, <1>a
    <3>2. outbox'[i] = batch[i - Len(outbox)]
        BY <3>1, <2>2
    <3> QED BY <3>1, <3>2, <2>1
  <2>4. ASSUME NEW r \in Runs, ~Current(r) PROVE Lines(r)' = Lines(r)
    <3>1. r # q
        BY <1>3, <2>4
    <3>2. Lines(r)' = Lines(r) + (IF q = r THEN held ELSE 0) /\ Lines(r) \in Nat
        BY <1>3, <1>a, LinesIs
    <3> QED BY <3>1, <3>2
  <2>5. ASSUME NEW i \in 1 .. Len(outbox) PROVE outbox'[i] = outbox[i]
    <3>1. i \in 1 .. Len(outbox) + held /\ i <= Len(outbox)
        BY <1>a
    <3> QED BY <3>1, <2>2
  <2> QED BY <2>2, <2>3, <2>4, <2>5, <1>3
<1>4. ASSUME NEW q \in Runs, FindSpeed(q) \/ Publish(q)
      PROVE  Current(q) /\ outbox' = Append(outbox, q)
             /\ (produced' = produced \/ produced' = [produced EXCEPT ![q] = @ + 1])
    BY <1>4 DEF FindSpeed, Publish
<1>5. CASE \E q \in Runs : FindSpeed(q) \/ Publish(q)
    BY <1>5, <1>4, <1>2, <1>a
<1>6. CASE IncidentStep
  <2> DEFINE msg == Head(incidentq)
  <2>1. msg \in Messages /\ produced' = produced
      BY <1>6, IncidentIs
  <2>2. outbox' = outbox \/ (Current(msg.run) /\ outbox' = outbox \o [i \in 1 .. held |-> msg.run])
      BY <1>6, IncidentIs
  <2>3. msg.run \in Runs
      BY <2>1 DEF Messages
  <2> HIDE DEF msg
  <2>4. CASE outbox' = outbox
      BY <2>1, <2>4, <1>1, <1>a
  <2>5. CASE Current(msg.run) /\ outbox' = outbox \o [i \in 1 .. held |-> msg.run]
    <3>1. PICK q \in Runs : q = msg.run
        BY <2>3
    <3>2. Current(q) /\ outbox' = outbox \o [i \in 1 .. held |-> q] /\ produced' = produced
        BY <3>1, <2>1, <2>5
    <3>3. /\ outbox' \in Seq(Runs) /\ Len(outbox') = Len(outbox) + held
          /\ \A i \in 1 .. Len(outbox) : outbox'[i] = outbox[i]
          /\ \A i \in 1 .. Len(outbox') : i > Len(outbox) => Current(outbox'[i])
          /\ \A r \in Runs : ~Current(r) => produced'[r] = produced[r] /\ Lines(r)' = Lines(r)
        BY <3>2, <1>3
    <3>4. Len(outbox') \in Nat /\ Len(outbox) <= Len(outbox')
        BY <3>3, <1>a
    <3> QED BY <3>3, <3>4, <1>a, Zenon
  <2> QED BY <2>2, <2>4, <2>5
<1>7. ASSUME NEW q \in Runs, FindFight(q)
      PROVE  /\ outbox' = outbox
             /\ \A r \in Runs : ~Current(r) => produced'[r] = produced[r] /\ Lines(r)' = Lines(r)
  <2>1. outbox' = outbox /\ Current(q) /\ produced' = [produced EXCEPT ![q] = @ + 1]
      BY <1>7 DEF FindFight
  <2> QED BY <2>1, <1>a DEF Lines
<1>8. CASE \E q \in Runs : FindFight(q)
    BY <1>8, <1>7, <1>a
<1>9. CASE Pages \/ UNCHANGED vars \/ ParentStart \/ ParentCrash \/ ParentStop \/ Import
    BY <1>9, <1>1, <1>a, PagesKeepRuntime DEF vars, ParentStart, ParentCrash, ParentStop, Vanish, Import
<1>10. CASE \E q \in Runs : Claim(q) \/ FailInterrupted(q) \/ Leaves(q) \/ OpenMedia(q) \/ SendMarker(q)
                             \/ FileDone(q) \/ ConsumerFails(q)
  <2>1. UNCHANGED <<outbox, produced>>
      BY <1>10 DEF Claim, FailInterrupted, Leaves, OpenFails, TickCancelled, TickFailed, TickAcknowledged, End,
         OpenMedia, SendMarker, FileDone, ConsumerFails
  <2> QED BY <2>1, <1>1, <1>a
<1>11. CASE Stage3Step
    BY <1>11, <1>1, <1>a, Stage3Is
<1> QED BY <1>5, <1>6, <1>8, <1>9, <1>10, <1>11, StepIs DEF Steady, Consumers

LEMMA LinesUpToKept ==
    ASSUME OutboxInv, QueueInv, [Next]_vars, NEW r \in Runs, ~Current(r), NEW n, LinesUpTo(r, n)
    PROVE  \A i \in 1 .. Len(outbox') : outbox'[i] = r => i <= n
<1> SUFFICES ASSUME NEW i \in 1 .. Len(outbox'), outbox'[i] = r PROVE i <= n
    OBVIOUS
<1>1. ~(i > Len(outbox))
    BY OutboxGrows
<1>2. i \in 1 .. Len(outbox)
    BY <1>1, OutboxGrows
<1> QED BY <1>2, OutboxGrows DEF LinesUpTo

LEMMA BalanceTypesNext ==
    ASSUME OutboxInv', QueueInv', NEW r \in Runs
    PROVE  Lines(r)' \in Nat /\ Carried(r)' \in Nat /\ produced'[r] \in Nat
<1>1. outbox' \in Seq(Runs) /\ stage3q' \in Seq(Messages) /\ incidentq' \in Seq(Messages) /\ held' \in Nat
      /\ produced'[r] \in Nat
    BY DEF QueueInv, OutboxInv
<1>2. CountIn(stage3q', Results(r)) \in Nat /\ CountIn(incidentq', Results(r)) \in Nat
    BY <1>1, ResultsCount
<1>3. CountIn(outbox', {r}) \in Nat
    BY <1>1, CountType
<1> QED BY <1>1, <1>2, <1>3 DEF Carried, Lines

LEMMA BalanceStep ==
    FileInv /\ OutboxInv /\ OpenInv /\ QueueInv /\ FreshInv /\ MarkerInv /\ BalanceInv /\ [Next]_vars => BalanceInv'
<1> SUFFICES ASSUME FileInv, OutboxInv, OpenInv, QueueInv, FreshInv, MarkerInv, BalanceInv, [Next]_vars
             PROVE  BalanceInv'
    OBVIOUS
<1>a. \A r \in Active : r \in Runs /\ Balance(r)
    BY DEF BalanceInv, Balance, Active
<1>b. OutboxInv' /\ QueueInv'
    BY OutboxStep, QueueStep
<1>1. ASSUME NEW r \in Runs, r \in Active' PROVE Balance(r)'
  <2>1. ASSUME NEW q \in Runs, Claim(q) PROVE Balance(r)'
    <3>1. r = q /\ file[r].state = "NONE" /\ Active = {}
          /\ UNCHANGED <<stage3q, incidentq, held, failure, produced, outbox>>
        BY <1>1, <2>1, ActiveChanges DEF Claim, pipe
    <3>2. ~Holds(stage3q, r) /\ ~Holds(incidentq, r) /\ produced[r] = 0 /\ Lines(r) = 0
        BY <3>1 DEF FreshInv, Unopened
    <3>3. held = 0 /\ stage3q \in Seq(Messages) /\ incidentq \in Seq(Messages)
        BY <3>1, HeldFree DEF QueueInv
    <3>4. CountIn(stage3q, Results(r)) = 0 /\ CountIn(incidentq, Results(r)) = 0
        BY <3>2, <3>3, ResultsCount
    <3>5. Balance(r)
        BY <3>2, <3>3, <3>4 DEF Balance, Carried
    <3> QED BY <3>1, <3>5, BalanceSame
  <2>2. CASE Pages \/ UNCHANGED vars
    <3>1. r \in Active /\ UNCHANGED <<stage3q, incidentq, held, failure, produced, outbox>>
        BY <1>1, <2>2, ActiveChanges, PagesKeepRuntime DEF pipe, vars
    <3> QED BY <3>1, <1>a, BalanceSame
  <2>3. CASE Steady
    <3>1. r \in Active
        BY <1>1, <2>3, ActiveChanges
    <3> QED BY <3>1, <2>3, <1>a, BalanceMoves
  <2>4. ~(ParentStart \/ ParentCrash \/ ParentStop) /\ \A q \in Runs : ~FailInterrupted(q) /\ ~Leaves(q)
      BY <1>1, ActiveChanges
  <2> QED BY <2>1, <2>2, <2>3, <2>4, StepIs
<1>2. ASSUME NEW r \in Runs PROVE Lines(r)' <= produced'[r]
  <2>1. CASE ~Current(r)
      BY <2>1, OutboxGrows DEF BalanceInv
  <2>2. CASE Current(r) /\ r \in Active'
    <3>1. Lines(r)' + Carried(r)' <= produced'[r]
        BY <1>1, <2>2 DEF Balance
    <3>2. Lines(r)' \in Nat /\ Carried(r)' \in Nat /\ produced'[r] \in Nat
        BY <1>b, BalanceTypesNext
    <3> QED BY <3>1, <3>2
  <2>3. CASE Current(r) /\ r \notin Active'
    <3>1. r \in Active
        BY <2>3 DEF Current
    <3>2. ~(Pages \/ Steady \/ UNCHANGED vars) /\ \A q \in Runs : ~Claim(q)
        BY <2>3, <3>1, ActiveChanges
    <3>3. UNCHANGED <<outbox, produced>>
        BY <3>2, StepIs DEF FailInterrupted, Leaves, OpenFails, TickCancelled, TickFailed, TickAcknowledged, End,
           ParentStart, ParentCrash, ParentStop, Vanish
    <3> QED BY <3>3 DEF BalanceInv, Lines
  <2> QED BY <2>1, <2>2, <2>3
<1>3. ASSUME NEW r \in Runs, file'[r].state = "COMPLETED"
      PROVE  Lines(r)' = produced'[r] /\ \A i \in 1 .. Len(outbox') : outbox'[i] = r => i <= file'[r].offset
  <2>1. CASE file[r].state = "COMPLETED"
    <3>1. file'[r] = file[r]
        BY <2>1, FileOnward DEF Terminal
    <3>2. ~Current(r)
        BY <2>1 DEF Current, Active
    <3>3. Lines(r) = produced[r] /\ LinesUpTo(r, file[r].offset)
        BY <2>1 DEF BalanceInv
    <3> QED BY <3>1, <3>2, <3>3, OutboxGrows, LinesUpToKept
  <2>2. CASE file[r].state # "COMPLETED"
    <3>1. TickAcknowledged(r) /\ failure[r] # "evidence" /\ file'[r].offset = ack[r]
      <4>1. ASSUME NEW q \in Runs, Leaves(q)
            PROVE TickAcknowledged(r) /\ failure[r] # "evidence" /\ file'[r].offset = ack[r]
        <5>1. PICK s \in Terminal, n \in Nat :
                Ended(q, s, n) /\ (s = "COMPLETED" => TickAcknowledged(q) /\ failure[q] # "evidence" /\ n = ack[q])
            BY <4>1, LeavesIs
        <5>2. q = r /\ s = "COMPLETED" /\ file'[r].offset = n
            BY <5>1, <1>3, <2>2 DEF Ended, FileInv
        <5> QED BY <5>1, <5>2
      <4>2. ASSUME NEW q \in Runs, Claim(q) PROVE FALSE
          BY <4>2, <1>3, <2>2 DEF Claim, FileInv
      <4>3. ASSUME NEW q \in Runs, FailInterrupted(q) PROVE FALSE
        <5>1. Ended(q, "FAILED", file[q].offset)
            BY <4>3, FailInterruptedIs
        <5> QED BY <5>1, <1>3, <2>2 DEF Ended, FileInv
      <4>4. ASSUME ParentStop PROVE FALSE
          BY <4>4, <1>3, <2>2 DEF ParentStop, FileInv
      <4>5. ASSUME Pages \/ Steady \/ UNCHANGED vars \/ ParentStart \/ ParentCrash PROVE FALSE
        <5>1. file' = file
            BY <4>5, PagesKeepRuntime, SteadyKeeps DEF durable, vars, ParentStart, ParentCrash
        <5> QED BY <5>1, <1>3, <2>2
      <4> QED BY <4>1, <4>2, <4>3, <4>4, <4>5, StepIs
    <3>2. r \in Active /\ failure[r] # "other" /\ ack[r] # NoAck /\ UNCHANGED <<outbox, produced>>
        BY <3>1 DEF TickAcknowledged, Draining, Current, End
    <3>3. failure[r] = "none"
        BY <3>1, <3>2 DEF QueueInv
    <3>4. ~Holds(stage3q, r) /\ ~Holds(incidentq, r) /\ held = 0 /\ LinesUpTo(r, ack[r])
        BY <3>2, MarkerInvIs DEF MarkerOf
    <3>5. Carried(r) = 0
      <4>1. CountIn(stage3q, Results(r)) = 0 /\ CountIn(incidentq, Results(r)) = 0
          BY <3>4, ResultsCount DEF QueueInv
      <4> QED BY <4>1, <3>4 DEF Carried
    <3>6. Lines(r) = produced[r]
      <4>1. Lines(r) + 0 = produced[r]
          BY <3>2, <3>3, <3>5, <1>a DEF Balance
      <4> QED BY <4>1, BalanceTypes
    <3> QED BY <3>1, <3>2, <3>4, <3>6 DEF LinesUpTo, Lines
  <2> QED BY <2>1, <2>2
<1> QED BY <1>1, <1>2, <1>3 DEF BalanceInv, Balance, LinesUpTo, Active

-----------------------------------------------------------------------------
LEMMA InitJobs == Init => JobsInv
<1> SUFFICES ASSUME Init PROVE JobsInv
    OBVIOUS
<1>a. Active = {}
    BY DEF Init, Active
<1>1. RowInv
    BY DEF Init, RowInv, NoRequest, Runs
<1>p. PassInv
  <2>1. NoHand \in Hands
      BY DEF NoHand, Hands
  <2> QED BY <2>1 DEF Init, PassInv
<1>2. FileInv
    BY <1>a DEF Init, FileInv, NoFile
<1>3. OpenInv
    BY <1>a DEF Init, OpenInv
<1>4. ShownInv
    BY DEF Init, ShownInv, Backed
<1>5. QueueInv
    BY EmptyQueue DEF Init, QueueInv
<1>6. OutboxInv
  <2>1. Len(outbox) = 0 /\ outbox \in Seq(Runs)
      BY EmptyQueue DEF Init
  <2> QED BY <2>1 DEF Init, OutboxInv
<1>7. \A r \in Runs : Lines(r) = 0 /\ produced[r] = 0
    BY CountEmpty DEF Init, Lines
<1>8. FreshInv
    BY <1>7, EmptyQueue DEF Init, FreshInv
<1>9. MarkerInv
    BY <1>a DEF MarkerInv
<1>10. BalanceInv
    BY <1>a, <1>7 DEF Init, BalanceInv, NoFile
<1> QED BY <1>1, <1>p, <1>2, <1>3, <1>4, <1>5, <1>6, <1>8, <1>9, <1>10 DEF JobsInv

(***************************************************************************)
(* The invariant of the files, the queues and the outbox.                   *)
(***************************************************************************)
THEOREM JobsHold == Spec => []JobsInv
<1>1. Init => JobsInv
    BY InitJobs
<1>2. JobsInv /\ [Next]_vars => JobsInv'
    BY RowStep, PassStep, FileStep, OpenStep, ShownStep, QueueStep, OutboxStep, FreshStep, MarkerStep, BalanceStep
       DEF JobsInv
<1> QED BY <1>1, <1>2, PTL DEF Spec

(***************************************************************************)
(* Over all parents the media of a run is opened at most once, and the end  *)
(* of a run is final: an interrupted analysis is failed, never replayed.    *)
(***************************************************************************)
THEOREM NeverReplayedHolds == Spec => NeverReplayed
<1>1. JobsInv /\ [Next]_vars
      => [\A r \in Runs : /\ opened'[r] <= 1
                          /\ file[r].state \in Terminal => file'[r] = file[r]]_vars
  <2> SUFFICES ASSUME JobsInv, [Next]_vars, NEW r \in Runs
               PROVE  opened'[r] <= 1 /\ (file[r].state \in Terminal => file'[r] = file[r])
      OBVIOUS
  <2>1. opened' \in [Runs -> {0, 1}]
      BY OpenStep DEF JobsInv, OpenInv
  <2> QED BY <2>1, FileOnward DEF JobsInv
<1> QED BY <1>1, JobsHold, PTL DEF Spec, NeverReplayed

-----------------------------------------------------------------------------
(* The refinement: which step of the contract every step is. *)

\* The result lines of a run the dispatcher has imported.
Seen(r) == {i \in 1 .. cursor : outbox[i] = r}

LEMMA SeenIs ==
    ASSUME OutboxInv, NEW r \in Runs
    PROVE  /\ IsFiniteSet(Seen(r)) /\ Cardinality(Seen(r)) \in Nat /\ Cardinality(Seen(r)) <= Lines(r)
           /\ \A n \in Nat : n <= cursor /\ LinesUpTo(r, n) => Cardinality(Seen(r)) = Lines(r)
<1>1. outbox \in Seq(Runs) /\ Len(outbox) \in Nat /\ DOMAIN outbox = 1 .. Len(outbox)
      /\ cursor \in Nat /\ cursor <= Len(outbox)
    BY LenProperties DEF OutboxInv
<1>2. Seen(r) \subseteq Places(outbox, {r})
    BY <1>1 DEF Seen, Places
<1>3. IsFiniteSet(Places(outbox, {r})) /\ Lines(r) = Cardinality(Places(outbox, {r}))
    BY <1>1, CountType DEF Lines, CountIn
<1>4. IsFiniteSet(Seen(r)) /\ Cardinality(Seen(r)) <= Lines(r)
    BY <1>2, <1>3, FS_Subset
<1>5. Cardinality(Seen(r)) \in Nat
    BY <1>4, FS_CardinalityType
<1>6. ASSUME NEW n \in Nat, n <= cursor, LinesUpTo(r, n) PROVE Seen(r) = Places(outbox, {r})
  <2>1. \A i \in Places(outbox, {r}) : i \in Nat /\ 1 <= i /\ i <= n /\ outbox[i] = r
      BY <1>1, <1>6 DEF Places, LinesUpTo
  <2>2. \A i \in Places(outbox, {r}) : i \in 1 .. cursor
      BY <2>1, <1>1, <1>6
  <2> QED BY <2>1, <2>2, <1>2 DEF Seen
<1> QED BY <1>3, <1>4, <1>5, <1>6

\* While the dispatcher stands still, what it has imported stays what it is.
LEMMA SeenKept ==
    ASSUME OutboxInv, QueueInv, [Next]_vars, cursor' = cursor, NEW r \in Runs
    PROVE  Seen(r)' = Seen(r)
<1>1. cursor \in Nat /\ cursor <= Len(outbox) /\ Len(outbox) \in Nat
    BY LenProperties DEF OutboxInv
<1>2. \A i \in 1 .. cursor : i \in 1 .. Len(outbox)
    BY <1>1
<1>3. \A i \in 1 .. cursor : outbox'[i] = outbox[i]
    BY <1>2, OutboxGrows
<1> QED BY <1>3 DEF Seen

\* An import adds the line behind the cursor to what has been imported of its run.
LEMMA SeenImport ==
    ASSUME OutboxInv, Import, NEW r \in Runs
    PROVE  /\ outbox[cursor + 1] \in Runs /\ outbox' = outbox
           /\ Cardinality(Seen(r)') = Cardinality(Seen(r)) + (IF outbox[cursor + 1] = r THEN 1 ELSE 0)
<1>1. cursor' = cursor + 1 /\ cursor < Len(outbox) /\ outbox' = outbox
    BY DEF Import
<1>2. outbox \in Seq(Runs) /\ Len(outbox) \in Nat /\ cursor \in Nat
    BY LenProperties DEF OutboxInv
<1>3. cursor + 1 \in 1 .. Len(outbox)
    BY <1>1, <1>2
<1>4. outbox[cursor + 1] \in Runs
    BY <1>2, <1>3, LenProperties
<1>5. 1 .. cursor' = (1 .. cursor) \cup {cursor + 1}
    BY <1>1, <1>2
<1>6. Seen(r)' = IF outbox[cursor + 1] = r THEN Seen(r) \cup {cursor + 1} ELSE Seen(r)
    BY <1>1, <1>5 DEF Seen
<1>7. cursor + 1 \notin Seen(r)
    BY <1>2 DEF Seen
<1>8. IsFiniteSet(Seen(r)) /\ Cardinality(Seen(r)) \in Nat
    BY SeenIs
<1>9. Cardinality(Seen(r) \cup {cursor + 1}) = Cardinality(Seen(r)) + 1
    BY <1>7, <1>8, FS_AddElement
<1> QED BY <1>1, <1>4, <1>6, <1>8, <1>9

LEMMA SeenNext ==
    ASSUME OutboxInv', NEW r \in Runs
    PROVE  Cardinality(Seen(r)') <= Lines(r)'
<1>1. outbox' \in Seq(Runs) /\ Len(outbox') \in Nat /\ DOMAIN outbox' = 1 .. Len(outbox')
      /\ cursor' \in Nat /\ cursor' <= Len(outbox')
  <2>1. outbox' \in Seq(Runs) /\ cursor' \in 0 .. Len(outbox')
      BY DEF OutboxInv
  <2> QED BY <2>1, LenProperties
<1>2. Seen(r)' \subseteq Places(outbox', {r})
    BY <1>1 DEF Seen, Places
<1>3. IsFiniteSet(Places(outbox', {r})) /\ Lines(r)' = Cardinality(Places(outbox', {r}))
    BY <1>1, CountType DEF Lines, CountIn
<1> QED BY <1>2, <1>3, FS_Subset

\* The variables of the contract.
Status   == [r \in Runs |-> row[r].state]
Outcome  == [r \in Runs |-> file[r].state]
Imported == [r \in Runs |-> Cardinality(Seen(r))]

LEMMA ContractVars == Contract!vars = <<Status, asked, Outcome, produced, Imported>>
BY DEF Contract!vars, Status, Outcome, Imported, Seen

\* A step of the contract, in terms of those variables.
LEMMA ContractNext ==
    ASSUME NEW r \in Runs,
           \/ /\ Status[r] = "ABSENT" /\ Status' = [Status EXCEPT ![r] = "QUEUED"]
              /\ UNCHANGED <<asked, Outcome, produced, Imported>>
           \/ /\ Status[r] \in Open /\ asked' = asked \cup {r}
              /\ UNCHANGED <<Status, Outcome, produced, Imported>>
           \/ /\ Status[r] # "ABSENT" /\ Outcome[r] = "NONE" /\ Outcome' = [Outcome EXCEPT ![r] = "PROCESSING"]
              /\ UNCHANGED <<Status, asked, produced, Imported>>
           \/ /\ Outcome[r] = "PROCESSING" /\ produced' = [produced EXCEPT ![r] = @ + 1]
              /\ UNCHANGED <<Status, asked, Outcome, Imported>>
           \/ /\ Imported[r] < produced[r] /\ Imported' = [Imported EXCEPT ![r] = @ + 1]
              /\ UNCHANGED <<Status, asked, Outcome, produced>>
           \/ /\ Outcome[r] = "PROCESSING" /\ \E s \in Terminal : Outcome' = [Outcome EXCEPT ![r] = s]
              /\ UNCHANGED <<Status, asked, produced, Imported>>
           \/ /\ Status[r] # "ABSENT" /\ UNCHANGED <<asked, Outcome, produced, Imported>>
              /\ \E s \in Terminal \cup {"PROCESSING"} :
                   /\ s = "PROCESSING" => Outcome[r] # "NONE"
                   /\ s \in {"COMPLETED", "FAILED"} => Outcome[r] = s
                   /\ s = "COMPLETED" => Imported[r] = produced[r]
                   /\ s = "CANCELLED" => r \in asked \/ Outcome[r] = s
                   /\ Status' = [Status EXCEPT ![r] = s]
    PROVE  Contract!Next
BY DEF Contract!Next, Contract!Submit, Contract!Ask, Contract!Begin, Contract!Find, Contract!Import, Contract!Decide,
       Contract!Show, Contract!Open, Contract!Terminal, Open, Terminal, Status, Outcome, Imported, Seen

LEMMA ContractStep == JobsInv /\ [Next]_vars => [Contract!Next]_(Contract!vars)
<1> SUFFICES ASSUME JobsInv, [Next]_vars
             PROVE Contract!Next \/ UNCHANGED <<Status, asked, Outcome, produced, Imported>>
    BY ContractVars DEF Contract!vars, Status, Outcome, Imported, Seen
<1> USE DEF JobsInv
<1>i. ASSUME cursor' = cursor PROVE Imported' = Imported
    BY <1>i, SeenKept DEF Imported
<1>s. ASSUME \A r \in Runs : row'[r].state = row[r].state PROVE Status' = Status
    BY <1>s DEF Status
<1>o. ASSUME file' = file PROVE Outcome' = Outcome
    BY <1>o DEF Outcome
<1>r. \A r \in Runs : Status[r] = row[r].state /\ Outcome[r] = file[r].state /\ Imported[r] = Cardinality(Seen(r))
    BY DEF Status, Outcome, Imported
<1>1. ASSUME NEW r \in Runs, Submit(r) PROVE Contract!Next
  <2>1. row[r].state = "ABSENT" /\ row' = [row EXCEPT ![r] = [state |-> "QUEUED", cancel |-> FALSE]]
        /\ UNCHANGED <<asked, file, produced, cursor>>
      BY <1>1 DEF Submit, NewRow, durable
  <2>2. Status' = [Status EXCEPT ![r] = "QUEUED"]
      BY <2>1 DEF Status, RowInv
  <2> QED BY <2>1, <2>2, <1>i, <1>o, <1>r, ContractNext
<1>2. ASSUME NEW r \in Runs, Cancel(r) PROVE Contract!Next
  <2>1. /\ row[r].state \in Open /\ row' = [row EXCEPT ![r].cancel = TRUE] /\ asked' = asked \cup {r}
        /\ UNCHANGED <<file, produced, cursor>>
      BY <1>2 DEF Cancel, durable
  <2>2. \A q \in Runs : row'[q].state = row[q].state
      BY <2>1 DEF RowInv
  <2> QED BY <2>1, <2>2, <1>i, <1>o, <1>r, <1>s, ContractNext
<1>3. ASSUME NEW p \in Passers, ReconcileSave(p) PROVE Contract!Next
  <2> DEFINE h == hand[p]
  <2>1. step[p] = "save" /\ UNCHANGED <<asked, file, produced, cursor>>
      BY <1>3 DEF ReconcileSave, durable
  <2>2. h.run \in Runs /\ h.state \in Terminal \cup {"PROCESSING"} /\ row[h.run].state # "ABSENT"
        /\ row' = [row EXCEPT ![h.run] = [state |-> h.state, cancel |-> h.cancel]]
      BY <1>3, SaveIs DEF Saved, Known
  <2>3. Backed(file[h.run], cursor, h.run \in asked, h.state)
      BY <2>1 DEF ShownInv
  <2> HIDE DEF h
  <2>4. Status' = [Status EXCEPT ![h.run] = h.state]
      BY <2>2 DEF Status, RowInv
  <2>5. ASSUME h.state = "COMPLETED" PROVE Imported[h.run] = produced[h.run]
    <3>1. file[h.run].offset \in Nat /\ file[h.run].offset <= cursor /\ file[h.run].state = "COMPLETED"
        BY <2>2, <2>3, <2>5 DEF FileInv, Backed
    <3>2. Lines(h.run) = produced[h.run] /\ LinesUpTo(h.run, file[h.run].offset)
        BY <3>1, <2>2 DEF BalanceInv
    <3> QED BY <3>1, <3>2, <2>2, <1>r, SeenIs
  <2>6. /\ h.state = "PROCESSING" => Outcome[h.run] # "NONE"
        /\ h.state \in {"COMPLETED", "FAILED"} => Outcome[h.run] = h.state
        /\ h.state = "CANCELLED" => h.run \in asked \/ Outcome[h.run] = h.state
      BY <2>2, <2>3, <1>r DEF Backed
  <2>7. Status[h.run] # "ABSENT" /\ UNCHANGED <<asked, Outcome, produced, Imported>>
      BY <2>1, <2>2, <1>i, <1>o, <1>r
  <2> QED BY <2>2, <2>4, <2>5, <2>6, <2>7, ContractNext
<1>4. CASE Import
  <2>1. PICK q \in Runs : q = outbox[cursor + 1]
    <3>1. cursor + 1 \in 1 .. Len(outbox)
        BY <1>4, LenProperties DEF Import, OutboxInv
    <3> QED BY <3>1, LenProperties DEF OutboxInv
  <2>2. UNCHANGED <<row, asked, file, produced, outbox>>
      BY <1>4 DEF Import, web, durable
  <2>3. \A r \in Runs : Cardinality(Seen(r)') = Cardinality(Seen(r)) + (IF q = r THEN 1 ELSE 0)
                        /\ Cardinality(Seen(r)) \in Nat
      BY <1>4, <2>1, SeenImport, SeenIs
  <2>4. Imported' = [Imported EXCEPT ![q] = @ + 1]
    <3>1. \A r \in Runs : Imported'[r] = Cardinality(Seen(r)')
        BY DEF Imported
    <3>2. \A r \in Runs : Imported'[r] = [Imported EXCEPT ![q] = @ + 1][r]
        BY <3>1, <2>3, <1>r DEF Imported
    <3> QED BY <3>2 DEF Imported
  <2>5. Imported[q] < produced[q]
    <3>1. OutboxInv'
        BY OutboxStep
    <3>2. Cardinality(Seen(q)') <= Lines(q)'
        BY <3>1, SeenNext
    <3>3. Lines(q)' = Lines(q) /\ Lines(q) <= produced[q] /\ Lines(q) \in Nat /\ produced[q] \in Nat
        BY <2>2, LinesIs DEF BalanceInv, OutboxInv
    <3>4. Cardinality(Seen(q)') = Cardinality(Seen(q)) + 1 /\ Cardinality(Seen(q)) \in Nat
        BY <2>3
    <3> QED BY <3>2, <3>3, <3>4, <1>r
  <2>6. Status' = Status /\ Outcome' = Outcome
      BY <2>2, <1>s, <1>o
  <2> QED BY <2>2, <2>4, <2>5, <2>6, ContractNext
<1>5. ASSUME NEW r \in Runs, FindFight(r) \/ FindSpeed(r) PROVE Contract!Next
  <2>1. Current(r) /\ UNCHANGED <<row, asked, file, cursor>> /\ produced' = [produced EXCEPT ![r] = @ + 1]
      BY <1>5 DEF FindFight, FindSpeed, web, durable
  <2>2. Outcome[r] = "PROCESSING"
      BY <2>1, <1>r DEF Current, Active
  <2> QED BY <2>1, <2>2, <1>i, <1>o, <1>s, ContractNext
<1>6. ASSUME UNCHANGED <<row, asked, file, produced, cursor>>
      PROVE UNCHANGED <<Status, asked, Outcome, produced, Imported>>
    BY <1>6, <1>i, <1>s, <1>o
<1>7. CASE UNCHANGED vars \/ \E p \in Passers : ReconcileQuery(p) \/ ReconcileRead(p) \/ ReconcilePick(p) \/ ReconcileWrite(p)
    BY <1>7, <1>6 DEF ReconcileQuery, ReconcileRead, ReconcilePick, ReconcileWrite, vars, web, durable
<1>8. CASE \E r \in Runs : OpenMedia(r) \/ SendMarker(r) \/ FileDone(r) \/ ConsumerFails(r) \/ Publish(r)
    BY <1>8, <1>6 DEF OpenMedia, SendMarker, FileDone, ConsumerFails, Publish, web, durable
<1>9. ASSUME NEW r \in Runs, Claim(r) PROVE Contract!Next
  <2>1. /\ request.run = r /\ file[r].state = "NONE"
        /\ file' = [file EXCEPT ![r] = [state |-> "PROCESSING", owner |-> parent, offset |-> 0]]
        /\ UNCHANGED <<row, asked, produced, cursor>>
      BY <1>9 DEF Claim, web
  <2>2. Outcome' = [Outcome EXCEPT ![r] = "PROCESSING"]
      BY <2>1 DEF Outcome, FileInv
  <2>3. Status[r] # "ABSENT" /\ Outcome[r] = "NONE"
      BY <2>1, <1>r DEF RowInv
  <2> QED BY <2>1, <2>2, <2>3, <1>i, <1>s, ContractNext
<1>d. ASSUME NEW r \in Runs, file[r].state = "PROCESSING", UNCHANGED <<row, asked, produced, cursor>>,
             NEW s \in Terminal, file'[r].state = s, \A q \in Runs \ {r} : file'[q].state = file[q].state
      PROVE  Contract!Next
  <2>1. Outcome[r] = "PROCESSING"
      BY <1>d, <1>r
  <2>2. Outcome' = [Outcome EXCEPT ![r] = s]
      BY <1>d DEF Outcome
  <2>3. UNCHANGED <<Status, asked, produced, Imported>>
      BY <1>d, <1>i, <1>s
  <2> QED BY <2>1, <2>2, <2>3, ContractNext
<1>10. ASSUME NEW r \in Runs, FailInterrupted(r) \/ Leaves(r) PROVE Contract!Next
  <2>1. file[r].state = "PROCESSING" /\ UNCHANGED <<row, asked, produced, cursor>>
    <3>1. CASE FailInterrupted(r)
        BY <3>1 DEF FailInterrupted, web
    <3>2. CASE Leaves(r)
        BY <3>2, LeavesIs DEF Active, Leaves, OpenFails, TickCancelled, TickFailed, TickAcknowledged, End
    <3> QED BY <1>10, <3>1, <3>2
  <2>2. PICK s \in Terminal, n \in Nat : Ended(r, s, n)
    <3>1. file[r].offset \in Nat
        BY DEF FileInv
    <3> QED BY <1>10, <3>1, FailInterruptedIs, LeavesIs DEF Terminal
  <2>3. file'[r].state = s /\ \A q \in Runs \ {r} : file'[q].state = file[q].state
      BY <2>2 DEF Ended, FileInv
  <2> QED BY <2>1, <2>3, <1>d
<1>11. CASE ParentStart \/ ParentCrash
    BY <1>11, <1>6 DEF ParentStart, ParentCrash, Vanish, web
<1>12. CASE ParentStop
  <2>1. /\ file' = [r \in Runs |-> IF r \in Active THEN [file[r] EXCEPT !.state = "FAILED"] ELSE file[r]]
        /\ UNCHANGED <<row, asked, produced, cursor>>
      BY <1>12 DEF ParentStop, web
  <2>2. CASE Active = {}
    <3>1. Outcome' = Outcome
        BY <2>1, <2>2 DEF Outcome
    <3> QED BY <2>1, <3>1, <1>i, <1>s
  <2>3. ASSUME NEW r \in Active PROVE Contract!Next
    <3>1. r \in Runs /\ file[r].state = "PROCESSING"
        BY DEF Active
    <3>2. file'[r].state = "FAILED" /\ "FAILED" \in Terminal
        BY <2>1, <3>1 DEF FileInv, Terminal
    <3>3. \A q \in Runs \ {r} : file'[q].state = file[q].state
        BY <2>1, <3>1 DEF FileInv
    <3> QED BY <2>1, <3>1, <3>2, <3>3, <1>d
  <2> QED BY <2>2, <2>3
<1>13. CASE Stage3Step \/ IncidentStep
    BY <1>13, <1>6 DEF Stage3Step, IncidentStep, web, durable
<1> QED BY <1>1, <1>2, <1>3, <1>4, <1>5, <1>7, <1>8, <1>9, <1>10, <1>11, <1>12, <1>13, StepIs
       DEF Pages, Reconcile, Steady, Consumers

(***************************************************************************)
(* The state files, the request and the cursor implement the contract of    *)
(* the pages, whatever reconcile passes overlap: an analysis ends once and   *)
(* finds nothing afterwards, a run is shown as COMPLETED only when every     *)
(* result of it is imported, as FAILED only when it failed, and as CANCELLED *)
(* only when it was or somebody asked for it.                               *)
(***************************************************************************)
THEOREM ContractImplemented == Spec => ImplementsContract
<1>1. Init => Contract!Init
  <2> SUFFICES ASSUME Init PROVE Contract!Init
      OBVIOUS
  <2>1. \A r \in Runs : {i \in 1 .. cursor : outbox[i] = r} = {}
      BY DEF Init
  <2>2. [r \in Runs |-> Cardinality({i \in 1 .. cursor : outbox[i] = r})] = [r \in Runs |-> 0]
      BY <2>1, FS_EmptySet
  <2>3. /\ [r \in Runs |-> row[r].state] = [r \in Runs |-> "ABSENT"]
        /\ [r \in Runs |-> file[r].state] = [r \in Runs |-> "NONE"]
        /\ asked = {} /\ produced = [r \in Runs |-> 0]
      BY DEF Init, NoFile
  <2> QED BY <2>2, <2>3 DEF Contract!Init
<1>2. JobsInv /\ [Next]_vars => [Contract!Next]_(Contract!vars)
    BY ContractStep
<1> QED BY <1>1, <1>2, JobsHold, PTL DEF Spec, ImplementsContract, Contract!Spec
=============================================================================
