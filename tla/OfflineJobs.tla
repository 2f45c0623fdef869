----------------------------- MODULE OfflineJobs -----------------------------
(* One-shot analyses of uploaded files. Django (pages, the reconciler, the    *)
(* incident dispatcher) and the runtime parent share no lock: they exchange   *)
(* request.json, one state file per run and the byte offset at which the      *)
(* results of a run end in the incident outbox. Two processes of Django       *)
(* reconcile the rows with the files, and nothing keeps their passes apart.   *)
EXTENDS Integers, Sequences, FiniteSets

CONSTANTS
    NRuns,        \* runs an operator submits, numbered in creation order
    Kind,         \* Kind[r]: the analysis_type of run r
    MaxResults,   \* MaxResults[r]: results run r may find
    MaxParents,   \* launches of the runtime parent
    MaxCancels,   \* cancel clicks
    Starts        \* Speed starts in the web server: each runs one reconcile pass

ASSUME BoundsAssumption ==
    /\ NRuns \in Nat \ {0} /\ MaxParents \in Nat \ {0}
    /\ MaxCancels \in Nat /\ MaxResults \in [1..NRuns -> Nat]
    /\ Kind \in [1..NRuns -> {"FIGHT", "SPEED", "BOTH"}]
    /\ "reconciler" \notin Starts

Runs     == 1..NRuns
Passers  == {"reconciler"} \cup Starts
Open     == {"QUEUED", "PROCESSING"}
Terminal == {"COMPLETED", "FAILED", "CANCELLED"}

VARIABLES
    row,        \* row[r]: the OfflineRun row: its state and cancel_requested
    step,       \* step[p]: what the reconcile pass of p does next
    queried,    \* queried[p]: run and cancel flag of the rows it has queried and not handled yet
    hand,       \* hand[p]: what it is about to write to a row or to request.json
    request,    \* request.json
    file,       \* file[r]: the state file of r
    parent,     \* incarnation (owner) of the running parent, 0 when none runs
    launches,   \* parents launched so far
    sent,       \* OfflineJobs.sent: the drain marker is on its way
    item,       \* the camera runtime of the active run
    stage3q,    \* jobs of the camera worker for the Stage3 worker
    incidentq,  \* results for the incident worker
    held,       \* results of the active run the aggregator has not published
    failure,    \* failure[r]: reason in the *.failed.json of r
    ack,        \* ack[r]: outbox_offset in the drain acknowledgement of r, or NoAck
    outbox,     \* the incident outbox: the run of every line
    cursor,     \* IncidentIngestCursor: lines the dispatcher has imported
    produced,   \* history: results found, per run
    opened,     \* history: how often the media of a run was opened
    asked,      \* history: the runs a click has asked to cancel
    cancels     \* cancel clicks so far

web     == <<row, asked, cancels>>
recon   == <<step, queried, hand, request>>
durable == <<file, launches>>
run     == <<sent, item>>
pipe    == <<stage3q, incidentq, held, failure, ack>>
vars    == <<web, recon, durable, parent, run, pipe, outbox, cursor, produced, opened>>

NoRequest == [run |-> 0, cancel |-> FALSE]
NoHand    == [run |-> 0, state |-> "NONE", cancel |-> FALSE]
NoAck     == -1
NoFile    == [state |-> "NONE", owner |-> 0, offset |-> 0]

(* The run whose state in self.active is PROCESSING. It is the file this      *)
(* parent has written: _write stores both.                                    *)
Active == {r \in Runs : parent # 0 /\ file[r].state = "PROCESSING" /\ file[r].owner = parent}

(* is_current_generation, for the slot of the offline camera: stop_camera has *)
(* not taken its generation away.                                             *)
Current(r) == r \in Active /\ item # "none"

Init ==
    /\ row = [r \in Runs |-> [state |-> "ABSENT", cancel |-> FALSE]]
    /\ step = [p \in Passers |-> "idle"] /\ queried = [p \in Passers |-> {}]
    /\ hand = [p \in Passers |-> NoHand] /\ request = NoRequest
    /\ file = [r \in Runs |-> NoFile]
    /\ parent = 0 /\ launches = 0
    /\ sent = FALSE /\ item = "none"
    /\ stage3q = <<>> /\ incidentq = <<>> /\ held = 0
    /\ failure = [r \in Runs |-> "none"]
    /\ ack = [r \in Runs |-> NoAck]
    /\ outbox = <<>> /\ cursor = 0
    /\ produced = [r \in Runs |-> 0] /\ opened = [r \in Runs |-> 0]
    /\ asked = {} /\ cancels = 0

-----------------------------------------------------------------------------
(* The pages.                                                                 *)

(* create_run: a row of its own for every analysis, not yet cancelled.        *)
NewRow == [state |-> "QUEUED", cancel |-> FALSE]

(* submit: a new analysis is a new identity.                                  *)
Submit(r) ==
    /\ row[r].state = "ABSENT"
    /\ \A q \in 1..(r - 1) : row[q].state # "ABSENT"
    /\ row' = [row EXCEPT ![r] = NewRow]
    /\ UNCHANGED <<asked, cancels, recon, durable, parent, run, pipe, outbox, cursor, produced, opened>>

(* cancel: a conditional update of one column.                                *)
Cancel(r) ==
    /\ cancels < MaxCancels
    /\ row[r].state \in Open
    /\ row' = [row EXCEPT ![r].cancel = TRUE]
    /\ asked' = asked \cup {r} /\ cancels' = cancels + 1
    /\ UNCHANGED <<recon, durable, parent, run, pipe, outbox, cursor, produced, opened>>

(* dispatcher_tick: the next outbox line becomes an OfflineResult.            *)
Import ==
    /\ cursor < Len(outbox)
    /\ cursor' = cursor + 1
    /\ UNCHANGED <<web, recon, durable, parent, run, pipe, outbox, produced, opened>>

-----------------------------------------------------------------------------
(* reconcile_jobs: a query, then per row, the oldest first, a file read and a *)
(* save of the row as it was queried, then a second query and the rewrite of  *)
(* request.json. The reconciler runs it in a loop, a Speed start in the web   *)
(* server runs it once; other passes, pages and the parent may come between   *)
(* any two of its steps.                                                      *)

Outstanding == {r \in Runs : row[r].state \in Open}

(* order_by("created_at"): runs are numbered as they are created.             *)
Oldest(r, some) == r \in some /\ \A q \in some : r <= q

ReconcileQuery(p) ==
    /\ step[p] = "idle"
    /\ step' = [step EXCEPT ![p] = "rows"]
    /\ queried' = [queried EXCEPT ![p] = {[run |-> r, cancel |-> row[r].cancel] : r \in Outstanding}]
    /\ UNCHANGED <<hand, request, web, durable, parent, run, pipe, outbox, cursor, produced, opened>>

(* The state a row gets from its file: COMPLETED waits for the cursor.        *)
ReportedState(r) ==
    IF file[r].state = "COMPLETED" /\ cursor < file[r].offset THEN "PROCESSING" ELSE file[r].state

(* ... or, without a file, from its cancel flag; NONE is a row left alone.    *)
StateToSave(x) ==
    IF file[x.run].state # "NONE" THEN ReportedState(x.run)
    ELSE IF x.cancel THEN "CANCELLED" ELSE "NONE"

ReconcileRead(p) ==
    /\ step[p] = "rows"
    /\ \E x \in queried[p] :
        /\ \A y \in queried[p] : x.run <= y.run
        /\ queried' = [queried EXCEPT ![p] = @ \ {x}]
        /\ IF StateToSave(x) = "NONE"
           THEN UNCHANGED <<step, hand>>
           ELSE /\ step' = [step EXCEPT ![p] = "save"]
                /\ hand' = [hand EXCEPT ![p] = [run |-> x.run, state |-> StateToSave(x), cancel |-> x.cancel]]
    /\ UNCHANGED <<request, web, durable, parent, run, pipe, outbox, cursor, produced, opened>>

(* run.save() writes every column of the queried row, by now perhaps another  *)
(* one: an old state comes back, and the cancel flag of the query with it.    *)
ReconcileSave(p) ==
    /\ step[p] = "save"
    /\ row' = [row EXCEPT ![hand[p].run] = [state |-> hand[p].state, cancel |-> hand[p].cancel]]
    /\ step' = [step EXCEPT ![p] = "rows"]
    /\ hand' = [hand EXCEPT ![p] = NoHand]
    /\ UNCHANGED <<queried, request, asked, cancels, durable, parent, run, pipe, outbox, cursor, produced, opened>>

Over(p) == IF p = "reconciler" THEN "idle" ELSE "done"

ReconcilePick(p) ==
    /\ step[p] = "rows" /\ queried[p] = {}
    /\ \/ Outstanding = {} /\ step' = [step EXCEPT ![p] = Over(p)] /\ UNCHANGED hand
       \/ \E r \in Runs :
            /\ Oldest(r, Outstanding)
            /\ step' = [step EXCEPT ![p] = "write"]
            /\ hand' = [hand EXCEPT ![p] = [run |-> r, state |-> "NONE", cancel |-> row[r].cancel]]
    /\ UNCHANGED <<queried, request, web, durable, parent, run, pipe, outbox, cursor, produced, opened>>

ReconcileWrite(p) ==
    /\ step[p] = "write"
    /\ request' = [run |-> hand[p].run, cancel |-> hand[p].cancel]
    /\ step' = [step EXCEPT ![p] = Over(p)]
    /\ hand' = [hand EXCEPT ![p] = NoHand]
    /\ UNCHANGED <<queried, web, durable, parent, run, pipe, outbox, cursor, produced, opened>>

-----------------------------------------------------------------------------
(* The runtime parent.                                                        *)

ParentStart ==
    /\ parent = 0 /\ launches < MaxParents
    /\ launches' = launches + 1 /\ parent' = launches + 1
    /\ UNCHANGED <<web, recon, file, run, pipe, outbox, cursor, produced, opened>>

(* Whatever ends the parent, its memory, queues and children go with it.      *)
Vanish ==
    /\ parent' = 0
    /\ sent' = FALSE /\ item' = "none"
    /\ stage3q' = <<>> /\ incidentq' = <<>> /\ held' = 0
    /\ UNCHANGED <<failure, ack, launches>>

(* A parent is lost only while another may follow.                            *)
ParentCrash ==
    /\ parent # 0 /\ launches < MaxParents
    /\ Vanish
    /\ UNCHANGED <<web, recon, file, outbox, cursor, produced, opened>>

(* The finally block of the main loop: stop_all, then close().                *)
ParentStop ==
    /\ parent # 0 /\ launches < MaxParents
    /\ Vanish
    /\ file' = [r \in Runs |-> IF r \in Active THEN [file[r] EXCEPT !.state = "FAILED"] ELSE file[r]]
    /\ UNCHANGED <<web, recon, outbox, cursor, produced, opened>>

\* Mutant: sent keeps the value of the previous run.
ClaimKeepsSent(r) ==
    /\ parent # 0 /\ Active = {}
    /\ request.run = r /\ ~request.cancel
    /\ file[r].state = "NONE"
    /\ file' = [file EXCEPT ![r] = [state |-> "PROCESSING", owner |-> parent, offset |-> 0]]
    /\ item' = "none"
    /\ UNCHANGED <<web, recon, launches, parent, sent, pipe, outbox, cursor, produced, opened>>

\* Mutant: a claim of another parent is taken over instead of failed.
ClaimTakesOver(r) ==
    /\ parent # 0 /\ Active = {}
    /\ request.run = r /\ ~request.cancel
    /\ file[r].state \in {"NONE", "PROCESSING"}
    /\ file' = [file EXCEPT ![r] = [state |-> "PROCESSING", owner |-> parent, offset |-> 0]]
    /\ sent' = FALSE /\ item' = "none"
    /\ UNCHANGED <<web, recon, launches, parent, pipe, outbox, cursor, produced, opened>>

(* tick without an active run: the request is claimed, durably, before        *)
(* anything of it is opened.                                                  *)
Claim(r) ==
    /\ parent # 0 /\ Active = {}
    /\ request.run = r /\ ~request.cancel
    /\ file[r].state = "NONE"
    /\ file' = [file EXCEPT ![r] = [state |-> "PROCESSING", owner |-> parent, offset |-> 0]]
    /\ sent' = FALSE /\ item' = "none"
    /\ UNCHANGED <<web, recon, launches, parent, pipe, outbox, cursor, produced, opened>>

(* ... and the claim of another parent is failed, never replayed.             *)
FailInterrupted(r) ==
    /\ parent # 0 /\ Active = {}
    /\ request.run = r /\ ~request.cancel
    /\ file[r].state = "PROCESSING" /\ file[r].owner # parent
    /\ file' = [file EXCEPT ![r].state = "FAILED"]
    /\ UNCHANGED <<web, recon, launches, parent, run, pipe, outbox, cursor, produced, opened>>

(* The rest of the claiming tick: prepare and start_camera.                   *)
OpenMedia(r) ==
    /\ r \in Active /\ item = "none"
    /\ item' = "reading"
    /\ opened' = [opened EXCEPT ![r] = @ + 1]
    /\ UNCHANGED <<web, recon, durable, parent, sent, pipe, outbox, cursor, produced>>

(* asset_missing; offline_start_failed also ends the parent (ParentStop).     *)
OpenFails(r) ==
    /\ r \in Active /\ item = "none"
    /\ file' = [file EXCEPT ![r].state = "FAILED"]
    /\ UNCHANGED <<web, recon, launches, parent, run, pipe, outbox, cursor, produced, opened>>

(* tick leaves PROCESSING: the state is written, the camera is stopped, and   *)
(* what its consumers still hold is fenced.                                   *)
End(r, state, offset) ==
    /\ file' = [file EXCEPT ![r] = [state |-> state, owner |-> @.owner, offset |-> offset]]
    /\ item' = "none" /\ held' = 0
    /\ UNCHANGED <<web, recon, launches, parent, sent, stage3q, incidentq, failure, ack,
                   outbox, cursor, produced, opened>>

Withdrawn(r) == request.run # r \/ request.cancel

TickCancelled(r) ==
    /\ Current(r) /\ Withdrawn(r)
    /\ End(r, "CANCELLED", 0)

(* A required consumer failed, or a worker recorded another failure than that *)
(* of the evidence writer.                                                    *)
TickFailed(r) ==
    /\ Current(r) /\ ~Withdrawn(r)
    /\ item = "failed" \/ failure[r] = "other"
    /\ End(r, "FAILED", 0)

Draining(r) == Current(r) /\ ~Withdrawn(r) /\ item = "done" /\ failure[r] # "other"

\* Mutant: the marker of a Fight run overtakes the jobs of the Stage3 worker.
SendMarkerAhead(r) ==
    /\ Draining(r) /\ ~sent
    /\ sent' = TRUE
    /\ incidentq' = Append(incidentq, [run |-> r, what |-> "marker"])
    /\ UNCHANGED <<web, recon, durable, parent, item, stage3q, held, failure, ack, outbox, cursor, produced, opened>>

(* The drain marker follows the results through the queues of the run.        *)
SendMarker(r) ==
    /\ Draining(r) /\ ~sent
    /\ sent' = TRUE
    /\ IF Kind[r] = "SPEED"
       THEN incidentq' = Append(incidentq, [run |-> r, what |-> "marker"]) /\ UNCHANGED stage3q
       ELSE stage3q' = Append(stage3q, [run |-> r, what |-> "marker"]) /\ UNCHANGED incidentq
    /\ UNCHANGED <<web, recon, durable, parent, item, held, failure, ack, outbox, cursor, produced, opened>>

TickAcknowledged(r) ==
    /\ Draining(r) /\ sent
    /\ ack[r] # NoAck
    /\ End(r, IF failure[r] = "evidence" THEN "FAILED" ELSE "COMPLETED", ack[r])

-----------------------------------------------------------------------------
(* The consumers of the active run.                                           *)

(* The camera worker closes a fight event; the Speed consumer appends its     *)
(* event to the outbox itself.                                                *)
FindFight(r) ==
    /\ Current(r) /\ item = "reading" /\ Kind[r] # "SPEED"
    /\ produced[r] < MaxResults[r]
    /\ produced' = [produced EXCEPT ![r] = @ + 1]
    /\ stage3q' = Append(stage3q, [run |-> r, what |-> "result"])
    /\ UNCHANGED <<web, recon, durable, parent, run, incidentq, held, failure, ack, outbox, cursor, opened>>

FindSpeed(r) ==
    /\ Current(r) /\ item = "reading" /\ Kind[r] # "FIGHT"
    /\ produced[r] < MaxResults[r]
    /\ produced' = [produced EXCEPT ![r] = @ + 1]
    /\ outbox' = Append(outbox, r)
    /\ UNCHANGED <<web, recon, durable, parent, run, pipe, cursor, opened>>

(* Authoritative end of file, every consumer drained and left with 0.         *)
FileDone(r) ==
    /\ Current(r) /\ item = "reading"
    /\ item' = "done"
    /\ UNCHANGED <<web, recon, durable, parent, sent, pipe, outbox, cursor, produced, opened>>

(* fight_failed, speed_failed or FAILED by restart_camera: latched.           *)
ConsumerFails(r) ==
    /\ Current(r) /\ item \in {"reading", "done"}
    /\ item' = "failed"
    /\ UNCHANGED <<web, recon, durable, parent, sent, pipe, outbox, cursor, produced, opened>>

(* The Stage3 worker: a marker is passed on behind the results, a job is      *)
(* scored and delivered, with or without its evidence, a failing job is       *)
(* recorded against its run, a stale one is dropped.                          *)
PassMarker(job) ==
    /\ Current(job.run) /\ job.what = "marker"
    /\ incidentq' = Append(incidentq, job) /\ UNCHANGED failure

DeliverResult(job) ==
    /\ Current(job.run) /\ job.what = "result"
    /\ \E w \in {"result", "no_evidence"} : incidentq' = Append(incidentq, [job EXCEPT !.what = w])
    /\ UNCHANGED failure

JobFails(job) ==
    /\ Current(job.run) /\ job.what = "result"
    /\ failure' = [failure EXCEPT ![job.run] = "other"] /\ UNCHANGED incidentq

DropStale(job) == ~Current(job.run) /\ UNCHANGED <<incidentq, failure>>

Stage3Step ==
    /\ stage3q # <<>>
    /\ stage3q' = Tail(stage3q)
    /\ LET job == Head(stage3q) IN
         PassMarker(job) \/ DeliverResult(job) \/ JobFails(job) \/ DropStale(job)
    /\ UNCHANGED <<web, recon, durable, parent, run, held, ack, outbox, cursor, produced, opened>>

(* The incident worker: submit, the failure of the evidence, or the drain of  *)
(* the aggregator and its acknowledgement.                                    *)
Aggregate(r) ==
    /\ held' = held + 1
    /\ UNCHANGED <<failure, ack, outbox>>

RecordFailure(r, reason) ==
    /\ failure' = [failure EXCEPT ![r] = reason]
    /\ UNCHANGED <<held, ack, outbox>>

Drain(r) ==
    /\ outbox' = outbox \o [i \in 1..held |-> r]
    /\ held' = 0
    /\ ack' = [ack EXCEPT ![r] = Len(outbox')]
    /\ UNCHANGED failure

IncidentStep ==
    /\ incidentq # <<>>
    /\ LET msg == Head(incidentq) IN
       /\ incidentq' = Tail(incidentq)
       /\ \/ Current(msg.run) /\ msg.what = "result" /\ Aggregate(msg.run)
          \/ Current(msg.run) /\ msg.what = "result" /\ RecordFailure(msg.run, "other")
          \/ Current(msg.run) /\ msg.what = "no_evidence" /\ RecordFailure(msg.run, "evidence")
          \/ Current(msg.run) /\ msg.what = "marker" /\ Drain(msg.run)
          \/ ~Current(msg.run) /\ UNCHANGED <<held, failure, ack, outbox>>
    /\ UNCHANGED <<web, recon, durable, parent, run, stage3q, cursor, produced, opened>>

(* An incident that has lasted long enough is published before the drain.     *)
Publish(r) ==
    /\ Current(r) /\ held > 0
    /\ held' = held - 1
    /\ outbox' = Append(outbox, r)
    /\ UNCHANGED <<web, recon, durable, parent, run, stage3q, incidentq, failure, ack, cursor, produced, opened>>

-----------------------------------------------------------------------------
Tick(r) ==
    \/ Claim(r) \/ FailInterrupted(r) \/ OpenMedia(r) \/ OpenFails(r)
    \/ TickCancelled(r) \/ TickFailed(r) \/ SendMarker(r) \/ TickAcknowledged(r)

Consumers(r) == FindFight(r) \/ FindSpeed(r) \/ FileDone(r) \/ ConsumerFails(r) \/ Publish(r)

Reconcile(p) ==
    ReconcileQuery(p) \/ ReconcileRead(p) \/ ReconcileSave(p) \/ ReconcilePick(p) \/ ReconcileWrite(p)

Next ==
    \/ \E r \in Runs : Submit(r) \/ Cancel(r) \/ Tick(r) \/ Consumers(r)
    \/ \E p \in Passers : Reconcile(p)
    \/ Import
    \/ ParentStart \/ ParentCrash \/ ParentStop
    \/ Stage3Step \/ IncidentStep

Spec == Init /\ [][Next]_vars

(* The reconciler and the dispatcher are services that loop, the supervisor   *)
(* launches a parent again, and the parent, its workers and a decoder that    *)
(* reaches the end of its file keep running. A pass of the web server may be  *)
(* cut short anywhere.                                                        *)
Fairness ==
    /\ WF_vars(Reconcile("reconciler")) /\ WF_vars(Import) /\ WF_vars(ParentStart)
    /\ WF_vars(Stage3Step) /\ WF_vars(IncidentStep)
    /\ \A r \in Runs : WF_vars(Tick(r)) /\ WF_vars(FileDone(r))

FairSpec == Spec /\ Fairness

-----------------------------------------------------------------------------
(* The contract of the pages, over the rows and the imported outbox.          *)
Contract == INSTANCE OfflineContract WITH
    status   <- [r \in Runs |-> row[r].state],
    outcome  <- [r \in Runs |-> file[r].state],
    produced <- produced,
    imported <- [r \in Runs |-> Cardinality({i \in 1..cursor : outbox[i] = r})]

(* The three files and the cursor implement the contract, however reconcile   *)
(* passes overlap: an analysis ends once and finds nothing later, and its row *)
(* is COMPLETED only when all its results are imported (ARCHITECTURE.md,      *)
(* invariant 65), FAILED only when it failed, and CANCELLED only when it was  *)
(* or somebody asked for it.                                                  *)
ImplementsContract == Contract!Spec

(* "must not silently replay it" (ARCHITECTURE.md, invariant 63): over all    *)
(* parents the media of a run is opened at most once, and its end is final.   *)
NeverReplayed ==
    [][\A r \in Runs : /\ opened'[r] <= 1
                       /\ file[r].state \in Terminal => file'[r] = file[r]]_vars

(* A claim that was being cancelled when its parent was lost: tick returns at *)
(* the cancel flag before it reaches the branch that fails such a claim.      *)
Stranded(q) == file[q].state = "PROCESSING" /\ file[q].owner # parent /\ row[q].cancel

(* Every submitted run ends and, once no overlapping pass saves an old row    *)
(* any more, is shown as ended for good, whatever is cancelled, lost or       *)
(* interrupted, unless a stranded claim holds the only request slot.          *)
RunEnds ==
    \A r \in Runs : row[r].state = "QUEUED" ~>
        [](row[r].state \in Terminal) \/ \E q \in Runs : Stranded(q)
==============================================================================
