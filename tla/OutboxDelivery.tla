--------------------------- MODULE OutboxDelivery ---------------------------
(***************************************************************************)
(* The durable incident outbox between the runtime and Django.              *)
(*                                                                          *)
(* Runtime workers append one JSON line per incident to an append-only file *)
(* (fight/pipeline/incident_outbox.py).  The dispatcher, a service of its   *)
(* own, reads the file from a cursor kept in the database and imports each  *)
(* line in one transaction, then moves the cursor in a second one           *)
(* (incidents/services/ingest.py).  Either side may die between any two     *)
(* steps.  Retention (incidents/services/retention.py) deletes the evidence *)
(* that nothing refers to.                                                  *)
(*                                                                          *)
(* The file is a sequence of terminated lines and a tail without newline;   *)
(* an offset of the cursor is a number of terminated lines.                 *)
(***************************************************************************)
EXTENDS Naturals, Sequences, FiniteSets

CONSTANTS
    Events,      \* envelopes the runtime may publish (event_id)
    NoEvent,
    External,    \* event -> (source_system, run_id, external_incident_id)
    Owner,       \* event -> the camera, or the offline run, it belongs to
    Offline,     \* the events of offline runs (camera_id starts with offline_)
    MaxFailures, \* bound: failed transactions and dispatcher deaths
    MaxReplaced  \* bound: times the operator starts a fresh outbox file

ASSUME OutboxAssumption ==
    /\ NoEvent \notin Events
    /\ Offline \subseteq Events
    /\ DOMAIN External = Events /\ DOMAIN Owner = Events
    /\ MaxFailures \in Nat /\ MaxReplaced \in Nat

Owners == {Owner[e] : e \in Events}

\* What a line holds.  A torn line is not valid JSON.
Line == [event : Events, good : BOOLEAN]
\* The bytes after the last newline: nothing, a part of a record, or a whole
\* record that only lacks its newline.
NoTail == [event |-> NoEvent, good |-> FALSE]
Tail0  == Line \cup {NoTail}

VARIABLES
    lines, tail, identity,        \* the outbox file
    writing, step,                \* the append that holds the writer lock
    published,                    \* events handed to append_envelope_durable
    acked,                        \* events whose append returned
    up,                           \* a runtime is running
    cursor, cursorIdent,          \* IncidentIngestCursor
    record,                       \* IncidentIngestRecord.status, per event
    link,                         \* IncidentIngestRecord.incident, per event
    invalid,                      \* malformed lines recorded (file, offset)
    rows, results,                \* Incident rows, OfflineResult rows
    known,                        \* cameras and runs in the database
    dpc, pos, todo,               \* the dispatcher's tick
    evidence,                     \* events whose evidence file exists
    failures

fileVars == <<lines, tail, identity>>
runtimeVars == <<writing, step, published, acked, up>>
dbVars == <<cursor, cursorIdent, record, link, invalid, rows, results>>
tickVars == <<dpc, pos, todo>>
vars == <<fileVars, runtimeVars, dbVars, known, tickVars, evidence, failures>>

Init ==
    /\ lines = <<>> /\ tail = NoTail /\ identity = 1
    /\ writing = NoEvent /\ step = "idle"
    /\ published = {} /\ acked = {} /\ up = TRUE
    /\ cursor = 0 /\ cursorIdent = 0
    /\ record = [e \in Events |-> "none"]
    /\ link = [e \in Events |-> NoEvent]
    /\ invalid = {} /\ rows = {} /\ results = {}
    /\ known \in SUBSET Owners
    /\ dpc = "idle" /\ pos = 0 /\ todo = {}
    /\ evidence = {}
    /\ failures = 0

-----------------------------------------------------------------------------
(* The writer: append_envelope_durable, one system call at a time.         *)

\* The writer lock is taken; the evidence file is durable before the envelope.
AppendBegin(e) ==
    /\ up /\ writing = NoEvent
    /\ e \notin published
    /\ writing' = e /\ step' = "open"
    /\ published' = published \cup {e}
    /\ evidence' = evidence \cup {e}
    /\ UNCHANGED <<fileVars, acked, up, dbVars, known, tickVars, failures>>

\* Another writer keeps the lock for five seconds: outbox_writer_busy.
AppendBusy(e) ==
    /\ up /\ writing # NoEvent
    /\ e \notin published
    /\ published' = published \cup {e}
    /\ evidence' = evidence \cup {e}
    /\ UNCHANGED <<fileVars, writing, step, acked, up, dbVars, known, tickVars, failures>>

\* Mutant: the record is written behind whatever the file ends with.
SeparateNothing ==
    /\ step = "open"
    /\ tail' = IF tail = NoTail THEN NoTail ELSE [tail EXCEPT !.good = FALSE]
    /\ step' = "write"
    /\ UNCHANGED <<lines, identity, writing, published, acked, up, dbVars, known, tickVars,
                   evidence, failures>>

\* A tail left by an interrupted append is closed with a newline first, so that
\* it becomes a line of its own: malformed, or the whole record it already was.
Separate ==
    /\ step = "open"
    /\ IF tail = NoTail
       THEN UNCHANGED <<lines, tail>>
       ELSE lines' = Append(lines, tail) /\ tail' = NoTail
    /\ step' = "write"
    /\ UNCHANGED <<identity, writing, published, acked, up, dbVars, known, tickVars,
                   evidence, failures>>

\* The kernel may take the payload in parts: a part of the record, the record,
\* and its newline.  (A tail that is still there, see the fault above, spoils
\* the line.)
WritePart ==
    /\ step = "write"
    /\ tail' = [event |-> writing, good |-> FALSE]
    /\ step' = "part"
    /\ UNCHANGED <<lines, identity, writing, published, acked, up, dbVars, known, tickVars,
                   evidence, failures>>

WriteRecord ==
    /\ step \in {"write", "part"}
    /\ tail' = [event |-> writing, good |-> step = "part" \/ tail = NoTail]
    /\ step' = "record"
    /\ UNCHANGED <<lines, identity, writing, published, acked, up, dbVars, known, tickVars,
                   evidence, failures>>

WriteNewline ==
    /\ step = "record"
    /\ lines' = Append(lines, tail)
    /\ tail' = NoTail
    /\ step' = "written"
    /\ UNCHANGED <<identity, writing, published, acked, up, dbVars, known, tickVars,
                   evidence, failures>>

\* fsync of the file and of its directory; the lock is released.
AppendReturn ==
    /\ step = "written"
    /\ acked' = acked \cup {writing}
    /\ writing' = NoEvent /\ step' = "idle"
    /\ UNCHANGED <<fileVars, published, up, dbVars, known, tickVars, evidence, failures>>

\* A short write, an OSError, or the death of the process: the lock is released
\* and the bytes written so far stay.  The event is not published again.
AppendFail ==
    /\ writing # NoEvent
    /\ failures < MaxFailures
    /\ failures' = failures + 1
    /\ writing' = NoEvent /\ step' = "idle"
    /\ UNCHANGED <<fileVars, published, acked, up, dbVars, known, tickVars, evidence>>

RuntimeStop  == up /\ writing = NoEvent /\ up' = FALSE
                /\ UNCHANGED <<fileVars, writing, step, published, acked, dbVars, known,
                               tickVars, evidence, failures>>
RuntimeStart == ~up /\ up' = TRUE
                /\ UNCHANGED <<fileVars, writing, step, published, acked, dbVars, known,
                               tickVars, evidence, failures>>

-----------------------------------------------------------------------------
(* The dispatcher: consume_outbox, then retry_failed_records.              *)

\* The first transaction: another file, or a shorter one, restarts the cursor.
Open ==
    /\ dpc = "idle"
    /\ LET restart == \/ cursorIdent # 0 /\ cursorIdent # identity
                      \/ Len(lines) < cursor
           start   == IF restart THEN 0 ELSE cursor
       IN cursor' = start /\ pos' = start
    /\ cursorIdent' = identity
    /\ dpc' = "read"
    /\ UNCHANGED <<fileVars, runtimeVars, record, link, invalid, rows, results, known, todo,
                   evidence, failures>>

\* Mutant: only the event_id is looked up.
ExistingById(e) == {x \in rows : x = e}

\* The Incident row an envelope is about, if there is one: the same event, or
\* the same external identity.
Existing(e) == {x \in rows : x = e \/ External[x] = External[e]}

\* The row exists already: the record points to it.
LinkExisting(e) ==
    LET x == CHOOSE y \in Existing(e) : TRUE
    IN /\ record' = [record EXCEPT ![e] = IF link[e] = x THEN "imported" ELSE "duplicate"]
       /\ link' = [link EXCEPT ![e] = x]
       /\ UNCHANGED <<rows, results>>

\* The camera, or the offline run, is unknown.
KeepForRetry(e) ==
    record' = [record EXCEPT ![e] = "retryable"] /\ UNCHANGED <<link, rows, results>>

\* import_result: an offline envelope never becomes an Incident row.
ImportResult(e) ==
    /\ record' = [record EXCEPT ![e] = "imported"]
    /\ results' = results \cup {e}
    /\ UNCHANGED <<link, rows>>

ImportIncident(e) ==
    /\ record' = [record EXCEPT ![e] = "imported"]
    /\ rows' = rows \cup {e}
    /\ link' = [link EXCEPT ![e] = e]
    /\ UNCHANGED results

\* ingest_envelope, one transaction: record, row, audit and first routing.
IngestTx(e) ==
    \/ Existing(e) # {} /\ LinkExisting(e)
    \/ /\ Existing(e) = {}
       /\ \/ Owner[e] \notin known /\ KeepForRetry(e)
          \/ Owner[e] \in known /\ e \in Offline /\ ImportResult(e)
          \/ Owner[e] \in known /\ e \notin Offline /\ ImportIncident(e)

\* Mutant: a line that cannot be parsed is skipped without a trace.
RecordMalformedSkips == UNCHANGED invalid

RecordMalformed == invalid' = invalid \cup {<<identity, pos>>}

Ingest ==
    /\ dpc = "read" /\ pos < Len(lines)
    /\ IF lines[pos + 1].good
       THEN IngestTx(lines[pos + 1].event) /\ UNCHANGED invalid
       ELSE RecordMalformed /\ UNCHANGED <<record, link, rows, results>>
    /\ dpc' = "advance"
    /\ UNCHANGED <<fileVars, runtimeVars, cursor, cursorIdent, known, pos, todo, evidence,
                   failures>>

\* The second transaction moves the cursor if it is still at this line (it is:
\* dispatcher.lock admits one dispatcher).
Advance ==
    /\ dpc = "advance"
    /\ cursor = pos
    /\ cursor' = pos + 1 /\ pos' = pos + 1
    /\ dpc' = "read"
    /\ UNCHANGED <<fileVars, runtimeVars, cursorIdent, record, link, invalid, rows, results,
                   known, todo, evidence, failures>>

Retryable == {e \in Events : record[e] = "retryable"}

\* Mutant: the tick has no retries.
EndOfLinesNoRetry ==
    /\ dpc = "read" /\ pos = Len(lines)
    /\ dpc' = "retry" /\ todo' = {}
    /\ UNCHANGED <<fileVars, runtimeVars, dbVars, known, pos, evidence, failures>>

\* No further terminated line (or max_records): the tick goes on to the retries.
EndOfLines ==
    /\ dpc = "read" /\ pos = Len(lines)
    /\ dpc' = "retry" /\ todo' = Retryable
    /\ UNCHANGED <<fileVars, runtimeVars, dbVars, known, pos, evidence, failures>>

\* A transaction of the tick fails: the line is deferred, the cursor stays.
Deferred ==
    /\ dpc \in {"read", "advance"} /\ pos < Len(lines)
    /\ failures < MaxFailures
    /\ failures' = failures + 1
    /\ dpc' = "retry" /\ todo' = Retryable
    /\ UNCHANGED <<fileVars, runtimeVars, dbVars, known, pos, evidence>>

Retry(e) ==
    /\ dpc = "retry" /\ e \in todo
    /\ IngestTx(e)
    /\ todo' = todo \ {e}
    /\ UNCHANGED <<fileVars, runtimeVars, cursor, cursorIdent, invalid, known, dpc, pos,
                   evidence, failures>>

\* A retry that raises leaves its record RETRYABLE for a later tick.
RetryFails(e) ==
    /\ dpc = "retry" /\ e \in todo
    /\ failures < MaxFailures
    /\ failures' = failures + 1
    /\ todo' = todo \ {e}
    /\ UNCHANGED <<fileVars, runtimeVars, dbVars, known, dpc, pos, evidence>>

EndTick ==
    /\ dpc = "retry" /\ todo = {}
    /\ dpc' = "idle" /\ pos' = 0
    /\ UNCHANGED <<fileVars, runtimeVars, dbVars, known, todo, evidence, failures>>

\* The dispatcher dies; the next one starts with a new tick.
DispatcherDies ==
    /\ dpc # "idle"
    /\ failures < MaxFailures
    /\ failures' = failures + 1
    /\ dpc' = "idle" /\ pos' = 0 /\ todo' = {}
    /\ UNCHANGED <<fileVars, runtimeVars, dbVars, known, evidence>>

-----------------------------------------------------------------------------
(* The surroundings.                                                       *)

OwnerAdded(o) ==
    /\ o \notin known /\ known' = known \cup {o}
    /\ UNCHANGED <<fileVars, runtimeVars, dbVars, tickVars, evidence, failures>>

\* PROTECT: a camera that has incidents, or a run that has results, stays.
OwnerRemoved(o) ==
    /\ o \in known
    /\ \A e \in rows \cup results : Owner[e] # o
    /\ known' = known \ {o}
    /\ UNCHANGED <<fileVars, runtimeVars, dbVars, tickVars, evidence, failures>>

\* The operator starts a fresh outbox file, once the old one is consumed.
Replaced ==
    /\ identity <= MaxReplaced
    /\ ~up /\ dpc = "idle" /\ tail = NoTail
    /\ cursorIdent = identity /\ cursor = Len(lines)
    /\ lines' = <<>> /\ identity' = identity + 1
    /\ UNCHANGED <<tail, runtimeVars, dbVars, known, tickVars, evidence, failures>>

\* Mutant: records that wait for their camera are forgotten.
ConsumedIgnoresRetryable ==
    cursorIdent = identity /\ cursor = Len(lines) /\ tail = NoTail

\* outbox_consumed: the cursor is at the end of this file, the file ends with
\* a newline, and no record waits for a retry.
Consumed ==
    /\ cursorIdent = identity
    /\ cursor = Len(lines)
    /\ tail = NoTail
    /\ Retryable = {}

\* cleanup_tick deletes evidence only while the runtime is stopped and with the
\* dispatcher and writer locks held; referenced evidence is kept.
Cleanup ==
    /\ ~up /\ dpc = "idle" /\ writing = NoEvent
    /\ Consumed
    /\ \E gone \in SUBSET (evidence \ (rows \cup results)) :
           gone # {} /\ evidence' = evidence \ gone
    /\ UNCHANGED <<fileVars, runtimeVars, dbVars, known, tickVars, failures>>

Writer ==
    \/ \E e \in Events : AppendBegin(e) \/ AppendBusy(e)
    \/ Separate \/ WritePart \/ WriteRecord \/ WriteNewline \/ AppendReturn \/ AppendFail
    \/ RuntimeStop \/ RuntimeStart

Dispatcher ==
    \/ Open \/ Ingest \/ Advance \/ EndOfLines
    \/ \E e \in Events : Retry(e)
    \/ EndTick

Surroundings ==
    \/ \E o \in Owners : OwnerAdded(o) \/ OwnerRemoved(o)
    \/ Replaced \/ Cleanup

Faults ==
    \/ \E e \in Events : RetryFails(e)
    \/ Deferred \/ DispatcherDies

Next == Writer \/ Dispatcher \/ Faults \/ Surroundings

Spec == Init /\ [][Next]_vars

\* run_service repeats the tick for ever; deaths and failures are finite.
FairSpec == Spec /\ WF_vars(Dispatcher)

-----------------------------------------------------------------------------
TypeOK ==
    /\ lines \in Seq(Line) /\ tail \in Tail0 /\ identity \in Nat \ {0}
    /\ writing \in Events \cup {NoEvent}
    /\ step \in {"idle", "open", "write", "part", "record", "written"}
    /\ published \subseteq Events /\ acked \subseteq Events /\ up \in BOOLEAN
    /\ cursor \in Nat /\ cursorIdent \in Nat
    /\ record \in [Events -> {"none", "retryable", "imported", "duplicate"}]
    /\ link \in [Events -> Events \cup {NoEvent}]
    /\ invalid \subseteq Nat \X Nat
    /\ rows \subseteq Events /\ results \subseteq Events
    /\ known \subseteq Owners
    /\ dpc \in {"idle", "read", "advance", "retry"} /\ pos \in Nat /\ todo \subseteq Events
    /\ evidence \subseteq Events
    /\ failures \in Nat

\* The line i of the file is accounted for in the database.
Accounted(i) ==
    IF lines[i].good THEN record[lines[i].event] # "none" ELSE <<identity, i - 1>> \in invalid

\* The lines the cursor still has to pass: all of them when the file is new.
ToRead(i) == i \in DOMAIN lines /\ (cursorIdent = identity => i > cursor)

\* The cursor never passes a line that is not accounted for: a dispatcher that
\* dies between its two transactions repeats a line, it does not skip one.
CursorAccounted == \A i \in DOMAIN lines : ~ToRead(i) => Accounted(i)

\* A whole record of the event waits in the file.
Waiting(e) == \E i \in DOMAIN lines : ToRead(i) /\ lines[i] = [event |-> e, good |-> TRUE]

\* An event whose append returned is never lost: it is in the database, or a
\* whole line of the file that the cursor has not passed.  Torn tails of
\* interrupted appends must not spoil it.
AckedNeverLost == \A e \in acked : record[e] # "none" \/ Waiting(e)

\* One incident, one row: whatever is delivered again, retried or published
\* under a second event_id.
OneRowPerIncident == \A x, y \in rows : External[x] = External[y] => x = y

\* Evidence of every event that is imported, waits for a retry, or is still to
\* be read exists: the retention pass never deletes what is referred to later.
EvidenceKept ==
    /\ rows \cup results \cup Retryable \subseteq evidence
    /\ \A i \in DOMAIN lines : ToRead(i) /\ lines[i].good => lines[i].event \in evidence

Settled(e) == record[e] \in {"imported", "duplicate"}

\* A record that was settled stays settled, about the same incident, although
\* its line may be delivered again after a crash and its camera or run may be
\* deleted in between.
StaysSettled ==
    \A e \in Events : Settled(e) =>
        Settled(e)' /\ (link[e] # NoEvent => link'[e] = link[e])

SettledStays == [][StaysSettled]_vars

Delivered(e) == e \in rows \cup results \/ record[e] = "duplicate" \/ link[e] # NoEvent

\* An acknowledged event is delivered if its camera (or run) stays known from
\* some time on, whatever torn or foreign line precedes it in the file.
KnownIsDelivered ==
    \A e \in Events : <>[](Owner[e] \in known) => ((e \in acked) ~> Delivered(e))

\* At least once from the file and at most once in the database: an append that
\* returned is delivered exactly once, whoever dies and whatever is delivered
\* again (incident_outbox.py:74, ingest.py:100, :309).
ExactlyOnce == AckedNeverLost /\ CursorAccounted /\ OneRowPerIncident
=============================================================================
