------------------------ MODULE OutboxDeliveryProofs ------------------------
(***************************************************************************)
(* The safety properties of OutboxDelivery for any number of events, owners, *)
(* failures and replaced files.                                             *)
(*                                                                          *)
(* None of the properties is inductive.  IInv adds what they rest on: what  *)
(* the tail of the file holds while a writer is at each of its steps, that  *)
(* the dispatcher works at the cursor of the current file, and that a       *)
(* settled record has a row, or a result whose run still exists.            *)
(*                                                                          *)
(* The second part is about the programs that measure speeds and publish to *)
(* the outbox (SpeedRuntime): what they publish, write and report, for any  *)
(* programs, frames, failures and restarts.                                 *)
(*                                                                          *)
(* The third part is about what they count: one passage of a file is one    *)
(* report.  It needs facts about the tracker, the estimator and the decider *)
(* (SpeedMeasurement), which come first.                                    *)
(***************************************************************************)
EXTENDS OutboxDelivery, SpeedRuntime, SequenceCounting

WriterInv ==
    /\ step = "idle" <=> writing = NoEvent
    /\ writing # NoEvent => up /\ writing \in evidence
    /\ step = "write" => tail = NoTail
    /\ step = "record" => tail = [event |-> writing, good |-> TRUE]
    /\ step = "written" => record[writing] # "none" \/ Waiting(writing)

CursorInv ==
    /\ cursorIdent <= identity
    /\ cursorIdent = identity => cursor <= Len(lines)
    /\ cursorIdent = 0 => cursor = 0

TickInv ==
    /\ dpc \in {"read", "advance"} =>
           cursorIdent = identity /\ pos = cursor /\ pos <= Len(lines)
    /\ dpc = "advance" => pos < Len(lines) /\ Accounted(pos + 1)
    /\ todo \subseteq Retryable
    /\ dpc # "retry" => todo = {}

SettledInv ==
    /\ \A e \in Events : link[e] # NoEvent => link[e] \in Existing(e)
    /\ \A e \in Events : Settled(e) => link[e] # NoEvent \/ (e \in results /\ Owner[e] \in known)
    /\ \A e \in results : Owner[e] \in known

EvidenceInv ==
    /\ EvidenceKept
    /\ tail.good => tail.event \in evidence

IInv ==
    /\ TypeOK
    /\ WriterInv /\ CursorInv /\ TickInv /\ SettledInv /\ EvidenceInv
    /\ CursorAccounted /\ AckedNeverLost /\ OneRowPerIncident

-----------------------------------------------------------------------------
\* The initial states satisfy the invariant.
LEMMA InitIInv == Init => IInv
<1> SUFFICES ASSUME Init PROVE IInv
    OBVIOUS
<1> USE OutboxAssumption DEF Init
<1>1. TypeOK
    BY DEF TypeOK, Tail0, NoTail, Owners
<1>2. WriterInv /\ CursorInv /\ TickInv /\ SettledInv
    BY DEF WriterInv, CursorInv, TickInv, SettledInv, Settled, Retryable
<1>3. EvidenceInv /\ CursorAccounted /\ AckedNeverLost /\ OneRowPerIncident
    BY DEF EvidenceInv, EvidenceKept, Retryable, NoTail, CursorAccounted, AckedNeverLost,
           OneRowPerIncident
<1> QED BY <1>1, <1>2, <1>3 DEF IInv

\* What one import transaction does to the database, whichever case applies: it
\* touches the record and link of its event only, keeps one row per incident,
\* and leaves what was settled settled, with the same incident.
LEMMA IngestTxEffect ==
    ASSUME TypeOK, SettledInv, OneRowPerIncident, NEW e \in Events, IngestTx(e), known' = known
    PROVE  /\ record' \in [Events -> {"none", "retryable", "imported", "duplicate"}]
           /\ link' \in [Events -> Events \cup {NoEvent}]
           /\ rows' \subseteq Events /\ results' \subseteq Events
           /\ rows \subseteq rows' /\ results \subseteq results'
           /\ rows' \cup results' \subseteq rows \cup results \cup {e}
           /\ record'[e] # "none"
           /\ \A f \in Events \ {e} : record'[f] = record[f] /\ link'[f] = link[f]
           /\ Settled(e) => Settled(e)' /\ (link[e] # NoEvent => link'[e] = link[e])
           /\ SettledInv'
           /\ OneRowPerIncident'
<1> USE OutboxAssumption
<1>1. CASE Existing(e) # {} /\ LinkExisting(e)
  <2> DEFINE x == CHOOSE y \in Existing(e) : TRUE
  <2>1. x \in Existing(e)
      BY <1>1
  <2>2. x \in rows /\ x \in Events /\ (x = e \/ External[x] = External[e])
      BY <2>1 DEF Existing, TypeOK
  <2>3. /\ record' = [record EXCEPT ![e] = IF link[e] = x THEN "imported" ELSE "duplicate"]
        /\ link' = [link EXCEPT ![e] = x]
        /\ UNCHANGED <<rows, results>>
      BY <1>1 DEF LinkExisting
  <2> HIDE DEF x
  <2>4. link[e] # NoEvent => link[e] = x
      BY <2>2 DEF SettledInv, Existing, OneRowPerIncident
  <2>5. SettledInv'
      BY <2>1, <2>3, <2>2 DEF SettledInv, Settled, Existing, TypeOK
  <2> QED BY <2>2, <2>3, <2>4, <2>5 DEF TypeOK, Settled, OneRowPerIncident
<1>2. CASE Existing(e) = {} /\ Owner[e] \notin known /\ KeepForRetry(e)
  <2>1. /\ record' = [record EXCEPT ![e] = "retryable"]
        /\ UNCHANGED <<link, rows, results>>
      BY <1>2 DEF KeepForRetry
  <2>2. ~Settled(e) /\ link[e] = NoEvent
      BY <1>2 DEF SettledInv
  <2>3. SettledInv'
      BY <2>1, <2>2 DEF SettledInv, Settled, Existing, TypeOK
  <2> QED BY <2>1, <2>2, <2>3 DEF TypeOK, OneRowPerIncident
<1>3. CASE Existing(e) = {} /\ Owner[e] \in known /\ ImportResult(e)
  <2>1. /\ record' = [record EXCEPT ![e] = "imported"]
        /\ results' = results \cup {e}
        /\ UNCHANGED <<link, rows>>
      BY <1>3 DEF ImportResult
  <2>2. SettledInv'
      BY <1>3, <2>1 DEF SettledInv, Settled, Existing, TypeOK
  <2> QED BY <2>1, <2>2 DEF TypeOK, Settled, OneRowPerIncident
<1>4. CASE Existing(e) = {} /\ Owner[e] \in known /\ ImportIncident(e)
  <2>1. /\ record' = [record EXCEPT ![e] = "imported"]
        /\ rows' = rows \cup {e}
        /\ link' = [link EXCEPT ![e] = e]
        /\ UNCHANGED results
      BY <1>4 DEF ImportIncident
  <2>2. link[e] = NoEvent
      BY <1>4 DEF SettledInv
  <2>3. SettledInv'
      BY <1>4, <2>1 DEF SettledInv, Settled, Existing, TypeOK
  <2>4. OneRowPerIncident'
      BY <1>4, <2>1 DEF OneRowPerIncident, Existing
  <2> QED BY <2>1, <2>2, <2>3, <2>4 DEF TypeOK, Settled
<1> QED BY <1>1, <1>2, <1>3, <1>4 DEF IngestTx

-----------------------------------------------------------------------------
LEMMA AppendFacts ==
    ASSUME NEW S, NEW s \in Seq(S), NEW x \in S
    PROVE  /\ Append(s, x) \in Seq(S) /\ Len(Append(s, x)) = Len(s) + 1
           /\ \A i \in DOMAIN s : Append(s, x)[i] = s[i]
           /\ Append(s, x)[Len(s) + 1] = x
           /\ DOMAIN Append(s, x) = DOMAIN s \cup {Len(s) + 1}
OBVIOUS

(* Steps of the runtime.                                                   *)

\* A step that only appends lines, or leaves the file alone, and leaves the
\* database alone keeps what the dispatcher relies on.
LEMMA FileGrows ==
    ASSUME IInv, UNCHANGED <<dbVars, known, tickVars, identity>>, lines' \in Seq(Line),
           Len(lines) <= Len(lines'), \A i \in DOMAIN lines : lines'[i] = lines[i]
    PROVE  /\ CursorInv' /\ TickInv' /\ SettledInv' /\ OneRowPerIncident'
           /\ CursorAccounted'
           /\ \A e \in Events : Waiting(e) => Waiting(e)'
           /\ acked' = acked => AckedNeverLost'
<1> USE DEF IInv, TypeOK, dbVars, tickVars
<1>1. CursorInv'
    BY DEF CursorInv
<1>2. TickInv'
  <2>1. \A i \in DOMAIN lines : Accounted(i) => Accounted(i)'
      BY DEF Accounted
  <2>2. pos < Len(lines) => pos + 1 \in DOMAIN lines
      OBVIOUS
  <2> QED BY <2>1, <2>2 DEF TickInv, Retryable
<1>3. SettledInv' /\ OneRowPerIncident'
    BY DEF SettledInv, Settled, Existing, OneRowPerIncident
<1>4. CursorAccounted'
    BY DEF CursorAccounted, CursorInv, ToRead, Accounted
<1>5. \A e \in Events : Waiting(e) => Waiting(e)'
    BY DEF Waiting, ToRead
<1>6. acked' = acked => AckedNeverLost'
    BY <1>5 DEF AckedNeverLost
<1> QED BY <1>1, <1>2, <1>3, <1>4, <1>5, <1>6

LEMMA WriterStep == ASSUME IInv, Writer PROVE IInv'
<1> USE OutboxAssumption DEF fileVars, runtimeVars
<1>1. ASSUME NEW e \in Events, AppendBegin(e) \/ AppendBusy(e) PROVE IInv'
  <2>1. TypeOK'
      BY <1>1 DEF AppendBegin, AppendBusy, IInv, TypeOK, dbVars, tickVars
  <2>2. WriterInv'
      BY <1>1 DEF AppendBegin, AppendBusy, IInv, TypeOK, WriterInv, dbVars, Waiting, ToRead
  <2>3. EvidenceInv'
      BY <1>1 DEF AppendBegin, AppendBusy, IInv, EvidenceInv, EvidenceKept, dbVars, Retryable,
                  ToRead
  <2>4. UNCHANGED <<dbVars, known, tickVars, identity, lines, acked>>
      BY <1>1 DEF AppendBegin, AppendBusy
  <2> QED BY <2>1, <2>2, <2>3, <2>4, FileGrows DEF IInv, TypeOK
<1>2. ASSUME Separate \/ WriteNewline PROVE IInv'
  <2>1. /\ UNCHANGED <<identity, writing, published, acked, up, dbVars, known, tickVars,
                       evidence, failures>>
        /\ \/ UNCHANGED <<lines, tail>>
           \/ tail \in Line /\ lines' = Append(lines, tail) /\ tail' = NoTail
    <3>1. lines \in Seq(Line) /\ tail \in Line \cup {NoTail} /\ writing \in Events \cup {NoEvent}
        BY DEF IInv, TypeOK, Tail0
    <3>2. CASE Separate
        BY <3>1, <3>2 DEF Separate
    <3>3. CASE WriteNewline
      <4>1. writing \in Events /\ tail = [event |-> writing, good |-> TRUE]
          BY <3>1, <3>3 DEF WriteNewline, IInv, WriterInv
      <4>2. tail \in Line
          BY <4>1 DEF Line
      <4> QED BY <3>3, <4>2 DEF WriteNewline
    <3> QED BY <1>2, <3>2, <3>3
  <2>3. step = "record" => tail = [event |-> writing, good |-> TRUE]
      BY DEF IInv, WriterInv
  <2>4. /\ lines' \in Seq(Line) /\ Len(lines) <= Len(lines')
        /\ \A i \in DOMAIN lines : lines'[i] = lines[i]
        /\ tail' \in Tail0
        /\ \A i \in DOMAIN lines' : i \in DOMAIN lines \/ lines'[i] = tail
    <3>1. CASE UNCHANGED <<lines, tail>>
        BY <3>1 DEF IInv, TypeOK
    <3>2. CASE tail \in Line /\ lines' = Append(lines, tail) /\ tail' = NoTail
      <4>1. lines \in Seq(Line)
          BY DEF IInv, TypeOK
      <4> QED BY <3>2, <4>1, AppendFacts DEF Tail0
    <3> QED BY <2>1, <3>1, <3>2
  <2>5. TypeOK'
      BY <1>2, <2>1, <2>4 DEF Separate, WriteNewline, IInv, TypeOK, dbVars, tickVars
  <2>6. CASE Separate
    <3>1. WriterInv'
        BY <2>1, <2>6 DEF Separate, IInv, WriterInv, TypeOK
    <3> QED BY <2>1, <2>4, <2>5, <3>1, FileGrows
            DEF IInv, EvidenceInv, EvidenceKept, Retryable, ToRead, dbVars, NoTail
  <2>7. CASE WriteNewline
    <3>1. /\ lines'[Len(lines) + 1] = [event |-> writing, good |-> TRUE]
          /\ Len(lines) + 1 \in DOMAIN lines'
      <4>1. tail \in Line /\ lines' = Append(lines, tail) /\ lines \in Seq(Line)
        <5>1. step = "record" /\ lines' = Append(lines, tail) /\ tail' = NoTail
            BY <2>7 DEF WriteNewline
        <5>2. writing \in Events /\ lines \in Seq(Line)
            BY <5>1 DEF IInv, TypeOK, WriterInv
        <5>3. tail = [event |-> writing, good |-> TRUE] /\ writing \in Events
            BY <2>3, <5>1, <5>2
        <5>4. tail \in Line
            BY <5>3 DEF Line
        <5> QED BY <5>1, <5>2, <5>4
      <4>2. tail = [event |-> writing, good |-> TRUE]
          BY <2>3, <2>7 DEF WriteNewline
      <4>3. /\ lines'[Len(lines) + 1] = tail /\ Len(lines) + 1 \in DOMAIN lines'
          BY <4>1, AppendFacts
      <4> QED BY <4>2, <4>3
    <3>2. Waiting(writing)'
        BY <2>1, <3>1 DEF Waiting, ToRead, dbVars, IInv, CursorInv, TypeOK
    <3>3. WriterInv'
        BY <2>1, <2>7, <3>2 DEF WriteNewline, IInv, WriterInv
    <3> QED BY <2>1, <2>4, <2>5, <3>3, FileGrows
            DEF IInv, EvidenceInv, EvidenceKept, Retryable, ToRead, dbVars, NoTail
  <2> QED BY <1>2, <2>6, <2>7
<1>3. ASSUME WritePart \/ WriteRecord PROVE IInv'
  <2>1. UNCHANGED <<lines, identity, acked, dbVars, known, tickVars, evidence>>
      BY <1>3 DEF WritePart, WriteRecord
  <2>2. writing \in Events
      BY <1>3 DEF WritePart, WriteRecord, IInv, WriterInv, TypeOK
  <2>3. TypeOK'
    <3>1. tail' \in Line
      <4>1. \E b \in BOOLEAN : tail' = [event |-> writing, good |-> b]
          BY <1>3, Zenon DEF WritePart, WriteRecord
      <4> QED BY <2>2, <4>1 DEF Line
    <3>2. step' \in {"part", "record"} /\ UNCHANGED <<writing, published, up, failures>>
        BY <1>3 DEF WritePart, WriteRecord
    <3> QED BY <2>1, <3>1, <3>2 DEF IInv, TypeOK, Tail0, dbVars, tickVars
  <2>4. WriterInv'
      BY <1>3, <2>1, <2>2 DEF WritePart, WriteRecord, IInv, WriterInv
  <2>5. EvidenceInv'
      BY <1>3, <2>1, <2>2 DEF WritePart, WriteRecord, IInv, WriterInv, EvidenceInv, EvidenceKept,
                              Retryable, ToRead, dbVars
  <2> QED BY <2>1, <2>3, <2>4, <2>5, FileGrows DEF IInv, TypeOK
<1>4. ASSUME AppendReturn PROVE IInv'
  <2>1. UNCHANGED <<fileVars, published, up, dbVars, known, tickVars, evidence, failures>>
      BY <1>4 DEF AppendReturn
  <2>2. writing \in Events /\ (record[writing] # "none" \/ Waiting(writing))
      BY <1>4 DEF AppendReturn, IInv, WriterInv, TypeOK
  <2>3. TypeOK' /\ WriterInv' /\ EvidenceInv'
      BY <1>4, <2>1, <2>2 DEF AppendReturn, IInv, TypeOK, WriterInv, EvidenceInv, EvidenceKept,
                              Retryable, ToRead, dbVars, tickVars
  <2>4. /\ CursorInv' /\ TickInv' /\ SettledInv' /\ OneRowPerIncident'
        /\ CursorAccounted' /\ \A e \in Events : Waiting(e) => Waiting(e)'
      BY <2>1, FileGrows DEF IInv, TypeOK
  <2>5. AckedNeverLost'
      BY <1>4, <2>1, <2>2, <2>4 DEF AppendReturn, IInv, TypeOK, AckedNeverLost, dbVars
  <2> QED BY <2>3, <2>4, <2>5 DEF IInv
<1>5. ASSUME AppendFail \/ RuntimeStop \/ RuntimeStart PROVE IInv'
  <2>1. UNCHANGED <<fileVars, acked, dbVars, known, tickVars, evidence>>
      BY <1>5 DEF AppendFail, RuntimeStop, RuntimeStart
  <2>2. TypeOK'
    <3>1. /\ published' = published
          /\ writing' \in Events \cup {NoEvent} /\ up' \in BOOLEAN /\ failures' \in Nat
          /\ step' \in {"idle", "open", "write", "part", "record", "written"}
      <4>1. CASE AppendFail
          BY <4>1 DEF AppendFail, IInv, TypeOK
      <4>2. CASE RuntimeStop
          BY <4>2 DEF RuntimeStop, IInv, TypeOK
      <4>3. CASE RuntimeStart
          BY <4>3 DEF RuntimeStart, IInv, TypeOK
      <4> QED BY <1>5, <4>1, <4>2, <4>3
    <3> QED BY <2>1, <3>1 DEF IInv, TypeOK, dbVars, tickVars
  <2>3. WriterInv'
      BY <1>5, <2>1 DEF AppendFail, RuntimeStop, RuntimeStart, IInv, WriterInv
  <2>4. EvidenceInv'
      BY <2>1 DEF IInv, EvidenceInv, EvidenceKept, Retryable, ToRead, dbVars
  <2> QED BY <2>1, <2>2, <2>3, <2>4, FileGrows DEF IInv, TypeOK
<1> QED BY <1>1, <1>2, <1>3, <1>4, <1>5 DEF Writer

-----------------------------------------------------------------------------
(* Steps of the dispatcher.                                                *)

\* A step that leaves the file, the writer and the evidence alone, keeps the
\* reading position of the file and forgets no record keeps the properties of
\* the writer and of the acknowledged events.
LEMMA RecordsGrow ==
    ASSUME IInv, UNCHANGED <<fileVars, runtimeVars, evidence>>, 
           \A i \in DOMAIN lines : ToRead(i) => ToRead(i)' \/ Accounted(i)',
           \A e \in Events : record[e] # "none" => record'[e] # "none"
    PROVE  WriterInv' /\ AckedNeverLost'
<1> USE DEF fileVars, runtimeVars
<1>1. ASSUME NEW e \in Events, record[e] # "none" \/ Waiting(e)
      PROVE  record'[e] # "none" \/ Waiting(e)'
  <2>1. CASE record[e] # "none"
      BY <2>1
  <2>2. CASE Waiting(e)
    <3>1. PICK i \in DOMAIN lines : ToRead(i) /\ lines[i] = [event |-> e, good |-> TRUE]
        BY <2>2 DEF Waiting
    <3>2. CASE ToRead(i)'
        BY <3>1, <3>2 DEF Waiting
    <3>3. CASE Accounted(i)'
        BY <3>1, <3>3 DEF Accounted
    <3> QED BY <3>1, <3>2, <3>3
  <2> QED BY <1>1, <2>1, <2>2
<1>2. writing = NoEvent \/ writing \in Events
    BY DEF IInv, TypeOK
<1>3. WriterInv'
    BY <1>1, <1>2 DEF IInv, WriterInv
<1>4. AckedNeverLost'
    BY <1>1 DEF IInv, AckedNeverLost, TypeOK
<1> QED BY <1>3, <1>4

LEMMA OpenStep == ASSUME IInv, Open PROVE IInv'
<1>1. UNCHANGED <<fileVars, runtimeVars, record, link, invalid, rows, results, known, todo,
                  evidence, failures>>
    BY DEF Open
<1>2. /\ cursor' = IF cursorIdent = identity THEN cursor ELSE 0
      /\ pos' = cursor' /\ cursorIdent' = identity /\ dpc = "idle" /\ dpc' = "read"
      /\ cursor' <= Len(lines)
    BY DEF Open, IInv, TypeOK, CursorInv
<1>3. \A i \in DOMAIN lines : ToRead(i) <=> ToRead(i)'
    BY <1>1, <1>2 DEF ToRead, IInv, TypeOK, fileVars
<1>4. TypeOK'
    BY <1>1, <1>2 DEF IInv, TypeOK, fileVars, runtimeVars
<1>5. CursorInv' /\ TickInv'
  <2>1. CursorInv'
      BY <1>1, <1>2 DEF IInv, TypeOK, CursorInv, fileVars
  <2>2. Retryable' = Retryable /\ todo' = todo
      BY <1>1 DEF Retryable
  <2> QED BY <1>1, <1>2, <2>1, <2>2 DEF IInv, TickInv, fileVars
<1>6. SettledInv' /\ OneRowPerIncident'
    BY <1>1 DEF IInv, SettledInv, Settled, Existing, OneRowPerIncident
<1>7. EvidenceInv' /\ CursorAccounted'
    BY <1>1, <1>3 DEF IInv, EvidenceInv, EvidenceKept, Retryable, CursorAccounted, Accounted,
                      ToRead, fileVars
<1>8. WriterInv' /\ AckedNeverLost'
    BY <1>1, <1>3, RecordsGrow DEF IInv, TypeOK
<1> QED BY <1>4, <1>5, <1>6, <1>7, <1>8 DEF IInv

LEMMA AdvanceStep == ASSUME IInv, Advance PROVE IInv'
<1>1. UNCHANGED <<fileVars, runtimeVars, cursorIdent, record, link, invalid, rows, results,
                  known, todo, evidence, failures>>
    BY DEF Advance
<1>2. /\ cursor = pos /\ cursor' = pos + 1 /\ pos' = pos + 1
      /\ dpc = "advance" /\ dpc' = "read"
      /\ cursorIdent = identity /\ pos < Len(lines) /\ Accounted(pos + 1)
      /\ pos \in Nat /\ lines \in Seq(Line)
    BY DEF Advance, IInv, TickInv, TypeOK
<1>3. \A i \in DOMAIN lines : ToRead(i)' <=> (ToRead(i) /\ i # pos + 1)
    BY <1>1, <1>2 DEF ToRead, fileVars
<1>4. \A i \in DOMAIN lines : Accounted(i) => Accounted(i)'
    BY <1>1 DEF Accounted, fileVars
<1>5. TypeOK'
    BY <1>1, <1>2 DEF IInv, TypeOK, fileVars, runtimeVars
<1>6. CursorInv' /\ TickInv'
  <2>1. CursorInv'
      BY <1>1, <1>2 DEF IInv, TypeOK, CursorInv, fileVars
  <2>2. Retryable' = Retryable /\ todo' = todo
      BY <1>1 DEF Retryable
  <2> QED BY <1>1, <1>2, <2>1, <2>2 DEF IInv, TickInv, fileVars
<1>7. SettledInv' /\ OneRowPerIncident'
    BY <1>1 DEF IInv, SettledInv, Settled, Existing, OneRowPerIncident
<1>8. EvidenceInv'
    BY <1>1, <1>3 DEF IInv, EvidenceInv, EvidenceKept, Retryable, ToRead, fileVars
<1>9. CursorAccounted'
    BY <1>1, <1>2, <1>3, <1>4 DEF IInv, CursorAccounted, fileVars
<1>10. WriterInv' /\ AckedNeverLost'
    BY <1>1, <1>2, <1>3, <1>4, RecordsGrow DEF IInv, TypeOK
<1> QED BY <1>5, <1>6, <1>7, <1>8, <1>9, <1>10 DEF IInv

\* The steps of a tick that touch neither the file nor the database.
LEMMA TickStep ==
    ASSUME IInv, EndOfLines \/ EndTick \/ Deferred \/ DispatcherDies \/ \E e \in Events : RetryFails(e)
    PROVE  IInv'
<1>1. UNCHANGED <<fileVars, runtimeVars, dbVars, known, evidence>>
    BY DEF EndOfLines, EndTick, Deferred, DispatcherDies, RetryFails
<1>2. /\ dpc' \in {"idle", "retry"} /\ pos' \in Nat /\ failures' \in Nat
      /\ todo' \subseteq Retryable /\ (dpc' = "idle" => todo' = {})
    BY DEF EndOfLines, EndTick, Deferred, DispatcherDies, RetryFails, IInv, TickInv, TypeOK
<1>3. TypeOK'
    BY <1>1, <1>2 DEF IInv, TypeOK, fileVars, runtimeVars, dbVars, Retryable
<1>4. CursorInv' /\ TickInv'
    BY <1>1, <1>2 DEF IInv, CursorInv, TickInv, Retryable, dbVars, fileVars
<1>5. SettledInv' /\ OneRowPerIncident'
    BY <1>1 DEF IInv, SettledInv, Settled, Existing, OneRowPerIncident, dbVars
<1>6. EvidenceInv' /\ CursorAccounted'
    BY <1>1 DEF IInv, EvidenceInv, EvidenceKept, Retryable, CursorAccounted, Accounted, ToRead,
                fileVars, dbVars
<1>7. WriterInv' /\ AckedNeverLost'
    BY <1>1 DEF IInv, WriterInv, AckedNeverLost, Waiting, ToRead, fileVars, runtimeVars, dbVars
<1> QED BY <1>3, <1>4, <1>5, <1>6, <1>7 DEF IInv

LEMMA LineEvents == ASSUME TypeOK PROVE \A i \in DOMAIN lines : lines[i].event \in Events
<1>1. \A l \in Line : l.event \in Events
    BY DEF Line
<1>2. \A i \in DOMAIN lines : lines[i] \in Line
    BY DEF TypeOK
<1> QED BY <1>1, <1>2

\* An import leaves evidence for whatever it imported or kept for a retry.
LEMMA IngestTxEvidence ==
    ASSUME IInv, NEW e \in evidence, IngestTx(e), UNCHANGED <<known, evidence>>
    PROVE  rows' \cup results' \cup Retryable' \subseteq evidence'
<1>1. e \in Events
    BY DEF IInv, TypeOK
<1>2. /\ rows' \cup results' \subseteq rows \cup results \cup {e}
      /\ \A f \in Events \ {e} : record'[f] = record[f]
    BY <1>1, IngestTxEffect DEF IInv
<1> QED BY <1>1, <1>2 DEF IInv, EvidenceInv, EvidenceKept, Retryable

LEMMA IngestStep == ASSUME IInv, Ingest PROVE IInv'
<1>1. UNCHANGED <<fileVars, runtimeVars, cursor, cursorIdent, known, pos, todo, evidence,
                  failures>>
    BY DEF Ingest
<1>2. /\ dpc = "read" /\ dpc' = "advance" /\ pos < Len(lines) /\ pos \in Nat
      /\ cursorIdent = identity /\ pos = cursor /\ todo = {}
      /\ pos + 1 \in DOMAIN lines /\ lines[pos + 1] \in Line /\ lines \in Seq(Line)
    BY DEF Ingest, IInv, TickInv, TypeOK
<1> DEFINE e == lines[pos + 1].event
<1>3. e \in Events
    BY <1>2 DEF Line
<1>4. CursorInv'
    BY <1>1 DEF IInv, CursorInv, fileVars
<1>5. CASE lines[pos + 1].good
  <2>1. IngestTx(e) /\ UNCHANGED invalid
      BY <1>5 DEF Ingest
  <2>2. /\ record' \in [Events -> {"none", "retryable", "imported", "duplicate"}]
        /\ link' \in [Events -> Events \cup {NoEvent}]
        /\ rows' \subseteq Events /\ results' \subseteq Events
        /\ record'[e] # "none"
        /\ \A f \in Events \ {e} : record'[f] = record[f]
        /\ SettledInv' /\ OneRowPerIncident'
      BY <1>1, <1>3, <2>1, IngestTxEffect DEF IInv
  <2>3. e \in evidence
      BY <1>2, <1>5 DEF IInv, EvidenceInv, EvidenceKept, ToRead
  <2>4. TypeOK'
      BY <1>1, <1>2, <2>1, <2>2 DEF IInv, TypeOK, fileVars, runtimeVars
  <2>5. \A f \in Events : record[f] # "none" => record'[f] # "none"
      BY <2>2
  <2>6. \A i \in DOMAIN lines : (ToRead(i) <=> ToRead(i)') /\ (Accounted(i) => Accounted(i)')
    <3>1. \A i \in DOMAIN lines : lines[i].event \in Events
        BY LineEvents DEF IInv
    <3> QED BY <1>1, <2>1, <2>5, <3>1 DEF ToRead, Accounted, fileVars
  <2>7. Accounted(pos + 1)'
      BY <1>1, <1>5, <2>2 DEF Accounted, fileVars
  <2>8. TickInv'
      BY <1>1, <1>2, <2>7 DEF TickInv, fileVars
  <2>9. EvidenceInv'
    <3>1. rows' \cup results' \cup Retryable' \subseteq evidence'
        BY <1>1, <2>1, <2>3, IngestTxEvidence
    <3> QED BY <1>1, <2>6, <3>1 DEF IInv, EvidenceInv, EvidenceKept, fileVars, ToRead
  <2>10. CursorAccounted'
      BY <1>1, <2>6 DEF IInv, CursorAccounted, fileVars
  <2>11. WriterInv' /\ AckedNeverLost'
      BY <1>1, <2>5, <2>6, RecordsGrow
  <2> QED BY <1>4, <2>2, <2>4, <2>8, <2>9, <2>10, <2>11 DEF IInv
<1>6. CASE ~lines[pos + 1].good
  <2>1. /\ invalid' = invalid \cup {<<identity, pos>>}
        /\ UNCHANGED <<record, link, rows, results>>
      BY <1>6 DEF Ingest, RecordMalformed
  <2>2. TypeOK'
      BY <1>1, <1>2, <2>1 DEF IInv, TypeOK, fileVars, runtimeVars
  <2>3. \A i \in DOMAIN lines : (ToRead(i) <=> ToRead(i)') /\ (Accounted(i) => Accounted(i)')
      BY <1>1, <2>1 DEF ToRead, Accounted, fileVars
  <2>4. Accounted(pos + 1)'
      BY <1>1, <1>2, <1>6, <2>1 DEF Accounted, fileVars
  <2>5. TickInv'
      BY <1>1, <1>2, <2>4 DEF TickInv, fileVars
  <2>6. SettledInv' /\ OneRowPerIncident'
      BY <1>1, <2>1 DEF IInv, SettledInv, Settled, Existing, OneRowPerIncident
  <2>7. EvidenceInv'
      BY <1>1, <2>1, <2>3 DEF IInv, EvidenceInv, EvidenceKept, Retryable, fileVars, ToRead
  <2>8. CursorAccounted'
      BY <1>1, <2>3 DEF IInv, CursorAccounted, fileVars
  <2>9. WriterInv' /\ AckedNeverLost'
      BY <1>1, <2>1, <2>3, RecordsGrow
  <2> QED BY <1>4, <2>2, <2>5, <2>6, <2>7, <2>8, <2>9 DEF IInv
<1> QED BY <1>5, <1>6

LEMMA RetryStep == ASSUME IInv, NEW e \in Events, Retry(e) PROVE IInv'
<1>1. /\ UNCHANGED <<fileVars, runtimeVars, cursor, cursorIdent, invalid, known, dpc, pos,
                     evidence, failures>>
      /\ dpc = "retry" /\ e \in todo /\ IngestTx(e) /\ todo' = todo \ {e}
    BY DEF Retry
<1>2. record[e] = "retryable" /\ e \in evidence
    BY <1>1 DEF IInv, TickInv, EvidenceInv, EvidenceKept, Retryable
<1>3. /\ record' \in [Events -> {"none", "retryable", "imported", "duplicate"}]
      /\ link' \in [Events -> Events \cup {NoEvent}]
      /\ rows' \subseteq Events /\ results' \subseteq Events
      /\ record'[e] # "none"
      /\ \A f \in Events \ {e} : record'[f] = record[f]
      /\ SettledInv' /\ OneRowPerIncident'
    BY <1>1, IngestTxEffect DEF IInv
<1>4. TypeOK'
    BY <1>1, <1>3 DEF IInv, TypeOK, fileVars, runtimeVars
<1>5. \A f \in Events : record[f] # "none" => record'[f] # "none"
    BY <1>3
<1>6. \A i \in DOMAIN lines : (ToRead(i) <=> ToRead(i)') /\ (Accounted(i) => Accounted(i)')
  <2>1. \A i \in DOMAIN lines : lines[i].event \in Events
      BY LineEvents DEF IInv
  <2> QED BY <1>1, <1>5, <2>1 DEF ToRead, Accounted, fileVars
<1>7. CursorInv'
    BY <1>1 DEF IInv, CursorInv, fileVars
<1>8. TickInv'
    BY <1>1, <1>3 DEF IInv, TickInv, Retryable, fileVars
<1>9. EvidenceInv'
  <2>1. rows' \cup results' \cup Retryable' \subseteq evidence'
      BY <1>1, <1>2, IngestTxEvidence
  <2> QED BY <1>1, <1>6, <2>1 DEF IInv, EvidenceInv, EvidenceKept, fileVars, ToRead
<1>10. CursorAccounted'
    BY <1>1, <1>6 DEF IInv, CursorAccounted, fileVars
<1>11. WriterInv' /\ AckedNeverLost'
    BY <1>1, <1>5, <1>6, RecordsGrow
<1> QED BY <1>3, <1>4, <1>7, <1>8, <1>9, <1>10, <1>11 DEF IInv

-----------------------------------------------------------------------------
(* Steps of the surroundings.                                              *)

LEMMA OwnerStep ==
    ASSUME IInv, NEW o \in Owners, OwnerAdded(o) \/ OwnerRemoved(o)
    PROVE  IInv'
<1>1. UNCHANGED <<fileVars, runtimeVars, dbVars, tickVars, evidence, failures>>
    BY DEF OwnerAdded, OwnerRemoved
<1>2. known' \subseteq Owners /\ \A e \in rows \cup results : Owner[e] \in known => Owner[e] \in known'
    BY DEF OwnerAdded, OwnerRemoved, IInv, TypeOK
<1>3. TypeOK'
    BY <1>1, <1>2 DEF IInv, TypeOK, fileVars, runtimeVars, dbVars, tickVars
<1>4. SettledInv' /\ OneRowPerIncident'
    BY <1>1, <1>2 DEF IInv, SettledInv, Settled, Existing, OneRowPerIncident, dbVars
<1>5. CursorInv' /\ TickInv' /\ EvidenceInv' /\ CursorAccounted'
    BY <1>1 DEF IInv, CursorInv, TickInv, EvidenceInv, EvidenceKept, Retryable, CursorAccounted,
                Accounted, ToRead, fileVars, dbVars, tickVars
<1>6. WriterInv' /\ AckedNeverLost'
    BY <1>1 DEF IInv, WriterInv, AckedNeverLost, Waiting, ToRead, fileVars, runtimeVars, dbVars
<1> QED BY <1>3, <1>4, <1>5, <1>6 DEF IInv

\* A fresh file: everything acknowledged was read before.
LEMMA ReplacedStep == ASSUME IInv, Replaced PROVE IInv'
<1>1. UNCHANGED <<tail, runtimeVars, dbVars, known, tickVars, evidence, failures>>
    BY DEF Replaced
<1>2. /\ dpc = "idle" /\ tail = NoTail /\ ~up /\ lines' = <<>> /\ identity' = identity + 1
      /\ cursorIdent = identity /\ cursor = Len(lines) /\ lines \in Seq(Line)
      /\ identity \in Nat \ {0} /\ cursorIdent \in Nat
    BY DEF Replaced, IInv, TypeOK
<1>3. \A i \in DOMAIN lines : ~ToRead(i)
    BY <1>2 DEF ToRead
<1>4. TypeOK'
    BY <1>1, <1>2 DEF IInv, TypeOK, runtimeVars, dbVars, tickVars
<1>5. CursorInv' /\ TickInv'
    BY <1>1, <1>2 DEF IInv, CursorInv, TickInv, Retryable, dbVars, tickVars
<1>6. SettledInv' /\ OneRowPerIncident'
    BY <1>1 DEF IInv, SettledInv, Settled, Existing, OneRowPerIncident, dbVars
<1>7. EvidenceInv' /\ CursorAccounted'
    BY <1>1, <1>2 DEF IInv, EvidenceInv, EvidenceKept, Retryable, CursorAccounted, dbVars
<1>8. WriterInv'
    BY <1>1, <1>2 DEF IInv, WriterInv, runtimeVars
<1>9. AckedNeverLost'
    BY <1>1, <1>3 DEF IInv, AckedNeverLost, Waiting, runtimeVars, dbVars
<1> QED BY <1>4, <1>5, <1>6, <1>7, <1>8, <1>9 DEF IInv

\* The retention pass deletes when nothing unread can refer to the evidence.
LEMMA CleanupStep == ASSUME IInv, Cleanup PROVE IInv'
<1>1. UNCHANGED <<fileVars, runtimeVars, dbVars, known, tickVars, failures>>
    BY DEF Cleanup
<1>2. /\ writing = NoEvent /\ tail = NoTail /\ Retryable = {}
      /\ cursorIdent = identity /\ cursor = Len(lines) /\ lines \in Seq(Line)
    BY DEF Cleanup, Consumed, IInv, TypeOK
<1>3. evidence' \subseteq evidence /\ rows \cup results \subseteq evidence'
    BY DEF Cleanup, IInv, EvidenceInv, EvidenceKept
<1>4. TypeOK'
    BY <1>1, <1>3 DEF IInv, TypeOK, fileVars, runtimeVars, dbVars, tickVars
<1>5. CursorInv' /\ TickInv' /\ CursorAccounted'
    BY <1>1 DEF IInv, CursorInv, TickInv, Retryable, CursorAccounted, Accounted, ToRead,
                fileVars, dbVars, tickVars
<1>6. SettledInv' /\ OneRowPerIncident'
    BY <1>1 DEF IInv, SettledInv, Settled, Existing, OneRowPerIncident, dbVars
<1>7. \A i \in DOMAIN lines : ~ToRead(i)
    BY <1>2 DEF ToRead
<1>8. EvidenceInv'
    BY <1>1, <1>2, <1>3, <1>7 DEF EvidenceInv, EvidenceKept, Retryable, ToRead, NoTail,
                                  fileVars, dbVars
<1>9. WriterInv' /\ AckedNeverLost'
    BY <1>1, <1>2 DEF IInv, WriterInv, AckedNeverLost, Waiting, ToRead, fileVars, runtimeVars,
                      dbVars
<1> QED BY <1>4, <1>5, <1>6, <1>8, <1>9 DEF IInv

-----------------------------------------------------------------------------
LEMMA StutterStep == ASSUME IInv, UNCHANGED vars PROVE IInv'
<1> USE DEF vars, fileVars, runtimeVars, dbVars, tickVars
<1>1. TypeOK' /\ WriterInv' /\ CursorInv' /\ SettledInv'
    BY DEF IInv, TypeOK, WriterInv, CursorInv, SettledInv, Waiting, ToRead, Settled, Existing
<1>2. TickInv' /\ EvidenceInv' /\ CursorAccounted' /\ AckedNeverLost' /\ OneRowPerIncident'
    BY DEF IInv, TickInv, EvidenceInv, EvidenceKept, Retryable, CursorAccounted, Accounted,
           AckedNeverLost, Waiting, ToRead, OneRowPerIncident
<1> QED BY <1>1, <1>2 DEF IInv

LEMMA NextIInv == IInv /\ [Next]_vars => IInv'
<1> SUFFICES ASSUME IInv, [Next]_vars PROVE IInv'
    OBVIOUS
<1>1. CASE Writer
    BY <1>1, WriterStep
<1>2. CASE Dispatcher
    BY <1>2, OpenStep, IngestStep, AdvanceStep, TickStep, RetryStep DEF Dispatcher
<1>3. CASE Faults
    BY <1>3, TickStep DEF Faults
<1>4. CASE Surroundings
    BY <1>4, OwnerStep, ReplacedStep, CleanupStep DEF Surroundings
<1>5. CASE UNCHANGED vars
    BY <1>5, StutterStep
<1> QED BY <1>1, <1>2, <1>3, <1>4, <1>5 DEF Next

\* Every state of the file, its writers, the cursor and the rows.
THEOREM Invariance == Spec => []IInv
<1> QED BY InitIInv, NextIInv, PTL DEF Spec

\* Types, for every set of events, owners and bounds.
THEOREM TypeCorrect == Spec => []TypeOK
<1>1. IInv => TypeOK
    BY DEF IInv
<1> QED BY <1>1, Invariance, PTL

\* An event whose append returned is in the database or waits in the file ahead
\* of the cursor, however often writers and dispatchers die.
THEOREM NoAckedLoss == Spec => []AckedNeverLost
<1>1. IInv => AckedNeverLost
    BY DEF IInv
<1> QED BY <1>1, Invariance, PTL

\* The cursor never passes a line that left no trace in the database.
THEOREM CursorSound == Spec => []CursorAccounted
<1>1. IInv => CursorAccounted
    BY DEF IInv
<1> QED BY <1>1, Invariance, PTL

\* At-least-once delivery makes at most one row of an incident.
THEOREM RowsUnique == Spec => []OneRowPerIncident
<1>1. IInv => OneRowPerIncident
    BY DEF IInv
<1> QED BY <1>1, Invariance, PTL

\* The retention pass never deletes evidence that a row, a result, a retry or
\* an unread line refers to.
THEOREM EvidenceSound == Spec => []EvidenceKept
<1>1. IInv => EvidenceKept
    BY DEF IInv, EvidenceInv
<1> QED BY <1>1, Invariance, PTL

\* A settled record stays settled, about the same incident.
THEOREM SettledForGood == Spec => SettledStays
<1>1. ASSUME IInv, [Next]_vars PROVE [StaysSettled]_vars
  <2>1. CASE UNCHANGED <<record, link>>
      BY <2>1 DEF StaysSettled, Settled
  <2>2. ASSUME NEW e \in Events, IngestTx(e), known' = known PROVE StaysSettled
    <3>1. /\ \A f \in Events \ {e} : record'[f] = record[f] /\ link'[f] = link[f]
          /\ Settled(e) => Settled(e)' /\ (link[e] # NoEvent => link'[e] = link[e])
        BY <1>1, <2>2, IngestTxEffect DEF IInv
    <3> QED BY <3>1 DEF StaysSettled, Settled
  <2>3. CASE Ingest
    <3>1. pos + 1 \in DOMAIN lines
        BY <1>1, <2>3 DEF Ingest, IInv, TypeOK
    <3>2. lines[pos + 1].event \in Events
        BY <1>1, <3>1, LineEvents DEF IInv
    <3> QED BY <2>1, <2>2, <2>3, <3>2 DEF Ingest
  <2>4. CASE \E e \in Events : Retry(e)
      BY <2>2, <2>4 DEF Retry
  <2>5. CASE Writer
      BY <2>1, <2>5 DEF Writer, AppendBegin, AppendBusy, Separate, WritePart, WriteRecord,
         WriteNewline, AppendReturn, AppendFail, RuntimeStop, RuntimeStart, dbVars
  <2>6. CASE Open \/ Advance \/ EndOfLines \/ EndTick \/ Faults \/ Surroundings
      BY <2>1, <2>6 DEF Open, Advance, EndOfLines, EndTick, Faults, RetryFails, Deferred,
         DispatcherDies, Surroundings, OwnerAdded, OwnerRemoved, Replaced, Cleanup, dbVars
  <2> QED BY <1>1, <2>3, <2>4, <2>5, <2>6 DEF Next, Dispatcher
<1>2. IInv /\ [Next]_vars => [StaysSettled]_vars
    BY <1>1
<1> QED BY <1>2, Invariance, PTL DEF Spec, SettledStays

\* Deliveries at least once from the file, at most once into the database.
THEOREM DeliveredExactlyOnce == Spec => []ExactlyOnce
<1>1. IInv => ExactlyOnce
    BY DEF IInv, ExactlyOnce
<1> QED BY <1>1, Invariance, PTL


-----------------------------------------------------------------------------
(******************* a program that publishes to the outbox ****************)
\* Who is there in which program.
ProgramInv ==
    /\ Sequential(outbox) /\ Sequential(reports) /\ Sequential(filedRows)
    /\ setup.host # "single" => Sequential(journal)
    /\ ~Service => parent.pc = "idle"
    /\ orch \in {"run", "term", "told", "silent", "over"}
    /\ setup.host # "process" => orch = "run" /\ reports = <<>> /\ filedRows = <<>>

\* The journal of the consumer follows the outbox.
JournalInv ==
    Service =>
        /\ \A i \in DOMAIN journal : \E k \in DOMAIN outbox : outbox[k].event = journal[i]
        /\ pc = "journal" => \E k \in DOMAIN outbox : outbox[k].event = Head(unfiled)

\* Rows that are taken out of a longer list, in its order.
Follows(list, many, all, upto) ==
    \E at \in [1 .. many -> 1 .. upto] :
        \A i, j \in 1 .. many : list[i] = all[at[i]] /\ (i < j => at[i] < at[j])

\* What is on the way to the file of the reporter: its rows, then what it was sent.
Way(list, queue) ==
    [i \in 1 .. Len(list) + Len(queue) |-> IF i <= Len(list) THEN list[i] ELSE queue[i - Len(list)].event]

\* The journal of the older process is what is on the way, in its order, what was given
\* up, and the violation that is about to be sent; the last message is the stop.
Sent == IF orch = "told" THEN Len(reports) - 1 ELSE Len(reports)
InHand == IF pc = "report" THEN 1 ELSE 0
Under == Len(filedRows) + Sent
ReportedInv ==
    setup.host = "process" =>
        /\ orch = "told" => Len(reports) > 0 /\ reports[Len(reports)].type = "stop"
        /\ orch = "over" => reports = <<>>
        /\ orch \in {"told", "silent", "over"} => pc \in Ended
        /\ forgone \in Nat
        /\ Len(journal) = Under + forgone + InHand
        /\ \A i \in 1 .. Sent : reports[i].type # "stop"
        /\ Follows(Way(filedRows, reports), Under, journal, Len(journal) - InHand)
        /\ pc = "report" => journal[Len(journal)] = Head(unfiled)

SpeedInv == ProgramInv /\ JournalInv /\ ReportedInv

\* A step that publishes, writes and reports nothing.
Quiet ==
    /\ UNCHANGED <<setup, outbox, journal, reports, filedRows, orch, forgone>>
    /\ pc' = "journal" => pc = "journal" /\ unfiled' = unfiled
    /\ ~Service => /\ parent'.pc = parent.pc
                   /\ pc \in Ended => pc' \in Ended
                   /\ pc' = "report" <=> pc = "report"
                   /\ pc = "report" => unfiled' = unfiled
Loud == \/ Publish \/ WriteJournal \/ ProcessSave \/ ProcessReport \/ ProcessKilled \/ OrchestratorStop
        \/ OrchestratorTell \/ ReporterTerminated \/ ReporterWrite \/ SingleSave

LEMMA CutShrinks ==
    ASSUME NEW s, Sequential(s), NEW k \in 0 .. Len(s)
    PROVE  /\ Sequential(SubSeq(s, 1, k)) /\ Len(s) \in Nat /\ Len(SubSeq(s, 1, k)) = k
           /\ \A i \in 1 .. k : SubSeq(s, 1, k)[i] = s[i]
<1>1. PICK S : s \in Seq(S)
    BY DEF Sequential
<1>2. Len(s) \in Nat /\ k \in Int /\ k <= Len(s) /\ \A i \in 1 .. Len(s) : s[i] \in S
    BY <1>1, LenProperties, ElementOfSeq
<1>3. \A i \in 1 .. k : s[i] \in S
    BY <1>2
<1>4. /\ SubSeq(s, 1, k) \in Seq(S)
      /\ Len(SubSeq(s, 1, k)) = IF 1 <= k THEN k - 1 + 1 ELSE 0
      /\ \A i \in 1 .. k - 1 + 1 : SubSeq(s, 1, k)[i] = s[1 + i - 1]
    BY <1>2, <1>3, SubSeqProperties
<1>5. Len(SubSeq(s, 1, k)) = k /\ \A i \in 1 .. k : SubSeq(s, 1, k)[i] = s[i]
    BY <1>2, <1>4
<1> QED BY <1>2, <1>4, <1>5 DEF Sequential

\* Rows in the order of a list: none, fewer of them and of more, one more.
LEMMA FollowsNone == ASSUME NEW filed, NEW all PROVE Follows(filed, 0, all, 0)
<1>1. 1 .. 0 = {}
    OBVIOUS
<1>2. [i \in 1 .. 0 |-> 0] \in [1 .. 0 -> 1 .. 0]
    BY <1>1
<1> QED BY <1>1, <1>2 DEF Follows

LEMMA FollowsLess ==
    ASSUME NEW many \in Nat, NEW upto \in Nat, NEW filed, NEW all, Follows(filed, many, all, upto),
           NEW few \in 0 .. many, NEW less, \A i \in 1 .. few : less[i] = filed[i],
           NEW most \in Nat, upto <= most, NEW more, \A i \in 1 .. upto : more[i] = all[i]
    PROVE  Follows(less, few, more, most)
<1>1. PICK at \in [1 .. many -> 1 .. upto] :
          \A i, j \in 1 .. many : filed[i] = all[at[i]] /\ (i < j => at[i] < at[j])
    BY DEF Follows
<1> DEFINE to == [i \in 1 .. few |-> at[i]]
<1>2. \A i \in 1 .. few : i \in 1 .. many /\ to[i] = at[i] /\ at[i] \in 1 .. upto /\ at[i] \in 1 .. most
    BY <1>1
<1>3. to \in [1 .. few -> 1 .. most]
    BY <1>2
<1> HIDE DEF to
<1>4. \A i, j \in 1 .. few : less[i] = more[to[i]] /\ (i < j => to[i] < to[j])
    BY <1>1, <1>2
<1> QED BY <1>3, <1>4 DEF Follows

LEMMA FollowsMore ==
    ASSUME NEW many \in Nat, NEW upto \in Nat, NEW filed, NEW all, Follows(filed, many, all, upto),
           NEW more, \A i \in 1 .. many : more[i] = filed[i],
           NEW most \in Nat, upto < most, more[many + 1] = all[most]
    PROVE  Follows(more, many + 1, all, most)
<1>1. PICK at \in [1 .. many -> 1 .. upto] :
          \A i, j \in 1 .. many : filed[i] = all[at[i]] /\ (i < j => at[i] < at[j])
    BY DEF Follows
<1> DEFINE to == [i \in 1 .. many + 1 |-> IF i <= many THEN at[i] ELSE most]
<1>2. \A i \in 1 .. many : to[i] = at[i] /\ at[i] \in 1 .. upto /\ at[i] < most
    BY <1>1
<1>3. to[many + 1] = most /\ \A i \in 1 .. many + 1 : i \in 1 .. many \/ i = many + 1
    OBVIOUS
<1>4. to \in [1 .. many + 1 -> 1 .. most]
    BY <1>1
<1> HIDE DEF to
<1>5. \A i \in 1 .. many + 1 : more[i] = all[to[i]]
    BY <1>1, <1>2, <1>3
<1>6. \A i, j \in 1 .. many + 1 : i < j => to[i] < to[j]
    <2> SUFFICES ASSUME NEW i \in 1 .. many + 1, NEW j \in 1 .. many + 1, i < j PROVE to[i] < to[j]
        OBVIOUS
    <2>1. i \in 1 .. many
        OBVIOUS
    <2> QED BY <1>1, <1>2, <1>3, <2>1
<1> QED BY <1>4, <1>5, <1>6 DEF Follows

\* What lies where on the way.
LEMMA WayIs ==
    ASSUME NEW filed, NEW queue, Len(filed) \in Nat, Len(queue) \in Nat
    PROVE  /\ \A i \in 1 .. Len(filed) : Way(filed, queue)[i] = filed[i]
           /\ \A i \in 1 .. Len(queue) : Way(filed, queue)[Len(filed) + i] = queue[i].event
<1>1. \A i \in 1 .. Len(filed) : i \in 1 .. Len(filed) + Len(queue) /\ i <= Len(filed)
    OBVIOUS
<1>2. \A i \in 1 .. Len(queue) : /\ Len(filed) + i \in 1 .. Len(filed) + Len(queue)
                                 /\ ~(Len(filed) + i <= Len(filed)) /\ (Len(filed) + i) - Len(filed) = i
    OBVIOUS
<1> QED BY <1>1, <1>2 DEF Way

\* A queue that begins as it did leaves the way as it was.
LEMMA WaySame ==
    ASSUME NEW filed, NEW queue, NEW queue2, Len(filed) \in Nat, Len(queue) \in Nat, Len(queue2) \in Nat,
           NEW k \in Nat, k <= Len(queue), k <= Len(queue2), \A i \in 1 .. k : queue2[i] = queue[i]
    PROVE  \A i \in 1 .. Len(filed) + k : Way(filed, queue2)[i] = Way(filed, queue)[i]
<1> SUFFICES ASSUME NEW i \in 1 .. Len(filed) + k PROVE Way(filed, queue2)[i] = Way(filed, queue)[i]
    OBVIOUS
<1>1. i \in 1 .. Len(filed) + Len(queue) /\ i \in 1 .. Len(filed) + Len(queue2)
    OBVIOUS
<1>2. ~(i <= Len(filed)) => i - Len(filed) \in 1 .. k
    OBVIOUS
<1> QED BY <1>1, <1>2 DEF Way

\* A row that is filed stays where it was on the way.
LEMMA WayFiled ==
    ASSUME NEW filed, NEW queue, NEW filed2, NEW queue2, Len(filed) \in Nat, Len(queue) \in Nat \ {0},
           Len(filed2) = Len(filed) + 1, Len(queue2) = Len(queue) - 1,
           \A i \in 1 .. Len(filed) : filed2[i] = filed[i], filed2[Len(filed) + 1] = queue[1].event,
           \A i \in 1 .. Len(queue) - 1 : queue2[i] = queue[i + 1]
    PROVE  \A i \in 1 .. Len(filed) + Len(queue) : Way(filed2, queue2)[i] = Way(filed, queue)[i]
<1> SUFFICES ASSUME NEW i \in 1 .. Len(filed) + Len(queue) PROVE Way(filed2, queue2)[i] = Way(filed, queue)[i]
    OBVIOUS
<1>1. Len(filed2) + Len(queue2) = Len(filed) + Len(queue)
    OBVIOUS
<1>2. CASE i <= Len(filed)
    BY <1>1, <1>2 DEF Way
<1>3. CASE i = Len(filed) + 1
    BY <1>1, <1>3 DEF Way
<1>4. CASE i > Len(filed) + 1
    <2> DEFINE k == i - Len(filed2)
    <2>1. k \in 1 .. Len(queue) - 1 /\ k + 1 = i - Len(filed)
        BY <1>4
    <2>2. queue2[k] = queue[k + 1]
        BY <2>1
    <2> QED BY <1>1, <1>4, <2>1, <2>2 DEF Way
<1> QED BY <1>2, <1>3, <1>4

LEMMA SpeedSteps == ProgramInv /\ [SpeedNext]_speedVars => Quiet \/ Loud
<1> SUFFICES ASSUME ProgramInv, [SpeedNext]_speedVars PROVE Quiet \/ Loud
    OBVIOUS
<1>0. ASSUME NEW seen, Track(seen) PROVE pc' \in {"get", "save"}
    BY <1>0 DEF Track
<1>1. CASE NotCalibrated \/ LeaveLoop \/ Ask \/ WaitStopped \/ SaveEvidence
    BY <1>1 DEF NotCalibrated, LeaveLoop, Ask, WaitStopped, SaveEvidence, Quiet, Service, parentVars, filedVars,
        olderVars, Ended
<1>2. CASE TakeFrame
    BY <1>2 DEF TakeFrame, Quiet, parentVars, filedVars, olderVars, Ended
<1>3. CASE Answer
    <2>1. pc' \in {"get", "save", pc} /\ pc = "wait" /\ Service
        BY <1>0, <1>3 DEF Answer
    <2> QED BY <1>3, <2>1 DEF Answer, Quiet, parentVars, filedVars, olderVars
<1>4. CASE TrackOnly
    BY <1>0, <1>4 DEF TrackOnly, Quiet, parentVars, filedVars, olderVars
<1>5. CASE VehicleService
    BY <1>5 DEF VehicleService, ServeTake, ServeInfer, ServeAnswer, ServePut, Quiet, parentVars, filedVars, olderVars
<1>6. CASE Parent
    BY <1>6 DEF Parent, Withdraw, Fence, Kill, StopService, RestartService, Spawn, Live, Quiet, ProgramInv,
        parentOnly, filedVars, olderVars, Ended
<1>7. CASE ProcessFrame \/ SingleFrame \/ ProcessLeave
    BY <1>7 DEF ProcessFrame, SingleFrame, ProcessLeave, Quiet, olderOnly, parentVars, olderVars, Ended
<1>8. CASE ProcessTrack \/ SingleTrack
    BY <1>0, <1>8 DEF ProcessTrack, SingleTrack, Quiet, olderOnly, parentVars, olderVars, Ended
<1>9. CASE UNCHANGED speedVars
    BY <1>9 DEF speedVars, Quiet, parentVars, filedVars, olderVars
<1> QED BY <1>1, <1>2, <1>3, <1>4, <1>5, <1>6, <1>7, <1>8, <1>9 DEF SpeedNext, Consumer, Older, Loud

LEMMA SpeedStart == SpeedInit => SpeedInv
<1> SUFFICES ASSUME SpeedInit PROVE SpeedInv
    OBVIOUS
<1> USE DEF SpeedInit
<1>1. <<>> \in Seq({})
    BY EmptySeq
<1>2. ProgramInv
    BY <1>1 DEF ProgramInv, Sequential
<1>3. DOMAIN journal = {} /\ Len(journal) = 0 /\ Len(filedRows) = 0 /\ Len(reports) = 0
    BY EmptySeq, <1>1, LenProperties
<1>4. JournalInv
    BY <1>3 DEF JournalInv
<1>5. ReportedInv
    <2>1. Sent = 0 /\ InHand = 0 /\ Under = 0 /\ Len(journal) - InHand = 0 /\ Len(journal) = Under + forgone + InHand
        BY <1>3 DEF Sent, InHand, Under
    <2>2. Follows(Way(filedRows, reports), 0, journal, 0)
        BY FollowsNone
    <2>3. Follows(Way(filedRows, reports), Under, journal, Len(journal) - InHand)
        BY <2>1, <2>2
    <2> QED BY <2>1, <2>3 DEF ReportedInv
<1> QED BY <1>2, <1>4, <1>5 DEF SpeedInv

LEMMA ProgramStep == ProgramInv /\ [SpeedNext]_speedVars => ProgramInv'
<1> SUFFICES ASSUME ProgramInv, [SpeedNext]_speedVars PROVE ProgramInv'
    OBVIOUS
<1> USE DEF ProgramInv, Service
<1>1. CASE Quiet
    BY <1>1 DEF Quiet, Sequential
<1>2. CASE Publish
    <2>1. UNCHANGED <<setup, journal, reports, filedRows, orch, parent>>
        BY <1>2 DEF Publish, parentVars, olderVars
    <2>2. outbox' = Append(outbox, Envelope(Head(unfiled))) \/ outbox' = outbox
        BY <1>2 DEF Publish
    <2>3. Sequential(outbox')
        <3>1. Sequential(outbox)
            BY DEF ProgramInv
        <3>2. Sequential(Append(outbox, Envelope(Head(unfiled))))
            BY <3>1, AppendGrows
        <3> QED BY <2>2, <3>1, <3>2
    <2> QED BY <2>1, <2>3 DEF Sequential
<1>3. CASE WriteJournal
    BY <1>3, AppendGrows DEF WriteJournal, parentVars, olderVars
<1>4. CASE ProcessSave
    BY <1>4, AppendGrows DEF ProcessSave, olderOnly, parentVars, olderVars
<1>5. CASE ProcessReport
    <2> DEFINE new == [type |-> "speed_event", event |-> Head(unfiled)]
    <2>1. /\ UNCHANGED <<setup, outbox, journal, filedRows, orch, parent>> /\ setup.host = "process"
          /\ reports' = reports \/ reports' = Append(reports, new)
        BY <1>5 DEF ProcessReport, olderOnly, parentVars
    <2> HIDE DEF new
    <2>2. Sequential(reports) /\ Sequential(Append(reports, new))
        <3>1. Sequential(reports)
            BY <2>1
        <3> QED BY <3>1, AppendGrows
    <2>3. Sequential(reports')
        BY <2>1, <2>2
    <2> QED BY <2>1, <2>3 DEF Sequential
<1>6. CASE OrchestratorStop
    BY <1>6 DEF OrchestratorStop, olderOnly, parentVars
<1>7. CASE OrchestratorTell
    <2> DEFINE new == [type |-> "stop"]
    <2>1. /\ UNCHANGED <<setup, outbox, journal, filedRows, parent>> /\ setup.host = "process"
          /\ orch = "term" /\ orch' \in {"told", "silent"}
          /\ reports' = reports \/ reports' = Append(reports, new)
        BY <1>7 DEF OrchestratorTell, olderOnly, parentVars
    <2> HIDE DEF new
    <2>2. Sequential(reports) /\ Sequential(Append(reports, new))
        <3>1. Sequential(reports)
            BY <2>1
        <3> QED BY <3>1, AppendGrows
    <2>3. Sequential(reports')
        BY <2>1, <2>2
    <2> QED BY <2>1, <2>3 DEF Sequential
<1>10. CASE ProcessKilled
    <2>1. PICK sent \in 0 .. Len(reports) : reports' = SubSeq(reports, 1, sent)
        BY <1>10 DEF ProcessKilled
    <2>2. UNCHANGED <<setup, outbox, journal, filedRows, orch, parent>> /\ setup.host = "process"
        BY <1>10 DEF ProcessKilled, olderOnly, parentVars
    <2>3. Sequential(reports')
        BY <2>1, CutShrinks
    <2> QED BY <2>2, <2>3 DEF Sequential
<1>11. CASE ReporterTerminated
    <2>1. UNCHANGED <<setup, outbox, journal, filedRows, parent>> /\ orch' = "over" /\ reports' = <<>>
          /\ setup.host = "process"
        BY <1>11 DEF ReporterTerminated, olderOnly, parentVars
    <2>2. Sequential(<<>>)
        <3>1. <<>> \in Seq({})
            OBVIOUS
        <3> QED BY <3>1 DEF Sequential
    <2> QED BY <2>1, <2>2 DEF Sequential
<1>8. CASE ReporterWrite
    <2>1. /\ UNCHANGED <<setup, outbox, journal, parent>> /\ reports # <<>> /\ reports' = Tail(reports)
          /\ \/ orch' = "over" /\ filedRows' = filedRows
             \/ orch' = orch /\ filedRows' = Append(filedRows, Head(reports).event)
        BY <1>8 DEF ReporterWrite, olderOnly, parentVars
    <2>2. setup.host = "process"
        BY <2>1
    <2>3. Sequential(reports')
        BY <2>1, TailShifts
    <2>4. Sequential(filedRows')
        <3>1. Sequential(filedRows)
            BY DEF ProgramInv
        <3>2. Sequential(Append(filedRows, Head(reports).event))
            BY <3>1, AppendGrows
        <3> QED BY <2>1, <3>1, <3>2
    <2> QED BY <2>1, <2>2, <2>3, <2>4 DEF Sequential
<1>9. CASE SingleSave
    BY <1>9 DEF SingleSave, olderOnly, parentVars, olderVars
<1> QED BY <1>1, <1>2, <1>3, <1>4, <1>5, <1>6, <1>7, <1>8, <1>9, <1>10, <1>11, SpeedSteps DEF Loud

LEMMA JournalStep == ProgramInv /\ JournalInv /\ [SpeedNext]_speedVars => JournalInv'
<1> SUFFICES ASSUME ProgramInv, JournalInv, [SpeedNext]_speedVars, Service'
             PROVE  /\ \A i \in DOMAIN journal' : \E k \in DOMAIN outbox' : outbox'[k].event = journal'[i]
                    /\ pc' = "journal" => \E k \in DOMAIN outbox' : outbox'[k].event = Head(unfiled')
    BY DEF JournalInv
<1>0. setup' = setup
    BY SpeedSteps DEF Loud, Quiet, Publish, WriteJournal, ProcessSave, ProcessReport, ProcessKilled, OrchestratorStop,
        OrchestratorTell, ReporterTerminated, ReporterWrite, SingleSave, olderOnly
<1>1. /\ Service /\ orch = "run" /\ reports = <<>> /\ Sequential(outbox) /\ Sequential(journal)
      /\ \A i \in DOMAIN journal : \E k \in DOMAIN outbox : outbox[k].event = journal[i]
      /\ pc = "journal" => \E k \in DOMAIN outbox : outbox[k].event = Head(unfiled)
    BY <1>0 DEF ProgramInv, JournalInv, Service
<1>2. CASE Quiet
    BY <1>1, <1>2 DEF Quiet
<1>3. CASE Publish
    <2>1. CASE Valid
        <3>1. /\ outbox' = Append(outbox, Envelope(Head(unfiled))) /\ UNCHANGED <<journal, unfiled>>
            BY <1>3, <2>1 DEF Publish
        <3>2. /\ \A k \in DOMAIN outbox : k \in DOMAIN outbox' /\ outbox'[k] = outbox[k]
              /\ Len(outbox) + 1 \in DOMAIN outbox' /\ outbox'[Len(outbox) + 1] = Envelope(Head(unfiled))
            BY <1>1, <3>1, AppendGrows
        <3>3. Envelope(Head(unfiled)).event = Head(unfiled)
            BY DEF Envelope
        <3> QED BY <1>1, <3>1, <3>2, <3>3
    <2>2. CASE ~Valid
        BY <1>1, <1>3, <2>2 DEF Publish
    <2> QED BY <2>1, <2>2
<1>4. CASE WriteJournal
    <2>1. /\ journal' = Append(journal, Head(unfiled)) /\ outbox' = outbox /\ pc = "journal" /\ pc' \in {"get", "save"}
        BY <1>4 DEF WriteJournal
    <2>2. \A i \in DOMAIN journal' : (i \in DOMAIN journal /\ journal'[i] = journal[i]) \/ journal'[i] = Head(unfiled)
        BY <1>1, <2>1, AppendGrows
    <2> QED BY <1>1, <2>1, <2>2
<1>5. CASE \/ ProcessSave \/ ProcessReport \/ ProcessKilled \/ OrchestratorStop \/ OrchestratorTell
           \/ ReporterTerminated \/ ReporterWrite \/ SingleSave
    BY <1>1, <1>5 DEF ProcessSave, ProcessReport, ProcessKilled, OrchestratorStop, OrchestratorTell,
        ReporterTerminated, ReporterWrite, SingleSave, Service
<1> QED BY <1>2, <1>3, <1>4, <1>5, SpeedSteps DEF Loud

LEMMA ReportedStep == ProgramInv /\ ReportedInv /\ [SpeedNext]_speedVars => ReportedInv'
<1> SUFFICES ASSUME ProgramInv, ReportedInv, [SpeedNext]_speedVars, setup'.host = "process" PROVE ReportedInv'
    BY DEF ReportedInv
<1>0. setup' = setup
    BY SpeedSteps DEF Loud, Quiet, Publish, WriteJournal, ProcessSave, ProcessReport, ProcessKilled, OrchestratorStop,
        OrchestratorTell, ReporterTerminated, ReporterWrite, SingleSave, olderOnly
<1>1. /\ setup.host = "process" /\ ~Service /\ orch \in {"run", "term", "told", "silent", "over"}
      /\ Sequential(journal) /\ Sequential(reports) /\ Sequential(filedRows)
      /\ orch = "told" => Len(reports) > 0 /\ reports[Len(reports)].type = "stop"
      /\ orch = "over" => reports = <<>>
      /\ orch \in {"told", "silent", "over"} => pc \in Ended
      /\ forgone \in Nat
      /\ Len(journal) = Under + forgone + InHand
      /\ \A i \in 1 .. Sent : reports[i].type # "stop"
      /\ Follows(Way(filedRows, reports), Under, journal, Len(journal) - InHand)
      /\ pc = "report" => journal[Len(journal)] = Head(unfiled)
    BY <1>0 DEF ProgramInv, ReportedInv, Service
<1>2. /\ Len(journal) \in Nat /\ Len(reports) \in Nat /\ Len(filedRows) \in Nat /\ Sent \in Nat /\ Under \in Nat
      /\ InHand \in {0, 1} /\ Len(journal) - InHand \in Nat /\ Sent <= Len(reports)
    <2>1. Len(journal) \in Nat /\ Len(reports) \in Nat /\ Len(filedRows) \in Nat
        BY <1>1, AppendGrows
    <2>2. Sent \in Nat /\ Sent <= Len(reports) /\ InHand \in {0, 1}
        BY <1>1, <2>1 DEF Sent, InHand
    <2>3. Under \in Nat
        BY <2>1, <2>2 DEF Under
    <2> QED BY <1>1, <2>1, <2>2, <2>3
<1>3. CASE Quiet
    <2>1. Sent' = Sent /\ InHand' = InHand /\ Under' = Under
        BY <1>1, <1>3 DEF Quiet, Sent, InHand, Under
    <2>2. UNCHANGED <<journal, reports, filedRows, orch, forgone>> /\ (pc \in Ended => pc' \in Ended)
          /\ (pc' = "report" => journal'[Len(journal')] = Head(unfiled'))
        BY <1>1, <1>3 DEF Quiet
    <2>3. Follows(Way(filedRows', reports'), Under', journal', Len(journal') - InHand')
        BY <1>1, <2>1, <2>2
    <2> QED BY <1>1, <2>1, <2>2, <2>3 DEF ReportedInv
<1>4. CASE ProcessSave
    <2>1. /\ journal' = Append(journal, Head(unfiled)) /\ pc = "save" /\ pc' = "report"
          /\ UNCHANGED <<unfiled, reports, filedRows, orch, forgone>>
        BY <1>4 DEF ProcessSave, olderVars
    <2>2. /\ Len(journal') = Len(journal) + 1 /\ journal'[Len(journal) + 1] = Head(unfiled)
          /\ \A i \in 1 .. Len(journal) : journal'[i] = journal[i]
        BY <1>1, <2>1, AppendGrows
    <2>3. Sent' = Sent /\ InHand = 0 /\ InHand' = 1 /\ Under' = Under
        BY <2>1 DEF Sent, InHand, Under
    <2>4. Len(journal') - InHand' = Len(journal) /\ Len(journal) - InHand = Len(journal)
        BY <1>2, <2>2, <2>3
    <2> DEFINE way == Way(filedRows, reports)
               m == Under
               u == Len(journal)
               more == journal'
    <2>5. Follows(way, m, journal, u) /\ m \in Nat /\ u \in Nat /\ (\A i \in 1 .. u : more[i] = journal[i])
        BY <1>1, <1>2, <2>2, <2>4
    <2>6. Follows(way, m, more, u)
        <3> HIDE DEF way, m, u, more
        <3>1. m \in 0 .. m /\ u <= u
            BY <2>5
        <3> QED BY <2>5, <3>1, FollowsLess
    <2>7. Follows(Way(filedRows', reports'), Under', journal', Len(journal') - InHand')
        BY <2>1, <2>3, <2>4, <2>6
    <2>8. orch \notin {"told", "silent", "over"}
        BY <1>1, <2>1 DEF Ended
    <2>9. Len(journal') = Under' + forgone' + InHand'
        BY <1>1, <1>2, <2>1, <2>2, <2>3
    <2>10. \A i \in 1 .. Sent' : reports'[i].type # "stop"
        BY <1>1, <2>1, <2>3
    <2>11. journal'[Len(journal')] = Head(unfiled')
        BY <2>1, <2>2
    <2> QED BY <1>1, <2>1, <2>7, <2>8, <2>9, <2>10, <2>11 DEF ReportedInv
<1>5. CASE ProcessReport
    <2> DEFINE new == [type |-> "speed_event", event |-> Head(unfiled)]
    <2>1. /\ pc = "report" /\ pc' \in {"get", "save"} /\ UNCHANGED <<journal, filedRows, orch>>
          /\ \/ reports' = Append(reports, new) /\ forgone' = forgone
             \/ reports' = reports /\ forgone' = forgone + 1
        BY <1>5 DEF ProcessReport
    <2>2. orch \notin {"told", "silent", "over"}
        BY <1>1, <2>1 DEF Ended
    <2>3. new.type # "stop" /\ new.event = Head(unfiled)
        OBVIOUS
    <2> HIDE DEF new
    <2>4. InHand = 1 /\ InHand' = 0 /\ Sent = Len(reports) /\ Sent' = Len(reports') /\ Under = Len(filedRows) + Len(reports)
          /\ Under' = Len(filedRows) + Len(reports') /\ journal[Len(journal)] = Head(unfiled)
        BY <1>1, <2>1, <2>2 DEF InHand, Sent, Under
    <2>5. CASE reports' = Append(reports, new) /\ forgone' = forgone
        <3>1. /\ Len(reports') = Len(reports) + 1 /\ reports'[Len(reports) + 1] = new
              /\ \A i \in 1 .. Len(reports) : reports'[i] = reports[i]
            BY <1>1, <2>5, AppendGrows
        <3>2. Under' = Under + 1 /\ Len(journal) = Under' + forgone' + InHand'
            BY <1>1, <1>2, <2>4, <2>5, <3>1
        <3>3. \A i \in 1 .. Sent' : reports'[i].type # "stop"
            <4> SUFFICES ASSUME NEW i \in 1 .. Len(reports) + 1 PROVE reports'[i].type # "stop"
                BY <2>4, <3>1
            <4>1. i \in 1 .. Len(reports) \/ i = Len(reports) + 1
                BY <1>2
            <4> QED BY <1>1, <2>3, <2>4, <3>1, <4>1
        <3> DEFINE way == Way(filedRows, reports)
                   more == Way(filedRows', reports')
                   m == Under
                   u == Len(journal) - InHand
                   w == Len(journal)
        <3>4. Follows(way, m, journal, u) /\ m \in Nat /\ u \in Nat /\ w \in Nat /\ u < w
            BY <1>1, <1>2, <2>4
        <3>5. \A i \in 1 .. m : more[i] = way[i]
            <4> DEFINE q == reports'
                       k == Len(reports)
            <4>1. Len(filedRows) \in Nat /\ k \in Nat /\ Len(q) \in Nat /\ k <= Len(reports) /\ k <= Len(q)
                  /\ (\A i \in 1 .. k : q[i] = reports[i]) /\ m = Len(filedRows) + k
                BY <1>2, <2>4, <3>1
            <4> HIDE DEF q, k, m
            <4>2. \A i \in 1 .. Len(filedRows) + k : Way(filedRows, q)[i] = Way(filedRows, reports)[i]
                BY <1>2, <4>1, WaySame
            <4> QED BY <2>1, <4>1, <4>2 DEF q
        <3>6. more[m + 1] = journal[w]
            <4> DEFINE q == reports'
            <4>1. Len(q) \in Nat /\ Len(reports) + 1 \in 1 .. Len(q) /\ q[Len(reports) + 1] = new
                  /\ m + 1 = Len(filedRows) + (Len(reports) + 1)
                BY <1>2, <2>4, <3>1
            <4> HIDE DEF q, m
            <4>2. Way(filedRows, q)[Len(filedRows) + (Len(reports) + 1)] = q[Len(reports) + 1].event
                BY <1>2, <4>1, WayIs
            <4> QED BY <2>1, <2>3, <2>4, <4>1, <4>2 DEF q
        <3>7. Follows(more, m + 1, journal, w)
            <4> HIDE DEF way, more, m, u, w
            <4> QED BY <3>4, <3>5, <3>6, FollowsMore
        <3>8. Follows(Way(filedRows', reports'), Under', journal', Len(journal') - InHand')
            <4>1. Under' = m + 1 /\ journal' = journal /\ Len(journal') - InHand' = w
                BY <1>2, <2>1, <2>4, <3>2
            <4> QED BY <3>7, <4>1
        <3> QED BY <1>1, <2>1, <2>2, <2>5, <3>2, <3>3, <3>8 DEF ReportedInv
    <2>6. CASE reports' = reports /\ forgone' = forgone + 1
        <3>1. Under' = Under /\ Sent' = Sent /\ Len(journal) = Under' + forgone' + InHand' /\ forgone' \in Nat
            BY <1>1, <1>2, <2>4, <2>6
        <3> DEFINE way == Way(filedRows, reports)
                   m == Under
                   u == Len(journal) - InHand
                   w == Len(journal)
        <3>2. Follows(way, m, journal, u) /\ m \in Nat /\ u \in Nat /\ w \in Nat /\ u <= w
            BY <1>1, <1>2, <2>4
        <3>3. Follows(way, m, journal, w)
            <4> HIDE DEF way, m, u, w
            <4>1. m \in 0 .. m
                BY <3>2
            <4> QED BY <3>2, <4>1, FollowsLess
        <3>4. Follows(Way(filedRows', reports'), Under', journal', Len(journal') - InHand')
            <4>1. Under' = m /\ journal' = journal /\ Len(journal') - InHand' = w /\ Way(filedRows', reports') = way
                BY <1>2, <2>1, <2>4, <2>6, <3>1
            <4> QED BY <3>3, <4>1
        <3>5. \A i \in 1 .. Sent' : reports'[i].type # "stop"
            BY <1>1, <2>6, <3>1
        <3> QED BY <1>1, <2>1, <2>2, <2>6, <3>1, <3>4, <3>5 DEF ReportedInv
    <2> QED BY <2>1, <2>5, <2>6
<1>6. CASE OrchestratorStop
    <2>1. UNCHANGED <<journal, reports, filedRows, pc, unfiled, forgone>> /\ orch = "run" /\ orch' = "term"
        BY <1>6 DEF OrchestratorStop
    <2>2. Sent' = Sent /\ InHand' = InHand /\ Under' = Under
        BY <2>1 DEF Sent, InHand, Under
    <2>3. Follows(Way(filedRows', reports'), Under', journal', Len(journal') - InHand')
        BY <1>1, <2>1, <2>2
    <2> QED BY <1>1, <2>1, <2>2, <2>3 DEF ReportedInv
<1>7. CASE OrchestratorTell
    <2> DEFINE new == [type |-> "stop"]
    <2>1. /\ pc \in Ended /\ orch = "term" /\ UNCHANGED <<journal, filedRows, pc, unfiled, forgone>>
          /\ \/ reports' = Append(reports, new) /\ orch' = "told"
             \/ reports' = reports /\ orch' = "silent"
        BY <1>7 DEF OrchestratorTell
    <2>2. new.type = "stop"
        OBVIOUS
    <2> HIDE DEF new
    <2>3. InHand' = InHand /\ Sent = Len(reports) /\ pc # "report"
        BY <2>1 DEF Sent, InHand, Ended
    <2>4. CASE reports' = Append(reports, new) /\ orch' = "told"
        <3>1. /\ Len(reports') = Len(reports) + 1 /\ reports'[Len(reports) + 1] = new
              /\ \A i \in 1 .. Len(reports) : reports'[i] = reports[i]
            BY <1>1, <2>4, AppendGrows
        <3>2. Sent' = Len(reports) /\ Under' = Under
            BY <1>2, <2>1, <2>3, <2>4, <3>1 DEF Sent, Under
        <3> DEFINE way == Way(filedRows, reports)
                   more == Way(filedRows', reports')
                   m == Under
                   u == Len(journal) - InHand
        <3>3. Follows(way, m, journal, u) /\ m \in Nat /\ u \in Nat
            BY <1>1, <1>2
        <3>4. \A i \in 1 .. m : more[i] = way[i]
            <4> DEFINE q == reports'
                       k == Len(reports)
            <4>1. Len(filedRows) \in Nat /\ k \in Nat /\ Len(q) \in Nat /\ k <= Len(reports) /\ k <= Len(q)
                  /\ (\A i \in 1 .. k : q[i] = reports[i]) /\ m = Len(filedRows) + k
                BY <1>2, <2>3, <3>1 DEF Under
            <4> HIDE DEF q, k, m
            <4>2. \A i \in 1 .. Len(filedRows) + k : Way(filedRows, q)[i] = Way(filedRows, reports)[i]
                BY <1>2, <4>1, WaySame
            <4> QED BY <2>1, <4>1, <4>2 DEF q
        <3>5. Follows(more, m, journal, u)
            <4> HIDE DEF way, more, m, u
            <4>1. m \in 0 .. m /\ u <= u
                BY <3>3
            <4> QED BY <3>3, <3>4, <4>1, FollowsLess
        <3>6. Follows(Way(filedRows', reports'), Under', journal', Len(journal') - InHand')
            <4>1. Under' = m /\ journal' = journal /\ Len(journal') - InHand' = u
                BY <2>1, <2>3, <3>2
            <4> QED BY <3>5, <4>1
        <3>7. Len(reports') > 0 /\ reports'[Len(reports')].type = "stop"
            BY <1>2, <2>2, <3>1
        <3>8. \A i \in 1 .. Sent' : reports'[i].type # "stop"
            BY <1>1, <2>3, <3>1, <3>2
        <3>9. Len(journal') = Under' + forgone' + InHand'
            BY <1>1, <2>1, <2>3, <3>2
        <3> QED BY <1>1, <2>1, <2>3, <2>4, <3>6, <3>7, <3>8, <3>9 DEF ReportedInv
    <2>5. CASE reports' = reports /\ orch' = "silent"
        <3>1. Sent' = Sent /\ Under' = Under
            BY <2>1, <2>3, <2>5 DEF Sent, Under
        <3>2. Follows(Way(filedRows', reports'), Under', journal', Len(journal') - InHand')
            BY <1>1, <2>1, <2>3, <2>5, <3>1
        <3> QED BY <1>1, <2>1, <2>3, <2>5, <3>1, <3>2 DEF ReportedInv
    <2> QED BY <2>1, <2>4, <2>5
<1>8. CASE ReporterWrite
    <2>1. /\ reports # <<>> /\ reports' = Tail(reports) /\ UNCHANGED <<journal, pc, unfiled, forgone>>
          /\ IF Head(reports).type = "stop" THEN orch' = "over" /\ filedRows' = filedRows
             ELSE filedRows' = Append(filedRows, Head(reports).event) /\ orch' = orch
        BY <1>8 DEF ReporterWrite
    <2>2. /\ Len(reports) \in Nat \ {0} /\ Len(reports') = Len(reports) - 1 /\ Head(reports) = reports[1]
          /\ \A i \in 1 .. Len(reports) - 1 : reports'[i] = reports[i + 1]
        BY <1>1, <2>1, TailShifts
    <2>3. InHand' = InHand
        BY <2>1 DEF InHand
    <2>4. CASE Head(reports).type = "stop"
        <3>1. Sent = 0
            BY <1>1, <1>2, <2>2, <2>4
        <3>2. orch = "told" /\ Len(reports) = 1
            BY <1>1, <1>2, <2>2, <3>1 DEF Sent
        <3>3. reports' = <<>> /\ Len(reports') = 0 /\ orch' = "over" /\ filedRows' = filedRows
            <4>1. Sequential(reports')
                BY <1>1, <2>1, TailShifts
            <4>2. Len(reports') = 0
                BY <2>2, <3>2
            <4> QED BY <2>1, <2>4, <4>1, <4>2, EmptySeq DEF Sequential
        <3>4. Sent' = 0 /\ Under' = Len(filedRows) /\ Under = Len(filedRows)
            <4>1. Sent' = 0
                BY <3>3 DEF Sent
            <4>2. Len(filedRows') = Len(filedRows) /\ Len(filedRows) \in Nat
                BY <1>2, <3>3
            <4> QED BY <3>1, <4>1, <4>2 DEF Under
        <3> DEFINE way == Way(filedRows, reports)
                   more == Way(filedRows', reports')
                   m == Under
                   u == Len(journal) - InHand
        <3>5. Follows(way, m, journal, u) /\ m \in Nat /\ u \in Nat
            BY <1>1, <1>2
        <3>6. \A i \in 1 .. m : more[i] = way[i]
            <4>1. more = Way(filedRows, <<>>) /\ Len(<<>>) = 0
                BY <3>3
            <4>2. \A i \in 1 .. Len(filedRows) : Way(filedRows, <<>>)[i] = filedRows[i]
                <5>1. Len(<<>>) \in Nat
                    BY <4>1
                <5> QED BY <1>2, <5>1, WayIs
            <4>3. \A i \in 1 .. Len(filedRows) : Way(filedRows, reports)[i] = filedRows[i]
                BY <1>2, WayIs
            <4> HIDE DEF more
            <4> QED BY <3>4, <4>1, <4>2, <4>3
        <3>7. Follows(more, m, journal, u)
            <4> HIDE DEF way, more, m, u
            <4>1. m \in 0 .. m /\ u <= u
                BY <3>5
            <4> QED BY <3>5, <3>6, <4>1, FollowsLess
        <3>8. Follows(Way(filedRows', reports'), Under', journal', Len(journal') - InHand')
            <4>1. Under' = m /\ journal' = journal /\ Len(journal') - InHand' = u
                BY <2>1, <2>3, <3>4
            <4> QED BY <3>7, <4>1
        <3>9. Len(journal') = Under' + forgone' + InHand'
            BY <1>1, <2>1, <2>3, <3>4
        <3> QED BY <1>1, <2>1, <3>2, <3>3, <3>4, <3>8, <3>9 DEF ReportedInv
    <2>5. CASE Head(reports).type # "stop"
        <3>1. filedRows' = Append(filedRows, reports[1].event) /\ orch' = orch
            BY <2>1, <2>2, <2>5
        <3>2. /\ Len(filedRows') = Len(filedRows) + 1 /\ filedRows'[Len(filedRows) + 1] = reports[1].event
              /\ \A i \in 1 .. Len(filedRows) : filedRows'[i] = filedRows[i]
            BY <1>1, <3>1, AppendGrows
        <3>3. orch # "over" /\ (orch = "told" => Len(reports) > 1)
            BY <1>1, <1>2, <2>1, <2>2, <2>5
        <3>4. Sent > 0 /\ Sent' = Sent - 1
            BY <1>2, <2>2, <3>1, <3>3 DEF Sent
        <3>5. Under' = Under
            BY <1>2, <3>2, <3>4 DEF Under
        <3> DEFINE way == Way(filedRows, reports)
                   more == Way(filedRows', reports')
                   m == Under
                   u == Len(journal) - InHand
        <3>6. Follows(way, m, journal, u) /\ m \in Nat /\ u \in Nat
            BY <1>1, <1>2
        <3>7. \A i \in 1 .. m : more[i] = way[i]
            <4> DEFINE q == reports'
                       f == filedRows'
            <4>1. /\ Len(filedRows) \in Nat /\ Len(reports) \in Nat \ {0}
                  /\ Len(f) = Len(filedRows) + 1 /\ Len(q) = Len(reports) - 1
                  /\ (\A i \in 1 .. Len(filedRows) : f[i] = filedRows[i]) /\ f[Len(filedRows) + 1] = reports[1].event
                  /\ (\A i \in 1 .. Len(reports) - 1 : q[i] = reports[i + 1])
                BY <1>2, <2>2, <3>2
            <4> HIDE DEF q, f
            <4>2. \A i \in 1 .. Len(filedRows) + Len(reports) : Way(f, q)[i] = Way(filedRows, reports)[i]
                BY <4>1, WayFiled
            <4>3. 1 .. m \subseteq 1 .. Len(filedRows) + Len(reports)
                BY <1>2 DEF Under
            <4> HIDE DEF m
            <4> QED BY <4>2, <4>3 DEF q, f
        <3>8. Follows(more, m, journal, u)
            <4> HIDE DEF way, more, m, u
            <4>1. m \in 0 .. m /\ u <= u
                BY <3>6
            <4> QED BY <3>6, <3>7, <4>1, FollowsLess
        <3>9. Follows(Way(filedRows', reports'), Under', journal', Len(journal') - InHand')
            <4>1. Under' = m /\ journal' = journal /\ Len(journal') - InHand' = u
                BY <2>1, <2>3, <3>5
            <4> QED BY <3>8, <4>1
        <3>10. \A i \in 1 .. Sent' : reports'[i].type # "stop"
            <4> SUFFICES ASSUME NEW i \in 1 .. Sent - 1 PROVE reports'[i].type # "stop"
                BY <3>4
            <4>1. i \in Nat /\ i + 1 \in 1 .. Sent /\ reports'[i] = reports[i + 1]
                BY <1>2, <2>2, <3>4
            <4> QED BY <1>1, <4>1
        <3>11. orch' = "told" => Len(reports') > 0 /\ reports'[Len(reports')].type = "stop"
            BY <1>1, <1>2, <2>2, <3>1, <3>3
        <3>12. Len(journal') = Under' + forgone' + InHand'
            BY <1>1, <2>1, <2>3, <3>5
        <3> QED BY <1>1, <2>1, <3>1, <3>3, <3>9, <3>10, <3>11, <3>12 DEF ReportedInv
    <2> QED BY <2>4, <2>5
<1>9. CASE Publish \/ WriteJournal \/ SingleSave
    BY <1>1, <1>9 DEF Publish, WriteJournal, SingleSave
<1>10. CASE ProcessKilled
    <2>1. /\ orch = "term" /\ orch' = orch /\ pc' = "killed" /\ UNCHANGED <<journal, filedRows, unfiled>>
        BY <1>10 DEF ProcessKilled
    <2>2. PICK sent \in 0 .. Len(reports) :
              /\ reports' = SubSeq(reports, 1, sent)
              /\ forgone' = forgone + (Len(reports) - sent) + InHand
        BY <1>10 DEF ProcessKilled, InHand
    <2>3. Len(reports') = sent /\ \A i \in 1 .. sent : reports'[i] = reports[i]
        BY <1>1, <2>2, CutShrinks
    <2>4. Sent = Len(reports) /\ Sent' = sent /\ InHand' = 0 /\ Under = Len(filedRows) + Len(reports)
          /\ Under' = Len(filedRows) + sent
        BY <2>1, <2>3 DEF Sent, InHand, Under
    <2>5. Len(journal) = Under' + forgone' + InHand' /\ forgone' \in Nat
        BY <1>1, <1>2, <2>2, <2>4
    <2> DEFINE way == Way(filedRows, reports)
               more == Way(filedRows', reports')
               m == Under
               k == Under'
               u == Len(journal) - InHand
               w == Len(journal)
    <2>6. Follows(way, m, journal, u) /\ m \in Nat /\ k \in 0 .. m /\ u \in Nat /\ w \in Nat /\ u <= w
        BY <1>1, <1>2, <2>4
    <2>7. \A i \in 1 .. k : more[i] = way[i]
        <3> DEFINE q == reports'
        <3>1. Len(filedRows) \in Nat /\ sent \in Nat /\ Len(q) \in Nat /\ sent <= Len(reports) /\ sent <= Len(q)
              /\ (\A i \in 1 .. sent : q[i] = reports[i]) /\ k = Len(filedRows) + sent
            BY <1>2, <2>3, <2>4
        <3> HIDE DEF q, k
        <3>2. \A i \in 1 .. Len(filedRows) + sent : Way(filedRows, q)[i] = Way(filedRows, reports)[i]
            BY <1>2, <3>1, WaySame
        <3> QED BY <2>1, <3>1, <3>2 DEF q
    <2>8. Follows(more, k, journal, w)
        <3> HIDE DEF way, more, m, k, u, w
        <3> QED BY <2>6, <2>7, FollowsLess
    <2>9. Follows(Way(filedRows', reports'), Under', journal', Len(journal') - InHand')
        <3>1. journal' = journal /\ Len(journal') - InHand' = w
            BY <1>2, <2>1, <2>4
        <3> QED BY <2>8, <3>1
    <2>10. \A i \in 1 .. Sent' : reports'[i].type # "stop"
        BY <1>1, <1>2, <2>3, <2>4
    <2> QED BY <1>1, <2>1, <2>5, <2>9, <2>10 DEF ReportedInv
<1>11. CASE ReporterTerminated
    <2>1. /\ orch \in {"told", "silent"} /\ orch' = "over" /\ reports' = <<>> /\ forgone' = forgone + Sent
          /\ UNCHANGED <<journal, filedRows, pc, unfiled>>
        <3>1. forgone' = forgone + Len(reports) - (IF orch = "told" THEN 1 ELSE 0)
              /\ orch \in {"told", "silent"} /\ orch' = "over" /\ reports' = <<>>
              /\ UNCHANGED <<journal, filedRows, pc, unfiled>>
            BY <1>11 DEF ReporterTerminated
        <3> QED BY <1>1, <1>2, <3>1 DEF Sent
    <2>2. InHand = 0 /\ InHand' = 0 /\ Sent' = 0 /\ Under' = Len(filedRows) /\ pc # "report" /\ pc \in Ended
        <3>1. Len(<<>>) = 0
            OBVIOUS
        <3> QED BY <1>1, <1>2, <2>1, <3>1 DEF InHand, Sent, Under, Ended
    <2>3. Len(journal) = Under' + forgone' + InHand' /\ forgone' \in Nat
        BY <1>1, <1>2, <2>1, <2>2 DEF Under
    <2> DEFINE way == Way(filedRows, reports)
               more == Way(filedRows', reports')
               m == Under
               k == Len(filedRows)
               u == Len(journal) - InHand
    <2>4. Follows(way, m, journal, u) /\ m \in Nat /\ k \in 0 .. m /\ u \in Nat
        BY <1>1, <1>2 DEF Under
    <2>5. \A i \in 1 .. k : more[i] = way[i]
        <3>1. more = Way(filedRows, <<>>) /\ Len(<<>>) = 0
            BY <2>1
        <3>2. \A i \in 1 .. Len(filedRows) : Way(filedRows, <<>>)[i] = filedRows[i]
            <4>1. Len(<<>>) \in Nat
                BY <3>1
            <4> QED BY <1>2, <4>1, WayIs
        <3>3. \A i \in 1 .. Len(filedRows) : Way(filedRows, reports)[i] = filedRows[i]
            BY <1>2, WayIs
        <3> HIDE DEF more
        <3> QED BY <3>1, <3>2, <3>3
    <2>6. Follows(more, k, journal, u)
        <3> HIDE DEF way, more, m, k, u
        <3>1. u <= u
            BY <2>4
        <3> QED BY <2>4, <2>5, <3>1, FollowsLess
    <2>7. Follows(Way(filedRows', reports'), Under', journal', Len(journal') - InHand')
        <3>1. Under' = k /\ journal' = journal /\ Len(journal') - InHand' = u
            BY <2>1, <2>2
        <3> QED BY <2>6, <3>1
    <2> QED BY <1>1, <2>1, <2>2, <2>3, <2>7 DEF ReportedInv
<1> QED BY <1>3, <1>4, <1>5, <1>6, <1>7, <1>8, <1>9, <1>10, <1>11, SpeedSteps DEF Loud

LEMMA SpeedStep == SpeedInv /\ [SpeedNext]_speedVars => SpeedInv'
BY ProgramStep, JournalStep, ReportedStep DEF SpeedInv

\* What a program has measured is on the way it should be (EvidenceWriter.save_event,
\* reporter_main): the journal of the consumer is in the outbox; the older reporter
\* has filed rows of the journal in their order, and when it has ended, all that were
\* not given up by a full queue, a kill or its own end.
THEOREM NothingUnreportedHolds == SpeedSpec => []NothingUnreported
<1>1. SpeedInv => NothingUnreported
    <2> SUFFICES ASSUME SpeedInv
                 PROVE  /\ InOrder(filedRows, journal)
                        /\ orch = "over" => Len(filedRows) + forgone = Len(journal)
        BY DEF SpeedInv, JournalInv, NothingUnreported
    <2>1. ProgramInv /\ ReportedInv
        BY DEF SpeedInv
    <2>2. CASE setup.host # "process"
        <3>1. filedRows = <<>> /\ orch = "run" /\ DOMAIN <<>> = {}
            BY <2>1, <2>2 DEF ProgramInv
        <3>2. [i \in {} |-> 0] \in [{} -> DOMAIN journal]
            OBVIOUS
        <3> QED BY <3>1, <3>2 DEF InOrder
    <2>3. CASE setup.host = "process"
        <3>1. Sequential(filedRows) /\ Sequential(journal) /\ Sequential(reports)
            BY <2>1, <2>3 DEF ProgramInv
        <3>2. /\ Len(filedRows) \in Nat /\ Len(journal) \in Nat /\ Len(reports) \in Nat
              /\ DOMAIN filedRows = 1 .. Len(filedRows) /\ DOMAIN journal = 1 .. Len(journal)
            BY <3>1, AppendGrows
        <3>3. /\ orch = "told" => Len(reports) > 0
              /\ orch = "over" => reports = <<>> /\ pc \in Ended
              /\ forgone \in Nat /\ Len(journal) = Under + forgone + InHand
              /\ Follows(Way(filedRows, reports), Under, journal, Len(journal) - InHand)
            BY <2>1, <2>3 DEF ReportedInv
        <3>4. Sent \in Nat /\ InHand \in {0, 1}
            BY <3>2, <3>3 DEF Sent, InHand
        <3> DEFINE way == Way(filedRows, reports)
                   m == Under
                   k == Len(filedRows)
                   u == Len(journal) - InHand
                   w == Len(journal)
        <3>5. Follows(way, m, journal, u) /\ m \in Nat /\ k \in 0 .. m /\ u \in Nat /\ w \in Nat /\ u <= w
            <4>1. m \in Nat /\ k \in 0 .. m
                BY <3>2, <3>4 DEF Under
            <4> QED BY <3>2, <3>3, <3>4, <4>1
        <3>6. \A i \in 1 .. k : filedRows[i] = way[i]
            BY <3>2, WayIs
        <3>7. Follows(filedRows, k, journal, w)
            <4> HIDE DEF way, m, k, u, w
            <4> QED BY <3>5, <3>6, FollowsLess
        <3>8. InOrder(filedRows, journal)
            BY <3>2, <3>7 DEF InOrder, Follows
        <3>9. ASSUME orch = "over" PROVE Len(filedRows) + forgone = Len(journal)
            <4>1. Sent = 0 /\ InHand = 0
                <5>1. Len(<<>>) = 0
                    OBVIOUS
                <5> QED BY <3>3, <3>9, <5>1 DEF Sent, InHand, Ended
            <4> QED BY <3>2, <3>3, <4>1 DEF Under
        <3> QED BY <3>8, <3>9
    <2> QED BY <2>2, <2>3
<1> QED BY <1>1, SpeedStart, SpeedStep, PTL DEF SpeedSpec

-----------------------------------------------------------------------------
(*************************** one passage, one report ***********************)
(* Why a passage of a file is reported once.  The tracks are lined up: a      *)
(* younger one is ahead and was seen later, so that of all tracks only the    *)
(* youngest is timed, and a passage begins after every reported one is over.  *)
(* The decider counts every frame since the passage was measured until it     *)
(* reports; then it cools down, on the clock, for longer than the frames in   *)
(* which the speed is repeated may take.  What a shut gate forgets is of no    *)
(* harm when every frame is looked at: a new point is needed for a passage.   *)
(* With a stride old points are timed again, so that only what was reported   *)
(* since the gate was shut is kept in mind.                                   *)

\* A share of a number is at most the number.
LEMMA ShareFits == ASSUME NEW a \in Nat, NEW g \in Nat, NEW w \in Nat \ {0}, g <= w
                   PROVE  (a * g) \div w \in Nat /\ (a * g) \div w <= a
<1>1. a * g \in Nat /\ a * g <= a * w
    OBVIOUS
<1> DEFINE z == a * g
<1>2. z \div w \in Nat /\ (z \div w) * w <= z
    BY <1>1
<1> DEFINE y == z \div w
<1>3. ASSUME y > a PROVE FALSE
    <2>1. y >= a + 1 /\ y \in Nat
        BY <1>2, <1>3
    <2>2. y * w >= (a + 1) * w
        <3> HIDE DEF y
        <3> QED BY <2>1
    <2>3. (a + 1) * w = a * w + w
        OBVIOUS
    <2> HIDE DEF y, z
    <2>4. y * w <= z /\ z <= a * w /\ y * w >= a * w + w /\ a * w \in Nat /\ z \in Nat /\ y * w \in Int
        BY <1>1, <1>2, <2>1, <2>2, <2>3 DEF y, z
    <2> QED BY <2>4
<1> QED BY <1>2, <1>3

\* What leaves no rest is a multiple, and the reverse.
LEMMA IsMultiple == ASSUME NEW a \in Nat, NEW s \in Nat \ {0}, a % s = 0 PROVE \E d \in Int : a = d * s
BY SMTT(30)

LEMMA MultipleIs == ASSUME NEW a \in Nat, NEW s \in Nat \ {0}, NEW d \in Int, a = d * s PROVE a % s = 0
BY SMTT(30)

\* The frames that are looked at lie a stride apart.
LEMMA NextMultiple ==
    ASSUME NEW a \in Nat, NEW s \in Nat \ {0}, a % s = 0, NEW b \in Nat, b <= a + s, b % s # 0
    PROVE  b < a + s
<1> SUFFICES ASSUME b = a + s PROVE FALSE
    OBVIOUS
<1>1. PICK d \in Int : a = d * s
    BY IsMultiple
<1>2. b = (d + 1) * s /\ d + 1 \in Int
    BY <1>1
<1>3. b % s = 0
    BY <1>2, MultipleIs
<1> QED BY <1>3

Point     == [f : Nat, x : Nat]
EstRecord == [stage : {"first", "second", "done"}, second : {"none", "A", "B"}, first : Int, last : Int,
              pass : {<<>>} \cup (Int \X Int), done : Nat]
DecRecord == [over : Nat, reported : BOOLEAN, at : Nat]

\* All the passages of P are over at a time.
Over(P, time) == \A w \in P : w \in Int \X Int /\ w[2] <= time

\* What the estimator holds when q is the last point of the track: a second line is
\* looked for after every passage in P, and a measured one is in P or after them all.
EstFits(e, q, P) ==
  /\ e \in EstRecord
  /\ e.last <= q.f
  /\ e.stage = "second" => e.first <= 2 * q.f /\ Over(P, e.first)
  /\ e.stage = "done" => /\ e.pass \in Int \X Int /\ e.pass[1] < e.pass[2] /\ e.pass[2] <= 2 * e.done
                         /\ e.done <= q.f
                         /\ \A w \in P : w = e.pass \/ w[2] <= e.pass[1]

Fast(e) == Measured(e).valid /\ TooFast(Measured(e))

\* What the decider holds after frame now: nothing before the passage is measured; then
\* it has counted every frame since, or it has reported.
DecFits(e, d, now, P) ==
  /\ d \in DecRecord
  /\ e.stage # "done" => d.over = 0 /\ ~d.reported
  /\ e.stage = "done" =>
       /\ e.pass \in P => d.reported
       /\ d.over + e.done <= now + 1
       /\ Fast(e) /\ ~d.reported => d.over + e.done = now + 1 /\ d.over < ConfirmFrames

\* When it has reported: not before it could, and on the clock, which shows time in frame
\* now, no longer ago than so many frames may take.
Cools(e, d, now, time) ==
  e.stage = "done" /\ d.reported =>
    /\ e.done + ConfirmFrames <= now + 1
    /\ time - d.at <= Slowest * (now + 1 - (e.done + ConfirmFrames))

\* More frames take longer.
LEMMA SlowerIs == ASSUME NEW a \in Nat PROVE Slowest * a \in Nat /\ Slowest * (a + 1) = Slowest * a + Slowest
BY RuntimeAssumption

LEMMA SlowerFits == ASSUME NEW a \in Nat, NEW b \in Nat, a <= b PROVE Slowest * a <= Slowest * b
<1>1. Slowest \in Nat
    BY RuntimeAssumption
<1> QED BY <1>1

\* A frame later.
LEMMA CoolsLater ==
    ASSUME NEW e, NEW d \in DecRecord, NEW now \in Nat, NEW time \in Nat, NEW later \in Nat,
           later - time <= Slowest, Cools(e, d, now, time), e \in EstRecord
    PROVE  Cools(e, d, now + 1, later)
<1> SUFFICES ASSUME e.stage = "done", d.reported
             PROVE  /\ e.done + ConfirmFrames <= now + 2
                    /\ later - d.at <= Slowest * ((now + 1) + 1 - (e.done + ConfirmFrames))
    BY DEF Cools
<1> DEFINE a == now + 1 - (e.done + ConfirmFrames)
           at == d.at
<1>1. e.done \in Nat /\ ConfirmFrames \in Nat /\ at \in Nat /\ Slowest \in Nat
    BY MeasurementAssumption, RuntimeAssumption DEF EstRecord, DecRecord
<1>2. e.done + ConfirmFrames <= now + 1 /\ time - at <= Slowest * a
    BY DEF Cools
<1>3. a \in Nat /\ (now + 1) + 1 - (e.done + ConfirmFrames) = a + 1
    BY <1>1, <1>2
<1> HIDE DEF a, at
<1>4. Slowest * a \in Nat /\ Slowest * (a + 1) = Slowest * a + Slowest
    BY <1>3, SlowerIs
<1>5. later - at <= Slowest * (a + 1)
    BY <1>1, <1>2, <1>4
<1> QED BY <1>1, <1>2, <1>3, <1>5 DEF at

\* A line is crossed between the two points.
LEMMA CrossTimeBetween ==
    ASSUME NEW p \in Point, NEW q \in Point, NEW line \in Nat, p.f <= q.f, Crosses(p, q, line)
    PROVE  /\ CrossTime(p, q, line) \in Int
           /\ 2 * p.f <= CrossTime(p, q, line) /\ CrossTime(p, q, line) <= 2 * q.f
<1>0. p.f \in Nat /\ p.x \in Nat /\ q.f \in Nat /\ q.x \in Nat
    BY DEF Point
<1>1. CASE p.x = line \/ q.x = line
    BY <1>0, <1>1 DEF CrossTime
<1>2. CASE p.x # line /\ q.x # line
    <2> DEFINE g == Gap(line, p.x)
               w == Gap(q.x, p.x)
               a == 2 * (q.f - p.f)
    <2>1. g \in Nat /\ w \in Nat \ {0} /\ g <= w
        BY <1>0, <1>2 DEF Crosses, Gap
    <2>2. a \in Nat /\ 2 * p.f + a = 2 * q.f
        BY <1>0
    <2>3. CrossTime(p, q, line) = 2 * p.f + (a * g) \div w
        BY <1>2 DEF CrossTime
    <2> HIDE DEF g, w, a
    <2>4. (a * g) \div w \in Nat /\ (a * g) \div w <= a
        BY <2>1, <2>2, ShareFits
    <2> DEFINE share == (a * g) \div w
    <2>5. CrossTime(p, q, line) = 2 * p.f + share /\ share \in Nat /\ share <= a
        BY <2>3, <2>4
    <2> HIDE DEF share
    <2> QED BY <1>0, <2>2, <2>5
<1> QED BY <1>1, <1>2

\* Where the lines are.
LEMMA LinesAre == LineAt("A") \in Nat /\ LineAt("B") \in Nat /\ \A l : LineAt(l) \in Nat
BY MeasurementAssumption DEF LineAt

\* A new point: what is measured then is measured after every passage in P.
LEMMA FirstAfter ==
    ASSUME NEW e \in EstRecord, e.stage = "first", NEW p \in Point, NEW q \in Point, p.f <= q.f,
           NEW mode, NEW P, NEW past, past = 2 * p.f, Over(P, past), e.last <= q.f
    PROVE  /\ EstFits(FindFirst(e, p, q, mode), q, P)
           /\ FindFirst(e, p, q, mode).stage \in {"first", "second"}
           /\ FindFirst(e, p, q, mode).last = e.last
<1> DEFINE crossed == {l \in Firsts(mode) : Crosses(p, q, LineAt(l))}
           first   == IF "A" \in crossed THEN "A" ELSE "B"
           at      == CrossTime(p, q, LineAt(first))
<1>1. CASE crossed = {}
    <2>1. FindFirst(e, p, q, mode) = e
        BY <1>1 DEF FindFirst
    <2> QED BY <2>1 DEF EstFits
<1>2. CASE crossed # {}
    <2>0. Firsts(mode) \in SUBSET {"A", "B"}
        BY DEF Firsts
    <2>1. first \in crossed
        BY <1>2, <2>0
    <2>2. Crosses(p, q, LineAt(first)) /\ LineAt(first) \in Nat
        BY <2>1, LinesAre
    <2>3. FindFirst(e, p, q, mode) = [e EXCEPT !.stage = "second", !.second = Other(first), !.first = at]
        BY <1>2 DEF FindFirst
    <2>4. at \in Int /\ 2 * p.f <= at /\ at <= 2 * q.f
        BY <2>2, CrossTimeBetween
    <2>5. Other(first) \in {"none", "A", "B"}
        BY DEF Other
    <2> HIDE DEF first, at, crossed
    <2> DEFINE new == FindFirst(e, p, q, mode)
    <2>6. /\ new \in EstRecord /\ new.stage = "second" /\ new.first = at /\ new.last = e.last
        BY <2>3, <2>4, <2>5 DEF EstRecord
    <2> HIDE DEF new
    <2>7. Over(P, at)
        <3> SUFFICES ASSUME NEW w \in P PROVE w \in Int \X Int /\ w[2] <= at
            BY DEF Over
        <3>1. w \in Int \X Int /\ w[2] \in Int /\ w[2] <= 2 * p.f /\ p.f \in Nat
            BY DEF Point, Over
        <3> QED BY <2>4, <3>1
    <2> QED BY <2>4, <2>6, <2>7 DEF EstFits, new
<1> QED BY <1>1, <1>2

\* The second line: a measured passage ends after every one in P.
LEMMA SecondAfter ==
    ASSUME NEW e \in EstRecord, e.stage = "second", NEW p \in Point, NEW q \in Point, p.f <= q.f,
           NEW P, Over(P, e.first), e.last <= q.f, e.first <= 2 * q.f
    PROVE  /\ EstFits(FindSecond(e, p, q), q, P)
           /\ FindSecond(e, p, q).stage \in {"second", "done"}
           /\ FindSecond(e, p, q).last = e.last
           /\ FindSecond(e, p, q).stage = "done" =>
                  FindSecond(e, p, q).done = q.f /\ FindSecond(e, p, q).pass \notin P
<1> DEFINE at  == CrossTime(p, q, LineAt(e.second))
           new == FindSecond(e, p, q)
<1>1. CASE new = e
    BY <1>1 DEF EstFits
<1>2. CASE new # e
    <2>1. /\ Crosses(p, q, LineAt(e.second)) /\ at - e.first > 0
          /\ new = [e EXCEPT !.stage = "done", !.pass = <<e.first, at>>, !.done = q.f]
        BY <1>2 DEF FindSecond
    <2>2. LineAt(e.second) \in Nat
        BY LinesAre
    <2>3. at \in Int /\ at <= 2 * q.f
        BY <2>1, <2>2, CrossTimeBetween
    <2>4. e.first \in Int /\ q.f \in Nat
        BY DEF EstRecord, Point
    <2> HIDE DEF at, new
    <2>5. e.first < at
        BY <2>1, <2>3, <2>4
    <2> DEFINE pair == <<e.first, at>>
    <2>6. pair \in Int \X Int /\ pair[1] = e.first /\ pair[2] = at
        BY <2>3, <2>4
    <2>7. /\ new = [e EXCEPT !.stage = "done", !.pass = pair, !.done = q.f]
        BY <2>1
    <2> HIDE DEF pair
    <2>8. /\ new \in EstRecord /\ new.stage = "done" /\ new.pass = pair /\ new.done = q.f /\ new.last = e.last
        BY <2>4, <2>6, <2>7 DEF EstRecord
    <2>9. \A w \in P : w[2] <= pair[1] /\ w # pair
        <3> TAKE w \in P
        <3>1. w[2] \in Int /\ w[2] <= e.first
            BY DEF Over
        <3> QED BY <2>3, <2>4, <2>5, <2>6, <3>1
    <2>10. EstFits(new, q, P)
        BY <2>3, <2>4, <2>5, <2>6, <2>8, <2>9 DEF EstFits
    <2> QED BY <2>8, <2>9, <2>10 DEF new
<1> QED BY <1>1, <1>2

Repeated(e, q) == IF e.stage = "done" /\ Within(e, q.f) THEN Measured(e) ELSE Nothing

\* What the estimator gives for a new point, from what it held.
Anew(r, e, q, P) ==
  /\ EstFits(r.state, q, P) /\ r.result = Repeated(r.state, q)
  /\ e.stage = "done" => r.state = e
  /\ e.stage # "done" /\ r.state.stage = "done" => r.state.done = q.f /\ r.state.pass \notin P
  /\ e.stage = "first" => r.state.stage # "done"
  /\ r.state.stage # "done" => r.state.last = q.f

\* The estimator at a new point q, after p.
LEMMA TimedAnew ==
    ASSUME NEW P, NEW p \in Point, NEW q \in Point, p.f < q.f, NEW past, past = 2 * p.f, Over(P, past),
           NEW e, EstFits(e, p, P), NEW mode,
           NEW track, Len(track.hist) >= 2, p = track.hist[Len(track.hist) - 1], q = Last(track.hist)
    PROVE  Anew(TwoLines(e, track, mode), e, q, P)
<1> DEFINE r == TwoLines(e, track, mode)
<1> SUFFICES /\ EstFits(r.state, q, P) /\ r.result = Repeated(r.state, q)
             /\ e.stage = "done" => r.state = e
             /\ e.stage # "done" /\ r.state.stage = "done" => r.state.done = q.f /\ r.state.pass \notin P
             /\ e.stage = "first" => r.state.stage # "done"
             /\ r.state.stage # "done" => r.state.last = q.f
    BY DEF Anew
<1>0. p.f \in Nat /\ q.f \in Nat /\ e \in EstRecord /\ e.last \in Int /\ e.last <= p.f /\ e.first \in Int
    BY DEF EstFits, EstRecord, Point
<1>1. CASE e.stage = "done"
    <2>1. r.state = e /\ r.result = Repeated(e, q)
        BY <1>1 DEF TwoLines, Repeated
    <2>2. EstFits(e, q, P)
        <3>1. e.done \in Nat /\ e.done <= p.f
            BY <1>1 DEF EstFits, EstRecord
        <3>2. e.last <= q.f /\ e.done <= q.f
            BY <1>0, <3>1
        <3> QED BY <1>0, <1>1, <3>2 DEF EstFits
    <2> QED BY <1>1, <2>1, <2>2
<1>2. CASE e.stage # "done"
    <2> DEFINE seen == [e EXCEPT !.last = q.f]
               next == IF e.stage = "first" THEN FindFirst(seen, p, q, mode) ELSE FindSecond(seen, p, q)
    <2>1. r.state = next /\ r.result = (IF next.stage = "done" THEN Measured(next) ELSE Nothing)
        BY <1>0, <1>2 DEF TwoLines
    <2>2. /\ seen \in EstRecord /\ seen.last = q.f /\ seen.stage = e.stage /\ seen.first = e.first
        <3>1. q.f \in Int /\ e \in EstRecord
            BY <1>0
        <3> QED BY <3>1 DEF EstRecord
    <2>3. e.stage \in {"first", "second"}
        BY <1>0, <1>2 DEF EstRecord
    <2>4. p.f <= q.f /\ seen.last <= q.f
        BY <1>0, <2>2
    <2> HIDE DEF seen
    <2>6. CASE e.stage = "first"
        <3>0. next = FindFirst(seen, p, q, mode) /\ seen.stage = "first"
            BY <2>2, <2>6
        <3> HIDE DEF next
        <3>1. /\ EstFits(FindFirst(seen, p, q, mode), q, P)
              /\ FindFirst(seen, p, q, mode).stage \in {"first", "second"}
              /\ FindFirst(seen, p, q, mode).last = seen.last
            BY <2>2, <2>4, <3>0, FirstAfter
        <3> QED BY <2>1, <2>2, <2>6, <3>0, <3>1 DEF Repeated
    <2>7. CASE e.stage = "second"
        <3>1. next = FindSecond(seen, p, q)
            BY <2>7
        <3>2. seen.stage = "second" /\ seen.first <= 2 * q.f
            BY <1>0, <2>2, <2>7 DEF EstFits
        <3>3. Over(P, seen.first)
            BY <2>2, <2>7 DEF EstFits
        <3> HIDE DEF next
        <3>4. /\ EstFits(FindSecond(seen, p, q), q, P)
              /\ FindSecond(seen, p, q).stage \in {"second", "done"}
              /\ FindSecond(seen, p, q).last = seen.last
              /\ FindSecond(seen, p, q).stage = "done" =>
                     FindSecond(seen, p, q).done = q.f /\ FindSecond(seen, p, q).pass \notin P
            BY <2>2, <2>4, <3>2, <3>3, SecondAfter
        <3>5. EmitFrames \in Nat
            BY MeasurementAssumption
        <3>6. next.stage = "done" => Within(next, q.f)
            BY <1>0, <3>1, <3>4, <3>5 DEF Within
        <3> QED BY <2>1, <2>2, <2>7, <3>1, <3>4, <3>6 DEF Repeated
    <2> QED BY <2>3, <2>6, <2>7
<1> QED BY <1>1, <1>2

\* The count of the decider fits the passage that is measured now.
LEMMA CountFits ==
    ASSUME NEW now \in Nat, NEW P, NEW e, NEW d, DecFits(e, d, now, P), NEW s,
           e.stage = "done" => s = e,
           e.stage # "done" /\ s.stage = "done" => s.done = now + 1 /\ s.pass \notin P
    PROVE  DecFits(s, d, now, P) /\ \A frame, time : Cools(e, d, frame, time) => Cools(s, d, frame, time)
<1>1. CASE e.stage = "done"
    BY <1>1
<1>2. CASE e.stage # "done"
    <2>1. d.over = 0 /\ d.reported = FALSE /\ d \in DecRecord
        BY <1>2 DEF DecFits, DecRecord
    <2>2. ConfirmFrames \in Nat \ {0}
        BY MeasurementAssumption
    <2> QED BY <1>2, <2>1, <2>2 DEF DecFits, Cools
<1> QED BY <1>1, <1>2

\* The estimator without a new point.
LEMMA TimedAgain ==
    ASSUME NEW e, NEW q, NEW track, NEW mode, q = Last(track.hist), e.stage \in {"first", "second", "done"},
           Len(track.hist) < 2 => e.stage # "done",
           Len(track.hist) >= 2 /\ e.stage # "done" => e.last = q.f, q.f \in Nat, Len(track.hist) \in Nat
    PROVE  TwoLines(e, track, mode).state = e /\ TwoLines(e, track, mode).result = Repeated(e, q)
<1>1. CASE Len(track.hist) < 2
    BY <1>1 DEF TwoLines, Repeated
<1>2. CASE Len(track.hist) >= 2 /\ e.stage = "done"
    BY <1>2 DEF TwoLines, Repeated
<1>3. CASE Len(track.hist) >= 2 /\ e.stage # "done"
    <2>1. e.last = q.f /\ q.f <= e.last
        BY <1>3
    <2> QED BY <1>3, <2>1 DEF TwoLines, Repeated
<1> QED BY <1>1, <1>2, <1>3

\* What the decider counts, and whether it is cooling.
Counting(d, result) == IF result.valid /\ TooFast(result) THEN Min({d.over + 1, ConfirmFrames}) ELSE 0
Cooling(d, now) == d.reported /\ now - d.at < Cooldown

Verdict(v, d, result, now) ==
  /\ v.report \in BOOLEAN
  /\ v.report <=> Counting(d, result) >= ConfirmFrames /\ ~Cooling(d, now)
  /\ v.report => v.state = [over |-> Counting(d, result), reported |-> TRUE, at |-> now]
  /\ ~v.report => v.state = [d EXCEPT !.over = Counting(d, result)]

\* The verdict is that of the decider.
LEMMA DecideIs == ASSUME NEW d, NEW result, NEW now PROVE Verdict(Decide(d, result, now), d, result, now)
<1> DEFINE v == Decide(d, result, now)
<1>1. v.report \in BOOLEAN
    BY DEF Decide
<1>2. v.report <=> Counting(d, result) >= ConfirmFrames /\ ~Cooling(d, now)
    BY DEF Decide, Counting, Cooling
<1>3. ASSUME Counting(d, result) >= ConfirmFrames, ~Cooling(d, now)
      PROVE  v.state = [over |-> Counting(d, result), reported |-> TRUE, at |-> now]
    BY <1>3 DEF Decide, Counting, Cooling
<1>4. ASSUME ~(Counting(d, result) >= ConfirmFrames /\ ~Cooling(d, now))
      PROVE  v.state = [d EXCEPT !.over = Counting(d, result)]
    BY <1>4 DEF Decide, Counting, Cooling
<1> HIDE DEF v
<1>5. Verdict(v, d, result, now)
    BY <1>1, <1>2, <1>3, <1>4 DEF Verdict
<1> QED BY <1>5 DEF v

\* The three numbers fit, for a stride: the frames in which a reported speed may still
\* be repeated take less than the cooldown.
NumbersFit(stride) == /\ ConfirmFrames <= EmitFrames + 1
                      /\ Slowest * (EmitFrames + stride - ConfirmFrames) < Cooldown

\* The decider in the next frame: a passage is reported at most once.
LEMMA DecidedOnce ==
    ASSUME NEW now \in Nat, NEW P, NEW q \in Point, NEW e, EstFits(e, q, P), NEW d, DecFits(e, d, now, P),
           NEW stride \in Nat \ {0}, NumbersFit(stride), q.f <= now + 1,
           e.stage = "done" => now + 1 < q.f + stride,
           NEW time \in Nat, Cools(e, d, now + 1, time),
           NEW v, Verdict(v, d, Repeated(e, q), time)
    PROVE  /\ v.report \in BOOLEAN
           /\ v.report => e.stage = "done" /\ e.pass \notin P
           /\ DecFits(e, v.state, now + 1, P \cup {w \in {e.pass} : v.report})
           /\ Cools(e, v.state, now + 1, time)
<1> DEFINE res    == Repeated(e, q)
           over   == Counting(d, res)
           Pnew   == P \cup {w \in {e.pass} : v.report}
<1>1. /\ v.report \in BOOLEAN
      /\ v.report <=> over >= ConfirmFrames /\ ~Cooling(d, time)
      /\ v.report => v.state = [over |-> over, reported |-> TRUE, at |-> time]
      /\ ~v.report => v.state = [d EXCEPT !.over = over]
    BY DEF Verdict
<1>2. /\ ConfirmFrames \in Nat \ {0} /\ EmitFrames \in Nat /\ Cooldown \in Nat /\ q.f \in Nat
      /\ ConfirmFrames <= EmitFrames + 1 /\ Slowest * (EmitFrames + stride - ConfirmFrames) < Cooldown
    BY MeasurementAssumption DEF NumbersFit, Point
<1>3. d \in DecRecord /\ d.over \in Nat /\ d.at \in Nat /\ d.reported \in BOOLEAN /\ e.stage \in {"first", "second", "done"}
    BY DEF DecFits, DecRecord, EstFits, EstRecord
<1>4. Nothing.valid = FALSE
    BY DEF Nothing
<1>5. over \in Nat /\ over <= d.over + 1 /\ over <= ConfirmFrames
    <2> DEFINE least == Min({d.over + 1, ConfirmFrames})
    <2>1. least \in {d.over + 1, ConfirmFrames} /\ least <= d.over + 1 /\ least <= ConfirmFrames
        <3>1. d.over + 1 \in Int /\ ConfirmFrames \in Int
            BY <1>2, <1>3
        <3> QED BY <3>1, MinOfTwo
    <2>2. over = least \/ over = 0
        BY DEF Counting
    <2> HIDE DEF over, least
    <2> QED BY <1>2, <1>3, <2>1, <2>2
<1>6. ~(res.valid /\ TooFast(res)) => over = 0
    BY DEF Counting
<1>7. res.valid /\ TooFast(res) => e.stage = "done" /\ Within(e, q.f) /\ Fast(e) /\ (d.over < ConfirmFrames => over = d.over + 1)
    <2> SUFFICES ASSUME res.valid /\ TooFast(res)
                 PROVE  e.stage = "done" /\ Within(e, q.f) /\ Fast(e) /\ (d.over < ConfirmFrames => over = d.over + 1)
        OBVIOUS
    <2>1. e.stage = "done" /\ Within(e, q.f)
        BY <1>4 DEF Repeated
    <2>2. res = Measured(e)
        BY <2>1 DEF Repeated
    <2>3. over = Min({d.over + 1, ConfirmFrames})
        BY DEF Counting
    <2> HIDE DEF over, res
    <2>4. d.over < ConfirmFrames => over = d.over + 1
        <3> DEFINE next == d.over + 1
        <3>1. next \in Int /\ ConfirmFrames \in Int /\ d.over \in Int
            BY <1>2, <1>3
        <3>2. over \in {next, ConfirmFrames} /\ over <= next /\ over <= ConfirmFrames
            <4> HIDE DEF next
            <4> QED BY <2>3, <3>1, MinOfTwo DEF next
        <3> QED BY <3>1, <3>2
    <2> QED BY <2>1, <2>2, <2>4 DEF Fast
<1>8. e.stage = "done" /\ Within(e, q.f) /\ Fast(e) => res.valid /\ TooFast(res)
    BY DEF Repeated, Fast
<1>9. v.state \in DecRecord
    <2> HIDE DEF over
    <2>1. CASE v.report
        <3>1. v.state = [over |-> over, reported |-> TRUE, at |-> time]
            BY <1>1, <2>1
        <3> QED BY <1>5, <3>1 DEF DecRecord
    <2>2. CASE ~v.report
        <3>1. v.state = [d EXCEPT !.over = over]
            BY <1>1, <2>2
        <3> QED BY <1>3, <1>5, <3>1 DEF DecRecord
    <2> QED BY <2>1, <2>2
<1>10. /\ v.state.over = over /\ (v.report => v.state.reported = TRUE /\ v.state.at = time)
       /\ (~v.report => v.state.reported = d.reported /\ v.state.at = d.at)
    <2> HIDE DEF over
    <2> QED BY <1>1, <1>3 DEF DecRecord
<1> HIDE DEF over
<1>11. CASE e.stage # "done"
    <2>1. over = 0 /\ ~v.report /\ d.reported = FALSE
        BY <1>1, <1>2, <1>3, <1>6, <1>7, <1>11 DEF DecFits
    <2>2. DecFits(e, v.state, now + 1, Pnew) /\ Cools(e, v.state, now + 1, time)
        BY <1>9, <1>10, <1>11, <2>1 DEF DecFits, Cools
    <2> QED BY <1>1, <2>1, <2>2
<1>12. CASE e.stage = "done"
    <2>1. e.done \in Nat /\ e.done <= q.f
        BY <1>12 DEF EstFits, EstRecord
    <2>2. /\ e.pass \in P => d.reported
          /\ d.over + e.done <= now + 1
          /\ Fast(e) /\ ~d.reported => d.over + e.done = now + 1 /\ d.over < ConfirmFrames
        BY <1>12 DEF DecFits
    <2>6. ASSUME ~v.report PROVE Cools(e, v.state, now + 1, time)
        BY <1>10, <2>6 DEF Cools
    <2>7. now + 1 < q.f + stride
        BY <1>12
    <2>3. CASE ~Fast(e)
        <3>1. over = 0 /\ ~v.report
            BY <1>1, <1>2, <1>6, <1>7, <2>3
        <3>2. Pnew = P
            BY <1>1, <3>1
        <3>3. DecFits(e, v.state, now + 1, P)
            BY <1>2, <1>9, <1>10, <1>12, <2>1, <2>2, <2>3, <3>1 DEF DecFits
        <3> QED BY <1>1, <2>6, <3>1, <3>2, <3>3
    <2>4. CASE Fast(e) /\ d.reported
        <3>1. ~v.report
            <4> SUFFICES ASSUME over >= ConfirmFrames PROVE Cooling(d, time)
                BY <1>1
            <4>1. Within(e, q.f)
                BY <1>2, <1>6, <1>7
            <4>2. q.f <= e.done + EmitFrames
                BY <4>1 DEF Within
            <4>3. time - d.at < Cooldown
                <5> DEFINE a == (now + 1) + 1 - (e.done + ConfirmFrames)
                           b == EmitFrames + stride - ConfirmFrames
                <5>1. e.done + ConfirmFrames <= (now + 1) + 1 /\ time - d.at <= Slowest * a
                    BY <1>12, <2>4 DEF Cools
                <5>2. a \in Nat /\ b \in Nat /\ a <= b
                    BY <1>2, <2>1, <2>7, <4>2, <5>1
                <5>3. Slowest * b < Cooldown
                    BY <1>2
                <5> HIDE DEF a, b
                <5>4. Slowest * a \in Nat /\ Slowest * b \in Nat /\ Slowest * a <= Slowest * b
                    BY <5>2, SlowerFits, SlowerIs
                <5> QED BY <1>2, <1>3, <5>1, <5>3, <5>4
            <4>4. d.reported
                BY <2>4
            <4> QED BY <4>3, <4>4 DEF Cooling
        <3>2. Pnew = P
            BY <1>1, <3>1
        <3>3. over + e.done <= now + 2
            BY <1>3, <1>5, <2>1, <2>2
        <3>4. DecFits(e, v.state, now + 1, P)
            <4>1. v.state.reported = d.reported /\ v.state.at = d.at /\ v.state.over = over
                BY <1>10, <3>1
            <4>2. e.pass \in P => v.state.reported
                BY <2>2, <4>1
            <4>3. v.state.reported
                BY <2>2, <2>4, <4>1
            <4>4. over + e.done <= (now + 1) + 1
                BY <3>3
            <4> QED BY <1>9, <1>12, <4>1, <4>2, <4>3, <4>4 DEF DecFits
        <3> QED BY <1>1, <2>6, <3>1, <3>2, <3>4
    <2>5. CASE Fast(e) /\ ~d.reported
        <3>1. d.over + e.done = now + 1 /\ d.over < ConfirmFrames /\ e.pass \notin P
            BY <2>2, <2>5
        <3>2. q.f <= e.done + EmitFrames
            BY <1>2, <1>3, <2>1, <3>1
        <3>3. Within(e, q.f)
            BY <3>2 DEF Within
        <3>4. over = d.over + 1
            BY <1>7, <1>8, <1>12, <2>5, <3>1, <3>3
        <3>5. CASE v.report
            <4>1. over = ConfirmFrames
                BY <1>1, <1>2, <1>5, <3>5
            <4>2. v.state.reported = TRUE /\ v.state.at = time /\ v.state.over = over
                BY <1>10, <3>5
            <4>3. e.done + ConfirmFrames = now + 2 /\ over + e.done <= now + 2
                BY <1>2, <1>3, <2>1, <3>1, <3>4, <4>1
            <4>4. DecFits(e, v.state, now + 1, Pnew)
                BY <1>9, <1>12, <4>2, <4>3 DEF DecFits
            <4>5. Cools(e, v.state, now + 1, time)
                <5> DEFINE a == (now + 1) + 1 - (e.done + ConfirmFrames)
                <5>1. a = 0 /\ time - v.state.at = 0
                    BY <1>2, <2>1, <4>2, <4>3
                <5> HIDE DEF a
                <5>2. time - v.state.at <= Slowest * a
                    BY <5>1, RuntimeAssumption
                <5>3. e.done + ConfirmFrames <= (now + 1) + 1
                    BY <4>3
                <5> QED BY <5>2, <5>3 DEF Cools, a
            <4> QED BY <1>1, <1>12, <3>1, <3>5, <4>4, <4>5
        <3>6. CASE ~v.report
            <4>1. over < ConfirmFrames
                BY <1>1, <1>2, <1>5, <2>5, <3>6 DEF Cooling
            <4>2. Pnew = P
                BY <1>1, <3>6
            <4>3. over + e.done = now + 2
                BY <1>3, <2>1, <3>1, <3>4
            <4>4. DecFits(e, v.state, now + 1, P)
                BY <1>9, <1>10, <1>12, <2>5, <3>1, <3>6, <4>1, <4>3 DEF DecFits
            <4> QED BY <1>1, <2>6, <3>6, <4>2, <4>4
        <3> QED BY <3>5, <3>6
    <2> QED BY <1>3, <2>3, <2>4, <2>5
<1> QED BY <1>3, <1>11, <1>12

TrackRecord == [id : Nat, hits : Int, missed : Nat, hist : Seq(Point)]

\* A track as it is drawn until a frame: its last points lie one after the other, the
\* last one in a frame that was looked at, and nobody is past the vehicle.
Drawn(t, upto, most, stride) ==
  /\ t \in TrackRecord /\ Len(t.hist) >= 1
  /\ Last(t.hist).f <= upto /\ Last(t.hist).f % stride = 0 /\ At(t) <= most
  /\ Len(t.hist) >= 2 => t.hist[Len(t.hist) - 1].f < Last(t.hist).f

AllDrawn(K, upto, most, stride, id) == \A t \in K : Drawn(t, upto, most, stride) /\ t.id < id

\* A younger track is ahead of an older one, and was seen later.
Lined(K) == \A t, u \in K : /\ t.id = u.id => t = u
                            /\ t.id < u.id => At(t) < At(u) /\ t.missed > u.missed

\* What a track remembers: its last points.
LEMMA LastPoint == ASSUME NEW t \in TrackRecord, Len(t.hist) >= 1
                   PROVE  /\ Last(t.hist) \in Point /\ Last(t.hist) = t.hist[Len(t.hist)]
                          /\ At(t) \in Nat /\ Len(t.hist) \in Nat
                          /\ Len(t.hist) >= 2 => t.hist[Len(t.hist) - 1] \in Point
<1>1. t.hist \in Seq(Point)
    BY DEF TrackRecord
<1>2. Len(t.hist) \in Nat /\ \A i \in 1 .. Len(t.hist) : t.hist[i] \in Point
    BY <1>1, LenProperties, ElementOfSeq
<1>3. Last(t.hist) = t.hist[Len(t.hist)]
    BY DEF Last
<1>4. Last(t.hist) \in Point
    BY <1>2, <1>3
<1> QED BY <1>2, <1>3, <1>4 DEF At, Point

\* A matched track, a new one and a missed one.
LEMMA MatchedIs ==
    ASSUME NEW t \in TrackRecord, Len(t.hist) >= 1, NEW now \in Nat, NEW x \in Nat
    PROVE  LET m == Matched(t, now, x)
           IN /\ m \in TrackRecord /\ m.id = t.id /\ m.missed = 0
              /\ Last(m.hist) = [f |-> now, x |-> x] /\ Len(m.hist) >= 2
              /\ m.hist[Len(m.hist) - 1] = Last(t.hist)
<1> DEFINE m    == Matched(t, now, x)
           pt   == [f |-> now, x |-> x]
           long == Append(t.hist, pt)
           hist == IF Len(long) > HistoryLength THEN Tail(long) ELSE long
           hits == Min({t.hits + 1, MinHits})
<1>1. pt \in Point
    BY DEF Point
<1>2. t.hist \in Seq(Point) /\ Len(t.hist) \in Nat /\ Last(t.hist) = t.hist[Len(t.hist)]
    BY LastPoint DEF TrackRecord
<1> HIDE DEF pt
<1>3. /\ long \in Seq(Point) /\ Len(long) = Len(t.hist) + 1 /\ long[Len(t.hist) + 1] = pt
      /\ long[Len(t.hist)] = t.hist[Len(t.hist)]
    BY <1>1, <1>2, AppendProperties
<1> HIDE DEF long
<1>4. HistoryLength \in Nat \ {0, 1} /\ MinHits \in Nat
    BY MeasurementAssumption
<1>5. /\ hist \in Seq(Point) /\ Len(hist) \in Nat /\ Len(hist) >= 2 /\ hist[Len(hist)] = pt
      /\ hist[Len(hist) - 1] = Last(t.hist)
    <2>1. CASE Len(long) > HistoryLength
        <3>1. long # <<>>
            BY <1>3, <1>2
        <3>2. Tail(long) \in Seq(Point) /\ Len(Tail(long)) = Len(long) - 1 /\ \A i \in 1 .. Len(Tail(long)) : Tail(long)[i] = long[i + 1]
            BY <1>3, <3>1, HeadTailProperties
        <3>3. Len(Tail(long)) = Len(t.hist) /\ Len(t.hist) >= 2
            BY <1>2, <1>3, <1>4, <2>1, <3>2
        <3>4. Tail(long)[Len(t.hist)] = pt /\ Tail(long)[Len(t.hist) - 1] = t.hist[Len(t.hist)]
            BY <1>2, <1>3, <3>2, <3>3
        <3> QED BY <1>2, <2>1, <3>2, <3>3, <3>4
    <2>2. CASE ~(Len(long) > HistoryLength)
        BY <1>2, <1>3, <2>2
    <2> QED BY <2>1, <2>2
<1> HIDE DEF hist
<1>6. hits \in Int
    <2>1. t.hits + 1 \in Int /\ MinHits \in Int
        BY <1>4 DEF TrackRecord
    <2> QED BY <2>1, MinOfTwo
<1>7. m = [t EXCEPT !.hits = hits, !.missed = 0, !.hist = hist]
    BY DEF Matched, hist, long, pt
<1> HIDE DEF hits, m
<1>8. m \in TrackRecord /\ m.id = t.id /\ m.missed = 0 /\ m.hist = hist
    <2>1. hist \in Seq(Point)
        BY <1>5
    <2>2. m.id = t.id /\ m.missed = 0 /\ m.hist = hist
        BY <1>7 DEF TrackRecord
    <2>3. m \in TrackRecord
        <3>1. t \in TrackRecord /\ hits \in Int
            BY <1>6
        <3>2. [t EXCEPT !.hits = hits, !.missed = 0, !.hist = hist] \in TrackRecord
            BY <2>1, <3>1 DEF TrackRecord
        <3> QED BY <1>7, <3>2
    <2> QED BY <2>2, <2>3
<1>9. /\ m \in TrackRecord /\ m.id = t.id /\ m.missed = 0
      /\ Last(m.hist) = [f |-> now, x |-> x] /\ Len(m.hist) >= 2
      /\ m.hist[Len(m.hist) - 1] = Last(t.hist)
    BY <1>5, <1>8 DEF Last, pt
<1> QED BY <1>9 DEF m

LEMMA NewIs ==
    ASSUME NEW id \in Nat, NEW now \in Nat, NEW x \in Nat
    PROVE  LET m == NewTrack(id, now, x)
           IN /\ m \in TrackRecord /\ m.id = id /\ m.missed = 0
              /\ Last(m.hist) = [f |-> now, x |-> x] /\ Len(m.hist) = 1
<1> DEFINE m  == NewTrack(id, now, x)
           pt == [f |-> now, x |-> x]
<1>1. pt \in Point
    BY DEF Point
<1>2. m.hist = <<pt>> /\ m = [id |-> id, hits |-> 1, missed |-> 0, hist |-> <<pt>>]
    BY DEF NewTrack
<1> HIDE DEF pt, m
<1>3. <<pt>> \in Seq(Point) /\ Len(<<pt>>) = 1 /\ <<pt>>[1] = pt
    BY <1>1
<1>4. /\ m \in TrackRecord /\ m.id = id /\ m.missed = 0
      /\ Last(m.hist) = [f |-> now, x |-> x] /\ Len(m.hist) = 1
    BY <1>2, <1>3 DEF TrackRecord, Last, pt
<1> QED BY <1>4 DEF m

LEMMA MissedIs == ASSUME NEW t \in TrackRecord
                  PROVE  /\ Missed(t) \in TrackRecord /\ Missed(t).id = t.id /\ Missed(t).missed = t.missed + 1
                         /\ Missed(t).hist = t.hist
BY DEF Missed, TrackRecord

\* Where a track of the next frame comes from.
Hit(K, v, now, x) == \E t \in K : /\ v = Matched(t, now, x) /\ \A u \in K : u.id <= t.id
                                  /\ t \in BestMatch(K, x)
Entered(K, v, now, x, id) == /\ v = NewTrack(id, now, x) /\ \A t \in K : At(t) < x
                             /\ BestMatch(K, x) = {}

\* With one vehicle, only the youngest track can be matched, and a new one is ahead of all.
LEMMA TracksAre ==
    ASSUME NEW K, Lined(K), NEW now \in Nat, NEW x \in Nat, NEW seen \in SUBSET {x}, NEW id,
           \A t \in K : t.id \in Nat /\ At(t) \in Nat /\ At(t) <= x,
           NEW v \in TracksAfter(K, seen, now, id)
    PROVE  \/ \E t \in K : v = Missed(t) /\ ~(x \in seen /\ t \in BestMatch(K, x))
           \/ Hit(K, v, now, x) /\ seen = {x}
           \/ Entered(K, v, now, x, id) /\ seen = {x}
<1> DEFINE hit(t) == {y \in seen : t \in BestMatch(K, y)}
<1>1. \/ \E t \in K : hit(t) = {} /\ v = Missed(t)
      \/ \E t \in K : hit(t) # {} /\ v = Matched(t, now, CHOOSE y \in hit(t) : TRUE)
      \/ \E y \in seen : BestMatch(K, y) = {} /\ v = NewTrack(id, now, y)
    BY DEF TracksAfter
<1>2. ASSUME NEW t \in K, hit(t) = {}, v = Missed(t)
      PROVE  \E u \in K : v = Missed(u) /\ ~(x \in seen /\ u \in BestMatch(K, x))
    BY <1>2
<1>3. ASSUME NEW t \in K, hit(t) # {}, v = Matched(t, now, CHOOSE y \in hit(t) : TRUE)
      PROVE  Hit(K, v, now, x) /\ seen = {x}
    <2>1. hit(t) = {x} /\ seen = {x} /\ t \in BestMatch(K, x)
        BY <1>3
    <2>2. (CHOOSE y \in hit(t) : TRUE) = x
        BY <2>1
    <2>3. \A u \in K : u.id <= t.id
        <3> SUFFICES ASSUME NEW u \in K, t.id < u.id PROVE FALSE
            OBVIOUS
        <3>1. At(t) < At(u)
            BY DEF Lined
        <3>2. Nearer(t, u, x)
            BY <2>1 DEF BestMatch
        <3> QED BY <3>1, <3>2 DEF Nearer, Gap
    <2> QED BY <1>3, <2>1, <2>2, <2>3 DEF Hit
<1>4. ASSUME NEW y \in seen, BestMatch(K, y) = {}, v = NewTrack(id, now, y)
      PROVE  Entered(K, v, now, x, id) /\ seen = {x}
    <2>1. y = x /\ seen = {x}
        OBVIOUS
    <2>2. \A t \in K : At(t) < x
        <3> SUFFICES ASSUME NEW t \in K, At(t) = x PROVE FALSE
            OBVIOUS
        <3>1. Gap(At(t), x) <= Reach
            BY MeasurementAssumption DEF Gap
        <3>2. \A u \in K : Nearer(t, u, x)
            <4> TAKE u \in K
            <4>1. CASE At(u) < x
                BY <4>1 DEF Nearer, Gap
            <4>2. CASE At(u) = x
                <5>1. t.id = u.id
                    BY <4>2 DEF Lined
                <5> QED BY <4>2, <5>1 DEF Nearer, Gap
            <4> QED BY <4>1, <4>2
        <3>3. t \in BestMatch(K, x)
            BY <3>1, <3>2 DEF BestMatch
        <3> QED BY <1>4, <2>1, <3>3
    <2> QED BY <1>4, <2>1, <2>2 DEF Entered
<1> HIDE DEF hit
<1> QED BY <1>1, <1>2, <1>3, <1>4

\* The tracks after a frame that was looked at.
LEMMA TracksStay ==
    ASSUME NEW K, Lined(K), NEW now \in Nat, NEW x \in Nat, NEW seen \in SUBSET {x}, NEW id \in Nat,
           NEW stride \in Nat \ {0}, now % stride = 0, NEW upto \in Nat, upto < now,
           NEW most \in Nat, most <= x,
           AllDrawn(K, upto, most, stride, id)
    PROVE  /\ Lined(TracksAfter(K, seen, now, id))
           /\ \A v \in TracksAfter(K, seen, now, id) :
                /\ Drawn(v, now, x, stride)
                /\ v.id <= id
                /\ v.missed = 0 => (Hit(K, v, now, x) \/ Entered(K, v, now, x, id)) /\ Last(v.hist) = [f |-> now, x |-> x]
                /\ v.missed # 0 => \E t \in K : v = Missed(t) /\ v.id = t.id /\ v.hist = t.hist
<1> DEFINE next == TracksAfter(K, seen, now, id)
<1>1. \A t \in K : /\ t \in TrackRecord /\ t.id \in Nat /\ t.missed \in Nat /\ At(t) \in Nat /\ At(t) <= x /\ t.id < id
                   /\ Last(t.hist) \in Point /\ Last(t.hist).f \in Nat /\ Last(t.hist).f <= upto /\ Len(t.hist) >= 1
                   /\ Len(t.hist) \in Nat
    <2> TAKE t \in K
    <2>1. t \in TrackRecord /\ Len(t.hist) >= 1 /\ At(t) <= most /\ Last(t.hist).f <= upto /\ t.id < id
        BY DEF AllDrawn, Drawn
    <2>2. Last(t.hist) \in Point /\ At(t) \in Nat /\ Len(t.hist) \in Nat
        BY <2>1, LastPoint
    <2> QED BY <2>1, <2>2 DEF TrackRecord, Point
<1>2. \A v \in next : \/ \E t \in K : v = Missed(t) /\ ~(x \in seen /\ t \in BestMatch(K, x))
                      \/ Hit(K, v, now, x) /\ seen = {x}
                      \/ Entered(K, v, now, x, id) /\ seen = {x}
    <2>1. \A t \in K : t.id \in Nat /\ At(t) \in Nat /\ At(t) <= x
        BY <1>1
    <2> QED BY <2>1, TracksAre
<1> HIDE DEF next
<1>3. ASSUME NEW t \in K, NEW v, v = Missed(t)
      PROVE  v.id = t.id /\ v.missed = t.missed + 1 /\ v.missed # 0 /\ v.hist = t.hist /\ At(v) = At(t) /\ Drawn(v, now, x, stride)
    <2>1. v \in TrackRecord /\ v.id = t.id /\ v.missed = t.missed + 1 /\ v.hist = t.hist
        BY <1>1, <1>3, MissedIs
    <2>2. At(v) = At(t)
        BY <2>1 DEF At
    <2>3. v.missed # 0
        BY <1>1, <2>1
    <2>4. Last(t.hist).f <= now
        BY <1>1
    <2>5. Drawn(t, upto, most, stride)
        BY DEF AllDrawn
    <2> QED BY <1>1, <2>1, <2>2, <2>3, <2>4, <2>5 DEF Drawn
<1>4. ASSUME NEW t \in K, NEW v, v = Matched(t, now, x)
      PROVE  v.id = t.id /\ v.missed = 0 /\ At(v) = x /\ Last(v.hist) = [f |-> now, x |-> x] /\ Drawn(v, now, x, stride)
    <2>1. /\ v \in TrackRecord /\ v.id = t.id /\ v.missed = 0
          /\ Last(v.hist) = [f |-> now, x |-> x] /\ Len(v.hist) >= 2
          /\ v.hist[Len(v.hist) - 1] = Last(t.hist)
        BY <1>1, <1>4, MatchedIs
    <2>2. Last(v.hist).f = now /\ At(v) = x
        BY <2>1 DEF At
    <2>3. Len(v.hist) \in Nat /\ Len(v.hist) >= 1
        BY <2>1 DEF TrackRecord
    <2>4. Last(t.hist).f < now
        BY <1>1
    <2> QED BY <2>1, <2>2, <2>3, <2>4 DEF Drawn
<1>5. ASSUME NEW v, v = NewTrack(id, now, x)
      PROVE  v.id = id /\ v.missed = 0 /\ At(v) = x /\ Last(v.hist) = [f |-> now, x |-> x] /\ Drawn(v, now, x, stride)
    <2>1. /\ v \in TrackRecord /\ v.id = id /\ v.missed = 0
          /\ Last(v.hist) = [f |-> now, x |-> x] /\ Len(v.hist) = 1
        BY <1>5, NewIs
    <2>2. Last(v.hist).f = now /\ At(v) = x
        BY <2>1 DEF At
    <2> QED BY <2>1, <2>2 DEF Drawn
<1>6. ASSUME NEW v \in next
      PROVE  /\ Drawn(v, now, x, stride) /\ v.id <= id
             /\ v.missed = 0 => (Hit(K, v, now, x) \/ Entered(K, v, now, x, id)) /\ Last(v.hist) = [f |-> now, x |-> x]
             /\ v.missed # 0 => \E t \in K : v = Missed(t) /\ v.id = t.id /\ v.hist = t.hist
    <2>1. CASE \E t \in K : v = Missed(t)
        BY <1>1, <1>3, <2>1
    <2>2. CASE Hit(K, v, now, x)
        <3>1. PICK t \in K : v = Matched(t, now, x)
            BY <2>2 DEF Hit
        <3> QED BY <1>1, <1>4, <2>2, <3>1
    <2>3. CASE Entered(K, v, now, x, id)
        <3>1. v = NewTrack(id, now, x)
            BY <2>3 DEF Entered
        <3> QED BY <1>5, <2>3, <3>1
    <2> QED BY <1>2, <2>1, <2>2, <2>3
<1> DEFINE Ordered(a, b) == (a.id = b.id => a = b) /\ (a.id < b.id => At(a) < At(b) /\ a.missed > b.missed)
<1>7. \A t, u \in K : (t.id = u.id => t = u) /\ (t.id < u.id => At(t) < At(u) /\ t.missed > u.missed)
    BY DEF Lined
<1>8. ASSUME NEW v \in next, NEW w \in next PROVE Ordered(v, w)
    <2>1. ASSUME NEW t \in K, v = Missed(t), ~(x \in seen /\ t \in BestMatch(K, x)) PROVE Ordered(v, w)
        <3>0. v.id = t.id /\ At(v) = At(t) /\ v.missed = t.missed + 1
            BY <1>3, <2>1
        <3>1. ASSUME NEW u \in K, w = Missed(u) PROVE Ordered(v, w)
            <4>1. w.id = u.id /\ At(w) = At(u) /\ w.missed = u.missed + 1
                BY <1>3, <3>1
            <4> QED BY <1>1, <1>7, <2>1, <3>0, <3>1, <4>1
        <3>2. CASE Hit(K, w, now, x) /\ seen = {x}
            <4>1. PICK u \in K : w = Matched(u, now, x) /\ (\A k \in K : k.id <= u.id) /\ u \in BestMatch(K, x)
                BY <3>2 DEF Hit
            <4>2. w.id = u.id /\ w.missed = 0 /\ At(w) = x
                BY <1>4, <4>1
            <4>3. t # u
                BY <2>1, <3>2, <4>1
            <4>4. t.id < u.id
                BY <1>1, <1>7, <4>1, <4>3
            <4>5. At(t) < At(u)
                BY <1>7, <4>4
            <4> QED BY <1>1, <3>0, <4>2, <4>4, <4>5
        <3>3. CASE Entered(K, w, now, x, id)
            <4>1. w.id = id /\ w.missed = 0 /\ At(w) = x /\ At(t) < x
                BY <1>5, <3>3 DEF Entered
            <4> QED BY <1>1, <3>0, <4>1
        <3> QED BY <1>2, <3>1, <3>2, <3>3
    <2>2. CASE Hit(K, v, now, x) /\ seen = {x}
        <3>0. PICK t \in K : v = Matched(t, now, x) /\ (\A k \in K : k.id <= t.id) /\ t \in BestMatch(K, x)
            BY <2>2 DEF Hit
        <3>1. v.id = t.id
            BY <1>4, <3>0
        <3>2. ASSUME NEW u \in K, w = Missed(u), ~(x \in seen /\ u \in BestMatch(K, x)) PROVE Ordered(v, w)
            <4>1. w.id = u.id /\ u.id <= t.id /\ u # t
                BY <1>3, <2>2, <3>0, <3>2
            <4> QED BY <1>1, <1>7, <3>1, <4>1
        <3>3. CASE Hit(K, w, now, x)
            <4>1. PICK u \in K : w = Matched(u, now, x) /\ \A k \in K : k.id <= u.id
                BY <3>3 DEF Hit
            <4>2. w.id = u.id /\ u.id <= t.id /\ t.id <= u.id
                BY <1>4, <3>0, <4>1
            <4>3. u = t
                BY <1>1, <1>7, <4>2
            <4> QED BY <1>1, <3>0, <3>1, <4>1, <4>2, <4>3
        <3>4. CASE Entered(K, w, now, x, id)
            BY <3>0, <3>4 DEF Entered
        <3> QED BY <1>2, <3>2, <3>3, <3>4
    <2>3. CASE Entered(K, v, now, x, id)
        <3>0. v = NewTrack(id, now, x) /\ BestMatch(K, x) = {} /\ v.id = id
            BY <1>5, <2>3 DEF Entered
        <3>1. ASSUME NEW u \in K, w = Missed(u) PROVE Ordered(v, w)
            <4>1. w.id = u.id
                BY <1>3, <3>1
            <4> QED BY <1>1, <3>0, <4>1
        <3>2. CASE Hit(K, w, now, x)
            BY <3>0, <3>2 DEF Hit
        <3>3. CASE Entered(K, w, now, x, id)
            <4>1. w = v
                BY <3>0, <3>3 DEF Entered
            <4> QED BY <3>0, <4>1
        <3> QED BY <1>2, <3>1, <3>2, <3>3
    <2> QED BY <1>2, <2>1, <2>2, <2>3
<1>9. Lined(next)
    BY <1>8 DEF Lined
<1> QED BY <1>6, <1>9 DEF next

\* A track that is kept has all the younger ones with it.
LEMMA TracksFollow ==
    ASSUME NEW K, Lined(K), \A t \in K : t \in TrackRecord, NEW now, NEW x, NEW seen, NEW id,
           NEW t \in K, Missed(t) \in TracksAfter(K, seen, now, id), NEW u \in K, t.id < u.id
    PROVE  \/ Missed(u) \in TracksAfter(K, seen, now, id)
           \/ \E y : Matched(u, now, y) \in TracksAfter(K, seen, now, id)
<1> DEFINE hit(a) == {y \in seen : a \in BestMatch(K, y)}
           y == CHOOSE y \in hit(u) : TRUE
<1>1. Missed(t).missed <= MaxAge
    BY DEF TracksAfter
<1>2. t.missed \in Nat /\ u.missed \in Nat /\ u.missed < t.missed /\ MaxAge \in Nat
    BY MeasurementAssumption DEF Lined, TrackRecord
<1>3. Missed(t).missed = t.missed + 1 /\ Missed(u).missed = u.missed + 1
    BY MissedIs
<1>4. Missed(u).missed <= MaxAge
    BY <1>1, <1>2, <1>3
<1>5. CASE hit(u) = {}
    BY <1>4, <1>5 DEF TracksAfter
<1>6. CASE hit(u) # {}
    <2>1. Matched(u, now, y).missed = 0
        BY DEF Matched, TrackRecord
    <2>2. Matched(u, now, y).missed <= MaxAge
        BY <1>2, <2>1
    <2>3. Matched(u, now, y) \in TracksAfter(K, seen, now, id)
        BY <1>6, <2>2 DEF TracksAfter
    <2> QED BY <2>3
<1> QED BY <1>5, <1>6

\* What is told of a passage is the passage itself.
LEMMA EstGrows == ASSUME NEW e, NEW q, NEW P, EstFits(e, q, P), NEW Q \in SUBSET {e.pass}, Q # {} => e.stage = "done"
                  PROVE  EstFits(e, q, P \cup Q)
<1>1. CASE e.stage = "done"
    BY <1>1 DEF EstFits
<1>2. CASE e.stage # "done"
    <2>1. P \cup Q = P
        BY <1>2
    <2> QED BY <2>1
<1> QED BY <1>1, <1>2

\* Fewer passages are easier to fit.
LEMMA EstShrinks == ASSUME NEW e, NEW q, NEW P, EstFits(e, q, P), NEW Q \in SUBSET P PROVE EstFits(e, q, Q)
BY DEF EstFits, Over

LEMMA DecShrinks == ASSUME NEW e, NEW d, NEW now, NEW P, DecFits(e, d, now, P), NEW Q \in SUBSET P PROVE DecFits(e, d, now, Q)
BY DEF DecFits

\* A track that nothing is known of.
LEMMA FreshFits ==
    ASSUME NEW q \in Point, NEW P, NEW now
    PROVE  EstFits(Untimed, q, P) /\ DecFits(Untimed, Unseen, now, P) /\ Untimed.stage = "first"
<1>1. Untimed.stage = "first" /\ Untimed.last = -1
    BY DEF Untimed
<1>2. Untimed \in EstRecord
    <2>1. -1 \in Int
        OBVIOUS
    <2> QED BY <2>1 DEF Untimed, EstRecord
<1>3. q.f \in Nat
    BY DEF Point
<1>4. Unseen.over = 0 /\ Unseen.reported = FALSE /\ Unseen \in DecRecord
    BY DEF Unseen, DecRecord
<1>5. -1 <= q.f
    BY <1>3
<1> QED BY <1>1, <1>2, <1>4, <1>5 DEF EstFits, DecFits

\* The programs whose passages are counted, and what the numbers of a program must
\* satisfy.
Counted == setup.file /\ setup.mode # "pixel_scale"
RepeatsFit == NumbersFit(setup.stride)

\* No two rows are of the same passage, but after the gate of a program that skips
\* frames was shut.
Unlike(list, skips) == \A i, j \in DOMAIN list :
    i < j /\ list[i].pass = list[j].pass => skips /\ list[i].n < list[j].shut

\* The last frame that was decided about, and the passages that were reported: a program
\* that skips frames may report again what it reported before its gate was shut.
Upto           == IF pc \in {"ask", "wait", "track"} THEN n - 1 ELSE n
Since          == IF Skips THEN view.shut ELSE 0
PassesOf(list, since) == {list[i].pass : i \in {k \in DOMAIN list : list[k].n >= since}}
Passes         == PassesOf(Written, Since) \cup PassesOf(unfiled, Since)

Youngest(t) == \A u \in tracks : u.id <= t.id

\* The frame, and the tracks until the last one.
RoadInv ==
  /\ n \in Nat /\ car \in 0 .. Road + 1 /\ nextTrack \in Nat /\ clock \in Nat
  /\ view.seen \subseteq {car} /\ view.shut \in Nat
  /\ pc \in {"ask", "wait", "track"} =>
       /\ n > 0
       /\ view.looked <=> view.active /\ n % setup.stride = 0
       /\ ~setup.motion => view.active
       /\ ~view.active => view.shut = n
  /\ Lined(tracks)
  /\ \A t \in tracks : Drawn(t, Upto, car, setup.stride) /\ t.id < nextTrack

\* What is held of a track; all that are active are held, or nothing was reported since
\* they were forgotten, or there is no frame in which they could be missed.
Held(t, e, d, upto, stride, P) ==
  /\ e.stage = "done" => upto < Last(t.hist).f + stride
  /\ EstFits(e, Last(t.hist), P) /\ DecFits(e, d, upto, P)
  /\ e.stage # "done" /\ Len(t.hist) >= 2 => e.last = Last(t.hist).f
  /\ e.stage = "done" => Len(t.hist) >= 2
AllHeld(all, ids, stride, P) == stride = 1 \/ P = {} \/ \A t \in ActiveTracks(all) : t.id \in ids
HeldInv ==
  pc \notin Ended =>
    /\ DOMAIN dec = DOMAIN est /\ DOMAIN est \subseteq {t.id : t \in tracks}
    /\ \A t \in tracks : t.id \in DOMAIN est =>
         Held(t, est[t.id], dec[t.id], Upto, setup.stride, Passes) /\ Cools(est[t.id], dec[t.id], n, clock)
    /\ AllHeld(tracks, DOMAIN est, setup.stride, Passes)

\* What was reported is over when the youngest track was last seen.
PastInv == /\ Over(Passes, 2 * Upto)
           /\ \A t \in tracks : Youngest(t) => Over(Passes, 2 * Last(t.hist).f)

\* A violation of the frame is new until it is written.
NewInv ==
  /\ Sequential(outbox) /\ Sequential(journal)
  /\ pc \in {"get", "ask", "wait", "track"} => unfiled = <<>>
  /\ pc \in {"save", "append", "journal", "report"} => \E row : unfiled = <<row>>
  /\ \A i \in DOMAIN unfiled : unfiled[i].n = n /\ unfiled[i].shut = view.shut
  /\ pc \in {"save", "append"} => unfiled[1].pass \notin PassesOf(Written, Since)
  /\ \A i \in DOMAIN Written : Written[i].n \in Nat /\ Written[i].n <= Upto
  /\ Unlike(Written, Skips)

PassageInv == setup \in Setups /\ (RepeatsFit /\ Counted => RoadInv /\ HeldInv /\ PastInv /\ NewInv)

\* What is seen of the next frame.
Observed ==
  /\ car' \in 0 .. Road + 1 /\ car <= car' /\ view'.seen \subseteq {car'}
  /\ clock' \in Nat /\ clock' - clock <= Slowest
  /\ view'.looked <=> view'.active /\ (n + 1) % setup.stride = 0
  /\ ~setup.motion => view'.active
  /\ view'.shut = IF view'.active THEN view.shut ELSE n + 1

\* A step takes a frame, measures it, or does neither.
Drives ==
  /\ pc = "get" /\ pc' \in {"ask", "track"} /\ n' = n + 1
  /\ UNCHANGED <<setup, tracks, nextTrack, est, dec, unfiled, outbox, journal>>
  /\ Observed
Measures ==
  /\ pc \in {"wait", "track"} /\ pc' \in {"get", "save"}
  /\ \E seen \in SUBSET {car} : Track(seen)
  /\ UNCHANGED <<setup, n, car, clock, view, outbox, journal>>
Stays ==
  /\ UNCHANGED <<setup, n, car, clock, view, tracks, nextTrack, est, dec, unfiled, outbox>>
  /\ journal' = journal
  /\ pc' = pc \/ pc' \in Ended \/ (pc = "ask" /\ pc' = "wait") \/ (pc = "save" /\ pc' = "append")
Files == \/ Publish \/ WriteJournal \/ ProcessSave \/ ProcessReport \/ SingleSave

\* What is known of the program.
LEMMA SetupFits ==
    ASSUME RepeatsFit, setup \in Setups, Counted
    PROVE  /\ setup.stride \in Nat \ {0} /\ NumbersFit(setup.stride) /\ setup.motion \in BOOLEAN
           /\ setup.pace \subseteq 0 .. Slowest
           /\ setup.mode # "pixel_scale"
BY RuntimeAssumption DEF RepeatsFit, Counted

\* What a step that takes a frame does.
LEMMA ObserveIs ==
    ASSUME RepeatsFit, setup \in Setups, Counted, n \in Nat, car \in 0 .. Road + 1, clock \in Nat, Observe(n + 1),
           UNCHANGED setup
    PROVE  n' = n + 1 /\ Observed
<1>1. PICK moving \in BOOLEAN : NextFrame(n + 1, moving, LooksAt(n + 1))
    BY DEF Observe
<1> DEFINE looks == LooksAt(n + 1)
           lets  == Lets(n + 1)
<1>2. PICK move \in Steps, sees \in BOOLEAN :
          /\ car' = Min({car + move, Road + 1})
          /\ view' = [seen |-> IF sees /\ car' <= Road THEN {car'} ELSE {},
                      looked |-> looks, active |-> lets,
                      shut |-> IF lets THEN view.shut ELSE n + 1]
    BY <1>1 DEF NextFrame
<1>3. n' = n + 1
    BY <1>1 DEF NextFrame
<1>4. car' \in 0 .. Road + 1 /\ car <= car'
    <2>1. car \in Nat /\ move \in Nat /\ Road \in Nat /\ car <= Road + 1
        BY RuntimeAssumption
    <2> DEFINE a == car + move
               b == Road + 1
    <2>2. a \in Int /\ b \in Int /\ a >= car /\ a >= 0 /\ b >= car /\ b >= 0
        BY <2>1
    <2> HIDE DEF a, b
    <2>3. Min({a, b}) \in {a, b} /\ Min({a, b}) <= b
        BY <2>2, MinOfTwo
    <2>4. car' = Min({a, b})
        BY <1>2 DEF a, b
    <2>5. car' \in Int /\ car' >= 0 /\ car' <= b /\ car <= car'
        BY <2>1, <2>2, <2>3, <2>4
    <2> QED BY <2>5 DEF b
<1>5. /\ view'.seen \subseteq {car'} /\ (view'.looked <=> looks) /\ (view'.active <=> lets)
      /\ view'.shut = IF lets THEN view.shut ELSE n + 1
    <2> HIDE DEF looks, lets
    <2> QED BY <1>2
<1>6. (looks <=> lets /\ (n + 1) % setup.stride = 0) /\ (~setup.motion => lets)
    BY DEF LooksAt, Lets
<1>7. clock' \in Nat /\ clock' - clock <= Slowest
    <2>1. PICK ticks \in setup.pace : clock' = clock + ticks
        BY <1>1 DEF NextFrame
    <2>2. ticks \in 0 .. Slowest /\ Slowest \in Nat
        BY SetupFits, RuntimeAssumption
    <2> QED BY <2>1, <2>2
<1> HIDE DEF looks, lets
<1> QED BY <1>3, <1>4, <1>5, <1>6, <1>7 DEF Observed

\* There are no other steps.
LEMMA PassageSteps ==
    ASSUME RepeatsFit, setup \in Setups, Counted, RoadInv, [SpeedNext]_speedVars
    PROVE  Drives \/ Measures \/ Stays \/ Files
<1>1. n \in Nat /\ car \in 0 .. Road + 1 /\ clock \in Nat /\ view.seen \in SUBSET {car} /\ setup.file
    BY DEF RoadInv, Counted
<1>2. ASSUME NEW seen, Track(seen) PROVE pc' \in {"get", "save"}
    BY <1>2 DEF Track
<1>3. CASE NotCalibrated \/ LeaveLoop \/ Ask \/ WaitStopped \/ SaveEvidence
    BY <1>1, <1>3 DEF NotCalibrated, LeaveLoop, Ask, WaitStopped, SaveEvidence, Stays, frameVars, procVars, filedVars, Ended
<1>4. CASE TakeFrame
    <2>1. PICK skip \in {0, 1} : (skip = 1 => ~setup.file) /\ Observe(n + 1 + skip)
        BY <1>4 DEF TakeFrame
    <2>2. Observe(n + 1)
        <3>1. skip = 0 /\ n + 1 + 0 = n + 1
            BY <1>1, <2>1
        <3> QED BY <2>1, <3>1
    <2>3. /\ pc = "get" /\ pc' \in {"ask", "track"}
          /\ UNCHANGED <<setup, tracks, nextTrack, est, dec, unfiled, outbox, journal>>
        BY <1>4 DEF TakeFrame, filedVars
    <2> QED BY <1>1, <2>2, <2>3, ObserveIs DEF Drives
<1>5. CASE ProcessFrame \/ SingleFrame
    <2>1. /\ pc = "get" /\ pc' \in {"ask", "track"} /\ Observe(n + 1)
          /\ UNCHANGED <<setup, tracks, nextTrack, est, dec, unfiled, outbox, journal>>
        BY <1>5 DEF ProcessFrame, SingleFrame, olderOnly
    <2> QED BY <1>1, <2>1, ObserveIs DEF Drives
<1>6. CASE Answer
    <2>1. /\ pc = "wait" /\ UNCHANGED <<setup, n, car, clock, view, outbox, journal>>
          /\ Track(view.seen) \/ UNCHANGED <<pc, tracks, nextTrack, est, dec, unfiled>>
        BY <1>1, <1>6 DEF Answer, frameVars, filedVars
    <2> QED BY <1>1, <1>2, <2>1 DEF Measures, Stays
<1>7. CASE TrackOnly \/ ProcessTrack \/ SingleTrack
    <2>1. /\ pc = "track" /\ UNCHANGED <<setup, n, car, clock, view, outbox, journal>>
          /\ Track({}) \/ Track(view.seen)
        BY <1>7 DEF TrackOnly, ProcessTrack, SingleTrack, olderOnly, frameVars, filedVars
    <2>2. \E seen \in SUBSET {car} : Track(seen)
        BY <1>1, <2>1
    <2> QED BY <1>2, <2>1, <2>2 DEF Measures
<1>8. CASE VehicleService
    BY <1>8 DEF VehicleService, ServeTake, ServeInfer, ServeAnswer, ServePut, Stays, frameVars, procVars, filedVars
<1>9. CASE Parent
    BY <1>1, <1>9 DEF Parent, Withdraw, Fence, Kill, StopService, RestartService, Spawn, parentOnly,
        Stays, frameVars, procVars, filedVars, Ended
<1>10. CASE \/ ProcessLeave \/ ProcessKilled \/ OrchestratorStop \/ OrchestratorTell \/ ReporterTerminated
            \/ ReporterWrite
    BY <1>10 DEF ProcessLeave, ProcessKilled, OrchestratorStop, OrchestratorTell, ReporterTerminated, ReporterWrite,
        olderOnly, Stays, frameVars, procVars, Ended
<1>11. CASE UNCHANGED speedVars
    BY <1>11 DEF speedVars, Stays, frameVars, procVars, filedVars
<1> QED BY <1>3, <1>4, <1>5, <1>6, <1>7, <1>8, <1>9, <1>10, <1>11 DEF SpeedNext, Consumer, Older, Files

Before(id)   == IF id \in DOMAIN est THEN est[id] ELSE Untimed
KeptOf(id)   == IF id \in DOMAIN dec THEN dec[id] ELSE Unseen
Looked(next) == IF view.looked \/ view.active THEN ActiveTracks(next) ELSE {}

\* A violation of this frame.
IsRow(row, pass) == row.pass = pass /\ row.n = n /\ row.shut = view.shut

\* What a step that measures does, when at most one track is looked at.
LEMMA MeasuredIs ==
    ASSUME NEW seen, Track(seen), setup.mode # "pixel_scale",
           \A v, w \in Looked(tracks') : v = w
    PROVE  /\ tracks' = IF view.looked THEN TracksAfter(tracks, seen, n, nextTrack) ELSE tracks
           /\ nextTrack' = IF \E t \in tracks' : t.id = nextTrack THEN nextTrack + 1 ELSE nextTrack
           /\ DOMAIN est' = {t.id : t \in Looked(tracks')} /\ DOMAIN dec' = DOMAIN est'
           /\ pc' = IF unfiled' = <<>> THEN "get" ELSE "save"
           /\ Looked(tracks') = {} => unfiled' = <<>>
           /\ \A v \in Looked(tracks') :
                LET r == TwoLines(Before(v.id), v, setup.mode)
                    d == Decide(KeptOf(v.id), r.result, clock)
                IN /\ est'[v.id] = r.state /\ dec'[v.id] = d.state
                   /\ d.report => \E row : unfiled' = <<row>> /\ IsRow(row, r.state.pass)
                   /\ ~d.report => unfiled' = <<>>
<1> DEFINE all == Looked(tracks')
           ids == {t.id : t \in all}
           trackOf(id) == CHOOSE t \in all : t.id = id
           measure == [id \in ids |-> Estimate(Before(id), trackOf(id), setup.mode)]
           verdict == [id \in ids |-> Decide(KeptOf(id), measure[id].result, clock)]
           told == {id \in ids : verdict[id].report}
           found == {[n |-> n, track |-> id, pass |-> measure[id].state.pass, shut |-> view.shut] : id \in told}
<1>1. /\ tracks' = IF view.looked THEN TracksAfter(tracks, seen, n, nextTrack) ELSE tracks
      /\ nextTrack' = IF \E t \in tracks' : t.id = nextTrack THEN nextTrack + 1 ELSE nextTrack
      /\ pc' = IF unfiled' = <<>> THEN "get" ELSE "save"
      /\ Decided(tracks')
    BY DEF Track
<1>2. /\ est' = [id \in ids |-> measure[id].state]
      /\ dec' = [id \in ids |-> verdict[id].state]
      /\ unfiled' = SetToSeq(found)
    BY <1>1 DEF Decided, Looked, Before, KeptOf
<1>3. SetToSeq({}) = <<>>
    <2>1. IsFiniteSet({}) /\ Cardinality({}) = 0
        BY FS_EmptySet
    <2>2. SetToSeq({}) \in Seq({}) /\ Len(SetToSeq({})) = 0
        BY <2>1, SetSeqIs
    <2> QED BY <2>2, EmptySeq
<1>4. ASSUME NEW row PROVE SetToSeq({row}) = <<row>>
    <2>1. IsFiniteSet({row}) /\ Cardinality({row}) = 1
        BY FS_Singleton
    <2>2. SetToSeq({row}) \in Seq({row}) /\ Len(SetToSeq({row})) = 1
        BY <2>1, SetSeqIs
    <2>3. SetToSeq({row})[1] = row
        BY <2>2, ElementOfSeq
    <2> HIDE DEF found
    <2> DEFINE t == SetToSeq({row})
    <2>4. t \in Seq({row}) /\ Len(t) = 1 /\ t[1] = row
        BY <2>2, <2>3
    <2>5. <<row>> \in Seq({row}) /\ Len(<<row>>) = 1 /\ <<row>>[1] = row
        OBVIOUS
    <2> HIDE DEF t
    <2>6. t = <<row>>
        BY <2>4, <2>5, SeqEqual
    <2> QED BY <2>6 DEF t
<1>5. all = {} => unfiled' = <<>>
    <2> SUFFICES ASSUME all = {} PROVE found = {}
        BY <1>2, <1>3
    <2> QED OBVIOUS
<1>6. ASSUME NEW v \in all
      PROVE  LET r == TwoLines(Before(v.id), v, setup.mode)
                 d == Decide(KeptOf(v.id), r.result, clock)
             IN /\ est'[v.id] = r.state /\ dec'[v.id] = d.state
                /\ d.report => \E row : unfiled' = <<row>> /\ IsRow(row, r.state.pass)
                /\ ~d.report => unfiled' = <<>>
    <2> DEFINE r == TwoLines(Before(v.id), v, setup.mode)
               d == Decide(KeptOf(v.id), r.result, clock)
               row == [n |-> n, track |-> v.id, pass |-> r.state.pass, shut |-> view.shut]
    <2>1. v.id \in ids /\ all = {v} /\ ids = {v.id}
        OBVIOUS
    <2>2. trackOf(v.id) = v
        BY <2>1
    <2>3. measure[v.id] = r
        <3>1. measure[v.id] = Estimate(Before(v.id), trackOf(v.id), setup.mode)
            BY <2>1
        <3> HIDE DEF measure, trackOf
        <3> QED BY <2>2, <3>1 DEF Estimate
    <2>4. verdict[v.id] = d
        <3> HIDE DEF measure
        <3> QED BY <2>1, <2>3
    <2>5. est'[v.id] = r.state /\ dec'[v.id] = d.state
        <3> HIDE DEF measure, verdict, ids, r, d
        <3> QED BY <1>2, <2>1, <2>3, <2>4
    <2> HIDE DEF measure, verdict
    <2>6. ASSUME d.report PROVE found = {row}
        <3> HIDE DEF r, d, ids
        <3>1. told = {v.id}
            BY <2>1, <2>4, <2>6
        <3> HIDE DEF told
        <3> QED BY <2>3, <3>1
    <2>7. ASSUME ~d.report PROVE found = {}
        <3> HIDE DEF r, d, ids
        <3> QED BY <2>1, <2>4, <2>7
    <2>8. IsRow(row, r.state.pass)
        BY DEF IsRow
    <2> HIDE DEF found, row, r, d
    <2>9. d.report => unfiled' = <<row>>
        BY <1>2, <1>4, <2>6
    <2>10. ~d.report => unfiled' = <<>>
        BY <1>2, <1>3, <2>7
    <2> QED BY <2>5, <2>8, <2>9, <2>10 DEF r, d
<1>7. DOMAIN est' = ids /\ DOMAIN dec' = ids
    <2> HIDE DEF ids, measure, verdict
    <2> QED BY <1>2
<1> QED BY <1>1, <1>5, <1>6, <1>7

\* The tracks after a frame, looked at or not.
LEMMA RoadMeasured ==
    ASSUME RepeatsFit, setup \in Setups, Counted, RoadInv, pc \in {"wait", "track"}, NEW seen \in SUBSET {car},
           NEW next, next = IF view.looked THEN TracksAfter(tracks, seen, n, nextTrack) ELSE tracks
    PROVE  /\ Lined(next) /\ \A v \in next : Drawn(v, n, car, setup.stride) /\ v.id <= nextTrack
           /\ view.looked => \A v \in next :
                /\ v.missed = 0 => /\ Hit(tracks, v, n, car) \/ Entered(tracks, v, n, car, nextTrack)
                                   /\ Last(v.hist) = [f |-> n, x |-> car]
                /\ v.missed # 0 => \E t \in tracks : v = Missed(t) /\ v.id = t.id /\ v.hist = t.hist
           /\ \A v, w \in Looked(next) : v = w
<1>1. /\ n \in Nat /\ n > 0 /\ car \in Nat /\ nextTrack \in Nat /\ Upto = n - 1 /\ Lined(tracks)
      /\ view.looked => n % setup.stride = 0
      /\ \A t \in tracks : Drawn(t, n - 1, car, setup.stride) /\ t.id < nextTrack
    BY DEF RoadInv, Upto
<1>2. setup.stride \in Nat \ {0}
    BY SetupFits
<1>3. ASSUME view.looked
      PROVE  /\ Lined(next)
             /\ \A v \in next :
                  /\ Drawn(v, n, car, setup.stride)
                  /\ v.id <= nextTrack
                  /\ v.missed = 0 => (Hit(tracks, v, n, car) \/ Entered(tracks, v, n, car, nextTrack)) /\ Last(v.hist) = [f |-> n, x |-> car]
                  /\ v.missed # 0 => \E t \in tracks : v = Missed(t) /\ v.id = t.id /\ v.hist = t.hist
    <2>1. next = TracksAfter(tracks, seen, n, nextTrack) /\ n - 1 \in Nat /\ n - 1 < n
        BY <1>1, <1>3
    <2> DEFINE upto == n - 1
    <2>2. /\ upto \in Nat /\ upto < n /\ car <= car /\ AllDrawn(tracks, upto, car, setup.stride, nextTrack)
        BY <1>1, <2>1 DEF AllDrawn
    <2> HIDE DEF upto
    <2>3. n % setup.stride = 0
        BY <1>1, <1>3
    <2>4. /\ Lined(TracksAfter(tracks, seen, n, nextTrack))
          /\ \A v \in TracksAfter(tracks, seen, n, nextTrack) :
                /\ Drawn(v, n, car, setup.stride)
                /\ v.id <= nextTrack
                /\ v.missed = 0 => (Hit(tracks, v, n, car) \/ Entered(tracks, v, n, car, nextTrack)) /\ Last(v.hist) = [f |-> n, x |-> car]
                /\ v.missed # 0 => \E t \in tracks : v = Missed(t) /\ v.id = t.id /\ v.hist = t.hist
        BY <1>1, <1>2, <2>2, <2>3, TracksStay
    <2> QED BY <2>1, <2>4
<1>4. ASSUME ~view.looked PROVE Lined(next) /\ \A v \in next : Drawn(v, n, car, setup.stride) /\ v.id <= nextTrack
    <2>1. next = tracks
        BY <1>4
    <2>2. \A v \in tracks : Drawn(v, n, car, setup.stride) /\ v.id <= nextTrack
        <3> TAKE v \in tracks
        <3>1. Drawn(v, n - 1, car, setup.stride) /\ v.id < nextTrack /\ v \in TrackRecord /\ Len(v.hist) >= 1
            BY <1>1 DEF Drawn
        <3>2. Last(v.hist).f \in Nat /\ v.id \in Nat
            BY <3>1, LastPoint DEF Point, TrackRecord
        <3>3. Last(v.hist).f <= n /\ v.id <= nextTrack
            BY <1>1, <3>1, <3>2 DEF Drawn
        <3> QED BY <3>1, <3>3 DEF Drawn
    <2> QED BY <1>1, <1>4, <2>1, <2>2
<1>5. Lined(next) /\ \A v \in next : Drawn(v, n, car, setup.stride) /\ v.id <= nextTrack
    BY <1>3, <1>4
<1>6. \A v, w \in Looked(next) : v = w
    <2> SUFFICES ASSUME NEW v \in next, NEW w \in next, v.missed = 0, w.missed = 0 PROVE v = w
        BY DEF Looked, ActiveTracks
    <2>1. v.id \in Nat /\ w.id \in Nat
        BY <1>5 DEF Drawn, TrackRecord
    <2>2. (v.id = w.id => v = w) /\ (v.id < w.id => v.missed > w.missed) /\ (w.id < v.id => w.missed > v.missed)
        BY <1>5 DEF Lined
    <2> QED BY <2>1, <2>2
<1> QED BY <1>3, <1>4, <1>5, <1>6

\* The track that is looked at, timed: a new point, a first point or none.
LEMMA HeldMeasured ==
    ASSUME RepeatsFit, setup \in Setups, Counted, RoadInv, HeldInv, PastInv, pc \in {"wait", "track"},
           NEW seen \in SUBSET {car},
           NEW next, next = IF view.looked THEN TracksAfter(tracks, seen, n, nextTrack) ELSE tracks,
           NEW v \in Looked(next)
    PROVE  LET r == TwoLines(Before(v.id), v, setup.mode)
           IN /\ EstFits(r.state, Last(v.hist), Passes) /\ DecFits(r.state, KeptOf(v.id), n - 1, Passes)
              /\ Cools(r.state, KeptOf(v.id), n, clock)
              /\ r.result = Repeated(r.state, Last(v.hist))
              /\ r.state.stage # "done" /\ Len(v.hist) >= 2 => r.state.last = Last(v.hist).f
              /\ r.state.stage = "done" => Len(v.hist) >= 2
              /\ r.state.stage = "done" => n < Last(v.hist).f + setup.stride
<1> DEFINE r == TwoLines(Before(v.id), v, setup.mode)
<1>1. /\ n \in Nat /\ n > 0 /\ car \in Nat /\ nextTrack \in Nat /\ Upto = n - 1 /\ n - 1 \in Nat
      /\ \A t \in tracks : Drawn(t, n - 1, car, setup.stride) /\ t.id < nextTrack
    BY DEF RoadInv, Upto
<1>2. setup.stride \in Nat \ {0}
    BY SetupFits
<1>3. /\ DOMAIN dec = DOMAIN est /\ DOMAIN est \subseteq {t.id : t \in tracks}
      /\ \A t \in tracks : t.id \in DOMAIN est =>
           Held(t, est[t.id], dec[t.id], n - 1, setup.stride, Passes) /\ Cools(est[t.id], dec[t.id], n, clock)
      /\ AllHeld(tracks, DOMAIN est, setup.stride, Passes)
    BY <1>1 DEF HeldInv, Ended
<1>4. v \in next /\ v.missed = 0 /\ Drawn(v, n, car, setup.stride)
    BY RoadMeasured DEF Looked, ActiveTracks
<1>5. v \in TrackRecord /\ Len(v.hist) >= 1 /\ Last(v.hist) \in Point /\ Len(v.hist) \in Nat /\ Last(v.hist).f \in Nat
    BY <1>4, LastPoint DEF Drawn, Point
<1>6. CASE view.looked
    <2>1. /\ Hit(tracks, v, n, car) \/ Entered(tracks, v, n, car, nextTrack)
          /\ Last(v.hist) = [f |-> n, x |-> car]
        BY <1>4, <1>6, RoadMeasured
    <2>2. Last(v.hist).f = n /\ n < n + setup.stride
        BY <1>1, <1>2, <2>1
    <2>3. CASE Entered(tracks, v, n, car, nextTrack)
        <3>0. v = NewTrack(nextTrack, n, car)
            BY <2>3 DEF Entered
        <3>1. v.id = nextTrack /\ Len(v.hist) = 1
            <4>1. NewTrack(nextTrack, n, car).id = nextTrack /\ Len(NewTrack(nextTrack, n, car).hist) = 1
                <5>1. n \in Nat /\ car \in Nat /\ nextTrack \in Nat
                    BY <1>1
                <5> QED BY <5>1, NewIs
            <4> QED BY <3>0, <4>1
        <3>2. v.id \notin DOMAIN est
            BY <1>1, <1>3, <3>1
        <3>3. Before(v.id) = Untimed /\ KeptOf(v.id) = Unseen
            BY <1>3, <3>2 DEF Before, KeptOf
        <3>4. r = [state |-> Untimed, result |-> Nothing]
            BY <3>1, <3>3 DEF TwoLines
        <3>5. EstFits(Untimed, Last(v.hist), Passes) /\ DecFits(Untimed, Unseen, n - 1, Passes) /\ Untimed.stage = "first"
            BY <1>5, FreshFits
        <3>6. r.state = Untimed /\ r.result = Nothing
            BY <3>4
        <3>7. Repeated(Untimed, Last(v.hist)) = Nothing
            BY <3>5 DEF Repeated
        <3>8. Cools(Untimed, Unseen, n, clock)
            BY <3>5 DEF Cools
        <3> QED BY <2>2, <3>1, <3>3, <3>5, <3>6, <3>7, <3>8
    <2>4. CASE Hit(tracks, v, n, car)
        <3>1. PICK t \in tracks : v = Matched(t, n, car) /\ \A u \in tracks : u.id <= t.id
            BY <2>4 DEF Hit
        <3>2. t \in TrackRecord /\ Len(t.hist) >= 1 /\ Last(t.hist).f <= n - 1 /\ Last(t.hist) \in Point /\ Last(t.hist).f \in Nat
            <4>1. t \in TrackRecord /\ Len(t.hist) >= 1 /\ Last(t.hist).f <= n - 1
                BY <1>1 DEF Drawn
            <4> QED BY <4>1, LastPoint DEF Point
        <3>3. v.id = t.id /\ Len(v.hist) >= 2 /\ v.hist[Len(v.hist) - 1] = Last(t.hist)
            <4>1. v = Matched(t, n, car)
                BY <3>1
            <4> QED BY <1>1, <3>2, <4>1, MatchedIs
        <3> DEFINE p == Last(t.hist)
                   q == Last(v.hist)
                   e == Before(v.id)
                   d == KeptOf(v.id)
                   past == 2 * p.f
                   upto == n - 1
        <3>4. Over(Passes, past)
            BY <3>1 DEF PastInv, Youngest
        <3>5. EstFits(e, p, Passes) /\ DecFits(e, d, upto, Passes) /\ Cools(e, d, n, clock)
            <4>1. CASE t.id \in DOMAIN est
                <5>1. Held(t, est[t.id], dec[t.id], n - 1, setup.stride, Passes) /\ Cools(est[t.id], dec[t.id], n, clock)
                    BY <1>3, <4>1
                <5>2. e = est[t.id] /\ d = dec[t.id]
                    BY <1>3, <3>3, <4>1 DEF Before, KeptOf
                <5> QED BY <5>1, <5>2 DEF Held
            <4>2. CASE t.id \notin DOMAIN est
                <5>1. e = Untimed /\ d = Unseen
                    BY <1>3, <3>3, <4>2 DEF Before, KeptOf
                <5>2. EstFits(Untimed, p, Passes) /\ DecFits(Untimed, Unseen, upto, Passes) /\ Untimed.stage = "first"
                    BY <3>2, FreshFits
                <5>3. Cools(Untimed, Unseen, n, clock)
                    BY <5>2 DEF Cools
                <5> QED BY <5>1, <5>2, <5>3
            <4> QED BY <4>1, <4>2
        <3>6. p \in Point /\ q \in Point /\ p.f < q.f
            BY <1>1, <1>5, <2>2, <3>2
        <3>7. p = v.hist[Len(v.hist) - 1] /\ q = Last(v.hist) /\ past = 2 * p.f
            BY <3>3
        <3>8. upto \in Nat /\ q.f = upto + 1
            BY <1>1, <2>2
        <3> HIDE DEF p, q, e, past, d, upto
        <3>9. r = TwoLines(e, v, setup.mode)
            BY DEF e
        <3>10. /\ EstFits(r.state, q, Passes) /\ r.result = Repeated(r.state, q)
               /\ e.stage = "done" => r.state = e
               /\ e.stage # "done" /\ r.state.stage = "done" => r.state.done = q.f /\ r.state.pass \notin Passes
               /\ e.stage = "first" => r.state.stage # "done"
               /\ r.state.stage # "done" => r.state.last = q.f
            <4> DEFINE s == TwoLines(e, v, setup.mode)
            <4>1. EstFits(e, p, Passes) /\ Len(v.hist) >= 2
                BY <3>3, <3>5
            <4>2. Anew(s, e, q, Passes)
                BY <3>4, <3>6, <3>7, <4>1, TimedAnew
            <4> QED BY <3>9, <4>2 DEF Anew
        <3>11. DecFits(r.state, d, upto, Passes) /\ Cools(r.state, d, n, clock)
            <4> DEFINE s == r.state
            <4>1. /\ e.stage = "done" => s = e
                  /\ e.stage # "done" /\ s.stage = "done" => s.done = upto + 1 /\ s.pass \notin Passes
                BY <3>8, <3>10
            <4> HIDE DEF s
            <4>2. DecFits(s, d, upto, Passes) /\ \A frame, time : Cools(e, d, frame, time) => Cools(s, d, frame, time)
                BY <3>5, <3>8, <4>1, CountFits
            <4> QED BY <3>5, <4>2 DEF s
        <3> QED BY <2>2, <3>3, <3>10, <3>11 DEF q, d, upto
    <2> QED BY <2>1, <2>3, <2>4
<1>7. CASE ~view.looked
    <2>1. next = tracks /\ view.active /\ n % setup.stride # 0
        BY <1>7 DEF Looked, RoadInv
    <2>2. v \in tracks /\ v \in ActiveTracks(tracks)
        BY <1>3, <1>7, <2>1 DEF Looked, ActiveTracks
    <2> DEFINE q == Last(v.hist)
    <2>3. CASE v.id \in DOMAIN est
        <3>1. /\ Held(v, est[v.id], dec[v.id], n - 1, setup.stride, Passes) /\ Before(v.id) = est[v.id]
              /\ KeptOf(v.id) = dec[v.id] /\ Cools(est[v.id], dec[v.id], n, clock)
            BY <1>3, <2>2, <2>3 DEF Before, KeptOf
        <3> DEFINE e == est[v.id]
        <3>2. /\ e.stage = "done" => n - 1 < q.f + setup.stride
              /\ EstFits(e, q, Passes) /\ DecFits(e, dec[v.id], n - 1, Passes)
              /\ e.stage # "done" /\ Len(v.hist) >= 2 => e.last = q.f
              /\ e.stage = "done" => Len(v.hist) >= 2
            BY <3>1 DEF Held
        <3>3. e.stage \in {"first", "second", "done"} /\ (Len(v.hist) < 2 => e.stage # "done")
            BY <1>5, <3>2 DEF EstFits, EstRecord
        <3>4. r.state = e /\ r.result = Repeated(e, q)
            <4>1. r = TwoLines(e, v, setup.mode) /\ q = Last(v.hist) /\ q.f \in Nat
                BY <1>5, <3>1
            <4> HIDE DEF e, q
            <4> QED BY <1>5, <3>2, <3>3, <4>1, TimedAgain
        <3>5. ASSUME e.stage = "done" PROVE n < q.f + setup.stride
            <4>1. q.f % setup.stride = 0 /\ q.f \in Nat
                BY <1>4, <1>5 DEF Drawn
            <4>2. n <= q.f + setup.stride
                BY <1>1, <1>2, <1>5, <3>2, <3>5
            <4> HIDE DEF q
            <4> QED BY <1>1, <1>2, <2>1, <4>1, <4>2, NextMultiple
        <3> QED BY <3>1, <3>2, <3>4, <3>5
    <2>4. CASE v.id \notin DOMAIN est
        <3>1. Before(v.id) = Untimed /\ KeptOf(v.id) = Unseen
            BY <1>3, <2>4 DEF Before, KeptOf
        <3>2. Passes = {}
            <4>1. setup.stride # 1
                <5>1. n = n * 1 /\ n \in Int
                    BY <1>1
                <5>2. n % 1 = 0
                    BY <1>1, <5>1, MultipleIs
                <5> QED BY <2>1, <5>2
            <4> QED BY <1>3, <2>2, <2>4, <4>1 DEF AllHeld
        <3> DEFINE P == {}
                   upto == n - 1
        <3>3. EstFits(Untimed, q, P) /\ DecFits(Untimed, Unseen, upto, P) /\ Untimed.stage = "first"
            BY <1>5, FreshFits
        <3>4. /\ EstFits(r.state, q, P) /\ r.result = Repeated(r.state, q) /\ r.state.stage # "done"
              /\ Len(v.hist) >= 2 => r.state.last = q.f
            <4>1. CASE Len(v.hist) < 2
                <5>1. r.state = Untimed /\ r.result = Nothing
                    BY <3>1, <4>1 DEF TwoLines
                <5> QED BY <1>5, <3>3, <4>1, <5>1 DEF Repeated
            <4>2. CASE Len(v.hist) >= 2
                <5> DEFINE p == v.hist[Len(v.hist) - 1]
                           past == 2 * p.f
                           e == Untimed
                <5>1. p \in Point /\ p.f < q.f
                    BY <1>4, <1>5, <4>2, LastPoint DEF Drawn
                <5>2. Over(P, past)
                    BY DEF Over
                <5>3. EstFits(e, p, P)
                    BY <5>1, FreshFits
                <5>4. past = 2 * p.f /\ p = v.hist[Len(v.hist) - 1] /\ q = Last(v.hist) /\ q \in Point
                    BY <1>5
                <5>5. r = TwoLines(e, v, setup.mode) /\ e.stage = "first"
                    BY <3>1, <3>3
                <5> HIDE DEF p, past, P, e, q
                <5>6. /\ EstFits(r.state, q, P) /\ r.result = Repeated(r.state, q)
                      /\ e.stage = "done" => r.state = e
                      /\ e.stage # "done" /\ r.state.stage = "done" => r.state.done = q.f /\ r.state.pass \notin P
                      /\ e.stage = "first" => r.state.stage # "done"
                      /\ r.state.stage # "done" => r.state.last = q.f
                    <6> DEFINE s == TwoLines(e, v, setup.mode)
                    <6>1. Anew(s, e, q, P)
                        BY <4>2, <5>1, <5>2, <5>3, <5>4, TimedAnew
                    <6> QED BY <5>5, <6>1 DEF Anew
                <5> QED BY <5>5, <5>6
            <4> QED BY <1>5, <4>1, <4>2
        <3>5. DecFits(r.state, Unseen, upto, P) /\ Cools(r.state, Unseen, n, clock)
            <4>1. Unseen.over = 0 /\ ~Unseen.reported /\ Unseen \in DecRecord
                BY <3>3 DEF DecFits
            <4> HIDE DEF r, P, upto
            <4> QED BY <3>4, <4>1 DEF DecFits, Cools
        <3> QED BY <3>1, <3>2, <3>4, <3>5
    <2> QED BY <2>3, <2>4
<1> QED BY <1>6, <1>7

\* The clock stays, or goes on with the frame.
Ticks(frame, time) == \/ frame = n /\ time = clock
                      \/ frame = n + 1 /\ time \in Nat /\ time - clock <= Slowest

\* A step that measures nothing leaves what is known of the tracks.
Rests ==
  /\ UNCHANGED <<setup, tracks, nextTrack, est, dec>>
  /\ car' \in 0 .. Road + 1 /\ car <= car' /\ Upto' \in Int /\ Upto <= Upto'
  /\ pc' \notin Ended => pc \notin Ended /\ Upto' = Upto /\ Ticks(n', clock')
  /\ Passes' \in SUBSET Passes

\* What held until a frame holds until a later one.
LEMMA DrawnLater ==
    ASSUME NEW t, NEW upto \in Int, NEW later \in Int, upto <= later, NEW most \in Int, NEW more \in Int, most <= more,
           NEW stride, Drawn(t, upto, most, stride)
    PROVE  Drawn(t, later, more, stride)
<1>1. t \in TrackRecord /\ Len(t.hist) >= 1 /\ Last(t.hist).f <= upto /\ At(t) <= most
    BY DEF Drawn
<1>2. Last(t.hist).f \in Nat /\ At(t) \in Nat
    BY <1>1, LastPoint DEF Point
<1>3. Last(t.hist).f <= later /\ At(t) <= more
    BY <1>1, <1>2
<1> QED BY <1>3 DEF Drawn

LEMMA OverLater == ASSUME NEW P, NEW Q \in SUBSET P, NEW time \in Int, NEW later \in Int, time <= later, Over(P, time)
                   PROVE  Over(Q, later)
<1> SUFFICES ASSUME NEW w \in Q PROVE w \in Int \X Int /\ w[2] <= later
    BY DEF Over
<1>1. w \in Int \X Int /\ w[2] <= time
    BY DEF Over
<1>2. w[2] \in Int
    BY <1>1
<1> QED BY <1>1, <1>2

LEMMA Doubled == ASSUME NEW a \in Int, NEW b \in Int, a <= b PROVE 2 * a \in Int /\ 2 * b \in Int /\ 2 * a <= 2 * b
OBVIOUS

\* A step that measures nothing keeps what is said of the tracks.
LEMMA RestsKeep ==
    ASSUME RepeatsFit, setup \in Setups, Counted, RoadInv, HeldInv, PastInv, Rests
    PROVE  /\ Lined(tracks') /\ \A t \in tracks' : Drawn(t, Upto', car', setup'.stride) /\ t.id < nextTrack'
           /\ HeldInv' /\ PastInv'
<1>0. n \in Nat /\ car \in Int /\ car' \in Int /\ car <= car' /\ Upto \in Int /\ Upto' \in Int /\ Upto <= Upto'
    BY DEF RoadInv, Rests, Upto
<1>1. tracks' = tracks /\ nextTrack' = nextTrack /\ setup' = setup /\ est' = est /\ dec' = dec
    BY DEF Rests
<1>2. ASSUME NEW t \in tracks PROVE Drawn(t, Upto', car', setup.stride) /\ t.id < nextTrack
    <2>1. Drawn(t, Upto, car, setup.stride) /\ t.id < nextTrack
        BY DEF RoadInv
    <2> QED BY <1>0, <2>1, DrawnLater
<1>3. Lined(tracks')
    BY <1>1 DEF RoadInv
<1>4. HeldInv'
    <2> SUFFICES ASSUME pc' \notin Ended
                 PROVE  /\ DOMAIN dec' = DOMAIN est' /\ DOMAIN est' \subseteq {t.id : t \in tracks'}
                        /\ \A t \in tracks' : t.id \in DOMAIN est' =>
                             /\ Held(t, est'[t.id], dec'[t.id], Upto', setup'.stride, Passes')
                             /\ Cools(est'[t.id], dec'[t.id], n', clock')
                        /\ AllHeld(tracks', DOMAIN est', setup'.stride, Passes')
        BY DEF HeldInv, Ended
    <2>1. pc \notin Ended /\ Upto' = Upto /\ Passes' \in SUBSET Passes /\ Ticks(n', clock')
        BY DEF Rests
    <2>2. /\ DOMAIN dec = DOMAIN est /\ DOMAIN est \subseteq {t.id : t \in tracks}
          /\ \A t \in tracks : t.id \in DOMAIN est =>
               Held(t, est[t.id], dec[t.id], Upto, setup.stride, Passes) /\ Cools(est[t.id], dec[t.id], n, clock)
          /\ AllHeld(tracks, DOMAIN est, setup.stride, Passes)
        BY <2>1 DEF HeldInv
    <2>3. ASSUME NEW t \in tracks, t.id \in DOMAIN est PROVE Held(t, est[t.id], dec[t.id], Upto', setup'.stride, Passes')
        <3>1. Held(t, est[t.id], dec[t.id], Upto, setup.stride, Passes)
            BY <2>2, <2>3
        <3>2. EstFits(est[t.id], Last(t.hist), Passes) /\ DecFits(est[t.id], dec[t.id], Upto, Passes)
            BY <3>1 DEF Held
        <3>3. EstFits(est[t.id], Last(t.hist), Passes') /\ DecFits(est[t.id], dec[t.id], Upto, Passes')
            BY <2>1, <3>2, EstShrinks, DecShrinks
        <3> QED BY <1>1, <2>1, <3>1, <3>3 DEF Held
    <2>4. \A t \in tracks : t.id \in DOMAIN est => Held(t, est[t.id], dec[t.id], Upto', setup'.stride, Passes')
        BY <2>3
    <2>5. ASSUME NEW t \in tracks, t.id \in DOMAIN est PROVE Cools(est[t.id], dec[t.id], n', clock')
        <3> DEFINE e == est[t.id]
                   d == dec[t.id]
                   later == clock'
        <3>1. Cools(e, d, n, clock) /\ EstFits(e, Last(t.hist), Passes) /\ DecFits(e, d, Upto, Passes)
            BY <2>2, <2>5 DEF Held
        <3>2. e \in EstRecord /\ d \in DecRecord
            BY <3>1 DEF EstFits, DecFits
        <3>3. n \in Nat /\ clock \in Nat
            BY DEF RoadInv
        <3>4. \/ n' = n /\ later = clock
              \/ n' = n + 1 /\ later \in Nat /\ later - clock <= Slowest
            BY <2>1 DEF Ticks
        <3> HIDE DEF e, d, later
        <3>5. Cools(e, d, n', later)
            <4>1. CASE n' = n /\ later = clock
                BY <3>1, <4>1
            <4>2. CASE n' = n + 1 /\ later \in Nat /\ later - clock <= Slowest
                <5>1. Cools(e, d, n + 1, later)
                    BY <3>1, <3>2, <3>3, <4>2, CoolsLater
                <5> QED BY <4>2, <5>1
            <4> QED BY <3>4, <4>1, <4>2
        <3> QED BY <3>5 DEF e, d, later
    <2>6. \A t \in tracks : t.id \in DOMAIN est => Cools(est[t.id], dec[t.id], n', clock')
        BY <2>5
    <2>7. AllHeld(tracks, DOMAIN est, setup.stride, Passes')
        BY <2>1, <2>2 DEF AllHeld
    <2> QED BY <1>1, <2>2, <2>4, <2>6, <2>7
<1>5. PastInv'
    <2>0. Passes' \in SUBSET Passes
        BY DEF Rests
    <2>1. Over(Passes', 2 * Upto')
        <3>1. Over(Passes, 2 * Upto)
            BY DEF PastInv
        <3>2. 2 * Upto \in Int /\ 2 * Upto' \in Int /\ 2 * Upto <= 2 * Upto'
            BY <1>0, Doubled
        <3> QED BY <2>0, <3>1, <3>2, OverLater
    <2>2. ASSUME NEW t \in tracks, \A u \in tracks : u.id <= t.id PROVE Over(Passes', 2 * Last(t.hist).f)
        <3>1. Over(Passes, 2 * Last(t.hist).f)
            BY <2>2 DEF PastInv, Youngest
        <3> QED BY <2>0, <3>1 DEF Over
    <2> QED BY <1>1, <2>1, <2>2 DEF PastInv, Youngest
<1> QED BY <1>1, <1>2, <1>3, <1>4, <1>5

\* One row more, after all the others.
Longer(s, t, row) == \E k \in Nat : /\ DOMAIN s \subseteq 1 .. (k - 1) /\ DOMAIN t = DOMAIN s \cup {k} /\ t[k] = row
                                    /\ \A i \in DOMAIN s : t[i] = s[i]

\* A row is new: none since the gate was shut is like it.
New(row, list, since, skips) == /\ row.pass \notin PassesOf(list, since)
                                /\ since = 0 \/ (skips /\ row.shut = since)
                                /\ since \in Nat /\ \A i \in DOMAIN list : list[i].n \in Nat

\* A row of a new passage leaves the rows unlike.
LEMMA LongerIs ==
    ASSUME NEW s, NEW t, NEW row, Longer(s, t, row), NEW since, NEW skips
    PROVE  /\ PassesOf(t, since) \subseteq PassesOf(s, since) \cup PassesOf(<<row>>, since)
           /\ Unlike(s, skips) /\ New(row, s, since, skips) => Unlike(t, skips)
           /\ \A i \in DOMAIN t : t[i] = row \/ \E j \in DOMAIN s : t[i] = s[j]
<1>1. PICK k \in Nat : /\ DOMAIN s \subseteq 1 .. (k - 1) /\ DOMAIN t = DOMAIN s \cup {k} /\ t[k] = row
                       /\ \A i \in DOMAIN s : t[i] = s[i]
    BY DEF Longer
<1>2. PassesOf(t, since) \subseteq PassesOf(s, since) \cup PassesOf(<<row>>, since)
    <2> SUFFICES ASSUME NEW i \in DOMAIN t, t[i].n >= since
                 PROVE  t[i].pass \in PassesOf(s, since) \/ t[i].pass \in PassesOf(<<row>>, since)
        BY DEF PassesOf
    <2>1. CASE i = k
        <3>1. DOMAIN <<row>> = {1} /\ <<row>>[1] = row
            OBVIOUS
        <3> QED BY <1>1, <2>1, <3>1 DEF PassesOf
    <2>2. CASE i \in DOMAIN s
        <3>1. t[i] = s[i]
            BY <1>1, <2>2
        <3> QED BY <2>2, <3>1 DEF PassesOf
    <2> QED BY <1>1, <2>1, <2>2
<1>3. ASSUME Unlike(s, skips), New(row, s, since, skips) PROVE Unlike(t, skips)
    <2> SUFFICES ASSUME NEW i \in DOMAIN t, NEW j \in DOMAIN t, i < j, t[i].pass = t[j].pass
                 PROVE  skips /\ t[i].n < t[j].shut
        BY DEF Unlike
    <2>1. i \in Int /\ j \in Int /\ i \in DOMAIN s /\ t[i] = s[i] /\ (j \in DOMAIN s \/ j = k)
        BY <1>1
    <2>2. CASE j \in DOMAIN s
        BY <1>1, <1>3, <2>1, <2>2 DEF Unlike
    <2>3. CASE j = k
        <3>1. t[j] = row /\ s[i].pass = row.pass
            BY <1>1, <2>1, <2>3
        <3>2. s[i].n \in Nat /\ since \in Nat /\ ~(s[i].n >= since)
            BY <1>3, <2>1, <3>1 DEF New, PassesOf
        <3>3. skips /\ row.shut = since
            BY <1>3, <3>2 DEF New
        <3> QED BY <2>1, <3>1, <3>2, <3>3
    <2> QED BY <2>1, <2>2, <2>3
<1> QED BY <1>1, <1>2, <1>3

LEMMA AppendLonger == ASSUME NEW s, Sequential(s), NEW row PROVE Longer(s, Append(s, row), row)
<1>1. /\ Len(s) \in Nat /\ DOMAIN s = 1 .. Len(s) /\ DOMAIN Append(s, row) = 1 .. (Len(s) + 1)
      /\ Append(s, row)[Len(s) + 1] = row /\ \A i \in 1 .. Len(s) : Append(s, row)[i] = s[i]
    BY AppendGrows DEF Sequential
<1> DEFINE k == Len(s) + 1
<1>2. k \in Nat /\ 1 .. (k - 1) = 1 .. Len(s) /\ 1 .. k = 1 .. Len(s) \cup {k}
    BY <1>1
<1> QED BY <1>1, <1>2 DEF Longer

\* What a step that writes does to the rows.
LEMMA FilesIs ==
    ASSUME NewInv, RoadInv, setup \in Setups, Files
    PROVE  /\ UNCHANGED <<setup, n, car, clock, view, tracks, nextTrack, est, dec>>
           /\ pc \in {"save", "append", "journal", "report"}
           /\ pc' \in {"get", "journal", "report"} \cup Ended
           /\ Passes' \in SUBSET Passes /\ NewInv'
<1>1. /\ UNCHANGED <<setup, n, car, clock, view, tracks, nextTrack, est, dec>>
      /\ pc \in {"save", "append", "journal", "report"}
    BY DEF Files, Publish, WriteJournal, ProcessSave, ProcessReport, SingleSave, frameVars, procVars, olderOnly
<1>2. PICK row : unfiled = <<row>>
    BY <1>1 DEF NewInv
<1>3. Head(unfiled) = row /\ unfiled[1] = row /\ Tail(unfiled) = <<>> /\ unfiled # <<>> /\ DOMAIN unfiled = {1}
    <2>1. Head(<<row>>) = row /\ <<row>>[1] = row /\ Tail(<<row>>) = <<>> /\ <<row>> # <<>> /\ DOMAIN <<row>> = {1}
        OBVIOUS
    <2> QED BY <1>2, <2>1
<1>4. PassesOf(<<>>, Since) = {} /\ Since' = Since /\ Skips' = Skips
    <2>1. DOMAIN <<>> = {}
        OBVIOUS
    <2> QED BY <1>1, <2>1 DEF PassesOf, Since, Skips
<1>5. /\ Sequential(outbox) /\ Sequential(journal) /\ Unlike(Written, Skips)
      /\ row.n = n /\ row.shut = view.shut /\ n \in Nat /\ view.shut \in Nat /\ Upto = n
      /\ \A i \in DOMAIN Written : Written[i].n \in Nat /\ Written[i].n <= n
    BY <1>1, <1>3 DEF NewInv, RoadInv, Upto
<1>6. pc \in {"save", "append"} => New(row, Written, Since, Skips)
    <2> SUFFICES ASSUME pc \in {"save", "append"} PROVE New(row, Written, Since, Skips)
        OBVIOUS
    <2>1. row.pass \notin PassesOf(Written, Since)
        BY <1>3 DEF NewInv
    <2> QED BY <1>5, <2>1 DEF New, Since
<1>7. Passes' = PassesOf(Written', Since) \cup PassesOf(unfiled', Since)
    BY <1>4 DEF Passes
<1>8. ASSUME pc' \in {"get", "journal", "report"} \cup Ended,
             pc' = "get" => unfiled' = <<>>, unfiled' = <<>> \/ unfiled' = unfiled,
             pc' \in {"journal", "report"} => unfiled' = unfiled,
             Sequential(outbox'), Sequential(journal'), Unlike(Written', Skips),
             \A i \in DOMAIN Written' : Written'[i].n \in Nat /\ Written'[i].n <= n
      PROVE  NewInv'
    <2>1. Upto' = n
        BY <1>1, <1>8 DEF Upto, Ended
    <2>2. /\ Sequential(outbox') /\ Sequential(journal') /\ Unlike(Written', Skips')
          /\ \A i \in DOMAIN Written' : Written'[i].n \in Nat /\ Written'[i].n <= Upto'
        BY <1>4, <1>8, <2>1
    <2>3. \A i \in DOMAIN unfiled' : unfiled'[i].n = n' /\ unfiled'[i].shut = view'.shut
        <3>1. DOMAIN <<>> = {}
            OBVIOUS
        <3> QED BY <1>1, <1>3, <1>5, <1>8, <3>1
    <2>4. /\ pc' \in {"get", "ask", "wait", "track"} => unfiled' = <<>>
          /\ pc' \in {"save", "append", "journal", "report"} => \E r : unfiled' = <<r>>
          /\ pc' \notin {"save", "append"}
        BY <1>2, <1>8 DEF Ended
    <2> QED BY <2>2, <2>3, <2>4 DEF NewInv
<1>9. ASSUME Written' = Written
      PROVE  /\ Unlike(Written', Skips) /\ PassesOf(Written', Since) \subseteq Passes
             /\ \A i \in DOMAIN Written' : Written'[i].n \in Nat /\ Written'[i].n <= n
    BY <1>5, <1>9 DEF Passes
<1>10. ASSUME Longer(Written, Written', row), pc \in {"save", "append"}
       PROVE  /\ Unlike(Written', Skips) /\ PassesOf(Written', Since) \subseteq Passes
              /\ \A i \in DOMAIN Written' : Written'[i].n \in Nat /\ Written'[i].n <= n
    <2> DEFINE s == Written
               t == Written'
               since == Since
               skips == Skips
    <2>1. Longer(s, t, row)
        BY <1>10
    <2>2. Unlike(s, skips) /\ New(row, s, since, skips)
        BY <1>5, <1>6, <1>10
    <2>3. /\ \A i \in DOMAIN s : s[i].n \in Nat /\ s[i].n <= n
          /\ row.n \in Nat /\ row.n <= n
        BY <1>5
    <2>4. PassesOf(s, since) \cup PassesOf(<<row>>, since) = Passes
        BY <1>2 DEF Passes
    <2> HIDE DEF s, t, since, skips
    <2>5. /\ PassesOf(t, since) \subseteq PassesOf(s, since) \cup PassesOf(<<row>>, since)
          /\ Unlike(t, skips)
          /\ \A i \in DOMAIN t : t[i] = row \/ \E j \in DOMAIN s : t[i] = s[j]
        BY <2>1, <2>2, LongerIs
    <2>6. \A i \in DOMAIN t : t[i].n \in Nat /\ t[i].n <= n
        BY <2>3, <2>5
    <2> QED BY <2>4, <2>5, <2>6 DEF t, since, skips
<1>11. PassesOf(unfiled, Since) \subseteq Passes
    BY DEF Passes
<1>12. CASE Publish
    <2>1. Service /\ Service' /\ pc = "append" /\ UNCHANGED <<setup, unfiled, journal>>
        BY <1>12 DEF Publish, Service
    <2>2. CASE Valid
        <3> DEFINE e == Envelope(row)
        <3>1. outbox' = Append(outbox, e) /\ pc' = "journal"
            BY <1>3, <1>12, <2>2 DEF Publish
        <3>2. e.event = row
            BY DEF Envelope
        <3> HIDE DEF e
        <3>3. Sequential(outbox') /\ Longer(outbox, outbox', e)
            BY <1>5, <3>1, AppendGrows, AppendLonger
        <3>4. /\ Written = [i \in DOMAIN outbox |-> outbox[i].event]
              /\ Written' = [i \in DOMAIN outbox' |-> outbox'[i].event]
            BY <2>1 DEF Written
        <3>5. Longer(Written, Written', row)
            <4>1. PICK k \in Nat : /\ DOMAIN outbox \subseteq 1 .. (k - 1)
                                   /\ DOMAIN outbox' = DOMAIN outbox \cup {k} /\ outbox'[k] = e
                                   /\ \A i \in DOMAIN outbox : outbox'[i] = outbox[i]
                BY <3>3 DEF Longer
            <4> QED BY <3>2, <3>4, <4>1 DEF Longer
        <3>6. NewInv'
            BY <1>5, <1>8, <1>10, <2>1, <3>1, <3>3, <3>5
        <3>7. Passes' \in SUBSET Passes
            BY <1>7, <1>10, <1>11, <2>1, <3>5
        <3> QED BY <1>1, <3>1, <3>6, <3>7
    <2>3. CASE ~Valid
        <3>1. pc' = "ended" /\ outbox' = outbox
            BY <1>12, <2>3 DEF Publish
        <3>2. Written' = Written
            BY <2>1, <3>1 DEF Written
        <3>3. Passes' \in SUBSET Passes
            BY <1>7, <1>9, <1>11, <2>1, <3>2
        <3>4. NewInv'
            BY <1>5, <1>8, <1>9, <2>1, <3>1, <3>2 DEF Ended
        <3> QED BY <1>1, <3>1, <3>3, <3>4 DEF Ended
    <2> QED BY <2>2, <2>3
<1>13. CASE WriteJournal
    <2>1. /\ Service /\ Service' /\ UNCHANGED <<setup, outbox>> /\ journal' = Append(journal, row)
          /\ unfiled' = <<>> /\ pc' = "get"
        BY <1>3, <1>13 DEF WriteJournal, Service
    <2>2. Written' = Written /\ Sequential(journal')
        BY <1>5, <2>1, AppendGrows DEF Written
    <2>3. Passes' \in SUBSET Passes
        BY <1>4, <1>7, <1>9, <2>1, <2>2
    <2>4. NewInv'
        BY <1>5, <1>8, <1>9, <2>1, <2>2
    <2> QED BY <1>1, <2>1, <2>3, <2>4
<1>14. CASE ProcessSave \/ SingleSave
    <2>1. /\ ~Service /\ ~Service' /\ pc = "save" /\ UNCHANGED <<setup, outbox>> /\ journal' = Append(journal, row)
          /\ (unfiled' = unfiled /\ pc' = "report") \/ (unfiled' = <<>> /\ pc' = "get")
        <3>1. CASE ProcessSave
            BY <1>3, <3>1 DEF ProcessSave, Service, olderOnly, procVars
        <3>2. CASE SingleSave
            <4>1. journal \o <<row>> = Append(journal, row)
                <5>1. PICK S : journal \in Seq(S)
                    BY <1>5 DEF Sequential
                <5> DEFINE T == S \cup {row}
                <5>2. journal \in Seq(T) /\ row \in T
                    BY <5>1, SeqMonotonic
                <5> HIDE DEF T
                <5> QED BY <5>2, AppendIsConcat
            <4> QED BY <1>2, <3>2, <4>1 DEF SingleSave, Service, olderOnly
        <3> QED BY <1>14, <3>1, <3>2
    <2>2. Written = journal /\ Written' = journal'
        BY <2>1 DEF Written
    <2>3. Longer(Written, Written', row) /\ Sequential(journal')
        BY <1>5, <2>1, <2>2, AppendLonger, AppendGrows
    <2>4. Passes' \in SUBSET Passes
        BY <1>4, <1>7, <1>10, <1>11, <2>1, <2>3
    <2>5. NewInv'
        BY <1>5, <1>8, <1>10, <2>1, <2>3
    <2> QED BY <1>1, <2>1, <2>4, <2>5
<1>15. CASE ProcessReport
    <2>1. /\ ~Service /\ ~Service' /\ UNCHANGED <<setup, outbox, journal>> /\ unfiled' = <<>> /\ pc' = "get"
        BY <1>3, <1>15 DEF ProcessReport, Service, olderOnly
    <2>2. Written' = Written
        BY <2>1 DEF Written
    <2>3. Passes' \in SUBSET Passes
        BY <1>4, <1>7, <1>9, <2>1, <2>2
    <2>4. NewInv'
        BY <1>5, <1>8, <1>9, <2>1, <2>2
    <2> QED BY <1>1, <2>1, <2>3, <2>4
<1> QED BY <1>12, <1>13, <1>14, <1>15 DEF Files

\* The steps, one kind after the other.
LEMMA DrivesKeep ==
    ASSUME RepeatsFit, setup \in Setups, Counted, RoadInv, HeldInv, PastInv, NewInv, Drives
    PROVE  RoadInv' /\ HeldInv' /\ PastInv' /\ NewInv'
<1>1. /\ pc = "get" /\ pc' \in {"ask", "track"} /\ n' = n + 1
      /\ UNCHANGED <<setup, tracks, nextTrack, est, dec, unfiled, outbox, journal>>
      /\ car' \in 0 .. Road + 1 /\ car <= car' /\ clock' \in Nat /\ clock' - clock <= Slowest
      /\ view'.shut = IF view'.active THEN view.shut ELSE n + 1
      /\ view'.looked <=> view'.active /\ (n + 1) % setup.stride = 0
      /\ (~setup.motion => view'.active) /\ view'.seen \subseteq {car'}
    BY DEF Drives, Observed
<1>2. n \in Nat /\ nextTrack \in Nat /\ Upto = n /\ Upto' = n' - 1 /\ view.shut \in Nat
    BY <1>1 DEF RoadInv, Upto
<1>3. Upto' = Upto /\ Upto \in Int /\ n' \in Nat /\ n' > 0 /\ view'.shut \in Nat
    BY <1>1, <1>2
<1>4. Written' = Written /\ unfiled = <<>> /\ unfiled' = <<>> /\ Skips' = Skips
    BY <1>1 DEF Written, Service, NewInv, Skips
<1>5. Passes' \in SUBSET Passes
    <2>0. /\ \A i \in DOMAIN Written : Written[i].n \in Nat /\ Written[i].n <= n
          /\ DOMAIN <<>> = {}
        BY <1>2 DEF NewInv
    <2>1. Passes = PassesOf(Written, Since) /\ Passes' = PassesOf(Written, Since')
        BY <1>4, <2>0 DEF Passes, PassesOf
    <2>2. Since' = Since \/ Since' = n + 1
        BY <1>1, <1>4 DEF Since
    <2> DEFINE w == Written
               later == Since'
               since == Since
    <2>3. \A i \in DOMAIN w : w[i].n \in Nat /\ w[i].n <= n
        BY <2>0
    <2>4. later = since \/ later = n + 1
        BY <2>2
    <2> HIDE DEF w, later, since
    <2>5. PassesOf(w, later) \subseteq PassesOf(w, since)
        <3>1. CASE later = since
            BY <3>1
        <3>2. CASE later = n + 1
            BY <1>2, <2>3, <3>2 DEF PassesOf
        <3> QED BY <2>4, <3>1, <3>2
    <2> QED BY <2>1, <2>5 DEF w, later, since
<1>6. pc \notin Ended /\ Upto <= Upto' /\ Ticks(n', clock')
    BY <1>1, <1>3 DEF Ended, Ticks
<1>7. Rests
    BY <1>1, <1>3, <1>5, <1>6 DEF Rests
<1>8. /\ Lined(tracks') /\ \A t \in tracks' : Drawn(t, Upto', car', setup'.stride) /\ t.id < nextTrack'
      /\ HeldInv' /\ PastInv'
    BY <1>7, RestsKeep
<1>9. /\ n' \in Nat /\ car' \in 0 .. Road + 1 /\ nextTrack' \in Nat /\ clock' \in Nat
      /\ view'.seen \subseteq {car'} /\ view'.shut \in Nat
      /\ n' > 0
      /\ view'.looked <=> view'.active /\ n' % setup'.stride = 0
      /\ ~setup'.motion => view'.active
      /\ ~view'.active => view'.shut = n'
    BY <1>1, <1>2, <1>3
<1>10. RoadInv'
    BY <1>8, <1>9 DEF RoadInv
<1>11. NewInv'
    <2>1. /\ Sequential(outbox') /\ Sequential(journal') /\ Unlike(Written', Skips')
          /\ \A i \in DOMAIN Written' : Written'[i].n \in Nat /\ Written'[i].n <= Upto'
        BY <1>1, <1>3, <1>4 DEF NewInv
    <2>2. DOMAIN <<>> = {}
        OBVIOUS
    <2> QED BY <1>1, <1>4, <2>1, <2>2 DEF NewInv
<1> QED BY <1>8, <1>10, <1>11

LEMMA StaysKeep ==
    ASSUME RepeatsFit, setup \in Setups, Counted, RoadInv, HeldInv, PastInv, NewInv, Stays
    PROVE  RoadInv' /\ HeldInv' /\ PastInv' /\ NewInv'
<1>1. /\ UNCHANGED <<setup, n, car, clock, view, tracks, nextTrack, est, dec, unfiled, outbox, journal>>
      /\ pc' = pc \/ pc' \in Ended \/ (pc = "ask" /\ pc' = "wait") \/ (pc = "save" /\ pc' = "append")
    BY DEF Stays
<1>2. n \in Nat /\ car \in 0 .. Road + 1 /\ nextTrack \in Nat /\ Road \in Nat
    BY RuntimeAssumption DEF RoadInv
<1>3. /\ Upto \in Int /\ Upto' \in Int /\ Upto <= Upto'
      /\ pc' \notin Ended => pc \notin Ended /\ Upto' = Upto /\ Ticks(n', clock')
    BY <1>1, <1>2 DEF Upto, Ended, Ticks
<1>4. Written' = Written /\ Since' = Since /\ Skips' = Skips
    BY <1>1 DEF Written, Service, Since, Skips
<1>5. Passes' = Passes
    BY <1>1, <1>4 DEF Passes
<1>6. Rests
    BY <1>1, <1>2, <1>3, <1>5 DEF Rests
<1>7. /\ Lined(tracks') /\ \A t \in tracks' : Drawn(t, Upto', car', setup'.stride) /\ t.id < nextTrack'
      /\ HeldInv' /\ PastInv'
    BY <1>6, RestsKeep
<1>8. RoadInv'
    <2>1. pc' \in {"ask", "wait", "track"} => pc \in {"ask", "wait", "track"}
        BY <1>1 DEF Ended
    <2>2. /\ n' \in Nat /\ car' \in 0 .. Road + 1 /\ nextTrack' \in Nat /\ view'.seen \subseteq {car'}
          /\ clock' \in Nat /\ view'.shut \in Nat
        BY <1>1, <1>2 DEF RoadInv
    <2>3. pc' \in {"ask", "wait", "track"} =>
              /\ n' > 0
              /\ view'.looked <=> view'.active /\ n' % setup'.stride = 0
              /\ ~setup'.motion => view'.active
              /\ ~view'.active => view'.shut = n'
        BY <1>1, <2>1 DEF RoadInv
    <2> QED BY <1>7, <2>2, <2>3 DEF RoadInv
<1>9. NewInv'
    <2>0. \A i \in DOMAIN Written' : Written'[i].n \in Nat /\ Written'[i].n <= Upto'
        <3> SUFFICES ASSUME NEW i \in DOMAIN Written PROVE Written[i].n \in Nat /\ Written[i].n <= Upto'
            BY <1>4
        <3>1. Written[i].n \in Nat /\ Written[i].n <= Upto
            BY DEF NewInv
        <3> QED BY <1>3, <3>1
    <2>1. /\ Sequential(outbox') /\ Sequential(journal') /\ Unlike(Written', Skips')
          /\ unfiled' = unfiled /\ Written' = Written /\ Since' = Since
          /\ \A i \in DOMAIN unfiled' : unfiled'[i].n = n' /\ unfiled'[i].shut = view'.shut
          /\ \A i \in DOMAIN Written' : Written'[i].n \in Nat /\ Written'[i].n <= Upto'
        BY <1>1, <1>4, <2>0 DEF NewInv
    <2>2. CASE pc' \in Ended
        BY <2>1, <2>2 DEF NewInv, Ended
    <2>3. CASE pc' \notin Ended
        BY <1>1, <2>1, <2>3 DEF NewInv, Ended
    <2> QED BY <2>2, <2>3
<1> QED BY <1>7, <1>8, <1>9

LEMMA FilesKeep ==
    ASSUME RepeatsFit, setup \in Setups, Counted, RoadInv, HeldInv, PastInv, NewInv, Files
    PROVE  RoadInv' /\ HeldInv' /\ PastInv' /\ NewInv'
<1>1. /\ UNCHANGED <<setup, n, car, clock, view, tracks, nextTrack, est, dec>>
      /\ pc \in {"save", "append", "journal", "report"}
      /\ pc' \in {"get", "journal", "report"} \cup Ended
      /\ Passes' \in SUBSET Passes /\ NewInv'
    BY FilesIs
<1>2. n \in Nat /\ car \in 0 .. Road + 1 /\ nextTrack \in Nat /\ Road \in Nat
    BY RuntimeAssumption DEF RoadInv
<1>3. Upto = n /\ Upto' = n /\ pc \notin Ended /\ pc' \notin {"ask", "wait", "track"} /\ Ticks(n', clock')
    BY <1>1 DEF Upto, Ended, Ticks
<1>4. Rests
    BY <1>1, <1>2, <1>3 DEF Rests
<1>5. /\ Lined(tracks') /\ \A t \in tracks' : Drawn(t, Upto', car', setup'.stride) /\ t.id < nextTrack'
      /\ HeldInv' /\ PastInv'
    BY <1>4, RestsKeep
<1>6. /\ n' \in Nat /\ car' \in 0 .. Road + 1 /\ nextTrack' \in Nat /\ view'.seen \subseteq {car'}
      /\ clock' \in Nat /\ view'.shut \in Nat
    BY <1>1, <1>2 DEF RoadInv
<1>7. RoadInv'
    BY <1>3, <1>5, <1>6 DEF RoadInv
<1> QED BY <1>1, <1>5, <1>7

\* The tracks of the next frame: what was reported before is over when the youngest of
\* them was last seen.
LEMMA PastMeasured ==
    ASSUME RepeatsFit, setup \in Setups, Counted, RoadInv, PastInv, pc \in {"wait", "track"}, NEW seen \in SUBSET {car},
           NEW next, next = IF view.looked THEN TracksAfter(tracks, seen, n, nextTrack) ELSE tracks,
           NEW t \in next, \A u \in next : u.id <= t.id
    PROVE  Over(Passes, 2 * Last(t.hist).f)
<1>1. /\ n \in Nat /\ n > 0 /\ Upto = n - 1 /\ Lined(tracks)
      /\ \A u \in tracks : u \in TrackRecord
    BY DEF RoadInv, Upto, Drawn
<1>2. CASE ~view.looked
    <2>1. next = tracks
        BY <1>2
    <2> QED BY <2>1 DEF PastInv, Youngest
<1>3. CASE view.looked
    <2>1. /\ t.missed = 0 => Last(t.hist) = [f |-> n, x |-> car]
          /\ t.missed # 0 => \E u \in tracks : t = Missed(u) /\ t.id = u.id /\ t.hist = u.hist
        BY <1>3, RoadMeasured
    <2>2. CASE t.missed = 0
        <3>1. Last(t.hist).f = n
            BY <2>1, <2>2
        <3>2. Over(Passes, 2 * (n - 1))
            BY <1>1 DEF PastInv
        <3>3. 2 * (n - 1) \in Int /\ 2 * n \in Int /\ 2 * (n - 1) <= 2 * n
            BY <1>1
        <3>4. Over(Passes, 2 * n)
            BY <3>2, <3>3, OverLater
        <3> QED BY <3>1, <3>4
    <2>3. CASE t.missed # 0
        <3>1. PICK u \in tracks : t = Missed(u) /\ t.id = u.id /\ t.hist = u.hist
            BY <2>1, <2>3
        <3>2. next = TracksAfter(tracks, seen, n, nextTrack)
            BY <1>3
        <3>3. Missed(u) \in TracksAfter(tracks, seen, n, nextTrack)
            BY <3>1, <3>2
        <3>4. \A w \in tracks : w.id \in Nat
            BY <1>1 DEF TrackRecord
        <3>5. ASSUME NEW w \in tracks, u.id < w.id PROVE FALSE
            <4>1. \/ Missed(w) \in TracksAfter(tracks, seen, n, nextTrack)
                  \/ \E y : Matched(w, n, y) \in TracksAfter(tracks, seen, n, nextTrack)
                BY <1>1, <3>3, <3>5, TracksFollow
            <4>2. w \in TrackRecord
                BY <1>1
            <4>3. Missed(w).id = w.id /\ \A y : Matched(w, n, y).id = w.id
                BY <4>2 DEF Missed, Matched, TrackRecord
            <4>4. \E v \in next : v.id = w.id
                BY <3>2, <4>1, <4>3
            <4>5. w.id <= t.id
                BY <4>4
            <4> QED BY <3>1, <3>4, <3>5, <4>5
        <3>6. Youngest(u)
            BY <3>4, <3>5 DEF Youngest
        <3> QED BY <3>1, <3>6 DEF PastInv
    <2> QED BY <2>2, <2>3
<1> QED BY <1>2, <1>3

\* The track that is looked at is the youngest.
LEMMA LookedYoungest ==
    ASSUME NEW K, Lined(K), \A u \in K : u \in TrackRecord, NEW v \in K, v.missed = 0,
           NEW t \in K, \A u \in K : u.id <= t.id
    PROVE  t = v
<1>1. v.id \in Nat /\ t.id \in Nat /\ t.missed \in Nat /\ v.id <= t.id
    BY DEF TrackRecord
<1>2. (v.id = t.id => v = t) /\ (v.id < t.id => v.missed > t.missed)
    BY DEF Lined
<1> QED BY <1>1, <1>2

\* What the frame adds to the estimator and the decider of the track looked at.
LEMMA DecidedMeasured ==
    ASSUME RepeatsFit, setup \in Setups, Counted, RoadInv, HeldInv, PastInv, pc \in {"wait", "track"},
           NEW seen \in SUBSET {car},
           NEW next, next = IF view.looked THEN TracksAfter(tracks, seen, n, nextTrack) ELSE tracks,
           NEW v \in Looked(next)
    PROVE  LET r == TwoLines(Before(v.id), v, setup.mode)
               d == Decide(KeptOf(v.id), r.result, clock)
               new == Passes \cup {w \in {r.state.pass} : d.report}
           IN /\ d.report \in BOOLEAN
              /\ d.report => r.state.pass \notin Passes
              /\ Held(v, r.state, d.state, n, setup.stride, new) /\ Cools(r.state, d.state, n, clock)
              /\ Over(new, 2 * n)
              /\ \A w \in new : w \in Passes \/ (w \in Int \X Int /\ w[2] <= 2 * Last(v.hist).f)
<1> DEFINE r == TwoLines(Before(v.id), v, setup.mode)
           d == Decide(KeptOf(v.id), r.result, clock)
           q == Last(v.hist)
           e == r.state
           k == KeptOf(v.id)
           gain == {w \in {e.pass} : d.report}
           new == Passes \cup gain
           upto == n - 1
           stride == setup.stride
<1>1. /\ EstFits(e, q, Passes) /\ DecFits(e, k, upto, Passes) /\ r.result = Repeated(e, q)
      /\ e.stage # "done" /\ Len(v.hist) >= 2 => e.last = q.f
      /\ e.stage = "done" => Len(v.hist) >= 2
      /\ e.stage = "done" => n < q.f + stride
      /\ Cools(e, k, n, clock)
    BY HeldMeasured
<1>2. Drawn(v, n, car, stride)
    BY RoadMeasured DEF Looked, ActiveTracks
<1>3. v \in TrackRecord /\ Len(v.hist) >= 1 /\ q.f <= n
    BY <1>2 DEF Drawn
<1>4. q \in Point
    BY <1>3, LastPoint
<1>5. stride \in Nat \ {0} /\ NumbersFit(stride)
    BY SetupFits
<1>6. upto \in Nat /\ upto + 1 = n /\ n \in Nat /\ clock \in Nat
    BY DEF RoadInv
<1>7. Over(Passes, 2 * upto)
    BY DEF PastInv, Upto
<1>8. Verdict(d, k, r.result, clock)
    BY DecideIs
<1>9. q.f \in Nat
    BY <1>4 DEF Point
<1> HIDE DEF r, d, q, e, k, upto, stride
<1>10. Verdict(d, k, Repeated(e, q), clock) /\ Cools(e, k, upto + 1, clock)
    BY <1>1, <1>6, <1>8
<1>11. q.f <= upto + 1 /\ (e.stage = "done" => upto + 1 < q.f + stride)
    BY <1>1, <1>3, <1>6
<1>12. /\ d.report \in BOOLEAN
       /\ d.report => e.stage = "done" /\ e.pass \notin Passes
       /\ DecFits(e, d.state, upto + 1, Passes \cup {w \in {e.pass} : d.report})
       /\ Cools(e, d.state, upto + 1, clock)
    BY <1>1, <1>4, <1>5, <1>6, <1>10, <1>11, DecidedOnce
<1>13. DecFits(e, d.state, n, new) /\ Cools(e, d.state, n, clock)
    BY <1>6, <1>12
<1>14. gain \in SUBSET {e.pass} /\ (gain # {} => e.stage = "done")
    BY <1>12
<1>15. EstFits(e, q, new)
    <2> HIDE DEF gain
    <2> QED BY <1>1, <1>14, EstGrows
<1>16. \A w \in gain : w \in Int \X Int /\ w[2] <= 2 * q.f
    <2> SUFFICES ASSUME NEW w \in gain PROVE w \in Int \X Int /\ w[2] <= 2 * q.f
        OBVIOUS
    <2>1. w = e.pass /\ e.stage = "done"
        BY <1>12
    <2>2. /\ e.pass \in Int \X Int /\ e.pass[2] <= 2 * e.done /\ e.done <= q.f /\ e.done \in Nat
        BY <1>1, <2>1 DEF EstFits, EstRecord
    <2>3. e.pass[2] \in Int
        BY <2>2
    <2>4. e.pass[2] <= 2 * q.f
        BY <1>9, <2>2, <2>3
    <2> QED BY <2>1, <2>2, <2>4
<1>17. Over(new, 2 * n)
    <2>1. 2 * upto \in Int /\ 2 * n \in Int /\ 2 * upto <= 2 * n
        BY <1>6
    <2>2. Over(Passes, 2 * n)
        BY <1>7, <2>1, OverLater
    <2>3. \A w \in gain : w \in Int \X Int /\ w[2] <= 2 * n
        <3> TAKE w \in gain
        <3>1. w \in Int \X Int /\ w[2] \in Int /\ w[2] <= 2 * q.f
            BY <1>16
        <3> QED BY <1>3, <1>6, <1>9, <3>1 DEF q
    <2> HIDE DEF gain
    <2> QED BY <2>2, <2>3 DEF Over
<1>18. Held(v, e, d.state, n, stride, new)
    <2> HIDE DEF new
    <2> QED BY <1>1, <1>13, <1>15 DEF Held, q
<1>19. \A w \in new : w \in Passes \/ (w \in Int \X Int /\ w[2] <= 2 * q.f)
    <2> HIDE DEF gain
    <2> QED BY <1>16
<1> QED BY <1>12, <1>13, <1>17, <1>18, <1>19 DEF r, d, q, e, stride

\* A step that measures: at most one track is looked at, and its passage is new.
LEMMA MeasuresKeep ==
    ASSUME RepeatsFit, setup \in Setups, Counted, RoadInv, HeldInv, PastInv, NewInv, Measures
    PROVE  RoadInv' /\ HeldInv' /\ PastInv' /\ NewInv'
<1>1. PICK seen \in SUBSET {car} : Track(seen)
    BY DEF Measures
<1>2. /\ pc \in {"wait", "track"} /\ pc' \in {"get", "save"}
      /\ UNCHANGED <<setup, n, car, clock, view, outbox, journal>>
    BY DEF Measures
<1> DEFINE next == IF view.looked THEN TracksAfter(tracks, seen, n, nextTrack) ELSE tracks
<1>3. tracks' = next
    BY <1>1 DEF Track
<1> HIDE DEF next
<1>4. next = IF view.looked THEN TracksAfter(tracks, seen, n, nextTrack) ELSE tracks
    BY DEF next
<1>5. /\ Lined(next) /\ \A v \in next : Drawn(v, n, car, setup.stride) /\ v.id <= nextTrack
      /\ \A v, w \in Looked(next) : v = w
    BY <1>2, <1>4, RoadMeasured
<1>6. setup.mode # "pixel_scale" /\ setup.stride \in Nat \ {0} /\ setup.motion \in BOOLEAN
    BY SetupFits
<1>7. /\ nextTrack' = IF \E t \in next : t.id = nextTrack THEN nextTrack + 1 ELSE nextTrack
      /\ DOMAIN est' = {t.id : t \in Looked(next)} /\ DOMAIN dec' = DOMAIN est'
      /\ pc' = IF unfiled' = <<>> THEN "get" ELSE "save"
      /\ Looked(next) = {} => unfiled' = <<>>
      /\ \A v \in Looked(next) :
                LET r == TwoLines(Before(v.id), v, setup.mode)
                    d == Decide(KeptOf(v.id), r.result, clock)
                IN /\ est'[v.id] = r.state /\ dec'[v.id] = d.state
                   /\ d.report => \E row : unfiled' = <<row>> /\ IsRow(row, r.state.pass)
                   /\ ~d.report => unfiled' = <<>>
    BY <1>1, <1>3, <1>5, <1>6, MeasuredIs
<1>8. /\ n \in Nat /\ n > 0 /\ Upto = n - 1 /\ Upto' = n /\ nextTrack \in Nat
      /\ ~setup.motion => view.active
      /\ ~view.active => view.shut = n
    BY <1>2 DEF RoadInv, Upto
<1>9. \A v \in next : v \in TrackRecord /\ v.id \in Nat
    BY <1>5 DEF Drawn, TrackRecord
<1>10. RoadInv'
    <2>1. nextTrack' \in Nat /\ \A v \in next : v.id < nextTrack'
        BY <1>5, <1>7, <1>8, <1>9
    <2>2. /\ n' \in Nat /\ car' \in 0 .. Road + 1 /\ view'.seen \subseteq {car'}
          /\ clock' \in Nat /\ view'.shut \in Nat
          /\ pc' \notin {"ask", "wait", "track"}
        BY <1>2 DEF RoadInv
    <2>3. Lined(tracks') /\ \A v \in tracks' : Drawn(v, Upto', car', setup'.stride) /\ v.id < nextTrack'
        BY <1>2, <1>3, <1>5, <1>8, <2>1
    <2> QED BY <2>1, <2>2, <2>3 DEF RoadInv
<1>11. Written' = Written /\ unfiled = <<>> /\ Since' = Since /\ Skips' = Skips
    BY <1>2 DEF Written, Service, NewInv, Since, Skips
<1>12. PassesOf(<<>>, Since) = {} /\ \A row : PassesOf(<<row>>, Since) \subseteq {row.pass}
    <2>1. DOMAIN <<>> = {} /\ \A row : DOMAIN <<row>> = {1} /\ <<row>>[1] = row
        OBVIOUS
    <2> QED BY <2>1 DEF PassesOf
<1>13. Passes = PassesOf(Written, Since) /\ Passes' = PassesOf(Written, Since) \cup PassesOf(unfiled', Since)
    BY <1>11, <1>12 DEF Passes
<1>14. ActiveTracks(next) = Looked(next) \/ (~view.looked /\ ~view.active)
    BY DEF Looked
<1>15. /\ Sequential(outbox') /\ Sequential(journal') /\ Unlike(Written', Skips')
       /\ \A i \in DOMAIN Written' : Written'[i].n \in Nat /\ Written'[i].n <= Upto'
    <2>1. \A i \in DOMAIN Written : Written[i].n \in Nat /\ Written[i].n <= n - 1
        BY <1>8 DEF NewInv
    <2>2. \A i \in DOMAIN Written : Written[i].n \in Nat /\ Written[i].n <= n
        BY <1>8, <2>1
    <2>3. Sequential(outbox') /\ Sequential(journal') /\ Unlike(Written', Skips')
        BY <1>2, <1>11 DEF NewInv
    <2> QED BY <1>8, <1>11, <2>2, <2>3
<1>16. \A v \in Looked(next) : v \in next /\ v.missed = 0
    BY DEF Looked, ActiveTracks
<1>17. ASSUME NEW t \in next, \A u \in next : u.id <= t.id PROVE Over(Passes, 2 * Last(t.hist).f)
    BY <1>2, <1>4, <1>17, PastMeasured
<1>18. CASE Looked(next) = {}
    <2>1. unfiled' = <<>> /\ DOMAIN est' = {} /\ DOMAIN dec' = {} /\ pc' = "get"
        BY <1>7, <1>18
    <2>2. Passes' = Passes
        BY <1>12, <1>13, <2>1
    <2>3. HeldInv'
        <3>1. AllHeld(tracks', DOMAIN est', setup'.stride, Passes')
            <4>1. CASE view.looked \/ view.active
                <5>1. ActiveTracks(tracks') = {}
                    BY <1>3, <1>14, <1>18, <4>1
                <5> QED BY <5>1 DEF AllHeld
            <4>2. CASE setup.stride = 1
                BY <1>2, <4>2 DEF AllHeld
            <4>3. CASE ~view.active /\ setup.stride # 1
                <5>1. Skips
                    BY <1>6, <1>8, <4>3 DEF Skips
                <5>2. Since = n
                    BY <1>8, <4>3, <5>1 DEF Since
                <5>3. \A i \in DOMAIN Written : Written[i].n \in Nat /\ ~(Written[i].n >= n)
                    BY <1>8 DEF NewInv
                <5>4. PassesOf(Written, Since) = {}
                    BY <5>2, <5>3 DEF PassesOf
                <5>5. Passes' = {}
                    BY <1>13, <2>2, <5>4
                <5> QED BY <5>5 DEF AllHeld
            <4> QED BY <4>1, <4>2, <4>3
        <3>2. /\ DOMAIN dec' = DOMAIN est' /\ DOMAIN est' \subseteq {t.id : t \in tracks'}
              /\ \A t \in tracks' : t.id \in DOMAIN est' =>
                   Held(t, est'[t.id], dec'[t.id], Upto', setup'.stride, Passes') /\ Cools(est'[t.id], dec'[t.id], n', clock')
            BY <2>1
        <3> QED BY <3>1, <3>2 DEF HeldInv
    <2>4. Over(Passes, 2 * n)
        <3>1. Over(Passes, 2 * (n - 1))
            BY <1>8 DEF PastInv
        <3>2. 2 * (n - 1) \in Int /\ 2 * n \in Int /\ 2 * (n - 1) <= 2 * n
            BY <1>8
        <3> QED BY <3>1, <3>2, OverLater
    <2>5. PastInv'
        BY <1>3, <1>8, <1>17, <2>2, <2>4 DEF PastInv, Youngest
    <2>6. NewInv'
        <3>1. DOMAIN <<>> = {}
            OBVIOUS
        <3> QED BY <1>15, <2>1, <3>1 DEF NewInv
    <2> QED BY <1>10, <2>3, <2>5, <2>6
<1>19. CASE Looked(next) # {}
    <2>1. PICK v : v \in Looked(next)
        BY <1>19
    <2>2. Looked(next) = {v} /\ v \in next /\ v.missed = 0
        BY <1>5, <1>16, <2>1
    <2> DEFINE r == TwoLines(Before(v.id), v, setup.mode)
               d == Decide(KeptOf(v.id), r.result, clock)
               gain == {w \in {r.state.pass} : d.report}
               new == Passes \cup gain
    <2>3. /\ est'[v.id] = r.state /\ dec'[v.id] = d.state
          /\ d.report => \E row : unfiled' = <<row>> /\ IsRow(row, r.state.pass)
          /\ ~d.report => unfiled' = <<>>
        BY <1>7, <2>1
    <2>4. /\ d.report \in BOOLEAN
          /\ d.report => r.state.pass \notin Passes
          /\ Held(v, r.state, d.state, n, setup.stride, new) /\ Cools(r.state, d.state, n, clock)
          /\ Over(new, 2 * n)
          /\ \A w \in new : w \in Passes \/ (w \in Int \X Int /\ w[2] <= 2 * Last(v.hist).f)
        BY <1>2, <1>4, <2>1, DecidedMeasured
    <2> HIDE DEF r, d
    <2>5. Passes' \in SUBSET new
        <3>1. CASE d.report
            <4>1. PICK row : unfiled' = <<row>> /\ row.pass = r.state.pass
                BY <2>3, <3>1 DEF IsRow
            <4>2. PassesOf(unfiled', Since) \subseteq {r.state.pass}
                BY <1>12, <4>1
            <4>3. gain = {r.state.pass}
                BY <3>1
            <4> QED BY <1>13, <4>2, <4>3
        <3>2. CASE ~d.report
            <4>1. PassesOf(unfiled', Since) = {}
                BY <1>12, <2>3, <3>2
            <4> QED BY <1>13, <4>1
        <3> QED BY <3>1, <3>2
    <2> HIDE DEF gain, new
    <2>6. DOMAIN est' = {v.id} /\ DOMAIN dec' = {v.id}
        BY <1>7, <2>2
    <2>7. HeldInv'
        <3>1. \A t \in next : t.id = v.id => t = v
            BY <1>5, <2>2 DEF Lined
        <3> DEFINE e == r.state
                   f == d.state
                   P == Passes'
        <3>6. Held(v, e, f, n, setup.stride, P)
            <4>1. Held(v, e, f, n, setup.stride, new) /\ P \in SUBSET new
                BY <2>4, <2>5
            <4> HIDE DEF e, f, P
            <4>2. EstFits(e, Last(v.hist), new) /\ DecFits(e, f, n, new)
                BY <4>1 DEF Held
            <4>3. EstFits(e, Last(v.hist), P) /\ DecFits(e, f, n, P)
                BY <4>1, <4>2, EstShrinks, DecShrinks
            <4> QED BY <4>1, <4>3 DEF Held
        <3>2. \A t \in next : t.id \in DOMAIN est' =>
                Held(t, est'[t.id], dec'[t.id], n, setup.stride, P) /\ Cools(est'[t.id], dec'[t.id], n, clock)
            <4> HIDE DEF P
            <4> QED BY <2>3, <2>4, <2>6, <3>1, <3>6
        <3>3. \A t \in tracks' : t.id \in DOMAIN est' =>
                Held(t, est'[t.id], dec'[t.id], Upto', setup'.stride, Passes') /\ Cools(est'[t.id], dec'[t.id], n', clock')
            BY <1>2, <1>3, <1>8, <3>2
        <3>4. AllHeld(tracks', DOMAIN est', setup'.stride, Passes')
            <4>1. view.looked \/ view.active
                BY <2>1 DEF Looked
            <4>2. ActiveTracks(tracks') = {v}
                BY <1>3, <1>14, <2>2, <4>1
            <4> QED BY <2>6, <4>2 DEF AllHeld
        <3>5. DOMAIN dec' = DOMAIN est' /\ DOMAIN est' \subseteq {t.id : t \in tracks'}
            BY <1>3, <2>2, <2>6
        <3> QED BY <3>3, <3>4, <3>5 DEF HeldInv
    <2>8. PastInv'
        <3>1. ASSUME NEW t \in next, \A u \in next : u.id <= t.id PROVE Over(new, 2 * Last(t.hist).f)
            <4>1. Over(Passes, 2 * Last(t.hist).f)
                BY <1>17, <3>1
            <4>2. t = v
                BY <1>5, <1>9, <2>2, <3>1, LookedYoungest
            <4> QED BY <2>4, <4>1, <4>2 DEF Over
        <3>2. Over(Passes', 2 * n)
            BY <2>4, <2>5 DEF Over
        <3>3. ASSUME NEW t \in next, \A u \in next : u.id <= t.id PROVE Over(Passes', 2 * Last(t.hist).f)
            BY <2>5, <3>1, <3>3 DEF Over
        <3> QED BY <1>3, <1>8, <3>2, <3>3 DEF PastInv, Youngest
    <2>9. NewInv'
        <3>1. CASE d.report
            <4>1. PICK row : unfiled' = <<row>> /\ IsRow(row, r.state.pass)
                BY <2>3, <3>1
            <4>0. DOMAIN <<row>> = {1} /\ <<row>>[1] = row /\ <<row>> # <<>>
                OBVIOUS
            <4>2. unfiled' # <<>> /\ pc' = "save" /\ unfiled'[1] = row /\ DOMAIN unfiled' = {1}
                BY <1>7, <4>0, <4>1
            <4>3. row.pass \notin PassesOf(Written', Since') /\ row.n = n' /\ row.shut = view'.shut
                BY <1>2, <1>11, <1>13, <2>4, <3>1, <4>1 DEF IsRow
            <4> QED BY <1>15, <4>1, <4>2, <4>3 DEF NewInv
        <3>2. CASE ~d.report
            <4>1. unfiled' = <<>> /\ pc' = "get"
                BY <1>7, <2>3, <3>2
            <4>2. DOMAIN <<>> = {}
                OBVIOUS
            <4> QED BY <1>15, <4>1, <4>2 DEF NewInv
        <3> QED BY <3>1, <3>2
    <2> QED BY <1>10, <2>7, <2>8, <2>9
<1> QED BY <1>18, <1>19

\* At the start nothing is drawn, held or reported.
LEMMA PassageStart == SpeedInit => PassageInv
<1> SUFFICES ASSUME RepeatsFit, SpeedInit, Counted PROVE RoadInv /\ HeldInv /\ PastInv /\ NewInv
    BY DEF PassageInv, SpeedInit
<1>1. /\ n = 0 /\ car = 0 /\ clock = 0 /\ pc = "get"
      /\ view = [seen |-> {}, looked |-> FALSE, active |-> FALSE, shut |-> 0]
      /\ tracks = {} /\ nextTrack = 1 /\ est = <<>> /\ dec = <<>>
      /\ unfiled = <<>> /\ outbox = <<>> /\ journal = <<>>
    BY DEF SpeedInit
<1>2. Road \in Nat /\ DOMAIN est = {} /\ DOMAIN dec = {}
    BY <1>1, RuntimeAssumption
<1>3. RoadInv
    BY <1>1, <1>2 DEF RoadInv, Lined
<1>4. HeldInv
    BY <1>1, <1>2 DEF HeldInv, AllHeld, ActiveTracks
<1>5. PassesOf(<<>>, Since) = {} /\ DOMAIN <<>> = {} /\ Sequential(<<>>)
    <2>1. DOMAIN <<>> = {} /\ <<>> \in Seq({})
        OBVIOUS
    <2> QED BY <2>1 DEF PassesOf, Sequential
<1>6. DOMAIN Written = {}
    BY <1>1 DEF Written
<1>7. PassesOf(Written, Since) = {} /\ Unlike(Written, Skips) /\ DOMAIN Written = {}
    BY <1>6 DEF PassesOf, Unlike
<1>8. PastInv
    BY <1>1, <1>5, <1>7 DEF PastInv, Passes, Over
<1>9. NewInv
    BY <1>1, <1>5, <1>7 DEF NewInv
<1> QED BY <1>3, <1>4, <1>8, <1>9

\* The program stays what it is.
LEMMA SetupStays == [SpeedNext]_speedVars => UNCHANGED setup
BY DEF SpeedNext, Consumer, VehicleService, Parent, Older, speedVars, parentOnly, olderOnly,
        NotCalibrated, TakeFrame, LeaveLoop, Ask, Answer, WaitStopped, TrackOnly, SaveEvidence, Publish, WriteJournal,
        ServeTake, ServeInfer, ServeAnswer, ServePut,
        Withdraw, Fence, Kill, StopService, RestartService, Spawn,
        ProcessFrame, ProcessTrack, ProcessSave, ProcessReport, ProcessLeave, ProcessKilled, OrchestratorStop,
        OrchestratorTell, ReporterTerminated, ReporterWrite, SingleFrame, SingleTrack, SingleSave

\* Every step keeps it.
LEMMA PassageStep == PassageInv /\ [SpeedNext]_speedVars => PassageInv'
<1> SUFFICES ASSUME PassageInv, [SpeedNext]_speedVars PROVE PassageInv'
    OBVIOUS
<1>1. setup' = setup /\ setup \in Setups
    BY SetupStays DEF PassageInv
<1>2. (Counted' <=> Counted) /\ (RepeatsFit' <=> RepeatsFit)
    BY <1>1 DEF Counted, RepeatsFit
<1>3. ASSUME RepeatsFit, Counted PROVE RoadInv' /\ HeldInv' /\ PastInv' /\ NewInv'
    <2>1. RoadInv /\ HeldInv /\ PastInv /\ NewInv
        BY <1>3 DEF PassageInv
    <2>2. Drives \/ Measures \/ Stays \/ Files
        BY <1>1, <1>3, <2>1, PassageSteps
    <2>3. CASE Drives
        BY <1>1, <1>3, <2>1, <2>3, DrivesKeep
    <2>4. CASE Measures
        BY <1>1, <1>3, <2>1, <2>4, MeasuresKeep
    <2>5. CASE Stays
        BY <1>1, <1>3, <2>1, <2>5, StaysKeep
    <2>6. CASE Files
        BY <1>1, <1>3, <2>1, <2>6, FilesKeep
    <2> QED BY <2>2, <2>3, <2>4, <2>5, <2>6
<1> QED BY <1>1, <1>2, <1>3 DEF PassageInv

\* In a file, one passage is reported once, and one that was too fast for long enough is
\* reported (ViolationDecider.update, confirm_frames and cooldown_sec, and emit_frames of
\* SpeedEstimator): for every program whose numbers fit, whatever the detector misses,
\* and wherever the consumer is ended.
THEOREM EachReportedOnceHolds == SpeedSpec => [](RepeatsFit => EachReportedOnce)
<1>1. PassageInv /\ RepeatsFit => PassageReportedOnce
    BY DEF PassageInv, Counted, NewInv, Unlike, PassageReportedOnce
<1>2. PassageInv /\ RepeatsFit => ConfirmedIsReported
    <2> SUFFICES ASSUME PassageInv, RepeatsFit, Counted, pc = "get", NEW t \in tracks, t.id \in DOMAIN est,
                        est[t.id].stage = "done", ~Within(est[t.id], Last(t.hist).f), Fast(est[t.id]),
                        ~dec[t.id].reported
                 PROVE  FALSE
        BY DEF ConfirmedIsReported, Counted, Fast
    <2> DEFINE e == est[t.id]
               d == dec[t.id]
               q == Last(t.hist)
    <2>1. RoadInv /\ HeldInv /\ Upto = n /\ n \in Nat /\ setup \in Setups
        BY DEF PassageInv, Upto, RoadInv
    <2>2. Drawn(t, n, car, setup.stride) /\ Held(t, e, d, n, setup.stride, Passes)
        BY <2>1 DEF RoadInv, HeldInv, Ended
    <2>3. t \in TrackRecord /\ Len(t.hist) >= 1 /\ q.f <= n
        BY <2>2 DEF Drawn
    <2>4. q.f \in Nat
        BY <2>3, LastPoint DEF Point
    <2>5. /\ e.done \in Nat /\ d.over \in Nat /\ d.over + e.done = n + 1 /\ d.over < ConfirmFrames
        BY <2>2 DEF Held, EstFits, EstRecord, DecFits, DecRecord
    <2>6. ConfirmFrames \in Nat /\ EmitFrames \in Nat /\ ConfirmFrames <= EmitFrames + 1
        BY <2>1, SetupFits, MeasurementAssumption DEF NumbersFit
    <2>7. ~(q.f <= e.done + EmitFrames)
        BY DEF Within
    <2> HIDE DEF e, d, q
    <2> QED BY <2>1, <2>3, <2>4, <2>5, <2>6, <2>7
<1>3. SpeedInit => PassageInv
    BY PassageStart
<1>4. PassageInv /\ [SpeedNext]_speedVars => PassageInv'
    BY PassageStep
<1>5. PassageInv => (RepeatsFit => EachReportedOnce)
    BY <1>1, <1>2 DEF EachReportedOnce
<1> QED BY <1>3, <1>4, <1>5, PTL DEF SpeedSpec
=============================================================================
