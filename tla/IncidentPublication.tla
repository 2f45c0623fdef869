------------------------ MODULE IncidentPublication ------------------------
(***************************************************************************)
(* From a Fight consumer's candidate to a durable incident, while cameras,  *)
(* consumers and the shared Fight service come and go.                      *)
(*                                                                          *)
(* A candidate carries the slot, the camera generation and the consumer     *)
(* epoch it was made under; Stage3 stamps its result with the epoch of its  *)
(* own service incarnation.  The parent process bumps generations           *)
(* (camera_lifecycle.py) and raises floors (camera_lifecycle.py,            *)
(* shared_services.py); Stage3 (stage3_worker.py), the incident worker      *)
(* (incident_worker.py) and the aggregator with its sweeper thread          *)
(* (incident_aggregator.py) read them at different moments.  Every parent   *)
(* write another process can see is a step of its own.                      *)
(***************************************************************************)
EXTENDS Naturals, Sequences, FiniteSets

CONSTANTS
    Cameras, Slots,
    None,        \* no camera, tenant, job, result or state
    MaxEvents,   \* bound: candidates emitted in a run
    MaxGen,      \* bound: camera generations of a slot
    MaxEpoch     \* bound: consumer epochs of a slot, and service incarnations

VARIABLES
    gen, fightEpoch, floor,       \* shared arrays, per slot
    serviceFloor,                 \* fight_publication_floor[0]
    service, serviceEpoch,        \* the Fight bundle and its incarnation
    tenant,                       \* slot -> the CameraRuntime that owns it
    emitted,                      \* candidates emitted so far
    jobs, stage3,                 \* Stage3's queue and the job in its hands
    results, received,            \* incident queue, result in the worker
    open,                         \* by_camera: the temporal states
    counter,                      \* incident numbers, per camera
    holder, encoding,             \* who holds the aggregator lock, for whom
    sweep,                        \* finalize_items of the sweeper thread
    closing,                      \* the worker is in close_all
    outbox,                       \* published incidents
    fenced, failedServices        \* history: incarnations declared failed

parentVars == <<gen, fightEpoch, floor, serviceFloor, service, serviceEpoch, tenant,
                fenced, failedServices>>
stage3Vars == <<emitted, jobs, stage3>>
aggVars == <<open, counter, holder, encoding, sweep, closing, outbox>>
vars == <<parentVars, stage3Vars, results, received, aggVars>>

Probs == {"low", "keep", "strong"}   \* below keep_thr, above it, single_strong
Job == [event : 1..MaxEvents, camera : Cameras, slot : Slots, gen : Nat, epoch : Nat]
Result == [event : 1..MaxEvents, camera : Cameras, slot : Slots, gen : Nat, epoch : Nat,
           svc : Nat, prob : Probs]
State == [number : Nat, status : {"idle", "active", "confirmed", "cooldown"},
          segs : SUBSET Result]
Tenant == [camera : Cameras, gen : Nat, epoch : Nat, alive : BOOLEAN, stopping : BOOLEAN]

\* None is a value of its own, and the bounds are numbers.
ASSUME PublicationAssumption ==
    /\ None \notin Cameras /\ None \notin Job /\ None \notin Result
    /\ None \notin State /\ None \notin Tenant /\ None \notin Probs
    /\ None \notin [job : Job, prob : Probs \cup {None}]
    /\ MaxEvents \in Nat /\ MaxGen \in Nat /\ MaxEpoch \in Nat

Init ==
    /\ gen = [s \in Slots |-> 0] /\ fightEpoch = [s \in Slots |-> 0]
    /\ floor = [s \in Slots |-> 0] /\ serviceFloor = 0
    /\ service = "down" /\ serviceEpoch = 0
    /\ tenant = [s \in Slots |-> None]
    /\ emitted = 0 /\ jobs = <<>> /\ stage3 = None
    /\ results = <<>> /\ received = None
    /\ open = [c \in Cameras |-> None] /\ counter = [c \in Cameras |-> 0]
    /\ holder = "none" /\ encoding = None /\ sweep = {} /\ closing = FALSE
    /\ outbox = {} /\ fenced = {} /\ failedServices = {}

(***************************************************************************)
(* The parent: cameras and their consumers.                                 *)
(***************************************************************************)
Starting(c, g) == [camera |-> c, gen |-> g, epoch |-> 0, alive |-> FALSE, stopping |-> FALSE]

\* start_camera in a free slot.
StartCamera(s, c) ==
    /\ ~closing /\ tenant[s] = None /\ gen[s] < MaxGen
    /\ \A t \in Slots : tenant[t] # None => tenant[t].camera # c
    /\ gen' = [gen EXCEPT ![s] = @ + 1]
    /\ tenant' = [tenant EXCEPT ![s] = Starting(c, gen[s] + 1)]
    /\ UNCHANGED <<fightEpoch, floor, serviceFloor, service, serviceEpoch, fenced,
                   failedServices, stage3Vars, results, received, aggVars>>

\* _spawn_fight: the slot's epoch counter outlives the cameras of the slot.
SpawnConsumer(s) ==
    /\ ~closing /\ service = "up" /\ tenant[s] # None
    /\ ~tenant[s].alive /\ ~tenant[s].stopping /\ fightEpoch[s] < MaxEpoch
    /\ fightEpoch' = [fightEpoch EXCEPT ![s] = @ + 1]
    /\ tenant' = [tenant EXCEPT ![s].epoch = fightEpoch'[s], ![s].alive = TRUE]
    /\ UNCHANGED <<gen, floor, serviceFloor, service, serviceEpoch, fenced,
                   failedServices, stage3Vars, results, received, aggVars>>

\* _fence_fight(failed=True): one past the epoch of this item, 0 when the item
\* never had a consumer.
FenceFight(s) ==
    /\ ~closing /\ tenant[s] # None /\ ~tenant[s].stopping
    /\ floor' = [floor EXCEPT ![s] = tenant[s].epoch + 1]
    /\ fenced' = IF tenant[s].epoch = 0 THEN fenced
                 ELSE fenced \cup {<<s, tenant[s].gen, tenant[s].epoch>>}
    /\ UNCHANGED <<gen, fightEpoch, serviceFloor, service, serviceEpoch, tenant,
                   failedServices, stage3Vars, results, received, aggVars>>

\* disable_fight, after the fence: the old reader is proved dead.
WithdrawConsumer(s) ==
    /\ tenant[s] # None /\ tenant[s].alive
    /\ tenant[s].epoch < floor[s]
    /\ tenant' = [tenant EXCEPT ![s].alive = FALSE]
    /\ UNCHANGED <<gen, fightEpoch, floor, serviceFloor, service, serviceEpoch, fenced,
                   failedServices, stage3Vars, results, received, aggVars>>

\* stop_camera: the generation first, then the processes.
InvalidateCamera(s) ==
    /\ tenant[s] # None /\ ~tenant[s].stopping /\ gen[s] < MaxGen
    /\ gen' = [gen EXCEPT ![s] = @ + 1]
    /\ tenant' = [tenant EXCEPT ![s].stopping = TRUE]
    /\ UNCHANGED <<fightEpoch, floor, serviceFloor, service, serviceEpoch, fenced,
                   failedServices, stage3Vars, results, received, aggVars>>

\* The processes are gone.  restart_camera starts the camera again at once, in
\* the slot and under the generation the stop has advanced.
ReleaseCamera(s, restart) ==
    /\ tenant[s] # None /\ tenant[s].stopping
    /\ tenant' = [tenant EXCEPT ![s] = IF restart THEN Starting(@.camera, gen[s]) ELSE None]
    /\ UNCHANGED <<gen, fightEpoch, floor, serviceFloor, service, serviceEpoch, fenced,
                   failedServices, stage3Vars, results, received, aggVars>>

(***************************************************************************)
(* The parent: the shared Fight service.                                    *)
(***************************************************************************)
StartService ==
    /\ ~closing /\ service = "down" /\ serviceEpoch < MaxEpoch
    /\ service' = "up" /\ serviceEpoch' = serviceEpoch + 1
    /\ UNCHANGED <<gen, fightEpoch, floor, serviceFloor, tenant, fenced, failedServices,
                   stage3Vars, results, received, aggVars>>

\* _fight_failure: the floor before any transport is touched.
FailService ==
    /\ ~closing /\ service = "up"
    /\ serviceFloor' = serviceEpoch + 1
    /\ failedServices' = failedServices \cup {serviceEpoch}
    /\ service' = "failing"
    /\ UNCHANGED <<gen, fightEpoch, floor, serviceEpoch, tenant, fenced,
                   stage3Vars, results, received, aggVars>>

\* _stop("fight"): after suspend_fight has withdrawn every consumer, or with no
\* consumer left and the idle grace over; what Stage3 still held is gone.
StopService ==
    /\ service \in {"up", "failing"}
    /\ \A s \in Slots : tenant[s] # None => ~tenant[s].alive
    /\ service' = "down" /\ jobs' = <<>> /\ stage3' = None
    /\ UNCHANGED <<gen, fightEpoch, floor, serviceFloor, serviceEpoch, tenant, fenced,
                   failedServices, emitted, results, received, aggVars>>

(***************************************************************************)
(* The consumer and Stage3.                                                 *)
(***************************************************************************)
Emit(s) ==
    /\ tenant[s] # None /\ tenant[s].alive /\ service # "down" /\ emitted < MaxEvents
    /\ emitted' = emitted + 1
    /\ jobs' = Append(jobs, [event |-> emitted', camera |-> tenant[s].camera, slot |-> s,
                 gen |-> tenant[s].gen,
                 epoch |-> tenant[s].epoch])
    /\ UNCHANGED <<stage3, results, received, parentVars, aggVars>>

GenerationCurrent(m) == m.gen = gen[m.slot]                \* is_current_generation
Allowed(m) == m.epoch >= floor[m.slot]                     \* FightGenerations.allows

Stage3Take ==
    /\ service # "down" /\ stage3 = None /\ jobs # <<>>
    /\ jobs' = Tail(jobs)
    /\ stage3' = IF GenerationCurrent(Head(jobs)) /\ Allowed(Head(jobs))
                 THEN [job |-> Head(jobs), prob |-> None] ELSE None
    /\ UNCHANGED <<emitted, results, received, parentVars, aggVars>>

\* Inference, then the second check; the delivery is a later step.
Stage3Infer(p) ==
    /\ stage3 # None /\ stage3.prob = None
    /\ stage3' = IF GenerationCurrent(stage3.job) /\ Allowed(stage3.job)
                 THEN [stage3 EXCEPT !.prob = p] ELSE None
    /\ UNCHANGED <<emitted, jobs, results, received, parentVars, aggVars>>

Stamp(j, p) == [event |-> j.event, camera |-> j.camera, slot |-> j.slot, gen |-> j.gen,
                epoch |-> j.epoch, svc |-> serviceEpoch, prob |-> p]

Stage3Deliver ==
    /\ stage3 # None /\ stage3.prob # None
    /\ results' = Append(results, Stamp(stage3.job, stage3.prob))
    /\ stage3' = None
    /\ UNCHANGED <<emitted, jobs, received, parentVars, aggVars>>

(***************************************************************************)
(* The incident worker and the aggregator.  `holder' is the thread inside   *)
(* the aggregator lock while a finalization encodes its evidence; the       *)
(* shorter critical sections are single steps.                              *)
(***************************************************************************)
\* Mutant: only the service floor is compared.
PublicationCurrentService(r) == r.svc >= serviceFloor
PublicationCurrent(r) == r.svc >= serviceFloor /\ r.epoch >= floor[r.slot]
StateCurrent(st) == \A r \in st.segs : PublicationCurrent(r)
NewState(c) == [number |-> counter[c] + 1, status |-> "idle", segs |-> {}]
Strong(st) == \E r \in st.segs : r.prob = "strong"

\* is_current_generation of the worker reads the generations only; a result
\* whose clip could not be written is acknowledged and never submitted.
Receive ==
    /\ ~closing /\ received = None /\ results # <<>>
    /\ results' = Tail(results)
    /\ received' \in IF GenerationCurrent(Head(results)) THEN {Head(results), None} ELSE {None}
    /\ UNCHANGED <<stage3Vars, parentVars, aggVars>>

\* The guards of _finalize_locked before the evidence is written: what becomes
\* of the state `st', "keep", "drop" or "encode".  A confirmed state without a
\* strong part keeps or loses its label with its votes; clips may never come.
FinalizeOutcomes(st, force) ==
    IF st = None THEN {"keep"}
    ELSE IF ~StateCurrent(st) THEN {"drop"}
    ELSE IF st.status = "cooldown" THEN {"keep"}
    ELSE IF st.segs = {} \/ (~Strong(st) /\ st.status # "confirmed") THEN {"drop"}
    ELSE IF ~force /\ st.status # "confirmed" THEN {"drop"}
    ELSE {"encode", "drop"}

\* A finalization by `who' for camera c: it ends at once, or encodes.  A worker
\* that got here from submit goes on with submit under the same lock.
Finalize(who, c, force) ==
    \E o \in FinalizeOutcomes(open[c], force) :
        /\ open' = IF o = "drop" THEN [open EXCEPT ![c] = None] ELSE open
        /\ holder' = IF o = "encode" THEN who ELSE IF who = "worker" THEN "submit" ELSE "none"
        /\ encoding' = IF o = "encode" THEN c ELSE None

\* The votes of _can_confirm, whatever the thresholds; one part that is not
\* strong never suffices.
CanConfirm(segs) ==
    IF \E r \in segs : r.prob = "strong" THEN {TRUE}
    ELSE IF Cardinality(segs) < 2 THEN {FALSE} ELSE BOOLEAN

\* _append_or_suppress_locked and _advance_state_locked: r is added, or it
\* replaces an overlapping part that is not stronger, or it is suppressed.
Rank(p) == CASE p = "low" -> 0 [] p = "keep" -> 1 [] OTHER -> 2
Merges(st, r) == {st.segs \cup {r}} \cup
    {IF Rank(r.prob) >= Rank(o.prob) THEN (st.segs \ {o}) \cup {r} ELSE st.segs : o \in st.segs}

Absorb(st, r) ==
    \E segs \in Merges(st, r) : \E yes \in CanConfirm(segs) :
        /\ open' = [open EXCEPT ![r.camera] =
             [number |-> st.number, segs |-> segs,
              status |-> IF yes THEN "confirmed" ELSE IF st.status = "idle" THEN "active" ELSE st.status]]
        /\ counter' = [counter EXCEPT ![r.camera] = st.number]

\* by_camera without a state whose parts are fenced.
Live(c) == IF open[c] = None THEN None ELSE IF StateCurrent(open[c]) THEN open[c] ELSE None

Ignore(c, st) ==
    /\ open' = [open EXCEPT ![c] = st]
    /\ counter' = [counter EXCEPT ![c] = IF st = None THEN @ ELSE st.number]

\* The end of submit, with the state `st' the camera then has.
SubmitTo(st, r) ==
    IF r.prob = "low" /\ st.status # "confirmed" THEN Ignore(r.camera, st)
    ELSE \/ r.prob = "low" /\ Ignore(r.camera, st)             \* the bridge limit
         \/ Absorb(st, r)

\* submit up to its first finalization.
Submit ==
    /\ received # None /\ holder = "none"
    /\ LET r == received
           c == r.camera
           st == Live(c) IN
       \/ /\ ~PublicationCurrent(r)
          /\ received' = None /\ UNCHANGED <<open, counter, holder, encoding>>
       \/ /\ PublicationCurrent(r) /\ st = None
          /\ IF r.prob = "low" THEN Ignore(c, None) ELSE SubmitTo(NewState(c), r)
          /\ received' = None /\ UNCHANGED <<holder, encoding>>
       \/ /\ PublicationCurrent(r) /\ st # None /\ st.status = "cooldown"
          /\ \/ Ignore(c, st)                                  \* inside the cooldown
             \/ SubmitTo(NewState(c), r)
          /\ received' = None /\ UNCHANGED <<holder, encoding>>
       \/ /\ PublicationCurrent(r) /\ st # None /\ st.status # "cooldown"
          /\ SubmitTo(st, r)                                   \* it can merge
          /\ received' = None /\ UNCHANGED <<holder, encoding>>
       \/ /\ PublicationCurrent(r) /\ st # None /\ st.status # "cooldown" /\ st.segs # {}
          /\ Finalize("worker", c, st.status = "confirmed")    \* it cannot
          /\ received' = r /\ UNCHANGED counter
    /\ UNCHANGED <<results, sweep, closing, outbox, stage3Vars, parentVars>>

\* The rest of submit, after the finalization of a state it could not extend.
SubmitRest ==
    /\ holder = "submit"
    /\ LET c == received.camera IN
       \/ open[c] # None /\ UNCHANGED <<open, counter>>         \* inside the cooldown
       \/ received.prob = "low" /\ UNCHANGED <<open, counter>>
       \/ received.prob # "low" /\ Absorb(NewState(c), received)
    /\ received' = None /\ holder' = "none"
    /\ UNCHANGED <<encoding, results, sweep, closing, outbox, stage3Vars, parentVars>>

\* The evidence is written: under the floor's lock the state is checked again,
\* the envelope appended, and the state becomes the cooldown of its camera.
Published(c) == [camera |-> c, number |-> open[c].number, status |-> open[c].status,
                 segs |-> open[c].segs]
Release == /\ holder' = IF holder = "worker" THEN "submit" ELSE "none"
           /\ encoding' = None

\* Mutant: the floors are not read again after the evidence was encoded.
PublishUnchecked ==
    /\ encoding # None
    /\ outbox' = outbox \cup {Published(encoding)}
    /\ open' = [open EXCEPT ![encoding].status = "cooldown",
                            ![encoding].number = counter[encoding] + 1]
    /\ counter' = [counter EXCEPT ![encoding] = @ + 1]
    /\ Release
    /\ UNCHANGED <<received, results, sweep, closing, stage3Vars, parentVars>>
\* Mutant: no cooldown state replaces the published one.
PublishKeepsState ==
    /\ encoding # None
    /\ outbox' = IF StateCurrent(open[encoding]) THEN outbox \cup {Published(encoding)} ELSE outbox
    /\ Release
    /\ UNCHANGED <<open, counter, received, results, sweep, closing, stage3Vars, parentVars>>

Publish ==
    /\ encoding # None
    /\ IF StateCurrent(open[encoding])
       THEN /\ outbox' = outbox \cup {Published(encoding)}
            /\ open' = [open EXCEPT ![encoding] = [number |-> counter[encoding] + 1, status |-> "cooldown",
                                                   segs |-> open[encoding].segs]]
            /\ counter' = [counter EXCEPT ![encoding] = @ + 1]
       ELSE /\ open' = [open EXCEPT ![encoding] = None]
            /\ UNCHANGED <<outbox, counter>>
    /\ Release
    /\ UNCHANGED <<received, results, sweep, closing, stage3Vars, parentVars>>

\* Mutant: only states that are not confirmed yet become stale.
SweepCollectActive ==
    /\ sweep = {} /\ holder = "none" /\ ~closing
    /\ \E idle \in SUBSET {c \in Cameras : open[c] # None /\ open[c].status = "active"} :
        sweep' = {<<c, FALSE>> : c \in idle}
    /\ UNCHANGED <<open, counter, holder, encoding, closing, outbox, received, results,
                   stage3Vars, parentVars>>

\* One pass of the sweeper: it decides under the lock which idle states to
\* finalize, and whether by force, and lets go of the lock.
SweepCollect ==
    /\ sweep = {} /\ holder = "none" /\ ~closing
    /\ \E idle \in SUBSET {c \in Cameras : open[c] # None /\ open[c].status \in {"active", "confirmed"}} :
       \E yes \in [idle -> BOOLEAN] :
        /\ \A c \in idle : yes[c] \in CanConfirm(open[c].segs) \/ open[c].status = "confirmed"
        /\ open' = [c \in Cameras |-> IF c \in idle /\ yes[c] /\ open[c].status = "active"
                                      THEN [open[c] EXCEPT !.status = "confirmed"] ELSE open[c]]
        /\ sweep' = {<<c, open'[c].status = "confirmed">> : c \in idle}
    /\ UNCHANGED <<counter, holder, encoding, closing, outbox, received, results, stage3Vars,
                   parentVars>>

\* finalize, for a decision that may be about a state that is gone.
SweepFinalize ==
    /\ holder = "none"
    /\ \E item \in sweep : Finalize("sweeper", item[1], item[2]) /\ sweep' = sweep \ {item}
    /\ UNCHANGED <<counter, closing, outbox, received, results, stage3Vars, parentVars>>

\* Shutdown: the worker leaves its loop at the sentinel, or when the run's stop
\* event is set and its queue looks empty; Stage3 may still deliver to nobody.
BeginClose ==
    /\ ~closing /\ results = <<>> /\ received = None
    /\ closing' = TRUE
    /\ UNCHANGED <<open, counter, holder, encoding, sweep, outbox, received, results,
                   stage3Vars, parentVars>>

CloseFinalize(c) ==
    /\ closing /\ holder = "none" /\ open[c] # None
    /\ Finalize("closing", c, open[c].status = "confirmed")
    /\ UNCHANGED <<counter, sweep, closing, outbox, received, results, stage3Vars, parentVars>>

ParentNext ==
    \/ \E s \in Slots :
        \/ \E c \in Cameras : StartCamera(s, c)
        \/ SpawnConsumer(s) \/ FenceFight(s) \/ WithdrawConsumer(s)
        \/ InvalidateCamera(s) \/ \E restart \in BOOLEAN : ReleaseCamera(s, restart)
    \/ StartService \/ FailService \/ StopService

Stage3Next ==
    \/ \E s \in Slots : Emit(s)
    \/ Stage3Take \/ Stage3Deliver \/ \E p \in Probs : Stage3Infer(p)

WorkerNext == Receive \/ Submit \/ SubmitRest
SweeperNext == SweepCollect \/ SweepFinalize

Next ==
    \/ ParentNext \/ Stage3Next \/ WorkerNext \/ SweeperNext
    \/ Publish \/ BeginClose \/ \E c \in Cameras : CloseFinalize(c)

Spec == Init /\ [][Next]_vars
\* The worker, the sweeper and the encoder run in a process that ends only after
\* close_all; a state nothing extends becomes stale, so the sweeper collects it.
FairSpec ==
    /\ Spec /\ WF_vars(WorkerNext) /\ WF_vars(Publish) /\ WF_vars(SweepFinalize)
    /\ \A c \in Cameras :
        /\ WF_vars(SweepCollect /\ \E force \in BOOLEAN : <<c, force>> \in sweep')
        /\ WF_vars(CloseFinalize(c))

(***************************************************************************)
(* Properties.                                                              *)
(***************************************************************************)
TypeOK ==
    /\ gen \in [Slots -> Nat] /\ fightEpoch \in [Slots -> Nat] /\ floor \in [Slots -> Nat]
    /\ serviceFloor \in Nat /\ serviceEpoch \in Nat /\ service \in {"down", "up", "failing"}
    /\ tenant \in [Slots -> Tenant \cup {None}]
    /\ emitted \in 0..MaxEvents /\ jobs \in Seq(Job)
    /\ stage3 \in [job : Job, prob : Probs \cup {None}] \cup {None}
    /\ results \in Seq(Result) /\ received \in Result \cup {None}
    /\ open \in [Cameras -> State \cup {None}] /\ counter \in [Cameras -> Nat]
    /\ holder \in {"none", "worker", "submit", "sweeper", "closing"}
    /\ encoding \in Cameras \cup {None} /\ sweep \subseteq Cameras \X BOOLEAN
    /\ closing \in BOOLEAN
    /\ fenced \subseteq Slots \X Nat \X Nat /\ failedServices \subseteq Nat

New == outbox' \ outbox

\* What a failed service incarnation inferred is never published, whether it was
\* in the incident queue, in an open state or half encoded when the service
\* failed (shared_services.py:246, incident_aggregator.py:733).
FailedServiceStep == \A p \in New : \A r \in p.segs : r.svc \notin failedServices
FailedServiceSilent == [][FailedServiceStep]_vars

\* What a fenced consumer of the current camera generation found is never
\* published.
FencedTenantStep ==
    \A p \in New : \A r \in p.segs :
        <<r.slot, r.gen, r.epoch>> \in fenced => r.gen # gen[r.slot]
FencedTenantSilent == [][FencedTenantStep]_vars

\* A service incarnation that failed and a consumer that its own camera runtime has
\* fenced are silent from then on, although their candidates are still on the way.
FailedSilent == [][FailedServiceStep /\ FencedTenantStep]_vars

\* A candidate counts for at most one incident, and a number of a camera, which
\* is the external identity of the incident, is used once; the sweeper's late
\* finalizations and the worker's own compete for the same states.
PublishedOnce ==
    \A p, q \in outbox : p # q =>
        /\ {r.event : r \in p.segs} \cap {r.event : r \in q.segs} = {}
        /\ p.camera = q.camera => p.number # q.number

\* A confirmed incident is published or dropped in the end.
Resolved ==
    \A c \in Cameras : (open[c] # None /\ open[c].status = "confirmed")
        ~> (open[c] = None \/ open[c].status # "confirmed")
=============================================================================
