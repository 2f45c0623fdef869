------------------------- MODULE IncidentPathProofs -------------------------
(***************************************************************************)
(* From a camera's frames to the published incident, in two parts that share *)
(* no variable.                                                             *)
(*                                                                          *)
(* IncidentPublication.  What a failed incarnation found is never published, *)
(* and nothing is published twice, for any number of cameras, slots,        *)
(* candidates, generations and epochs.  The properties about fences concern *)
(* one step, Publish, which compares with the floors; they hold because of  *)
(* what the floors are whenever it happens: ServiceInv (the service floor is *)
(* past every failed incarnation) and TenantInv (a fenced consumer of the   *)
(* current generation is below the floor of its slot, which only its own    *)
(* tenant can have moved since).                                            *)
(*                                                                          *)
(* CameraPath.  The clips repeat no frame, a file is looked at whole, and   *)
(* what is decided about a frame rests on an answer about that frame, for   *)
(* any number of frames, capacities and strides: see "The path of a camera's *)
(* frames" below.                                                           *)
(***************************************************************************)
EXTENDS IncidentPublication, CameraPath, SequenceCounting, FiniteSetTheorems, SequenceTheorems,
        TLAPS

ServiceInv ==
    /\ serviceFloor \in Nat /\ serviceEpoch \in Nat
    /\ serviceFloor <= serviceEpoch + 1
    /\ \A n \in failedServices : n \in Nat /\ n < serviceFloor

Owns(s) == tenant[s] # None /\ ~tenant[s].stopping

TenantInv ==
    /\ gen \in [Slots -> Nat] /\ fightEpoch \in [Slots -> Nat] /\ floor \in [Slots -> Nat]
    /\ tenant \in [Slots -> Tenant \cup {None}]
    /\ \A s \in Slots : tenant[s] # None => tenant[s].epoch <= fightEpoch[s]
    /\ \A s \in Slots : Owns(s) => tenant[s].gen = gen[s]
    /\ fenced \subseteq Slots \X Nat \X Nat
    /\ \A s \in Slots, g, e \in Nat : <<s, g, e>> \in fenced =>
         /\ g <= gen[s]
         /\ g = gen[s] => Owns(s) /\ e < floor[s] /\ e <= tenant[s].epoch

FenceInv == ServiceInv /\ TenantInv
-----------------------------------------------------------------------------
LEMMA InitFenceInv == Init => FenceInv
BY DEF Init, FenceInv, ServiceInv, TenantInv, Owns, Tenant

\* Every step of the parent keeps the floors where they must be.
LEMMA ParentFenceInv == FenceInv /\ ParentNext => FenceInv'
<1> SUFFICES ASSUME FenceInv, ParentNext PROVE FenceInv'
    OBVIOUS
<1> USE PublicationAssumption DEF FenceInv
<1>1. ASSUME NEW s \in Slots, NEW c \in Cameras, StartCamera(s, c) PROVE FenceInv'
  <2> USE <1>1 DEF StartCamera
  <2>1. ServiceInv'
      BY DEF ServiceInv
  <2>2. Starting(c, gen[s] + 1) \in Tenant
      BY DEF Starting, Tenant, TenantInv
  <2>3. TenantInv'
      BY <2>2 DEF TenantInv, Owns, Starting
  <2> QED BY <2>1, <2>3
<1>2. ASSUME NEW s \in Slots, SpawnConsumer(s) PROVE FenceInv'
  <2> USE <1>2 DEF SpawnConsumer
  <2>1. ServiceInv'
      BY DEF ServiceInv
  <2>2. tenant[s] \in Tenant /\ Owns(s)
      BY DEF TenantInv, Owns, Tenant
  <2>3. /\ tenant' = [tenant EXCEPT ![s] = [tenant[s] EXCEPT !.epoch = fightEpoch[s] + 1,
                                                             !.alive = TRUE]]
        /\ fightEpoch' = [fightEpoch EXCEPT ![s] = fightEpoch[s] + 1]
      BY <2>2 DEF TenantInv, Tenant
  <2>4. [tenant[s] EXCEPT !.epoch = fightEpoch[s] + 1, !.alive = TRUE] \in Tenant
      BY <2>2 DEF Tenant, TenantInv
  <2>5. TenantInv'
      BY <2>2, <2>3, <2>4 DEF TenantInv, Owns, Tenant
  <2> QED BY <2>1, <2>5
<1>3. ASSUME NEW s \in Slots, FenceFight(s) PROVE FenceInv'
  <2> USE <1>3 DEF FenceFight
  <2>1. ServiceInv'
      BY DEF ServiceInv
  <2>2. tenant[s] \in Tenant /\ Owns(s) /\ tenant[s].gen = gen[s]
      BY DEF TenantInv, Owns
  <2>3. TenantInv'
      BY <2>2 DEF TenantInv, Owns, Tenant
  <2> QED BY <2>1, <2>3
<1>4. ASSUME NEW s \in Slots, WithdrawConsumer(s) PROVE FenceInv'
  <2> USE <1>4 DEF WithdrawConsumer
  <2>1. ServiceInv'
      BY DEF ServiceInv
  <2>2. tenant[s] \in Tenant
      BY DEF TenantInv
  <2>3. /\ tenant' = [tenant EXCEPT ![s] = [tenant[s] EXCEPT !.alive = FALSE]]
        /\ [tenant[s] EXCEPT !.alive = FALSE] \in Tenant
      BY <2>2 DEF Tenant, TenantInv
  <2> DEFINE w == [tenant[s] EXCEPT !.alive = FALSE]
  <2>7. /\ w \in Tenant /\ w.epoch = tenant[s].epoch /\ w.gen = tenant[s].gen
        /\ w.stopping = tenant[s].stopping /\ w # None
      BY <2>2, <2>3 DEF Tenant
  <2>8. /\ tenant' \in [Slots -> Tenant \cup {None}] /\ tenant'[s] = w
        /\ \A t \in Slots \ {s} : tenant'[t] = tenant[t]
      BY <2>3, <2>7 DEF TenantInv
  <2> HIDE DEF w
  <2>4. /\ \A t \in Slots : /\ Owns(t)' <=> Owns(t)
                            /\ tenant'[t] = None <=> tenant[t] = None
                            /\ tenant[t] # None => tenant'[t].epoch = tenant[t].epoch
                                                   /\ tenant'[t].gen = tenant[t].gen
        /\ tenant' \in [Slots -> Tenant \cup {None}]
      BY <2>2, <2>7, <2>8 DEF Owns
  <2>6. \A t \in Slots : Owns(t) => tenant[t] # None
      BY DEF Owns
  <2>5. TenantInv'
      BY <2>4, <2>6 DEF TenantInv
  <2> QED BY <2>1, <2>5
<1>5. ASSUME NEW s \in Slots, InvalidateCamera(s) PROVE FenceInv'
  <2> USE <1>5 DEF InvalidateCamera
  <2>1. ServiceInv'
      BY DEF ServiceInv
  <2>2. tenant[s] \in Tenant
      BY DEF TenantInv
  <2>3. /\ tenant' = [tenant EXCEPT ![s] = [tenant[s] EXCEPT !.stopping = TRUE]]
        /\ [tenant[s] EXCEPT !.stopping = TRUE] \in Tenant
      BY <2>2 DEF Tenant, TenantInv
  <2>4. TenantInv'
      BY <2>2, <2>3 DEF TenantInv, Owns, Tenant
  <2> QED BY <2>1, <2>4
<1>6. ASSUME NEW s \in Slots, NEW restart \in BOOLEAN, ReleaseCamera(s, restart) PROVE FenceInv'
  <2> USE <1>6 DEF ReleaseCamera
  <2>1. ServiceInv'
      BY DEF ServiceInv
  <2>2. tenant[s] \in Tenant /\ ~Owns(s)
      BY DEF TenantInv, Owns
  <2>3. Starting(tenant[s].camera, gen[s]) \in Tenant
      BY <2>2 DEF Starting, Tenant, TenantInv
  <2>4. TenantInv'
      BY <2>2, <2>3 DEF TenantInv, Owns, Starting
  <2> QED BY <2>1, <2>4
<1>7. ASSUME StartService \/ FailService \/ StopService PROVE FenceInv'
  <2>1. ServiceInv'
      BY <1>7 DEF StartService, FailService, StopService, ServiceInv
  <2>2. UNCHANGED <<gen, fightEpoch, floor, tenant, fenced>>
      BY <1>7 DEF StartService, FailService, StopService
  <2>3. TenantInv'
      BY <2>2 DEF TenantInv, Owns
  <2> QED BY <2>1, <2>3
<1> QED BY <1>1, <1>2, <1>3, <1>4, <1>5, <1>6, <1>7 DEF ParentNext

\* Nothing else writes what the parent owns.
LEMMA OthersKeepParent ==
    (Stage3Next \/ WorkerNext \/ SweeperNext \/ Publish \/ BeginClose
      \/ \E c \in Cameras : CloseFinalize(c)) => UNCHANGED parentVars
BY DEF Stage3Next, Emit, Stage3Take, Stage3Infer, Stage3Deliver, WorkerNext, Receive, Submit,
       SubmitRest, SweeperNext, SweepCollect, SweepFinalize, Publish, BeginClose, CloseFinalize

LEMMA StepFenceInv == FenceInv /\ [Next]_vars => FenceInv'
<1>1. FenceInv /\ UNCHANGED parentVars => FenceInv'
    BY DEF FenceInv, ServiceInv, TenantInv, Owns, parentVars
<1> QED BY <1>1, ParentFenceInv, OthersKeepParent DEF Next, vars, parentVars

\* Every state of the floors, epochs and tenants (fight_identity.py, generation.py).
THEOREM FenceInvariance == Spec => []FenceInv
BY InitFenceInv, StepFenceInv, PTL DEF Spec

-----------------------------------------------------------------------------
\* Only Publish adds to the outbox, and only a state whose parts all reach both
\* floors at that moment.
LEMMA PublishesCurrent ==
    ASSUME [Next]_vars
    PROVE  \A p \in New : \A r \in p.segs : PublicationCurrent(r)
<1>1. CASE Publish
  <2>1. CASE StateCurrent(open[encoding])
    <3>1. New \subseteq {Published(encoding)}
        BY <1>1, <2>1 DEF Publish, New
    <3> QED BY <2>1, <3>1 DEF StateCurrent, Published
  <2>2. CASE ~StateCurrent(open[encoding])
      BY <1>1, <2>2 DEF Publish, New
  <2> QED BY <2>1, <2>2
<1>2. CASE outbox' = outbox
    BY <1>2 DEF New
<1>3. Publish \/ outbox' = outbox
  <2>1. ParentNext => outbox' = outbox
      BY DEF ParentNext, StartCamera, SpawnConsumer, FenceFight, WithdrawConsumer,
             InvalidateCamera, ReleaseCamera, StartService, FailService, StopService, aggVars
  <2>2. Stage3Next => outbox' = outbox
      BY DEF Stage3Next, Emit, Stage3Take, Stage3Infer, Stage3Deliver, aggVars
  <2>3. WorkerNext \/ SweeperNext \/ BeginClose \/ (\E c \in Cameras : CloseFinalize(c))
          => outbox' = outbox
      BY DEF WorkerNext, Receive, Submit, SubmitRest, SweeperNext, SweepCollect,
             SweepFinalize, BeginClose, CloseFinalize, aggVars
  <2> QED BY <2>1, <2>2, <2>3 DEF Next, vars, aggVars
<1> QED BY <1>1, <1>2, <1>3

\* What a failed incarnation of the Fight service inferred is never published.
THEOREM FailedServiceNeverPublishes == Spec => FailedServiceSilent
<1>1. FenceInv /\ [Next]_vars => [FailedServiceStep]_vars
  <2> SUFFICES ASSUME FenceInv, [Next]_vars PROVE FailedServiceStep
      OBVIOUS
  <2>1. \A p \in New : \A r \in p.segs : r.svc >= serviceFloor
      BY PublishesCurrent DEF PublicationCurrent
  <2> QED BY <2>1 DEF FailedServiceStep, FenceInv, ServiceInv
<1> QED BY <1>1, FenceInvariance, PTL DEF Spec, FailedServiceSilent

\* What a fenced consumer of the current camera generation found is never
\* published.
THEOREM FencedTenantNeverPublishes == Spec => FencedTenantSilent
<1>1. FenceInv /\ [Next]_vars => [FencedTenantStep]_vars
  <2> SUFFICES ASSUME FenceInv, [Next]_vars,
                      NEW p \in New, NEW r \in p.segs,
                      <<r.slot, r.gen, r.epoch>> \in fenced, r.gen = gen[r.slot]
               PROVE  FALSE
      BY DEF FencedTenantStep
  <2>1. r.epoch >= floor[r.slot]
      BY PublishesCurrent DEF PublicationCurrent
  <2>2. r.slot \in Slots /\ r.gen \in Nat /\ r.epoch \in Nat /\ floor[r.slot] \in Nat
      BY DEF FenceInv, TenantInv
  <2>3. r.epoch < floor[r.slot]
      BY <2>2 DEF FenceInv, TenantInv
  <2> QED BY <2>1, <2>2, <2>3
<1> QED BY <1>1, FenceInvariance, PTL DEF Spec, FencedTenantSilent

\* Both: no step publishes what a failed service or a fenced consumer has found.
THEOREM FailedNeverPublish == Spec => FailedSilent
<1>1. [FailedServiceStep]_vars /\ [FencedTenantStep]_vars => [FailedServiceStep /\ FencedTenantStep]_vars
    OBVIOUS
<1> QED BY <1>1, FailedServiceNeverPublishes, FencedTenantNeverPublishes, PTL
        DEF FailedServiceSilent, FencedTenantSilent, FailedSilent

-----------------------------------------------------------------------------
(***************************************************************************)
(* One candidate, one incident.  Candidates go down the line in the order   *)
(* of their numbers, so whatever is still in a queue is above everything    *)
(* the aggregator has taken; the states it builds and the incidents it has  *)
(* published share no candidate, and a number is above all published ones.  *)
(***************************************************************************)
LineTypes ==
    /\ emitted \in 0..MaxEvents /\ jobs \in Seq(Job)
    /\ stage3 \in [job : Job, prob : Probs \cup {None}] \cup {None}
    /\ results \in Seq(Result) /\ received \in Result \cup {None}

AggTypes ==
    /\ open \in [Cameras -> State \cup {None}] /\ counter \in [Cameras -> Nat]
    /\ holder \in {"none", "worker", "submit", "sweeper", "closing"}
    /\ encoding \in Cameras \cup {None} /\ sweep \subseteq Cameras \X BOOLEAN
    /\ closing \in BOOLEAN
    /\ \A p \in outbox : p.camera \in Cameras /\ p.number \in Nat /\ p.segs \subseteq Result

\* A state that takes parts: not the cooldown of what has been published.
Building(c) == open[c] # None /\ open[c].status # "cooldown"

\* Who encodes holds the lock, over a state that stays as it is.
LockInv ==
    /\ encoding # None => holder \in {"worker", "sweeper", "closing"} /\ Building(encoding)
    /\ holder \in {"worker", "submit"} => received # None

NumberInv ==
    \A c \in Cameras :
        /\ open[c] # None => open[c].number = counter[c]
        /\ \A p \in outbox : p.camera = c =>
             /\ p.number <= counter[c]
             /\ open[c] # None => p.number < open[c].number

Apart(some, others) == \A r \in some, o \in others : r.event # o.event

ApartInv ==
    /\ \A c, d \in Cameras : c # d /\ Building(c) /\ Building(d) => Apart(open[c].segs, open[d].segs)
    /\ \A c \in Cameras : Building(c) => \A p \in outbox : Apart(open[c].segs, p.segs)
    /\ \A p, q \in outbox : p # q => Apart(p.segs, q.segs)

\* A queue whose numbers rise from above lo to at most hi.
Rising(q, lo, hi) ==
    /\ \A i \in 1..Len(q) : lo < q[i].event /\ q[i].event <= hi
    /\ \A i, j \in 1..Len(q) : i < j => q[i].event < q[j].event

TakenBelow(a) ==
    /\ \A x \in Cameras : Building(x) => \A r \in open[x].segs : r.event <= a
    /\ \A p \in outbox : \A r \in p.segs : r.event <= a

\* What is taken, what is received, delivered, inferred and queued, in this order.
Line(a, b, c, d) ==
    /\ a <= b /\ b <= c /\ c <= d /\ d <= emitted
    /\ TakenBelow(a)
    /\ received # None => a < received.event /\ received.event <= b
    /\ Rising(results, b, c)
    /\ stage3 # None => c < stage3.job.event /\ stage3.job.event <= d
    /\ Rising(jobs, d, emitted)

LineInv == \E a, b, c, d \in Nat : Line(a, b, c, d)

OnceInv == LineTypes /\ AggTypes /\ LockInv /\ NumberInv /\ ApartInv /\ LineInv
-----------------------------------------------------------------------------
(* What the queue operations do to a rising queue. *)
LEMMA RisingAppend ==
    ASSUME NEW T, \A x \in T : x.event \in Nat, NEW q \in Seq(T), NEW x \in T, NEW lo \in Nat, NEW hi \in Nat,
           Rising(q, lo, hi), lo <= hi, hi < x.event
    PROVE  Append(q, x) \in Seq(T) /\ Rising(Append(q, x), lo, x.event)
<1> DEFINE p == Append(q, x)
<1>1. /\ p \in Seq(T) /\ Len(p) = Len(q) + 1 /\ Len(q) \in Nat
      /\ \A i \in 1..Len(q) : p[i] = q[i]
      /\ p[Len(q) + 1] = x
    BY AppendProperties, LenProperties
<1>2. \A i \in 1..Len(q) : q[i] \in T
    BY LenProperties
<1> HIDE DEF p
<1>3. PICK n \in Nat : n = Len(q)
    BY <1>1
<1>4. \A i \in 1..n : p[i].event \in Nat /\ lo < p[i].event /\ p[i].event <= hi
    BY <1>1, <1>2, <1>3 DEF Rising
<1>5. p[n + 1].event = x.event /\ x.event \in Nat
    BY <1>1, <1>3
<1>6. \A i \in 1..n + 1 : i \in 1..n \/ i = n + 1
    OBVIOUS
<1>7. \A i \in 1..n + 1 : lo < p[i].event /\ p[i].event <= x.event
  <2>1. \A i \in 1..n : lo < p[i].event /\ p[i].event <= x.event
      BY <1>4, <1>5
  <2>2. lo < p[n + 1].event /\ p[n + 1].event <= x.event
      BY <1>5
  <2> QED BY <1>6, <2>1, <2>2
<1>8. \A i, j \in 1..n : i < j => p[i].event < p[j].event
    BY <1>1, <1>3 DEF Rising
<1>9. \A i, j \in 1..n + 1 : i < j => p[i].event < p[j].event
  <2> SUFFICES ASSUME NEW i \in 1..n + 1, NEW j \in 1..n + 1, i < j PROVE p[i].event < p[j].event
      OBVIOUS
  <2>1. i \in 1..n
      OBVIOUS
  <2>2. CASE j \in 1..n
      BY <2>1, <2>2, <1>8
  <2>3. CASE j = n + 1
      BY <2>1, <2>3, <1>4, <1>5
  <2> QED BY <2>2, <2>3, <1>6
<1> QED BY <1>1, <1>3, <1>7, <1>9 DEF Rising, p

LEMMA RisingTail ==
    ASSUME NEW T, \A x \in T : x.event \in Nat, NEW q \in Seq(T), q # <<>>, NEW lo \in Nat, NEW hi \in Nat,
           Rising(q, lo, hi)
    PROVE  /\ Tail(q) \in Seq(T) /\ Head(q) \in T
           /\ lo < Head(q).event /\ Head(q).event <= hi /\ Rising(Tail(q), Head(q).event, hi)
<1> DEFINE p == Tail(q)
           x == Head(q)
<1>1. /\ p \in Seq(T) /\ Len(p) = Len(q) - 1 /\ Len(q) \in Nat \ {0}
      /\ \A i \in 1..Len(q) - 1 : p[i] = q[i + 1]
      /\ x = q[1] /\ x \in T
    BY HeadTailProperties, LenProperties, EmptySeq
<1> HIDE DEF p, x
<1>2. PICK n \in Nat \ {0} : n = Len(q)
    BY <1>1
<1>3. \A i \in 1..n - 1 : i + 1 \in 1..n /\ 1 < i + 1 /\ 1 \in 1..n
    OBVIOUS
<1>4. 1 \in 1..n
    OBVIOUS
<1>5. lo < x.event /\ x.event <= hi
    BY <1>1, <1>2, <1>4 DEF Rising
<1>6. \A i \in 1..n - 1 : x.event < p[i].event /\ p[i].event <= hi
    BY <1>1, <1>2, <1>3 DEF Rising
<1>7. \A i, j \in 1..n - 1 : i < j => p[i].event < p[j].event
  <2> SUFFICES ASSUME NEW i \in 1..n - 1, NEW j \in 1..n - 1, i < j PROVE p[i].event < p[j].event
      OBVIOUS
  <2>1. i + 1 \in 1..n /\ j + 1 \in 1..n /\ i + 1 < j + 1
      OBVIOUS
  <2> QED BY <2>1, <1>1, <1>2 DEF Rising
<1> QED BY <1>1, <1>2, <1>5, <1>6, <1>7 DEF Rising, p, x

LEMMA RisingEmpty == \A lo, hi : Rising(<<>>, lo, hi)
BY DEF Rising

LEMMA EventsNat == (\A x \in Job : x.event \in Nat) /\ (\A x \in Result : x.event \in Nat)
BY PublicationAssumption DEF Job, Result

-----------------------------------------------------------------------------
(* What the aggregator's steps do to the states it builds. *)
\* The camera's state is gone, or it is one that may have taken the result r.
Dropped(c) == open' = [open EXCEPT ![c] = None] /\ counter' = counter

Grown(c, r) ==
    \E st \in State :
        /\ open' = [open EXCEPT ![c] = st] /\ counter' = [counter EXCEPT ![c] = st.number]
        /\ st.status # "cooldown"
        /\ \/ Building(c) /\ st.number = open[c].number /\ st.segs \subseteq open[c].segs \cup {r}
           \/ st.number = counter[c] + 1 /\ st.segs \subseteq {r}

LEMMA NoneIs ==
    /\ \A x \in Cameras : x # None
    /\ \A x \in Job : x # None
    /\ \A x \in Result : x # None
    /\ \A x \in State : x # None
    /\ \A x \in [job : Job, prob : Probs \cup {None}] : x # None
    /\ \A x \in Probs : x # None
BY PublicationAssumption

LEMMA NewStateIs ==
    ASSUME AggTypes, NEW c \in Cameras
    PROVE  /\ NewState(c) \in State /\ NewState(c).number = counter[c] + 1
           /\ NewState(c).segs = {} /\ NewState(c).status = "idle"
BY DEF AggTypes, NewState, State

LEMMA AbsorbIs ==
    ASSUME NEW st \in State, NEW r \in Result, st.status # "cooldown", Absorb(st, r)
    PROVE  \E new \in State :
             /\ open' = [open EXCEPT ![r.camera] = new] /\ counter' = [counter EXCEPT ![r.camera] = new.number]
             /\ new.status # "cooldown" /\ new.number = st.number /\ new.segs \subseteq st.segs \cup {r}
<1>1. PICK segs \in Merges(st, r), status \in {"confirmed", "active", st.status} :
        /\ open' = [open EXCEPT ![r.camera] = [number |-> st.number, segs |-> segs, status |-> status]]
        /\ counter' = [counter EXCEPT ![r.camera] = st.number]
    BY DEF Absorb
<1>2. segs \subseteq st.segs \cup {r}
    BY DEF Merges
<1>3. segs \in SUBSET Result
    BY <1>2 DEF State
<1>4. status \in {"idle", "active", "confirmed", "cooldown"} /\ status # "cooldown"
    BY <1>1 DEF State
<1> DEFINE new == [number |-> st.number, segs |-> segs, status |-> status]
<1>5. new \in State
    BY <1>3, <1>4 DEF State
<1> WITNESS new \in State
<1> QED BY <1>1, <1>2, <1>4

LEMMA SubmitToIs ==
    ASSUME AggTypes, NEW r \in Result, NEW st \in State,
           st = NewState(r.camera) \/ (Building(r.camera) /\ st = open[r.camera]), SubmitTo(st, r)
    PROVE  Grown(r.camera, r)
<1> DEFINE c == r.camera
<1>1. c \in Cameras
    BY DEF Result
<1>2. st.status # "cooldown" /\ (\/ Building(c) /\ st.number = open[c].number /\ st.segs \subseteq open[c].segs
                                 \/ st.number = counter[c] + 1 /\ st.segs = {})
    BY <1>1, NewStateIs DEF Building
<1>3. st # None
    BY NoneIs
<1>4. CASE Ignore(c, st)
    BY <1>2, <1>3, <1>4 DEF Ignore, Grown
<1>5. CASE Absorb(st, r)
  <2>1. PICK new \in State :
          /\ open' = [open EXCEPT ![c] = new] /\ counter' = [counter EXCEPT ![c] = new.number]
          /\ new.status # "cooldown" /\ new.number = st.number /\ new.segs \subseteq st.segs \cup {r}
      BY <1>2, <1>5, AbsorbIs
  <2>2. \/ Building(c) /\ new.number = open[c].number /\ new.segs \subseteq open[c].segs \cup {r}
        \/ new.number = counter[c] + 1 /\ new.segs \subseteq {r}
      BY <1>2, <2>1
  <2> QED BY <2>1, <2>2 DEF Grown
<1> QED BY <1>4, <1>5 DEF SubmitTo

\* A finalization keeps the state, drops it, or starts to encode one that is building.
LEMMA FinalizeIs ==
    ASSUME NEW c \in Cameras, NEW who, NEW force, Finalize(who, c, force)
    PROVE  \/ /\ open' = open \/ open' = [open EXCEPT ![c] = None]
              /\ encoding' = None /\ holder' = IF who = "worker" THEN "submit" ELSE "none"
           \/ open' = open /\ encoding' = c /\ holder' = who /\ Building(c)
<1>1. PICK o \in FinalizeOutcomes(open[c], force) :
        /\ open' = IF o = "drop" THEN [open EXCEPT ![c] = None] ELSE open
        /\ holder' = IF o = "encode" THEN who ELSE IF who = "worker" THEN "submit" ELSE "none"
        /\ encoding' = IF o = "encode" THEN c ELSE None
    BY DEF Finalize
<1>2. o \in {"keep", "drop", "encode"} /\ (o = "encode" => Building(c))
    BY DEF FinalizeOutcomes, Building
<1> QED BY <1>1, <1>2

LEMMA SubmitIs ==
    ASSUME LineTypes, AggTypes, NumberInv, Submit
    PROVE  /\ received \in Result /\ received.camera \in Cameras /\ holder = "none"
           /\ UNCHANGED <<results, sweep, closing, outbox, emitted, jobs, stage3, parentVars>>
           /\ \/ /\ received' = None /\ UNCHANGED <<holder, encoding>>
                 /\ UNCHANGED <<open, counter>> \/ Dropped(received.camera) \/ Grown(received.camera, received)
              \/ /\ received' = received /\ counter' = counter
                 /\ \/ /\ open' = open \/ Dropped(received.camera)
                       /\ encoding' = None /\ holder' = "submit"
                    \/ open' = open /\ encoding' = received.camera /\ holder' = "worker" /\ Building(received.camera)
<1> DEFINE r == received
           c == r.camera
           st == Live(c)
<1>1. r \in Result /\ c \in Cameras /\ holder = "none"
    BY DEF Submit, LineTypes, Result
<1>2. UNCHANGED <<results, sweep, closing, outbox, emitted, jobs, stage3, parentVars>>
    BY DEF Submit, stage3Vars
<1>3. st = None \/ (st = open[c] /\ open[c] # None)
    BY DEF Live
<1>4. open[c] # None => open[c] \in State /\ open[c].number = counter[c]
    BY <1>1 DEF AggTypes, NumberInv
<1>5. st # None /\ Ignore(c, st) => UNCHANGED <<open, counter>>
    BY <1>1, <1>3, <1>4 DEF Ignore, AggTypes
<1>6. Ignore(c, None) => Dropped(c)
    BY <1>1 DEF Ignore, Dropped, AggTypes
<1>7. SubmitTo(NewState(c), r) => Grown(c, r)
    BY <1>1, SubmitToIs, NewStateIs
<1>8. st # None /\ st.status # "cooldown" /\ SubmitTo(st, r) => Grown(c, r)
    BY <1>1, <1>3, <1>4, SubmitToIs DEF Building
<1>9. \/ received' = None /\ UNCHANGED <<open, counter, holder, encoding>>
      \/ received' = None /\ UNCHANGED <<holder, encoding>> /\ (Ignore(c, None) \/ SubmitTo(NewState(c), r))
      \/ received' = None /\ UNCHANGED <<holder, encoding>> /\ st # None /\ (Ignore(c, st) \/ SubmitTo(NewState(c), r))
      \/ /\ received' = None /\ UNCHANGED <<holder, encoding>> /\ st # None /\ st.status # "cooldown"
         /\ SubmitTo(st, r)
      \/ received' = r /\ counter' = counter /\ Finalize("worker", c, st.status = "confirmed")
    BY DEF Submit
<1>10. CASE received' = r /\ counter' = counter /\ Finalize("worker", c, st.status = "confirmed")
  <2>1. \/ /\ open' = open \/ open' = [open EXCEPT ![c] = None]
           /\ encoding' = None /\ holder' = "submit"
        \/ open' = open /\ encoding' = c /\ holder' = "worker" /\ Building(c)
      BY <1>1, <1>10, FinalizeIs
  <2> QED BY <1>1, <1>2, <1>10, <2>1 DEF Dropped
<1> HIDE DEF c, st, r
<1>11. CASE ~(received' = r /\ counter' = counter /\ Finalize("worker", c, st.status = "confirmed"))
  <2>1. received' = None /\ UNCHANGED <<holder, encoding>>
      BY <1>9, <1>11
  <2>2. UNCHANGED <<open, counter>> \/ Dropped(c) \/ Grown(c, r)
      BY <1>9, <1>11, <1>5, <1>6, <1>7, <1>8
  <2> QED BY <1>1, <1>2, <2>1, <2>2 DEF r, c
<1> QED BY <1>10, <1>11

LEMMA SubmitRestIs ==
    ASSUME LineTypes, AggTypes, LockInv, SubmitRest
    PROVE  /\ received \in Result /\ received.camera \in Cameras /\ received' = None /\ holder' = "none" /\ holder = "submit"
           /\ UNCHANGED <<encoding, results, sweep, closing, outbox, emitted, jobs, stage3, parentVars>>
           /\ UNCHANGED <<open, counter>> \/ Grown(received.camera, received)
<1> DEFINE c == received.camera
<1>1. received \in Result /\ c \in Cameras /\ holder = "submit"
    BY DEF SubmitRest, LineTypes, LockInv, Result
<1>2. /\ received' = None /\ holder' = "none"
      /\ UNCHANGED <<encoding, results, sweep, closing, outbox, emitted, jobs, stage3, parentVars>>
    BY DEF SubmitRest, stage3Vars
<1>3. UNCHANGED <<open, counter>> \/ Absorb(NewState(c), received)
    BY DEF SubmitRest
<1>4. ASSUME Absorb(NewState(c), received) PROVE Grown(c, received)
  <2>1. NewState(c) \in State /\ NewState(c).number = counter[c] + 1 /\ NewState(c).segs = {}
        /\ NewState(c).status # "cooldown"
      BY <1>1, NewStateIs
  <2>2. PICK new \in State :
          /\ open' = [open EXCEPT ![c] = new] /\ counter' = [counter EXCEPT ![c] = new.number]
          /\ new.status # "cooldown" /\ new.number = NewState(c).number /\ new.segs \subseteq NewState(c).segs \cup {received}
      BY <1>1, <1>4, <2>1, AbsorbIs
  <2> QED BY <2>1, <2>2 DEF Grown
<1> QED BY <1>1, <1>2, <1>3, <1>4

-----------------------------------------------------------------------------
(* A step drops a state, lets one take the received result, publishes one, or *)
(* leaves the parts, the numbers and the incidents as they are.               *)
Relabelled ==
    /\ outbox' = outbox /\ counter' = counter /\ open' \in [Cameras -> State \cup {None}]
    /\ \A c \in Cameras :
         /\ open[c] = None <=> open'[c] = None
         /\ open[c] # None => /\ open'[c].number = open[c].number /\ open'[c].segs = open[c].segs
                              /\ open'[c].status = "cooldown" <=> open[c].status = "cooldown"

Dropping == outbox' = outbox /\ \E c \in Cameras : Dropped(c)

Growing == outbox' = outbox /\ received \in Result /\ received' = None /\ Grown(received.camera, received)

Publishing ==
    /\ encoding \in Cameras /\ Building(encoding)
    /\ outbox' = outbox \cup {Published(encoding)}
    /\ open' = [open EXCEPT ![encoding] = [number |-> counter[encoding] + 1, status |-> "cooldown",
                                           segs |-> open[encoding].segs]]
    /\ counter' = [counter EXCEPT ![encoding] = counter[encoding] + 1]

LEMMA UnmovedIs ==
    ASSUME AggTypes, UNCHANGED <<open, counter, outbox>>
    PROVE  Relabelled
BY DEF AggTypes, Relabelled

LEMMA SweepCollectIs ==
    ASSUME AggTypes, SweepCollect
    PROVE  Relabelled /\ sweep' \subseteq Cameras \X BOOLEAN
<1>1. PICK idle \in SUBSET {c \in Cameras : open[c] # None /\ open[c].status \in {"active", "confirmed"}} :
        \E yes \in [idle -> BOOLEAN] :
          /\ open' = [c \in Cameras |-> IF c \in idle /\ yes[c] /\ open[c].status = "active"
                                        THEN [open[c] EXCEPT !.status = "confirmed"] ELSE open[c]]
          /\ sweep' = {<<c, open'[c].status = "confirmed">> : c \in idle}
    BY DEF SweepCollect
<1>2. PICK yes \in [idle -> BOOLEAN] :
        /\ open' = [c \in Cameras |-> IF c \in idle /\ yes[c] /\ open[c].status = "active"
                                      THEN [open[c] EXCEPT !.status = "confirmed"] ELSE open[c]]
        /\ sweep' = {<<c, open'[c].status = "confirmed">> : c \in idle}
    BY <1>1
<1>3. ASSUME NEW c \in Cameras, open[c] # None, open[c].status = "active"
      PROVE  LET st == [open[c] EXCEPT !.status = "confirmed"] IN
             /\ st \in State /\ st # None /\ st.number = open[c].number /\ st.segs = open[c].segs
             /\ st.status = "confirmed"
  <2>1. open[c] \in State
      BY <1>3 DEF AggTypes
  <2>2. [open[c] EXCEPT !.status = "confirmed"] \in State
      BY <2>1 DEF State
  <2> QED BY <2>1, <2>2, NoneIs DEF State
<1>4. ASSUME NEW c \in Cameras
      PROVE  /\ open'[c] \in State \cup {None}
             /\ open[c] = None <=> open'[c] = None
             /\ open[c] # None => /\ open'[c].number = open[c].number /\ open'[c].segs = open[c].segs
                                  /\ open'[c].status = "cooldown" <=> open[c].status = "cooldown"
  <2>1. CASE c \in idle /\ yes[c] /\ open[c].status = "active"
    <3>1. open'[c] = [open[c] EXCEPT !.status = "confirmed"] /\ open[c] # None
        BY <1>2, <2>1
    <3> QED BY <1>3, <2>1, <3>1
  <2>2. CASE ~(c \in idle /\ yes[c] /\ open[c].status = "active")
    <3>1. open'[c] = open[c]
        BY <1>2, <2>2
    <3> QED BY <3>1 DEF AggTypes
  <2> QED BY <2>1, <2>2
<1>5. open' \in [Cameras -> State \cup {None}]
    BY <1>2, <1>4
<1>6. sweep' \subseteq Cameras \X BOOLEAN
  <2>1. \A c \in idle : c \in Cameras /\ (open'[c].status = "confirmed") \in BOOLEAN
      OBVIOUS
  <2>2. sweep' = {<<c, open'[c].status = "confirmed">> : c \in idle}
      BY <1>2
  <2> DEFINE forced(c) == open'[c].status = "confirmed"
  <2>3. \A c \in idle : forced(c) \in BOOLEAN
      OBVIOUS
  <2>4. sweep' = {<<c, forced(c)>> : c \in idle}
      BY <2>2
  <2> HIDE DEF forced
  <2> QED BY <2>1, <2>3, <2>4
<1>7. outbox' = outbox /\ counter' = counter
    BY DEF SweepCollect
<1> QED BY <1>4, <1>5, <1>6, <1>7 DEF Relabelled

LEMMA FinalizingIs ==
    ASSUME AggTypes, NEW c \in Cameras, NEW who, NEW force, Finalize(who, c, force), UNCHANGED <<counter, outbox>>
    PROVE  Relabelled \/ Dropping
<1>1. open' = open \/ open' = [open EXCEPT ![c] = None]
    BY FinalizeIs
<1> QED BY <1>1, UnmovedIs DEF Dropping, Dropped

LEMMA OthersUnmoved ==
    ParentNext \/ Stage3Next \/ Receive \/ BeginClose => UNCHANGED <<open, counter, outbox, encoding, holder, sweep>>
BY DEF ParentNext, StartCamera, SpawnConsumer, FenceFight, WithdrawConsumer, InvalidateCamera, ReleaseCamera,
       StartService, FailService, StopService, Stage3Next, Emit, Stage3Take, Stage3Infer, Stage3Deliver,
       Receive, BeginClose, aggVars

LEMMA AggregatorCases ==
    ASSUME LineTypes, AggTypes, LockInv, NumberInv, [Next]_vars
    PROVE  Relabelled \/ Dropping \/ Growing \/ Publishing
<1>1. CASE ParentNext \/ Stage3Next \/ Receive \/ BeginClose \/ UNCHANGED vars
  <2>1. UNCHANGED <<open, counter, outbox>>
      BY <1>1, OthersUnmoved DEF vars, aggVars
  <2> QED BY <2>1, UnmovedIs
<1>2. CASE Submit
  <2>1. outbox' = outbox /\ received \in Result /\ received.camera \in Cameras
      BY <1>2, SubmitIs
  <2>2. CASE received' = None
    <3>1. UNCHANGED <<open, counter>> \/ Dropped(received.camera) \/ Grown(received.camera, received)
        BY <1>2, <2>1, <2>2, SubmitIs, NoneIs DEF Dropped
    <3> QED BY <2>1, <2>2, <3>1, UnmovedIs DEF Dropping, Growing
  <2>3. CASE received' # None
    <3>1. UNCHANGED <<open, counter>> \/ Dropped(received.camera)
        BY <1>2, <2>3, SubmitIs
    <3> QED BY <2>1, <3>1, UnmovedIs DEF Dropping
  <2> QED BY <2>2, <2>3
<1>3. CASE SubmitRest
  <2>1. /\ outbox' = outbox /\ received \in Result /\ received' = None
        /\ UNCHANGED <<open, counter>> \/ Grown(received.camera, received)
      BY <1>3, SubmitRestIs
  <2> QED BY <2>1, UnmovedIs DEF Growing
<1>4. CASE SweepCollect
    BY <1>4, SweepCollectIs
<1>5. CASE SweepFinalize
  <2>1. PICK item \in sweep : Finalize("sweeper", item[1], item[2])
      BY <1>5 DEF SweepFinalize
  <2>2. item[1] \in Cameras /\ UNCHANGED <<counter, outbox>>
      BY <1>5 DEF AggTypes, SweepFinalize
  <2> QED BY <2>1, <2>2, FinalizingIs
<1>6. ASSUME NEW c \in Cameras, CloseFinalize(c) PROVE Relabelled \/ Dropping
  <2>1. Finalize("closing", c, open[c].status = "confirmed") /\ UNCHANGED <<counter, outbox>>
      BY <1>6 DEF CloseFinalize
  <2> QED BY <2>1, FinalizingIs
<1>7. CASE Publish
  <2>1. encoding \in Cameras /\ Building(encoding)
      BY <1>7 DEF Publish, LockInv, AggTypes
  <2>2. CASE StateCurrent(open[encoding])
    <3>1. counter' = [counter EXCEPT ![encoding] = counter[encoding] + 1]
        BY <1>7, <2>1, <2>2 DEF Publish, AggTypes
    <3> QED BY <1>7, <2>1, <2>2, <3>1 DEF Publish, Publishing
  <2>3. CASE ~StateCurrent(open[encoding])
      BY <1>7, <2>1, <2>3 DEF Publish, Dropping, Dropped
  <2> QED BY <2>2, <2>3
<1> QED BY <1>1, <1>2, <1>3, <1>4, <1>5, <1>6, <1>7 DEF Next, WorkerNext, SweeperNext

-----------------------------------------------------------------------------
\* The types of the aggregator, and the lock.
LEMMA AggTypesStep == LineTypes /\ AggTypes /\ LockInv /\ NumberInv /\ [Next]_vars => AggTypes'
<1> SUFFICES ASSUME LineTypes, AggTypes, LockInv, NumberInv, [Next]_vars PROVE AggTypes'
    OBVIOUS
<1> DEFINE Moved == /\ open' \in [Cameras -> State \cup {None}] /\ counter' \in [Cameras -> Nat]
                    /\ \A p \in outbox' : p.camera \in Cameras /\ p.number \in Nat /\ p.segs \subseteq Result
<1>1. Moved
  <2>1. CASE Relabelled
      BY <2>1 DEF Relabelled, AggTypes
  <2>2. CASE Dropping
      BY <2>2 DEF Dropping, Dropped, AggTypes
  <2>3. CASE Growing
    <3>1. received.camera \in Cameras
        BY <2>3 DEF Growing, Result
    <3>2. PICK st \in State :
            open' = [open EXCEPT ![received.camera] = st] /\ counter' = [counter EXCEPT ![received.camera] = st.number]
        BY <2>3 DEF Growing, Grown
    <3>3. st.number \in Nat
        BY DEF State
    <3> QED BY <2>3, <3>1, <3>2, <3>3 DEF Growing, AggTypes
  <2>4. CASE Publishing
    <3>1. encoding \in Cameras /\ open[encoding] \in State /\ counter[encoding] \in Nat
        BY <2>4 DEF Publishing, Building, AggTypes
    <3>2. [number |-> counter[encoding] + 1, status |-> "cooldown", segs |-> open[encoding].segs] \in State
        BY <3>1 DEF State
    <3>3. /\ open' \in [Cameras -> State \cup {None}] /\ counter' \in [Cameras -> Nat]
        BY <2>4, <3>1, <3>2 DEF Publishing, AggTypes
    <3>4. LET p == Published(encoding) IN p.camera \in Cameras /\ p.number \in Nat /\ p.segs \subseteq Result
        BY <3>1 DEF Published, State
    <3> QED BY <2>4, <3>3, <3>4 DEF Publishing, AggTypes
  <2> QED BY <2>1, <2>2, <2>3, <2>4, AggregatorCases
<1> DEFINE Locked ==
             /\ holder' \in {"none", "worker", "submit", "sweeper", "closing"} /\ encoding' \in Cameras \cup {None}
             /\ sweep' \subseteq Cameras \X BOOLEAN /\ closing' \in BOOLEAN
<1>2. Locked
  <2>1. CASE ParentNext \/ Stage3Next \/ Receive \/ BeginClose \/ UNCHANGED vars
    <3>1. UNCHANGED <<encoding, holder, sweep>>
        BY <2>1, OthersUnmoved DEF vars, aggVars
    <3>2. closing' = closing \/ closing' = TRUE
        BY <2>1 DEF ParentNext, StartCamera, SpawnConsumer, FenceFight, WithdrawConsumer, InvalidateCamera,
                    ReleaseCamera, StartService, FailService, StopService, Stage3Next, Emit, Stage3Take,
                    Stage3Infer, Stage3Deliver, Receive, BeginClose, vars, aggVars
    <3> QED BY <3>1, <3>2 DEF AggTypes
  <2>2. CASE Submit
    <3>1. received.camera \in Cameras /\ UNCHANGED <<sweep, closing>>
        BY <2>2, SubmitIs
    <3>2. UNCHANGED <<holder, encoding>> \/ (encoding' = None /\ holder' = "submit")
          \/ (encoding' = received.camera /\ holder' = "worker")
        BY <2>2, SubmitIs
    <3> QED BY <3>1, <3>2 DEF AggTypes
  <2>3. CASE SubmitRest
    <3>1. UNCHANGED <<sweep, closing, encoding>> /\ holder' = "none"
        BY <2>3, SubmitRestIs
    <3> QED BY <3>1 DEF AggTypes
  <2>4. CASE SweepCollect
    <3>1. sweep' \subseteq Cameras \X BOOLEAN
        BY <2>4, SweepCollectIs
    <3> QED BY <2>4, <3>1 DEF SweepCollect, AggTypes
  <2>5. CASE SweepFinalize
    <3>1. PICK item \in sweep : Finalize("sweeper", item[1], item[2]) /\ sweep' = sweep \ {item}
        BY <2>5 DEF SweepFinalize
    <3>2. item[1] \in Cameras
        BY DEF AggTypes
    <3>3. (encoding' = None /\ holder' = "none") \/ (encoding' = item[1] /\ holder' = "sweeper")
        BY <3>1, <3>2, FinalizeIs
    <3>4. closing' = closing
        BY <2>5 DEF SweepFinalize
    <3> QED BY <3>1, <3>2, <3>3, <3>4 DEF AggTypes
  <2>6. ASSUME NEW c \in Cameras, CloseFinalize(c) PROVE Locked
    <3>1. Finalize("closing", c, open[c].status = "confirmed") /\ UNCHANGED <<sweep, closing>>
        BY <2>6 DEF CloseFinalize
    <3>2. (encoding' = None /\ holder' = "none") \/ (encoding' = c /\ holder' = "closing")
        BY <3>1, FinalizeIs
    <3> QED BY <3>1, <3>2 DEF AggTypes
  <2>7. CASE Publish
      BY <2>7 DEF Publish, Release, AggTypes
  <2> QED BY <2>1, <2>2, <2>3, <2>4, <2>5, <2>6, <2>7 DEF Next, WorkerNext, SweeperNext
<1> QED BY <1>1, <1>2 DEF AggTypes

LEMMA LockInvStep == LineTypes /\ AggTypes /\ LockInv /\ NumberInv /\ [Next]_vars => LockInv'
<1> SUFFICES ASSUME LineTypes, AggTypes, LockInv, NumberInv, [Next]_vars PROVE LockInv'
    OBVIOUS
<1>1. CASE ParentNext \/ Stage3Next \/ BeginClose \/ UNCHANGED vars
  <2>1. UNCHANGED <<open, encoding, holder, received>>
      BY <1>1 DEF ParentNext, StartCamera, SpawnConsumer, FenceFight, WithdrawConsumer, InvalidateCamera,
                  ReleaseCamera, StartService, FailService, StopService, Stage3Next, Emit, Stage3Take,
                  Stage3Infer, Stage3Deliver, BeginClose, vars, aggVars
  <2> QED BY <2>1 DEF LockInv, Building
<1>2. CASE Receive
    BY <1>2 DEF Receive, aggVars, LockInv, Building
<1>3. CASE Submit
  <2>1. received # None /\ received.camera \in Cameras /\ holder = "none" /\ encoding = None
      BY <1>3, SubmitIs DEF Submit, LockInv
  <2>2. CASE received' = None
    <3>1. UNCHANGED <<holder, encoding>>
        BY <1>3, <2>1, <2>2, SubmitIs
    <3> QED BY <2>1, <3>1 DEF LockInv
  <2>3. CASE received' # None
    <3>1. /\ received' = received
          /\ \/ encoding' = None /\ holder' = "submit"
             \/ open' = open /\ encoding' = received.camera /\ holder' = "worker" /\ Building(received.camera)
        BY <1>3, <2>3, SubmitIs
    <3> QED BY <2>1, <3>1 DEF LockInv, Building
  <2> QED BY <2>2, <2>3
<1>4. CASE SubmitRest
  <2>1. encoding' = encoding /\ holder = "submit" /\ holder' = "none"
      BY <1>4, SubmitRestIs
  <2> QED BY <2>1 DEF LockInv
<1>5. CASE SweepCollect
  <2>1. UNCHANGED <<holder, encoding, received>> /\ holder = "none"
      BY <1>5 DEF SweepCollect
  <2> QED BY <2>1 DEF LockInv
<1>6. CASE SweepFinalize
  <2>1. PICK item \in sweep : Finalize("sweeper", item[1], item[2])
      BY <1>6 DEF SweepFinalize
  <2>2. item[1] \in Cameras
      BY DEF AggTypes
  <2>3. \/ encoding' = None /\ holder' = "none"
        \/ encoding' = item[1] /\ holder' = "sweeper" /\ open' = open /\ Building(item[1])
      BY <2>1, <2>2, FinalizeIs
  <2> QED BY <2>3 DEF LockInv, Building
<1>7. ASSUME NEW c \in Cameras, CloseFinalize(c) PROVE LockInv'
  <2>1. Finalize("closing", c, open[c].status = "confirmed")
      BY <1>7 DEF CloseFinalize
  <2>2. \/ encoding' = None /\ holder' = "none"
        \/ encoding' = c /\ holder' = "closing" /\ open' = open /\ Building(c)
      BY <2>1, FinalizeIs
  <2> QED BY <2>2 DEF LockInv, Building
<1>8. CASE Publish
    BY <1>8 DEF Publish, Release, LockInv
<1> QED BY <1>1, <1>2, <1>3, <1>4, <1>5, <1>6, <1>7, <1>8 DEF Next, WorkerNext, SweeperNext

-----------------------------------------------------------------------------
(* The numbers, and the parts of states and incidents. *)
LEMMA NumberInvStep == LineTypes /\ AggTypes /\ LockInv /\ NumberInv /\ [Next]_vars => NumberInv'
<1> SUFFICES ASSUME LineTypes, AggTypes, LockInv, NumberInv, [Next]_vars PROVE NumberInv'
    OBVIOUS
<1>0. /\ \A c \in Cameras : counter[c] \in Nat /\ (open[c] # None => open[c] \in State /\ open[c].number \in Nat)
      /\ \A p \in outbox : p.number \in Nat
    BY DEF AggTypes, State
<1>1. CASE Relabelled
    BY <1>1 DEF Relabelled, NumberInv
<1>2. CASE Dropping
    BY <1>2 DEF Dropping, Dropped, NumberInv, AggTypes
<1>3. CASE Growing
  <2> DEFINE b == received.camera
  <2>1. b \in Cameras
      BY <1>3 DEF Growing, Result
  <2>2. PICK st \in State :
          /\ open' = [open EXCEPT ![b] = st] /\ counter' = [counter EXCEPT ![b] = st.number]
          /\ (Building(b) /\ st.number = open[b].number) \/ st.number = counter[b] + 1
      BY <1>3 DEF Growing, Grown
  <2>3. st # None /\ st.number \in Nat /\ outbox' = outbox
      BY <1>3, NoneIs DEF State, Growing
  <2>4. \A c \in Cameras \ {b} : open'[c] = open[c] /\ counter'[c] = counter[c]
      BY <2>2 DEF AggTypes
  <2>5. open'[b] = st /\ counter'[b] = st.number
      BY <2>1, <2>2 DEF AggTypes
  <2>6. counter[b] <= st.number /\ (st.number = counter[b] \/ st.number = counter[b] + 1)
        /\ (st.number = counter[b] => open[b] # None)
      BY <1>0, <2>1, <2>2, <2>3 DEF NumberInv, Building
  <2>7. \A p \in outbox : p.camera = b => p.number < st.number
      BY <1>0, <2>1, <2>3, <2>6 DEF NumberInv
  <2> HIDE DEF b
  <2>8. ASSUME NEW c \in Cameras
        PROVE  /\ open'[c] # None => open'[c].number = counter'[c]
               /\ \A p \in outbox : p.camera = c =>
                    /\ p.number <= counter'[c]
                    /\ open'[c] # None => p.number < open'[c].number
    <3>1. CASE c = b
        BY <1>0, <2>3, <2>5, <2>7, <3>1
    <3>2. CASE c # b
        BY <2>4, <3>2 DEF NumberInv
    <3> QED BY <3>1, <3>2
  <2> QED BY <2>3, <2>8 DEF NumberInv
<1>4. CASE Publishing
  <2> DEFINE b == encoding
             st == [number |-> counter[b] + 1, status |-> "cooldown", segs |-> open[b].segs]
  <2>1. b \in Cameras /\ open[b] # None /\ counter[b] \in Nat /\ st.number = counter[b] + 1
      BY <1>0, <1>4 DEF Publishing, Building
  <2>2. /\ open' = [open EXCEPT ![b] = st] /\ counter' = [counter EXCEPT ![b] = counter[b] + 1]
        /\ outbox' = outbox \cup {Published(b)}
      BY <1>4 DEF Publishing
  <2>3. \A c \in Cameras \ {b} : open'[c] = open[c] /\ counter'[c] = counter[c]
      BY <2>2 DEF AggTypes
  <2>4. open'[b] = st /\ counter'[b] = counter[b] + 1
      BY <2>1, <2>2 DEF AggTypes
  <2>5. Published(b).camera = b /\ Published(b).number = counter[b]
      BY <2>1 DEF Published, NumberInv
  <2> HIDE DEF b, st
  <2>6. \A p \in outbox' : p.camera = b => p.number \in Nat /\ p.number <= counter[b]
      BY <1>0, <2>1, <2>2, <2>5 DEF NumberInv
  <2>7. \A p \in outbox' : p.camera # b => p \in outbox
      BY <2>2, <2>5
  <2>8. ASSUME NEW c \in Cameras
        PROVE  /\ open'[c] # None => open'[c].number = counter'[c]
               /\ \A p \in outbox' : p.camera = c =>
                    /\ p.number <= counter'[c]
                    /\ open'[c] # None => p.number < open'[c].number
    <3>1. CASE c = b
        BY <2>1, <2>4, <2>6, <3>1
    <3>2. CASE c # b
        BY <2>3, <2>7, <3>2 DEF NumberInv
    <3> QED BY <3>1, <3>2
  <2> QED BY <2>8 DEF NumberInv
<1> QED BY <1>1, <1>2, <1>3, <1>4, AggregatorCases

\* Every candidate the aggregator has taken is older than the one it receives.
Older == received # None =>
    /\ \A c \in Cameras : Building(c) => \A r \in open[c].segs : r.event < received.event
    /\ \A p \in outbox : \A r \in p.segs : r.event < received.event

LEMMA LineOlder == LineTypes /\ AggTypes /\ LineInv => Older
<1> SUFFICES ASSUME LineTypes, AggTypes, LineInv, received # None PROVE Older
    BY DEF Older
<1>1. PICK a \in Nat, b \in Nat, c \in Nat, d \in Nat : Line(a, b, c, d)
    BY DEF LineInv
<1>2. a < received.event /\ received.event \in Nat /\ TakenBelow(a)
    BY <1>1, EventsNat DEF Line, LineTypes
<1>3. ASSUME NEW r \in Result, r.event <= a PROVE r.event < received.event
  <2>1. r.event \in Nat
      BY EventsNat
  <2> QED BY <1>2, <1>3, <2>1
<1>4. /\ \A c1 \in Cameras : Building(c1) => open[c1].segs \subseteq Result
      /\ \A p \in outbox : p.segs \subseteq Result
    BY DEF AggTypes, Building, State
<1> QED BY <1>2, <1>3, <1>4 DEF TakenBelow, Older

LEMMA ApartInvStep ==
    LineTypes /\ AggTypes /\ LockInv /\ NumberInv /\ LineInv /\ ApartInv /\ [Next]_vars => ApartInv'
<1> SUFFICES ASSUME LineTypes, AggTypes, LockInv, NumberInv, LineInv, ApartInv, [Next]_vars PROVE ApartInv'
    OBVIOUS
<1>0. Older
    BY LineOlder
<1>1. CASE Relabelled
  <2>1. \A c \in Cameras : Building(c)' => Building(c) /\ open'[c].segs = open[c].segs
      BY <1>1 DEF Relabelled, Building
  <2> QED BY <1>1, <2>1 DEF Relabelled, ApartInv, Apart
<1>2. CASE Dropping
  <2>1. \A c \in Cameras : Building(c)' => Building(c) /\ open'[c].segs = open[c].segs
      BY <1>2 DEF Dropping, Dropped, Building, AggTypes
  <2> QED BY <1>2, <2>1 DEF Dropping, ApartInv, Apart
<1>3. CASE Growing
  <2> DEFINE b == received.camera
             x == received
  <2>1. b \in Cameras /\ x \in Result /\ x # None /\ x.event \in Nat
      BY <1>3, NoneIs, EventsNat DEF Growing, Result
  <2>2. PICK st \in State :
          /\ open' = [open EXCEPT ![b] = st]
          /\ (Building(b) /\ st.segs \subseteq open[b].segs \cup {x}) \/ st.segs \subseteq {x}
      BY <1>3 DEF Growing, Grown
  <2>3. outbox' = outbox
      BY <1>3 DEF Growing
  <2>4. \A c \in Cameras \ {b} : open'[c] = open[c]
      BY <2>2 DEF AggTypes
  <2>5. open'[b] = st
      BY <2>1, <2>2 DEF AggTypes
  <2>6. \A c \in Cameras \ {b} : Building(c)' => Building(c) /\ open'[c].segs = open[c].segs
      BY <2>4 DEF Building
  <2>7. \A r \in st.segs : r = x \/ (Building(b) /\ r \in open[b].segs)
      BY <2>2
  <2>8. \A r, o : r.event < x.event => r.event # x.event
      BY <2>1
  <2>9. /\ \A c \in Cameras : Building(c) => \A r \in open[c].segs : r.event # x.event
        /\ \A p \in outbox : \A r \in p.segs : r.event # x.event
      BY <1>0, <2>1, <2>8 DEF Older
  <2> HIDE DEF b, x
  <2>10. ASSUME NEW c \in Cameras \ {b}, Building(c)
         PROVE  Apart(st.segs, open[c].segs) /\ Apart(open[c].segs, st.segs)
      BY <2>1, <2>7, <2>9, <2>10 DEF ApartInv, Apart
  <2>11. \A p \in outbox : Apart(st.segs, p.segs)
      BY <2>1, <2>7, <2>9 DEF ApartInv, Apart
  <2>12. \A c, d \in Cameras : c # d /\ Building(c)' /\ Building(d)' => Apart(open'[c].segs, open'[d].segs)
      BY <2>5, <2>6, <2>10 DEF ApartInv
  <2>13. \A c \in Cameras : Building(c)' => \A p \in outbox : Apart(open'[c].segs, p.segs)
      BY <2>5, <2>6, <2>11 DEF ApartInv
  <2> QED BY <2>3, <2>12, <2>13 DEF ApartInv, Apart
<1>4. CASE Publishing
  <2> DEFINE b == encoding
  <2>1. /\ b \in Cameras /\ Building(b) /\ outbox' = outbox \cup {Published(b)}
        /\ \A c \in Cameras \ {b} : open'[c] = open[c]
        /\ open'[b].status = "cooldown"
      BY <1>4 DEF Publishing, AggTypes
  <2>2. Published(b).segs = open[b].segs
      BY DEF Published
  <2>3. \A c \in Cameras : Building(c)' => c # b /\ Building(c) /\ open'[c].segs = open[c].segs
      BY <2>1 DEF Building
  <2> HIDE DEF b
  <2>4. \A c, d \in Cameras : c # d /\ Building(c)' /\ Building(d)' => Apart(open'[c].segs, open'[d].segs)
      BY <2>3 DEF ApartInv
  <2>5. \A c \in Cameras : Building(c)' => \A p \in outbox' : Apart(open'[c].segs, p.segs)
      BY <2>1, <2>2, <2>3 DEF ApartInv
  <2>6. \A p \in outbox : Apart(p.segs, open[b].segs)
      BY <2>1 DEF ApartInv, Apart
  <2>7. \A p, q \in outbox' : p # q => Apart(p.segs, q.segs)
      BY <2>1, <2>2, <2>6 DEF ApartInv
  <2> QED BY <2>4, <2>5, <2>7 DEF ApartInv, Apart
<1> QED BY <1>1, <1>2, <1>3, <1>4, AggregatorCases

-----------------------------------------------------------------------------
(* The line, step by step. *)
StampOf == stage3 # None /\ stage3.prob # None => Stamp(stage3.job, stage3.prob) \in Result

LEMMA StampIs == LineTypes /\ ServiceInv => StampOf
<1> SUFFICES ASSUME LineTypes, ServiceInv, stage3 # None, stage3.prob # None PROVE Stamp(stage3.job, stage3.prob) \in Result
    BY DEF StampOf
<1>1. stage3.job \in Job /\ stage3.prob \in Probs
    BY DEF LineTypes
<1>2. serviceEpoch \in Nat
    BY DEF ServiceInv
<1> QED BY <1>1, <1>2 DEF Stamp, Job, Result

\* Whatever is taken stays so, unless the received result is taken as well.
LEMMA TakenStays ==
    ASSUME AggTypes, NEW a \in Nat, TakenBelow(a), Relabelled \/ Dropping \/ Publishing
    PROVE  TakenBelow(a)'
<1>1. CASE Relabelled
    BY <1>1 DEF Relabelled, TakenBelow, Building
<1>2. CASE Dropping
    BY <1>2 DEF Dropping, Dropped, TakenBelow, Building, AggTypes
<1>3. CASE Publishing
    BY <1>3 DEF Publishing, Published, TakenBelow, Building, AggTypes
<1> QED BY <1>1, <1>2, <1>3

LEMMA TakenGrows ==
    ASSUME AggTypes, NEW a \in Nat, TakenBelow(a), Growing, NEW n \in Nat, n = received.event, a < n
    PROVE  TakenBelow(n)'
<1> DEFINE b == received.camera
           x == received
<1>1. b \in Cameras /\ x \in Result /\ n \in Nat /\ n = x.event
    BY EventsNat DEF Growing, Result
<1>2. PICK st \in State :
        /\ open' = [open EXCEPT ![b] = st]
        /\ (Building(b) /\ st.segs \subseteq open[b].segs \cup {x}) \/ st.segs \subseteq {x}
    BY DEF Growing, Grown
<1>3. outbox' = outbox /\ open'[b] = st /\ \A c \in Cameras \ {b} : open'[c] = open[c]
    BY <1>1, <1>2 DEF Growing, AggTypes
<1>4. ASSUME NEW r \in Result, r.event <= a PROVE r.event <= n
  <2>1. r.event \in Nat
      BY EventsNat
  <2> QED BY <1>1, <1>4, <2>1
<1>5. /\ \A c \in Cameras : Building(c) => open[c].segs \subseteq Result
      /\ \A p \in outbox : p.segs \subseteq Result
    BY DEF AggTypes, Building, State
<1> HIDE DEF b, x
<1>6. /\ \A c \in Cameras : Building(c) => \A r \in open[c].segs : r.event <= n
      /\ \A p \in outbox : \A r \in p.segs : r.event <= n
    BY <1>4, <1>5 DEF TakenBelow
<1>7. \A r \in st.segs : r.event <= n
    BY <1>1, <1>2, <1>6
<1>8. /\ \A c \in Cameras : (open'[c] # None /\ open'[c].status # "cooldown") => \A r \in open'[c].segs : r.event <= n
      /\ \A p \in outbox' : \A r \in p.segs : r.event <= n
    BY <1>3, <1>6, <1>7 DEF Building
<1> QED BY <1>8 DEF TakenBelow, Building

LEMMA TakenWider ==
    ASSUME AggTypes, NEW a \in Nat, NEW n \in Nat, TakenBelow(a), a <= n
    PROVE  TakenBelow(n)
<1>1. \A r \in Result : r.event <= a => r.event <= n
    BY EventsNat
<1>2. /\ \A c \in Cameras : Building(c) => open[c].segs \subseteq Result
      /\ \A p \in outbox : p.segs \subseteq Result
    BY DEF AggTypes, Building, State
<1> QED BY <1>1, <1>2 DEF TakenBelow

lineVars == <<emitted, jobs, stage3, results, received>>

\* What can move the line, and what cannot.
LEMMA LineCases ==
    ASSUME LineTypes, AggTypes, LockInv, NumberInv, [Next]_vars
    PROVE  \/ UNCHANGED lineVars
           \/ /\ UNCHANGED <<open, counter, outbox>>
              /\ \/ StopService \/ Stage3Take \/ Stage3Deliver \/ Receive
                 \/ (\E s \in Slots : Emit(s)) \/ (\E p \in Probs : Stage3Infer(p))
           \/ received \in Result /\ received' = None /\ UNCHANGED <<emitted, jobs, stage3, results>>
<1>1. CASE ParentNext \/ Stage3Next \/ Receive \/ BeginClose \/ UNCHANGED vars
  <2>1. UNCHANGED <<open, counter, outbox>>
      BY <1>1, OthersUnmoved DEF vars, aggVars
  <2>2. ParentNext => StopService \/ UNCHANGED lineVars
      BY DEF ParentNext, StartCamera, SpawnConsumer, FenceFight, WithdrawConsumer, InvalidateCamera, ReleaseCamera,
             StartService, FailService, stage3Vars, lineVars
  <2>3. BeginClose \/ UNCHANGED vars => UNCHANGED lineVars
      BY DEF BeginClose, vars, stage3Vars, lineVars
  <2> QED BY <1>1, <2>1, <2>2, <2>3 DEF Stage3Next
<1>2. CASE Submit
  <2>1. UNCHANGED <<emitted, jobs, stage3, results>> /\ received \in Result /\ (received' = None \/ received' = received)
      BY <1>2, SubmitIs
  <2> QED BY <2>1 DEF lineVars
<1>3. CASE SubmitRest
    BY <1>3, SubmitRestIs
<1>4. CASE SweeperNext \/ Publish \/ \E c \in Cameras : CloseFinalize(c)
    BY <1>4 DEF SweeperNext, SweepCollect, SweepFinalize, Publish, CloseFinalize, stage3Vars, lineVars
<1> QED BY <1>1, <1>2, <1>3, <1>4 DEF Next, WorkerNext

LEMMA LineTypesStep == LineTypes /\ AggTypes /\ LockInv /\ NumberInv /\ FenceInv /\ [Next]_vars => LineTypes'
<1> SUFFICES ASSUME LineTypes, AggTypes, LockInv, NumberInv, FenceInv, [Next]_vars PROVE LineTypes'
    OBVIOUS
<1>1. CASE UNCHANGED lineVars
    BY <1>1 DEF lineVars, LineTypes
<1>2. CASE StopService
    BY <1>2 DEF StopService, LineTypes
<1>3. ASSUME NEW s \in Slots, Emit(s) PROVE LineTypes'
  <2> DEFINE j == [event |-> emitted + 1, camera |-> tenant[s].camera, slot |-> s, gen |-> tenant[s].gen,
                   epoch |-> tenant[s].epoch]
  <2>1. tenant[s] \in Tenant
      BY <1>3 DEF Emit, FenceInv, TenantInv
  <2>2. emitted' = emitted + 1 /\ emitted + 1 \in 1..MaxEvents
      BY <1>3, PublicationAssumption DEF Emit, LineTypes
  <2>3. j \in Job
      BY <2>1, <2>2 DEF Tenant, Job
  <2>4. jobs' = Append(jobs, j) /\ UNCHANGED <<stage3, results, received>>
      BY <1>3 DEF Emit
  <2>5. Append(jobs, j) \in Seq(Job)
      BY <2>3, AppendProperties DEF LineTypes
  <2> HIDE DEF j
  <2> QED BY <2>2, <2>4, <2>5 DEF LineTypes
<1>4. CASE Stage3Take
  <2>1. Head(jobs) \in Job /\ Tail(jobs) \in Seq(Job)
      BY <1>4, HeadTailProperties DEF Stage3Take, LineTypes
  <2>2. [job |-> Head(jobs), prob |-> None] \in [job : Job, prob : Probs \cup {None}]
      BY <2>1
  <2> QED BY <1>4, <2>1, <2>2 DEF Stage3Take, LineTypes
<1>5. ASSUME NEW p \in Probs, Stage3Infer(p) PROVE LineTypes'
  <2>1. [stage3 EXCEPT !.prob = p] \in [job : Job, prob : Probs \cup {None}]
      BY <1>5 DEF Stage3Infer, LineTypes
  <2> QED BY <1>5, <2>1 DEF Stage3Infer, LineTypes
<1>6. CASE Stage3Deliver
  <2>1. Stamp(stage3.job, stage3.prob) \in Result
      BY <1>6, StampIs DEF Stage3Deliver, StampOf, FenceInv
  <2>2. Append(results, Stamp(stage3.job, stage3.prob)) \in Seq(Result)
      BY <2>1, AppendProperties DEF LineTypes
  <2> QED BY <1>6, <2>2 DEF Stage3Deliver, LineTypes
<1>7. CASE Receive
  <2>1. Head(results) \in Result /\ Tail(results) \in Seq(Result)
      BY <1>7, HeadTailProperties DEF Receive, LineTypes
  <2> QED BY <1>7, <2>1 DEF Receive, stage3Vars, LineTypes
<1>8. CASE received \in Result /\ received' = None /\ UNCHANGED <<emitted, jobs, stage3, results>>
    BY <1>8 DEF LineTypes
<1> QED BY <1>1, <1>2, <1>3, <1>4, <1>5, <1>6, <1>7, <1>8, LineCases

LEMMA LineInvStep ==
    LineTypes /\ AggTypes /\ LockInv /\ NumberInv /\ FenceInv /\ LineInv /\ [Next]_vars => LineInv'
<1> SUFFICES ASSUME LineTypes, AggTypes, LockInv, NumberInv, FenceInv, LineInv, [Next]_vars PROVE LineInv'
    OBVIOUS
<1>1. PICK a \in Nat, b \in Nat, c \in Nat, d \in Nat : Line(a, b, c, d)
    BY DEF LineInv
<1>2. emitted \in Nat /\ emitted' \in Nat
    BY LineTypesStep, PublicationAssumption DEF LineTypes
<1>3. (received' = received \/ UNCHANGED <<open, counter, outbox>>) => TakenBelow(a)'
  <2>1. TakenBelow(a)
      BY <1>1 DEF Line
  <2>2. UNCHANGED <<open, counter, outbox>> => TakenBelow(a)'
      BY <2>1 DEF TakenBelow, Building
  <2>3. received' = received => Relabelled \/ Dropping \/ Publishing
      BY AggregatorCases, NoneIs DEF Growing
  <2> QED BY <2>1, <2>2, <2>3, TakenStays
<1>4. ASSUME NEW k \in Nat, NEW l \in Nat, NEW m \in Nat, NEW n \in Nat, Line(k, l, m, n)' PROVE LineInv'
    BY <1>4 DEF LineInv
<1>5. CASE UNCHANGED lineVars
  <2>1. Line(a, b, c, d)'
      BY <1>1, <1>3, <1>5 DEF Line, lineVars, Rising
  <2> QED BY <1>4, <2>1
<1>6. CASE StopService /\ UNCHANGED <<open, counter, outbox>>
  <2>1. Line(a, b, c, d)'
      BY <1>1, <1>3, <1>6, RisingEmpty DEF StopService, Line, Rising
  <2> QED BY <1>4, <2>1
<1>7. ASSUME NEW s \in Slots, Emit(s), UNCHANGED <<open, counter, outbox>> PROVE LineInv'
  <2> DEFINE j == [event |-> emitted + 1, camera |-> tenant[s].camera, slot |-> s, gen |-> tenant[s].gen,
                   epoch |-> tenant[s].epoch]
  <2>1. /\ emitted' = emitted + 1 /\ emitted + 1 \in 1..MaxEvents /\ tenant[s] \in Tenant
        /\ jobs' = Append(jobs, j) /\ UNCHANGED <<stage3, results, received>>
      BY <1>7, PublicationAssumption DEF Emit, LineTypes, FenceInv, TenantInv
  <2>2. j \in Job /\ j.event = emitted + 1
      BY <2>1 DEF Tenant, Job
  <2> HIDE DEF j
  <2>3. d <= emitted /\ emitted < j.event /\ Rising(jobs, d, emitted) /\ jobs \in Seq(Job)
      BY <1>1, <1>2, <2>2 DEF Line, LineTypes
  <2>4. Rising(Append(jobs, j), d, j.event)
      BY <1>2, <2>2, <2>3, EventsNat, RisingAppend
  <2>5. Rising(jobs', d, emitted')
      BY <2>1, <2>2, <2>4
  <2>6. d <= emitted'
      BY <1>2, <2>1, <2>3
  <2>7. Line(a, b, c, d)'
      BY <1>1, <1>3, <1>7, <2>1, <2>5, <2>6 DEF Line, Rising
  <2> QED BY <1>4, <2>7
<1>8. CASE Stage3Take /\ UNCHANGED <<open, counter, outbox>>
  <2>1. jobs # <<>> /\ jobs' = Tail(jobs) /\ UNCHANGED <<emitted, results, received>>
        /\ (stage3' = None \/ stage3' = [job |-> Head(jobs), prob |-> None])
      BY <1>8 DEF Stage3Take
  <2>2. jobs \in Seq(Job) /\ Rising(jobs, d, emitted) /\ c <= d
      BY <1>1 DEF Line, LineTypes
  <2>3. Head(jobs) \in Job /\ d < Head(jobs).event /\ Head(jobs).event <= emitted
        /\ Rising(Tail(jobs), Head(jobs).event, emitted)
      BY <1>2, <2>1, <2>2, EventsNat, RisingTail
  <2>4. PICK n \in Nat : n = Head(jobs).event
      BY <2>3, EventsNat
  <2>5. /\ c < n /\ c <= n /\ n <= emitted' /\ Rising(jobs', n, emitted')
        /\ stage3' # None => stage3'.job.event = n
      BY <1>2, <2>1, <2>2, <2>3, <2>4
  <2>6. Line(a, b, c, n)'
      BY <1>1, <1>3, <1>8, <2>1, <2>5 DEF Line, Rising
  <2> QED BY <1>4, <2>6
<1>9. ASSUME NEW p \in Probs, Stage3Infer(p), UNCHANGED <<open, counter, outbox>> PROVE LineInv'
  <2>1. stage3 \in [job : Job, prob : Probs \cup {None}]
      BY <1>9 DEF Stage3Infer, LineTypes
  <2>2. stage3' # None => stage3'.job = stage3.job /\ stage3 # None
      BY <1>9, <2>1 DEF Stage3Infer
  <2>3. UNCHANGED <<emitted, jobs, results, received>>
      BY <1>9 DEF Stage3Infer
  <2>4. Line(a, b, c, d)'
      BY <1>1, <1>3, <1>9, <2>2, <2>3 DEF Line, Rising
  <2> QED BY <1>4, <2>4
<1>10. CASE Stage3Deliver /\ UNCHANGED <<open, counter, outbox>>
  <2> DEFINE x == Stamp(stage3.job, stage3.prob)
  <2>1. /\ stage3 # None /\ stage3' = None /\ results' = Append(results, x) /\ UNCHANGED <<emitted, jobs, received>>
        /\ x \in Result
      BY <1>10, StampIs DEF Stage3Deliver, StampOf, FenceInv
  <2>2. x.event = stage3.job.event /\ x.event \in Nat
      BY <2>1, EventsNat DEF Stamp
  <2> HIDE DEF x
  <2>3. b <= c /\ c < x.event /\ x.event <= d /\ Rising(results, b, c) /\ results \in Seq(Result)
      BY <1>1, <2>1, <2>2 DEF Line, LineTypes
  <2>4. Rising(Append(results, x), b, x.event)
      BY <2>1, <2>3, EventsNat, RisingAppend
  <2>5. PICK n \in Nat : n = x.event
      BY <2>2
  <2>6. b <= n /\ n <= d /\ Rising(results', b, n)
      BY <2>1, <2>3, <2>4, <2>5
  <2>7. Line(a, b, n, d)'
      BY <1>1, <1>3, <1>10, <2>1, <2>6 DEF Line, Rising
  <2> QED BY <1>4, <2>7
<1>11. CASE Receive /\ UNCHANGED <<open, counter, outbox>>
  <2>1. /\ results # <<>> /\ results' = Tail(results) /\ (received' = Head(results) \/ received' = None)
        /\ UNCHANGED <<emitted, jobs, stage3>>
      BY <1>11 DEF Receive, stage3Vars
  <2>2. results \in Seq(Result) /\ Rising(results, b, c) /\ a <= b
      BY <1>1 DEF Line, LineTypes
  <2>3. Head(results) \in Result /\ b < Head(results).event /\ Head(results).event <= c
        /\ Rising(Tail(results), Head(results).event, c)
      BY <2>1, <2>2, EventsNat, RisingTail
  <2>4. PICK n \in Nat : n = Head(results).event
      BY <2>3, EventsNat
  <2>5. a <= n /\ n <= c /\ a < n /\ n <= n /\ Rising(results', n, c) /\ (received' # None => received'.event = n)
      BY <2>1, <2>2, <2>3, <2>4
  <2>6. Line(a, n, c, d)'
      BY <1>1, <1>3, <1>11, <2>1, <2>5 DEF Line, Rising
  <2> QED BY <1>4, <2>6
<1>12. CASE received \in Result /\ received' = None /\ UNCHANGED <<emitted, jobs, stage3, results>>
  <2>1. PICK n \in Nat : n = received.event
      BY <1>12, EventsNat
  <2>2. a < n /\ n <= b /\ TakenBelow(a) /\ a <= n
      BY <1>1, <1>12, <2>1, NoneIs DEF Line
  <2>3. Growing => TakenBelow(n)'
      BY <2>1, <2>2, TakenGrows
  <2>4. TakenBelow(n)
      BY <2>2, TakenWider
  <2>5. TakenBelow(n)'
      BY <2>3, <2>4, AggregatorCases, TakenStays
  <2>6. Line(n, b, c, d)'
      BY <1>1, <1>12, <2>2, <2>5 DEF Line, Rising
  <2> QED BY <1>4, <2>6
<1> QED BY <1>5, <1>6, <1>7, <1>8, <1>9, <1>10, <1>11, <1>12, LineCases

-----------------------------------------------------------------------------
LEMMA InitOnceInv == Init => OnceInv
<1> SUFFICES ASSUME Init PROVE OnceInv
    OBVIOUS
<1>1. LineTypes
    BY PublicationAssumption, EmptySeq DEF Init, LineTypes
<1>4. AggTypes
    BY DEF Init, AggTypes
<1>2. LockInv /\ NumberInv /\ ApartInv
    BY DEF Init, LockInv, NumberInv, ApartInv, Building
<1>3. 0 \in Nat /\ Line(0, 0, 0, 0)
    BY RisingEmpty DEF Init, Line, TakenBelow, Building
<1> QED BY <1>1, <1>2, <1>3, <1>4 DEF OnceInv, LineInv

\* The candidates stay in line, and states and incidents apart.
THEOREM OnceHolds == Spec => []OnceInv
<1>1. FenceInv /\ OnceInv /\ [Next]_vars => OnceInv'
    BY LineTypesStep, AggTypesStep, LockInvStep, NumberInvStep, ApartInvStep, LineInvStep DEF OnceInv
<1> QED BY <1>1, InitOnceInv, FenceInvariance, PTL DEF Spec

\* A candidate counts for at most one incident, and a number of a camera is used once.
THEOREM PublishedOnceHolds == Spec => []PublishedOnce
<1>1. FenceInv /\ OnceInv /\ [Next]_vars => (PublishedOnce => PublishedOnce')
  <2> SUFFICES ASSUME OnceInv, OnceInv', [Next]_vars, PublishedOnce PROVE PublishedOnce'
      BY LineTypesStep, AggTypesStep, LockInvStep, NumberInvStep, ApartInvStep, LineInvStep DEF OnceInv
  <2>1. outbox' = outbox \/ Publishing
      BY AggregatorCases DEF OnceInv, Relabelled, Dropping, Growing
  <2>2. \A p, q \in outbox' : p # q => {r.event : r \in p.segs} \cap {r.event : r \in q.segs} = {}
      BY DEF OnceInv, ApartInv, Apart
  <2>3. CASE outbox' = outbox
      BY <2>2, <2>3 DEF PublishedOnce
  <2>4. CASE Publishing
    <3> DEFINE n == Published(encoding)
    <3>1. /\ outbox' = outbox \cup {n} /\ n.camera = encoding /\ n.number = open[encoding].number
          /\ encoding \in Cameras /\ open[encoding] # None
        BY <2>4 DEF Publishing, Published, Building
    <3>2. n.number \in Nat /\ \A p \in outbox : p.number \in Nat /\ (p.camera = n.camera => p.number < n.number)
        BY <3>1 DEF OnceInv, AggTypes, State, NumberInv
    <3> HIDE DEF n
    <3>3. \A p \in outbox : p.camera = n.camera => p.number # n.number
        BY <3>2
    <3>4. \A p, q \in outbox' : p # q /\ p.camera = q.camera => p.number # q.number
        BY <3>1, <3>3 DEF PublishedOnce
    <3> QED BY <2>2, <3>4 DEF PublishedOnce
  <2> QED BY <2>1, <2>3, <2>4
<1>2. Init => PublishedOnce
    BY DEF Init, PublishedOnce
<1> QED BY <1>1, <1>2, OnceHolds, FenceInvariance, PTL DEF Spec

\* Every variable has its type.
THEOREM TypesHold == Spec => []TypeOK
<1> DEFINE ServiceOK == service \in {"down", "up", "failing"}
<1>1. Init => ServiceOK
    BY DEF Init
<1>2. ServiceOK /\ [Next]_vars => ServiceOK'
  <2>1. ParentNext => ServiceOK' \/ service' = service
      BY DEF ParentNext, StartCamera, SpawnConsumer, FenceFight, WithdrawConsumer, InvalidateCamera,
             ReleaseCamera, StartService, FailService, StopService
  <2> QED BY <2>1, OthersKeepParent DEF Next, vars, parentVars
<1>3. ServiceOK /\ FenceInv /\ OnceInv => TypeOK
    BY DEF FenceInv, ServiceInv, TenantInv, OnceInv, LineTypes, AggTypes, TypeOK
<1> HIDE DEF ServiceOK
<1> QED BY <1>1, <1>2, <1>3, OnceHolds, FenceInvariance, PTL DEF Spec

-----------------------------------------------------------------------------
(* The path of a camera's frames (CameraPath). *)

Mine == [t : {"frame", "eof", "fatal_error", "stopping"}, n : Nat, epoch : Nat]
OwnFrame == {m \in Mine : m.t = "frame" /\ m.epoch = Epoch}
OwnEof == {m \in Mine : m.t = "eof" /\ m.epoch = Epoch}

\* What the ingest has still to tell the Fight consumer of.
Owed(t) == ipc = "send" /\ word = t /\ todo # <<>> /\ Head(todo) = "fight"

\* The part of the state the ingest writes, with the types the proofs need.
IngestInv ==
    /\ fightQ \in Seq(Mine) /\ seq \in Nat /\ eaten \in Nat /\ lastSeq \in Nat
    /\ kind \in {"FILE", "LIVE", "ONCE"}
    /\ outputs \in {{"fight"}, {"fight", "speed"}, {"direct"}}
    /\ stop \in BOOLEAN /\ fightStop \in BOOLEAN
    /\ todo \in {<<>>, <<"fight">>, <<"speed">>, <<"fight", "speed">>, <<"speed", "fight">>}
    /\ word \in {"frame", "eof", "fatal_error"}
    /\ ipc = "send" => todo # <<>>
    /\ word # "fatal_error" => todo # <<"speed", "fight">>
    /\ word = "eof" => eofEvent /\ ipc \in {"send", "done"}
    /\ Direct => ipc = "done"

\* What the consumer does inside one frame, and what the services do, leaves the
\* ingest and its channel alone.
Inner == \/ Motion \/ People \/ Decide \/ AnswerPerson \/ AnswerPose \/ AnswerStopped
         \/ LeaveLoop \/ ServePerson \/ ServePose
channelVars == <<kind, outputs, stop, fightStop, ipc, word, todo, seq, fightQ, eofEvent,
                 eaten, lastSeq, idx>>

LEMMA InnerKeeps == Inner => UNCHANGED channelVars
<1> USE DEF channelVars, ingestVars, ingestOnly, settings, stops
<1>1. Motion \/ People \/ Decide => UNCHANGED channelVars
    BY DEF Motion, People, Decide
<1>2. AnswerPerson \/ AnswerPose \/ AnswerStopped => UNCHANGED channelVars
    BY DEF AnswerPerson, AnswerPose, Answer, AnswerStopped
<1>3. LeaveLoop => UNCHANGED channelVars
    BY DEF LeaveLoop
<1>4. ServePerson \/ ServePose => UNCHANGED channelVars
    BY DEF ServePerson, ServePose, Serve
<1> QED BY <1>1, <1>2, <1>3, <1>4 DEF Inner

LEMMA CameraCases ==
    [CameraNext]_cameraVars =>
      \/ Inner \/ DropForeign \/ TakeFrame \/ TakeSignal
      \/ DirectOpen \/ DirectRead \/ DirectNothing
      \/ IngestStep /\ UNCHANGED workerVars
      \/ SpeedTakes /\ UNCHANGED workerVars
      \/ AskStop /\ UNCHANGED workerVars
      \/ UNCHANGED cameraVars
BY DEF CameraNext, FrameStep, Inner

\* What is in the Fight channel after a message is published to it.
LEMMA FightAfterIs ==
    ASSUME NEW m, NEW ordered
    PROVE  \A q \in FightAfter(m, ordered) :
             \/ q = Append(fightQ, m) /\ FightFed
             \/ q = fightQ /\ (stop \/ ~FightFed \/ ~ordered)
             \/ q = Append(Tail(fightQ), m) /\ ~ordered /\ Len(fightQ) >= FightCapacity
BY IngestAssumption DEF FightAfter, FightOrdered, FightLatest, FightFed

LEMMA TodoTails ==
    /\ Head(<<"fight">>) = "fight" /\ Tail(<<"fight">>) = <<>> /\ Len(<<"fight">>) = 1
    /\ Head(<<"speed">>) = "speed" /\ Tail(<<"speed">>) = <<>> /\ Len(<<"speed">>) = 1
    /\ Head(<<"fight", "speed">>) = "fight" /\ Tail(<<"fight", "speed">>) = <<"speed">>
    /\ Len(<<"fight", "speed">>) = 2
    /\ Head(<<"speed", "fight">>) = "speed" /\ Tail(<<"speed", "fight">>) = <<"fight">>
    /\ Len(<<"speed", "fight">>) = 2
OBVIOUS

LEMMA MessageIs ==
    ASSUME seq \in Nat, NEW t \in {"frame", "eof", "fatal_error", "stopping"}
    PROVE  /\ Message(t) \in Mine /\ Message(t).n = seq
           /\ Message(t) \in OwnFrame <=> t = "frame"
           /\ Message(t) \in OwnEof <=> t = "eof"
BY DEF Message, Mine, OwnFrame, OwnEof, Epoch

LEMMA QueueTyped ==
    /\ FightCapacity \in Nat \ {0}
    /\ \A q \in Seq(Mine) : \A m \in Mine : Append(q, m) \in Seq(Mine)
    /\ \A q \in Seq(Mine) : q # <<>> => Tail(q) \in Seq(Mine) /\ Head(q) \in Mine
    /\ \A q \in Seq(Mine) : Len(q) >= FightCapacity => q # <<>>
<1>1. \A q \in Seq(Mine) : \A m \in Mine : Append(q, m) \in Seq(Mine)
    BY AppendProperties
<1>2. \A q \in Seq(Mine) : q # <<>> => Tail(q) \in Seq(Mine) /\ Head(q) \in Mine
    BY HeadTailProperties
<1> QED BY <1>1, <1>2, IngestAssumption

LEMMA IngestInvStep == IngestInv /\ [CameraNext]_cameraVars => IngestInv'
<1> SUFFICES ASSUME IngestInv, [CameraNext]_cameraVars PROVE IngestInv'
    OBVIOUS
<1>1. CASE Inner \/ UNCHANGED cameraVars
  <2>1. UNCHANGED channelVars
      BY <1>1, InnerKeeps DEF cameraVars, ingestVars, workerVars, channelVars
  <2> QED BY <2>1 DEF IngestInv, channelVars, Direct
<1>2. CASE DropForeign
  <2>1. fightQ' \in Seq(Mine)
      BY <1>2, QueueTyped DEF DropForeign, IngestInv
  <2> QED BY <1>2, <2>1 DEF DropForeign, IngestInv, Direct, ingestOnly, settings, stops, workerVars
<1>3. CASE TakeFrame
  <2>1. fightQ' \in Seq(Mine) /\ Head(fightQ).n \in Nat
      BY <1>3, QueueTyped DEF TakeFrame, IngestInv, Mine
  <2> QED BY <1>3, <2>1 DEF TakeFrame, IngestInv, Direct, ingestOnly, settings, stops
<1>4. CASE TakeSignal
  <2>1. fightQ' \in Seq(Mine)
      BY <1>4, QueueTyped DEF TakeSignal, IngestInv
  <2> QED BY <1>4, <2>1 DEF TakeSignal, IngestInv, Direct, ingestOnly, settings, stops
<1>5. CASE DirectOpen \/ DirectRead \/ DirectNothing
    BY <1>5 DEF DirectOpen, DirectRead, DirectNothing, IngestInv, Direct, ingestOnly, settings, stops
<1>6. CASE IngestStep /\ UNCHANGED workerVars
  <2>1. eaten' = eaten /\ lastSeq' = lastSeq
      BY <1>6 DEF workerVars
  <2>0. /\ Route("fight", "speed") \in {<<"fight">>, <<"fight", "speed">>}
        /\ Route("speed", "fight") \in {<<"fight">>, <<"speed", "fight">>}
        /\ Route("speed", "fight") # <<>> /\ Route("fight", "speed") # <<>>
        /\ Route("fight", "speed") # <<"speed", "fight">>
      BY DEF Route
  <2>2. CASE OpenSource \/ ReadFrame \/ ReadNothing \/ ReadRaises \/ Reconnect
    <3>1. UNCHANGED <<kind, outputs, stop, fightStop, fightQ>> /\ ipc # "done" /\ word # "eof"
        BY <2>2 DEF OpenSource, ReadFrame, ReadNothing, ReadRaises, Reconnect, settings, stops, IngestInv
    <3>2. seq' \in Nat
      <4>1. seq' = seq \/ seq' = seq + 1
          BY <2>2 DEF OpenSource, ReadFrame, ReadNothing, ReadRaises, Reconnect
      <4> QED BY <4>1 DEF IngestInv
    <3>3. \/ UNCHANGED <<word, todo>> /\ ipc' \in {"read", "backoff", "open"}
          \/ ipc' = "send" /\ word' \in {"frame", "fatal_error"}
             /\ (word' = "frame" => todo' = Route("fight", "speed"))
             /\ (word' # "frame" => todo' = Route("speed", "fight"))
          \/ ipc' = "send" /\ word' = "eof" /\ todo' = Route("fight", "speed") /\ eofEvent' = TRUE
      <4>1. CASE OpenSource \/ ReadFrame \/ ReadRaises \/ Reconnect
          BY <4>1 DEF OpenSource, ReadFrame, ReadRaises, Reconnect, Raise, TellFatal
      <4>2. CASE ReadNothing
          BY <4>2 DEF ReadNothing, TellFatal, TellEof, IngestInv
      <4> QED BY <2>2, <4>1, <4>2
    <3>4. /\ todo' \in {<<>>, <<"fight">>, <<"speed">>, <<"fight", "speed">>, <<"speed", "fight">>}
          /\ word' \in {"frame", "eof", "fatal_error"}
        BY <2>0, <3>3 DEF IngestInv
    <3>5. (ipc' = "send" => todo' # <<>>) /\ (word' # "fatal_error" => todo' # <<"speed", "fight">>)
        BY <2>0, <3>3 DEF IngestInv
    <3>6. ~Direct /\ (word' = "eof" => eofEvent' /\ ipc' \in {"send", "done"})
        BY <3>1, <3>3 DEF IngestInv
    <3> QED BY <2>1, <3>1, <3>2, <3>4, <3>5, <3>6 DEF IngestInv, Direct
  <2>3. CASE SendFight
    <3>1. fightQ' \in Seq(Mine)
      <4>1. /\ Message(word) \in Mine /\ fightQ \in Seq(Mine)
            /\ fightQ' \in FightAfter(Message(word), Ordered)
          BY <2>3, MessageIs DEF IngestInv, SendFight
      <4> QED BY <4>1, FightAfterIs, QueueTyped
    <3>2. todo' \in {<<>>, <<"speed">>}
        BY <2>3, TodoTails DEF SendFight, Delivered, IngestInv
    <3>3. ipc' = "send" => todo' # <<>>
        BY <2>3, TodoTails DEF SendFight, Delivered, IngestInv
    <3>4. ipc' \in {"send", "read", "done"} /\ (word = "eof" => ipc' # "read") /\ ~Direct
        BY <2>3 DEF SendFight, Delivered, IngestInv
    <3>5. UNCHANGED <<kind, outputs, stop, fightStop, word, seq, eofEvent>>
        BY <2>3 DEF SendFight, settings, stops
    <3>6. word' = "eof" => eofEvent' /\ ipc' \in {"send", "done"}
        BY <3>4, <3>5 DEF IngestInv
    <3>7. /\ ipc' = "send" => todo' # <<>>
          /\ todo' \in {<<>>, <<"fight">>, <<"speed">>, <<"fight", "speed">>, <<"speed", "fight">>}
          /\ todo' # <<"speed", "fight">>
        BY <3>2, <3>3
    <3> QED BY <2>1, <3>1, <3>4, <3>5, <3>6, <3>7 DEF IngestInv, Direct
  <2>4. CASE SendSpeed
    <3>2. todo' \in {<<>>, <<"fight">>}
      <4>1. ipc = "send" /\ Head(todo) = "speed" /\ todo' = Tail(todo)
          BY <2>4 DEF SendSpeed, Delivered
      <4> QED BY <4>1, TodoTails DEF IngestInv
    <3>3. ipc' = "send" => todo' # <<>>
      <4>1. Head(todo) = "speed" /\ todo' = Tail(todo)
          BY <2>4 DEF SendSpeed, Delivered
      <4>2. ipc' = "send" => Len(todo) > 1
          BY <2>4 DEF SendSpeed, Delivered
      <4>3. todo \in {<<"speed">>, <<"speed", "fight">>}
          BY <4>1, TodoTails, <2>4 DEF IngestInv, SendSpeed
      <4> QED BY <4>1, <4>2, <4>3, TodoTails
    <3>4. ipc' \in {"send", "read", "done"} /\ (word = "eof" => ipc' # "read") /\ ~Direct
        BY <2>4 DEF SendSpeed, Delivered, IngestInv
    <3>5. UNCHANGED <<kind, outputs, stop, fightStop, word, seq, fightQ, eofEvent>>
        BY <2>4 DEF SendSpeed, settings, stops
    <3> QED BY <2>1, <3>2, <3>3, <3>4, <3>5 DEF IngestInv, Direct
  <2>5. CASE IngestStops
    <3>1. fightQ' \in Seq(Mine)
      <4>1. /\ Message("stopping") \in Mine /\ fightQ \in Seq(Mine)
            /\ fightQ' \in FightAfter(Message("stopping"), FALSE)
          BY <2>5, MessageIs DEF IngestInv, IngestStops
      <4> QED BY <4>1, FightAfterIs, QueueTyped
    <3> QED BY <2>1, <2>5, <3>1 DEF IngestStops, IngestInv, settings, stops, Direct
  <2> QED BY <1>6, <2>2, <2>3, <2>4, <2>5 DEF IngestStep
<1>7. CASE SpeedTakes /\ UNCHANGED workerVars
    BY <1>7 DEF SpeedTakes, workerVars, IngestInv, settings, stops, Direct
<1>8. CASE AskStop /\ UNCHANGED workerVars
    BY <1>8 DEF AskStop, workerVars, IngestInv, settings, Direct
<1> QED BY CameraCases, <1>1, <1>2, <1>3, <1>4, <1>5, <1>6, <1>7, <1>8

-----------------------------------------------------------------------------
\* The answer the consumer acts on.
AnswerInv ==
    /\ accepted.epoch = Epoch
    /\ wpc \in {"pose", "people", "decide"} /\ (idx - 1) % YoloStride = 0 => accepted.n = idx

\* What the consumer decides rests on the answer to its own question about the
\* frame it is looking at.
THEOREM AnswersAreOwnHolds == CameraSpec => []AnswersAreOwn
<1>1. CameraInit => AnswerInv
    BY DEF CameraInit, AnswerInv, NoAnswer
<1>2. AnswerInv /\ [CameraNext]_cameraVars => AnswerInv'
  <2> SUFFICES ASSUME AnswerInv, [CameraNext]_cameraVars PROVE AnswerInv'
      OBVIOUS
  <2>1. CASE Motion
      BY <2>1 DEF Motion, AnswerInv, Ask, Shed, callVars, Epoch
  <2>2. CASE People
      BY <2>2 DEF People, AnswerInv, Ask, Shed, callVars, Epoch
  <2>3. CASE AnswerPerson \/ AnswerPose
      BY <2>3 DEF AnswerPerson, AnswerPose, Answer, AnswerInv, Valid, Epoch, Shed, Crash
  <2>4. CASE UNCHANGED <<accepted, idx>> /\ wpc' \notin {"pose", "people", "decide"}
      BY <2>4 DEF AnswerInv, Epoch
  <2>5. CASE UNCHANGED <<accepted, idx, wpc>>
      BY <2>5 DEF AnswerInv, Epoch
  <2>6. Decide \/ AnswerStopped \/ LeaveLoop => UNCHANGED <<accepted, idx>> /\ wpc' \notin {"pose", "people", "decide"}
      BY DEF Decide, AnswerStopped, LeaveLoop, Crash, callVars
  <2>7. ServePerson \/ ServePose \/ DropForeign => UNCHANGED <<accepted, idx, wpc>>
      BY DEF ServePerson, ServePose, Serve, DropForeign, workerVars
  <2>8. TakeFrame => accepted' = accepted /\ wpc' \notin {"pose", "people", "decide"}
      BY DEF TakeFrame, callVars
  <2>9. TakeSignal => UNCHANGED <<accepted, idx>> /\ wpc' \notin {"pose", "people", "decide"}
      BY DEF TakeSignal, callVars, Crash
  <2>10. DirectOpen \/ DirectRead \/ DirectNothing => accepted' = accepted /\ wpc' \notin {"pose", "people", "decide"}
      BY DEF DirectOpen, DirectRead, DirectNothing, callVars, Services
  <2>11. CASE accepted' = accepted /\ wpc' \notin {"pose", "people", "decide"}
      BY <2>11 DEF AnswerInv, Epoch
  <2>12. UNCHANGED workerVars \/ UNCHANGED cameraVars => UNCHANGED <<accepted, idx, wpc>>
      BY DEF workerVars, cameraVars
  <2> QED BY CameraCases, <2>1, <2>2, <2>3, <2>4, <2>5, <2>6, <2>7, <2>8, <2>9, <2>10, <2>11, <2>12 DEF Inner
<1>3. AnswerInv => AnswersAreOwn
    BY DEF AnswerInv, AnswersAreOwn
<1> QED BY <1>1, <1>2, <1>3, PTL DEF CameraSpec

-----------------------------------------------------------------------------
\* What the consumer has made of the frames.
Ascends(s, lo, hi) ==
    /\ s \in Seq(Nat)
    /\ \A a \in 1..Len(s) : lo < s[a] /\ s[a] <= hi
    /\ \A a, b \in 1..Len(s) : a < b => s[a] < s[b]

\* The current frame is new until the event has got it.
Fresh == wpc \in {"motion", "person", "people"}
Pending == Fresh \/ wpc \in {"pose", "decide"}
Below(fresh) == IF fresh THEN idx - 1 ELSE idx

EventInv ==
    /\ idx \in Nat /\ lastClose \in Nat /\ lastClose <= Below(Pending)
    /\ Pending => idx > 0
    /\ ~Direct => idx <= lastSeq
    /\ Ascends(prebuf, lastClose, Below(Fresh))
    /\ Ascends(clip, lastClose, Below(Pending))

ClosedInv ==
    /\ closed \in Seq([frames : Seq(Nat), fate : {"queued", "cancelled", "dropped"}])
    /\ \A i \in 1..Len(closed) : Ascends(closed[i].frames, 0, lastClose)
    /\ \A i, j \in 1..Len(closed) : i < j =>
         \A a \in 1..Len(closed[i].frames), b \in 1..Len(closed[j].frames) :
           closed[i].frames[a] < closed[j].frames[b]

LEMMA AscendsEmpty == \A lo, hi : Ascends(<<>>, lo, hi)
BY DEF Ascends

LEMMA AscendsWider ==
    ASSUME NEW s, NEW lo \in Int, NEW hi \in Int, NEW top \in Int, hi <= top, Ascends(s, lo, hi)
    PROVE  Ascends(s, lo, top)
BY DEF Ascends

LEMMA AscendsAppend ==
    ASSUME NEW s, NEW lo \in Int, NEW hi \in Int, NEW x \in Nat, lo < x, hi < x, Ascends(s, lo, hi)
    PROVE  Ascends(Append(s, x), lo, x)
<1>1. s \in Seq(Nat) /\ Len(s) \in Nat
    BY LenProperties DEF Ascends
<1>2. /\ Append(s, x) \in Seq(Nat) /\ Len(Append(s, x)) = Len(s) + 1
      /\ \A i \in 1..Len(s) : Append(s, x)[i] = s[i]
      /\ Append(s, x)[Len(s) + 1] = x
    BY <1>1, AppendProperties
<1>3. \A i \in 1..(Len(s) + 1) : i \in 1..Len(s) \/ i = Len(s) + 1
    BY <1>1
<1>4. \A i \in 1..Len(s) : s[i] \in Nat
    BY <1>1, ElementOfSeq
<1>5. \A i \in 1..(Len(s) + 1) : lo < Append(s, x)[i] /\ Append(s, x)[i] <= x
    BY <1>2, <1>3, <1>4 DEF Ascends
<1>6. \A i, j \in 1..(Len(s) + 1) : i < j => Append(s, x)[i] < Append(s, x)[j]
  <2> SUFFICES ASSUME NEW i \in 1..(Len(s) + 1), NEW j \in 1..(Len(s) + 1), i < j
               PROVE  Append(s, x)[i] < Append(s, x)[j]
      OBVIOUS
  <2>1. i \in 1..Len(s)
      BY <1>1
  <2> QED BY <1>2, <1>3, <1>4, <2>1 DEF Ascends
<1> QED BY <1>2, <1>5, <1>6 DEF Ascends

LEMMA AscendsTail ==
    ASSUME NEW s, s # <<>>, NEW lo, NEW hi, Ascends(s, lo, hi)
    PROVE  Ascends(Tail(s), lo, hi)
<1>1. s \in Seq(Nat) /\ Len(s) \in Nat \ {0}
    BY LenProperties, EmptySeq DEF Ascends
<1>2. /\ Tail(s) \in Seq(Nat) /\ Len(Tail(s)) = Len(s) - 1
      /\ \A i \in 1..(Len(s) - 1) : Tail(s)[i] = s[i + 1] /\ i + 1 \in 1..Len(s)
    BY <1>1, HeadTailProperties
<1>3. \A i, j \in 1..(Len(s) - 1) : i < j => i + 1 < j + 1
    BY <1>1
<1> QED BY <1>1, <1>2, <1>3 DEF Ascends

LEMMA AscendsFront ==
    ASSUME NEW s, s # <<>>, NEW lo \in Int, NEW hi \in Int, Ascends(s, lo, hi)
    PROVE  Ascends(SubSeq(s, 1, Len(s) - 1), lo, hi - 1)
<1>1. s \in Seq(Nat) /\ Len(s) \in Nat \ {0}
    BY LenProperties, EmptySeq DEF Ascends
<1>2. /\ SubSeq(s, 1, Len(s) - 1) \in Seq(Nat) /\ Len(SubSeq(s, 1, Len(s) - 1)) = Len(s) - 1
      /\ \A i \in 1..(Len(s) - 1) : SubSeq(s, 1, Len(s) - 1)[i] = s[i]
  <2> DEFINE n == Len(s) - 1
  <2>0. n \in Nat
      BY <1>1
  <2>1. 1 \in Int /\ n \in Int /\ (IF 1 <= n THEN n - 1 + 1 ELSE 0) = n /\ n - 1 + 1 = n
    <3> HIDE DEF n
    <3> QED BY <2>0
  <2>2. \A i \in 1..n : s[i] \in Nat /\ 1 + i - 1 = i
    <3>1. \A i \in 1..n : i \in 1..Len(s) /\ 1 + i - 1 = i
        BY <1>1
    <3> QED BY <1>1, <3>1, ElementOfSeq
  <2> HIDE DEF n
  <2>3. /\ SubSeq(s, 1, n) \in Seq(Nat)
        /\ Len(SubSeq(s, 1, n)) = IF 1 <= n THEN n - 1 + 1 ELSE 0
        /\ \A i \in 1..(n - 1 + 1) : SubSeq(s, 1, n)[i] = s[1 + i - 1]
      BY <2>1, <2>2, SubSeqProperties
  <2>4. SubSeq(s, 1, n) \in Seq(Nat) /\ Len(SubSeq(s, 1, n)) = n /\ \A i \in 1..n : SubSeq(s, 1, n)[i] = s[i]
      BY <2>1, <2>2, <2>3
  <2> QED BY <2>4 DEF n
<1>3. \A i \in 1..Len(s) : s[i] \in Nat
    BY <1>1, ElementOfSeq
<1>4. \A i \in 1..(Len(s) - 1) : i \in 1..Len(s) /\ Len(s) \in 1..Len(s) /\ i < Len(s)
    BY <1>1
<1>5. \A i \in 1..(Len(s) - 1) : s[i] < s[Len(s)] /\ s[Len(s)] <= hi /\ lo < s[i]
    BY <1>4 DEF Ascends
<1>6. \A i \in 1..(Len(s) - 1) : s[i] <= hi - 1
    BY <1>3, <1>4, <1>5
<1>7. \A i, j \in 1..(Len(s) - 1) : i < j => s[i] < s[j]
    BY <1>4 DEF Ascends
<1> QED BY <1>2, <1>5, <1>6, <1>7 DEF Ascends

\* What a step does to the consumer's event.
Lingers == /\ UNCHANGED <<idx, lastSeq, clip, prebuf, lastClose, closed>>
           /\ Fresh' => Fresh
           /\ Pending' => Pending
Advances == /\ UNCHANGED <<clip, prebuf, lastClose, closed>>
            /\ wpc = "get" /\ wpc' \in {"get", "motion"}
            /\ idx' \in Nat /\ lastSeq' \in Nat /\ idx <= idx' /\ (wpc' = "motion" => idx < idx')
            /\ ~Direct => idx' <= lastSeq'
Forgets == /\ UNCHANGED <<idx, lastSeq, clip, lastClose, closed>>
           /\ ~Pending' /\ prebuf' = <<>>
Remembers == /\ UNCHANGED <<idx, lastSeq, clip, lastClose, closed>>
             /\ wpc = "people" /\ ~Fresh'
             /\ prebuf' = Remember(Append(prebuf, idx))
Extends == /\ UNCHANGED <<idx, lastSeq, prebuf, lastClose, closed>>
           /\ ~Pending' /\ Ascends(clip', lastClose, idx)
Closes == /\ UNCHANGED <<idx, lastSeq>>
          /\ ~Pending' /\ clip' = <<>> /\ prebuf' = <<>> /\ lastClose' = idx
          /\ \E frames \in Seq(Nat), f \in {"queued", "cancelled", "dropped"} :
               /\ Ascends(frames, lastClose, idx)
               /\ closed' = Append(closed, [frames |-> frames, fate |-> f])

LEMMA ClosesIs ==
    ASSUME NEW frames, Ascends(frames, lastClose, idx), Close(frames), UNCHANGED <<idx, lastSeq>>, ~Pending'
    PROVE  Closes
<1>1. frames \in Seq(Nat)
    BY DEF Ascends
<1>2. Fates(frames) \subseteq {"queued", "cancelled", "dropped"}
    BY DEF Fates
<1> QED BY <1>1, <1>2 DEF Close, Closes

LEMMA EventBounds ==
    ASSUME EventInv
    PROVE  /\ Ascends(clip, lastClose, idx) /\ Ascends(prebuf, lastClose, idx)
           /\ idx \in Nat /\ lastClose \in Nat /\ lastClose <= idx
           /\ Below(Pending) \in Int /\ Below(Fresh) \in Int
           /\ Below(Pending) <= idx /\ Below(Fresh) <= idx
<1>1. /\ idx \in Nat /\ lastClose \in Nat /\ Below(Pending) \in Int /\ Below(Fresh) \in Int
      /\ Below(Pending) <= idx /\ Below(Fresh) <= idx
    BY DEF EventInv, Below
<1>2. lastClose <= idx
    BY <1>1 DEF EventInv
<1>3. Ascends(clip, lastClose, idx) /\ Ascends(prebuf, lastClose, idx)
    BY <1>1, AscendsWider DEF EventInv
<1> QED BY <1>1, <1>2, <1>3

\* The frame of the decision is behind the seed and behind the event.
LEMMA DecisionIs ==
    ASSUME EventInv, Decide
    PROVE  Lingers \/ Extends \/ Closes
<1>1. /\ UNCHANGED <<idx, lastSeq>> /\ ~Pending' /\ ~Fresh' /\ Pending /\ ~Fresh
    BY DEF Decide, Pending, Fresh, callVars
<1>2. /\ idx \in Nat /\ lastClose \in Nat /\ lastClose <= idx - 1 /\ lastClose < idx
      /\ Ascends(clip, lastClose, idx - 1) /\ Ascends(prebuf, lastClose, idx)
    BY <1>1 DEF EventInv, Below
<1>3. Ascends(Seed, lastClose, idx - 1)
  <2>1. CASE Seed = <<>>
      BY <2>1, AscendsEmpty
  <2>2. CASE prebuf # <<>> /\ Seed = SubSeq(prebuf, 1, Len(prebuf) - 1)
      BY <1>2, <2>2, AscendsFront
  <2> QED BY <2>1, <2>2 DEF Seed
<1>4. idx - 1 \in Int /\ idx - 1 < idx
    BY <1>2
<1>5. Ascends(Append(Seed, idx), lastClose, idx) /\ Ascends(Append(clip, idx), lastClose, idx)
    BY <1>2, <1>3, <1>4, AscendsAppend
<1>6. \A grown \in {Append(Seed, idx), Append(clip, idx)} : Ascends(grown, lastClose, idx)
    BY <1>5
<1>7. \/ UNCHANGED <<clip, lastClose, prebuf, closed>>
      \/ \E grown \in {Append(Seed, idx), Append(clip, idx)} :
           \/ Close(grown)
           \/ clip' = grown /\ UNCHANGED <<lastClose, prebuf, closed>>
    BY DEF Decide, Decision
<1>8. CASE UNCHANGED <<clip, lastClose, prebuf, closed>>
    BY <1>1, <1>8 DEF Lingers
<1>9. ASSUME NEW grown \in {Append(Seed, idx), Append(clip, idx)}, Close(grown) PROVE Closes
    BY <1>1, <1>6, <1>9, ClosesIs
<1>10. ASSUME NEW grown \in {Append(Seed, idx), Append(clip, idx)},
              clip' = grown /\ UNCHANGED <<lastClose, prebuf, closed>>
       PROVE  Extends
    BY <1>1, <1>6, <1>10 DEF Extends
<1> QED BY <1>7, <1>8, <1>9, <1>10

LEMMA EventCases ==
    ASSUME IngestInv, EventInv, [CameraNext]_cameraVars
    PROVE  Lingers \/ Advances \/ Forgets \/ Remembers \/ Extends \/ Closes
<1>0. Ascends(clip, lastClose, idx) /\ idx \in Nat /\ lastClose \in Nat /\ lastSeq \in Nat
    BY EventBounds DEF IngestInv
<1>1. CASE Motion
  <2>1. CASE wpc' = "get" /\ CloseOrReset
    <3>1. ~Pending' /\ ~Fresh' /\ UNCHANGED <<idx, lastSeq>>
        BY <1>1, <2>1 DEF Motion, Pending, Fresh
    <3>2. \/ prebuf' = <<>> /\ UNCHANGED <<clip, lastClose, closed>>
          \/ Close(clip)
          \/ UNCHANGED <<clip, lastClose, prebuf, closed>>
        BY <2>1 DEF CloseOrReset
    <3> QED BY <1>0, <3>1, <3>2, ClosesIs DEF Forgets, Lingers
  <2>2. CASE UNCHANGED eventVars
      BY <1>1, <2>2 DEF Motion, Lingers, eventVars, Pending, Fresh, Ask, Shed
  <2> QED BY <1>1, <2>1, <2>2 DEF Motion
<1>2. CASE People
  <2>1. CASE wpc' = "get" /\ CloseIfGraceOver
    <3>1. ~Pending' /\ ~Fresh' /\ UNCHANGED <<idx, lastSeq>>
        BY <1>2, <2>1 DEF People, Pending, Fresh
    <3>2. Close(clip) \/ UNCHANGED <<clip, lastClose, prebuf, closed>>
        BY <2>1 DEF CloseIfGraceOver
    <3> QED BY <1>0, <3>1, <3>2, ClosesIs DEF Lingers
  <2>2. CASE prebuf' = Remember(Append(prebuf, idx)) /\ UNCHANGED <<clip, lastClose, closed>>
             /\ wpc' \in {"decide", "pose", "get", "open"}
      BY <1>2, <2>2 DEF People, Remembers, Fresh
  <2> QED BY <1>2, <2>1, <2>2 DEF People, Ask, Shed
<1>3. CASE Decide
    BY <1>3, DecisionIs
<1>4. CASE AnswerPerson \/ AnswerPose \/ AnswerStopped
  <2>1. UNCHANGED <<idx, lastSeq, clip, prebuf, lastClose, closed>>
      BY <1>4 DEF AnswerPerson, AnswerPose, Answer, AnswerStopped, eventVars
  <2>2. (Fresh' => Fresh) /\ (Pending' => Pending)
      BY <1>4 DEF AnswerPerson, AnswerPose, Answer, AnswerStopped, Fresh, Pending, Shed, Crash, Services
  <2> QED BY <2>1, <2>2 DEF Lingers
<1>5. CASE LeaveLoop
  <2>1. ~Pending' /\ ~Fresh' /\ UNCHANGED <<idx, lastSeq>>
      BY <1>5 DEF LeaveLoop, Pending, Fresh
  <2>2. Close(clip) \/ UNCHANGED <<clip, lastClose, prebuf, closed>>
      BY <1>5 DEF LeaveLoop, CloseActive
  <2> QED BY <1>0, <2>1, <2>2, ClosesIs DEF Lingers
<1>6. CASE ServePerson \/ ServePose
    BY <1>6 DEF ServePerson, ServePose, Serve, eventVars, Lingers, Fresh, Pending
<1>7. CASE DropForeign
    BY <1>7 DEF DropForeign, workerVars, Lingers, Fresh, Pending
<1>8. CASE TakeFrame
  <2>1. Head(fightQ).n \in Nat
      BY <1>8, QueueTyped DEF TakeFrame, IngestInv, Mine
  <2>2. UNCHANGED <<clip, prebuf, lastClose, closed>> /\ wpc = "get" /\ ~Direct
      BY <1>8 DEF TakeFrame, eventVars
  <2>3. idx <= lastSeq
      BY <2>2 DEF EventInv
  <2>4. CASE UNCHANGED <<wpc, lastSeq, idx>>
      BY <1>0, <2>2, <2>3, <2>4 DEF Lingers, Fresh, Pending
  <2>5. CASE /\ lastSeq' = Head(fightQ).n /\ Head(fightQ).n > lastSeq
             /\ \/ wpc' = "motion" /\ idx' = Head(fightQ).n
                \/ wpc' = wpc /\ idx' = Head(fightQ).n - 1
    <3> DEFINE k == Head(fightQ).n
    <3>1. /\ k \in Nat /\ lastSeq' = k /\ k > lastSeq
          /\ \/ wpc' = "motion" /\ idx' = k
             \/ wpc' = wpc /\ idx' = k - 1
        BY <2>1, <2>5
    <3> HIDE DEF k
    <3>2. /\ idx' \in Nat /\ lastSeq' \in Nat /\ idx <= idx' /\ (wpc' = "motion" => idx < idx')
          /\ idx' <= lastSeq' /\ wpc' \in {"get", "motion"}
        BY <1>0, <2>2, <2>3, <3>1
    <3> QED BY <2>2, <3>2 DEF Advances
  <2>6. \/ UNCHANGED <<wpc, lastSeq, idx>>
        \/ /\ lastSeq' = Head(fightQ).n /\ ~(Head(fightQ).n <= lastSeq)
           /\ \/ wpc' = "motion" /\ idx' = Head(fightQ).n
              \/ wpc' = wpc /\ idx' = Head(fightQ).n - 1
      BY <1>8 DEF TakeFrame
  <2> QED BY <1>0, <2>1, <2>4, <2>5, <2>6
<1>9. CASE TakeSignal
  <2>1. ~Pending' /\ ~Fresh' /\ UNCHANGED <<idx, lastSeq>>
      BY <1>9 DEF TakeSignal, Crash, Pending, Fresh
  <2>2. Close(clip) \/ UNCHANGED <<clip, lastClose, prebuf, closed>>
      BY <1>9 DEF TakeSignal, CloseActive, eventVars
  <2> QED BY <1>0, <2>1, <2>2, ClosesIs DEF Lingers
<1>10. CASE DirectOpen
    BY <1>10 DEF DirectOpen, eventVars, Lingers, Fresh, Pending
<1>11. CASE DirectRead
    BY <1>0, <1>11 DEF DirectRead, eventVars, Advances
<1>12. CASE DirectNothing
  <2>1. ~Pending' /\ ~Fresh' /\ UNCHANGED <<idx, lastSeq>>
      BY <1>12 DEF DirectNothing, Pending, Fresh
  <2>2. Close(clip) \/ UNCHANGED <<clip, lastClose, prebuf, closed>>
      BY <1>12 DEF DirectNothing, CloseActive, eventVars
  <2> QED BY <1>0, <2>1, <2>2, ClosesIs DEF Lingers
<1>13. CASE UNCHANGED workerVars \/ UNCHANGED cameraVars
    BY <1>13 DEF workerVars, cameraVars, Lingers, Fresh, Pending
<1> QED BY CameraCases, <1>1, <1>2, <1>3, <1>4, <1>5, <1>6, <1>7, <1>8, <1>9, <1>10, <1>11, <1>12, <1>13
    DEF Inner

LEMMA DirectStays == IngestInv /\ [CameraNext]_cameraVars => (Direct' <=> Direct) /\ kind' = kind
<1>1. UNCHANGED <<kind, outputs>> => (Direct' <=> Direct) /\ kind' = kind
    BY DEF Direct
<1>2. Inner \/ UNCHANGED cameraVars => UNCHANGED <<kind, outputs>>
    BY InnerKeeps DEF channelVars, cameraVars, ingestVars
<1>3. DropForeign \/ TakeFrame \/ TakeSignal => UNCHANGED <<kind, outputs>>
    BY DEF DropForeign, TakeFrame, TakeSignal, ingestOnly, settings
<1>4. DirectOpen \/ DirectRead \/ DirectNothing => UNCHANGED <<kind, outputs>>
    BY DEF DirectOpen, DirectRead, DirectNothing, ingestOnly, settings
<1>5. IngestStep => UNCHANGED <<kind, outputs>>
    BY DEF IngestStep, OpenSource, ReadFrame, ReadNothing, ReadRaises, SendFight, SendSpeed,
           Reconnect, IngestStops, settings
<1>6. SpeedTakes \/ AskStop => UNCHANGED <<kind, outputs>>
    BY DEF SpeedTakes, AskStop, settings
<1> QED BY <1>1, <1>2, <1>3, <1>4, <1>5, <1>6, CameraCases

LEMMA EventInvStep == IngestInv /\ EventInv /\ [CameraNext]_cameraVars => EventInv'
<1> SUFFICES ASSUME IngestInv, EventInv, [CameraNext]_cameraVars PROVE EventInv'
    OBVIOUS
<1>0. /\ Ascends(clip, lastClose, idx) /\ Ascends(prebuf, lastClose, idx)
      /\ idx \in Nat /\ lastClose \in Nat /\ lastClose <= idx
      /\ Below(Pending) \in Int /\ Below(Fresh) \in Int
      /\ Below(Pending) <= idx /\ Below(Fresh) <= idx
      /\ Direct' <=> Direct
    BY EventBounds, DirectStays
<1>1. CASE Lingers
  <2>1. UNCHANGED <<idx, lastSeq, clip, prebuf, lastClose, closed>>
      BY <1>1 DEF Lingers
  <2>2. /\ Below(Pending)' \in Int /\ Below(Fresh)' \in Int
        /\ Below(Pending) <= Below(Pending)' /\ Below(Fresh) <= Below(Fresh)'
      BY <1>0, <1>1, <2>1 DEF Below, Lingers
  <2>3. Ascends(clip', lastClose', Below(Pending)') /\ Ascends(prebuf', lastClose', Below(Fresh)')
      BY <1>0, <2>1, <2>2, AscendsWider DEF EventInv
  <2>4. lastClose' <= Below(Pending)' /\ (Pending' => idx' > 0) /\ (~Direct' => idx' <= lastSeq')
      BY <1>0, <1>1, <2>1, <2>2 DEF EventInv, Lingers
  <2> QED BY <1>0, <2>1, <2>3, <2>4 DEF EventInv
<1>2. CASE Advances
  <2>1. UNCHANGED <<clip, prebuf, lastClose, closed>> /\ idx' \in Nat /\ idx <= idx'
        /\ (wpc' = "motion" => idx < idx') /\ (~Direct => idx' <= lastSeq') /\ wpc' \in {"get", "motion"}
      BY <1>2 DEF Advances
  <2>2. /\ Below(Pending)' \in Int /\ Below(Fresh)' \in Int
        /\ idx <= Below(Pending)' /\ idx <= Below(Fresh)' /\ (Pending' => idx' > 0)
    <3>1. CASE wpc' = "motion"
      <4>1. Pending' /\ Fresh' /\ Below(Pending)' = idx' - 1 /\ Below(Fresh)' = idx' - 1
          BY <3>1 DEF Below, Pending, Fresh
      <4>2. idx \in Nat /\ idx' \in Nat /\ idx < idx'
          BY <1>0, <2>1, <3>1
      <4>4. \A a, b \in Nat : a < b => b - 1 \in Int /\ a <= b - 1 /\ b > 0
          OBVIOUS
      <4>3. idx' - 1 \in Int /\ idx <= idx' - 1 /\ idx' > 0
          BY <4>2, <4>4
      <4> QED BY <4>1, <4>3
    <3>2. CASE wpc' = "get"
      <4>1. ~Pending' /\ Below(Pending)' = idx' /\ Below(Fresh)' = idx'
          BY <3>2 DEF Below, Pending, Fresh
      <4> QED BY <1>0, <2>1, <4>1
    <3> QED BY <2>1, <3>1, <3>2
  <2>3. Ascends(clip', lastClose', Below(Pending)') /\ Ascends(prebuf', lastClose', Below(Fresh)')
      BY <1>0, <2>1, <2>2, AscendsWider
  <2>4. lastClose' <= Below(Pending)'
      BY <1>0, <2>1, <2>2
  <2> QED BY <1>0, <2>1, <2>2, <2>3, <2>4 DEF EventInv
<1>3. CASE Forgets
  <2>1. UNCHANGED <<idx, lastSeq, clip, lastClose>> /\ ~Pending' /\ ~Fresh' /\ prebuf' = <<>>
      BY <1>3 DEF Forgets, Pending
  <2>2. Below(Pending)' = idx /\ Below(Fresh)' = idx
      BY <2>1 DEF Below
  <2>3. Ascends(clip', lastClose', Below(Pending)') /\ Ascends(prebuf', lastClose', Below(Fresh)')
      BY <1>0, <2>1, <2>2, AscendsEmpty
  <2> QED BY <1>0, <2>1, <2>2, <2>3 DEF EventInv
<1>4. CASE Remembers
  <2>1. /\ UNCHANGED <<idx, lastSeq, clip, lastClose>> /\ Fresh /\ Pending /\ ~Fresh'
        /\ prebuf' = Remember(Append(prebuf, idx))
      BY <1>4 DEF Remembers, Fresh, Pending
  <2>2. /\ idx - 1 \in Int /\ idx - 1 < idx /\ lastClose < idx /\ idx > 0
        /\ Ascends(prebuf, lastClose, idx - 1) /\ Ascends(clip, lastClose, idx - 1)
      BY <1>0, <2>1 DEF EventInv, Below
  <2>3. Ascends(Append(prebuf, idx), lastClose, idx) /\ Append(prebuf, idx) # <<>>
    <3>1. Ascends(Append(prebuf, idx), lastClose, idx)
        BY <1>0, <2>2, AscendsAppend
    <3>2. prebuf \in Seq(Nat)
        BY <1>0 DEF Ascends
    <3> QED BY <1>0, <3>1, <3>2, AppendProperties
  <2>4. Ascends(prebuf', lastClose, idx)
      BY <2>1, <2>3, AscendsTail DEF Remember
  <2>5. /\ Below(Pending)' \in Int /\ Below(Fresh)' = idx /\ Below(Pending) = idx - 1
        /\ idx - 1 <= Below(Pending)'
      BY <1>0, <2>1, <2>2 DEF Below
  <2>6. Ascends(clip', lastClose', Below(Pending)')
      BY <1>0, <2>1, <2>2, <2>5, AscendsWider
  <2>7. lastClose' <= Below(Pending)' /\ (~Direct' => idx' <= lastSeq')
      BY <1>0, <2>1, <2>2, <2>5 DEF EventInv
  <2> QED BY <1>0, <2>1, <2>2, <2>4, <2>5, <2>6, <2>7 DEF EventInv
<1>5. CASE Extends
  <2>1. /\ UNCHANGED <<idx, lastSeq, prebuf, lastClose>> /\ ~Pending' /\ ~Fresh'
        /\ Ascends(clip', lastClose, idx)
      BY <1>5 DEF Extends, Pending
  <2>2. Below(Pending)' = idx /\ Below(Fresh)' = idx
      BY <2>1 DEF Below
  <2> QED BY <1>0, <2>1, <2>2 DEF EventInv
<1>6. CASE Closes
  <2>1. /\ UNCHANGED <<idx, lastSeq>> /\ ~Pending' /\ ~Fresh'
        /\ clip' = <<>> /\ prebuf' = <<>> /\ lastClose' = idx
      BY <1>6 DEF Closes, Pending
  <2>2. Below(Pending)' = idx /\ Below(Fresh)' = idx
      BY <2>1 DEF Below
  <2> QED BY <1>0, <2>1, <2>2, AscendsEmpty DEF EventInv
<1> QED BY EventCases, <1>1, <1>2, <1>3, <1>4, <1>5, <1>6

LEMMA ClosedInvStep == IngestInv /\ EventInv /\ ClosedInv /\ [CameraNext]_cameraVars => ClosedInv'
<1> SUFFICES ASSUME IngestInv, EventInv, ClosedInv, [CameraNext]_cameraVars PROVE ClosedInv'
    OBVIOUS
<1>1. CASE UNCHANGED <<closed, lastClose>>
    BY <1>1 DEF ClosedInv
<1>2. CASE Closes
  <2> DEFINE Row == [frames : Seq(Nat), fate : {"queued", "cancelled", "dropped"}]
             n == Len(closed)
  <2>1. PICK frames \in Seq(Nat), f \in {"queued", "cancelled", "dropped"} :
          /\ Ascends(frames, lastClose, idx)
          /\ closed' = Append(closed, [frames |-> frames, fate |-> f])
      BY <1>2 DEF Closes
  <2>2. /\ lastClose' = idx /\ idx \in Nat /\ lastClose \in Nat /\ lastClose <= idx
        /\ closed \in Seq(Row) /\ [frames |-> frames, fate |-> f] \in Row
      BY <1>2, EventBounds DEF Closes, ClosedInv
  <2>3. /\ n \in Nat /\ closed' \in Seq(Row) /\ Len(closed') = n + 1
        /\ \A i \in 1..n : closed'[i] = closed[i] /\ closed'[i].frames = closed[i].frames
        /\ closed'[n + 1].frames = frames
      BY <2>1, <2>2, AppendProperties
  <2>4. \A i \in 1..n : Ascends(closed[i].frames, 0, lastClose)
      BY DEF ClosedInv
  <2>5. \A i \in 1..(n + 1) : i \in 1..n \/ i = n + 1
      BY <2>3
  <2>6. \A i \in 1..n : Ascends(closed'[i].frames, 0, idx)
      BY <2>2, <2>3, <2>4, AscendsWider
  <2>7. Ascends(frames, 0, idx)
    <3>1. \A a \in 1..Len(frames) : frames[a] \in Nat
        BY ElementOfSeq
    <3> QED BY <2>1, <2>2, <3>1 DEF Ascends
  <2>8. \A i \in 1..(n + 1) : Ascends(closed'[i].frames, 0, idx)
      BY <2>3, <2>5, <2>6, <2>7
  <2>9. ASSUME NEW i \in 1..(n + 1), NEW j \in 1..(n + 1), i < j,
               NEW a \in 1..Len(closed'[i].frames), NEW b \in 1..Len(closed'[j].frames)
        PROVE  closed'[i].frames[a] < closed'[j].frames[b]
    <3>0. n \in Nat
        BY <2>3
    <3>1. i \in 1..n /\ closed'[i].frames = closed[i].frames
      <4>1. i \in 1..n
          BY <2>9, <3>0
      <4> QED BY <2>3, <4>1
    <3>2. CASE j \in 1..n
        BY <2>3, <3>1, <3>2, <2>9 DEF ClosedInv
    <3>3. CASE j = n + 1
      <4>1. closed[i].frames[a] <= lastClose /\ lastClose < frames[b]
          BY <2>1, <2>3, <2>4, <3>1, <3>3 DEF Ascends
      <4>2. closed[i].frames[a] \in Nat /\ frames[b] \in Nat
          BY <2>3, <2>4, <3>1, <3>3, ElementOfSeq DEF Ascends
      <4>0. lastClose \in Nat
          BY <2>2
      <4>3. closed[i].frames[a] < frames[b]
          BY <4>0, <4>1, <4>2
      <4>4. closed'[j].frames = frames
          BY <2>3, <3>3
      <4> QED BY <3>1, <4>3, <4>4
    <3> QED BY <2>5, <3>2, <3>3
  <2> HIDE DEF n, Row
  <2>10. closed' \in Seq([frames : Seq(Nat), fate : {"queued", "cancelled", "dropped"}])
      BY <2>3 DEF Row
  <2> QED BY <2>2, <2>3, <2>8, <2>9, <2>10 DEF ClosedInv
<1> QED BY EventCases, <1>1, <1>2 DEF Lingers, Advances, Forgets, Remembers, Extends

LEMMA CameraInits == CameraInit => IngestInv /\ EventInv /\ ClosedInv
<1> SUFFICES ASSUME CameraInit PROVE IngestInv /\ EventInv /\ ClosedInv
    OBVIOUS
<1>1. fightQ \in Seq(Mine)
  <2>1. [t |-> "frame", n |-> 1, epoch |-> Epoch - 1] \in Mine
      BY DEF Mine, Epoch
  <2>2. <<[t |-> "frame", n |-> 1, epoch |-> Epoch - 1]>> \in Seq(Mine)
      BY <2>1
  <2> QED BY <2>2 DEF CameraInit
<1>2. Direct => ipc = "done"
    BY DEF CameraInit, IngestInit, Direct
<1>3. IngestInv
    BY <1>1, <1>2 DEF CameraInit, IngestInit, IngestInv
<1>4. wpc \in {"open", "get"} /\ idx = 0 /\ lastClose = 0 /\ prebuf = <<>> /\ clip = <<>> /\ lastSeq = 0 /\ closed = <<>>
    BY DEF CameraInit
<1>5. ~Pending /\ ~Fresh
    BY <1>4 DEF Pending, Fresh
<1>6. EventInv
    BY <1>4, <1>5, AscendsEmpty DEF EventInv, Below
<1>7. ClosedInv
    BY <1>4 DEF ClosedInv
<1> QED BY <1>3, <1>6, <1>7

\* No frame is in two clips or twice in one, whatever splits, seeds, sheds and
\* reopened sources there are.
THEOREM ClipsRepeatNothingHolds == CameraSpec => []ClipsRepeatNothing
<1> DEFINE All == IngestInv /\ EventInv /\ ClosedInv
<1>1. All /\ [CameraNext]_cameraVars => All'
    BY IngestInvStep, EventInvStep, ClosedInvStep
<1>2. All => ClipsRepeatNothing
  <2> SUFFICES ASSUME All PROVE ClipsRepeatNothing
      OBVIOUS
  <2> DEFINE n == Len(closed)
             heads == [i \in DOMAIN closed |-> closed[i].frames]
  <2>1. n \in Nat /\ DOMAIN closed = 1..n /\ \A i \in 1..n : closed[i].frames \in Seq(Nat)
    <3>1. n \in Nat /\ DOMAIN closed = 1..n
        BY LenProperties DEF ClosedInv
    <3>2. \A i \in 1..n : closed[i].frames \in Seq(Nat)
        BY DEF ClosedInv, Ascends
    <3> QED BY <3>1, <3>2
  <2>2. heads \in Seq(Seq(Nat)) /\ Len(heads) = n /\ \A i \in 1..n : heads[i] = closed[i].frames
      BY <2>1
  <2>3. /\ clip \in Seq(Nat) /\ Ascends(clip, lastClose, idx) /\ lastClose \in Nat
        /\ \A i \in 1..n : Ascends(closed[i].frames, 0, lastClose)
      BY EventBounds DEF ClosedInv, Ascends
  <2>4. /\ Clips \in Seq(Seq(Nat)) /\ Len(Clips) = n + 1
        /\ \A i \in 1..n : Clips[i] = closed[i].frames
        /\ Clips[n + 1] = clip
    <3> HIDE DEF heads
    <3>1. Clips = Append(heads, clip)
        BY DEF Clips, heads
    <3> QED BY <2>1, <2>2, <2>3, <3>1, AppendProperties
  <2>5. DOMAIN Clips = 1..(n + 1) /\ \A i \in 1..(n + 1) : i \in 1..n \/ i = n + 1
      BY <2>1, <2>4, LenProperties
  <2>6. ASSUME NEW i \in 1..(n + 1), NEW j \in 1..(n + 1),
               NEW a \in DOMAIN Clips[i], NEW b \in DOMAIN Clips[j], i < j \/ (i = j /\ a < b)
        PROVE  Clips[i][a] < Clips[j][b]
    <3>0. a \in 1..Len(Clips[i]) /\ b \in 1..Len(Clips[j])
      <4>1. Clips[i] \in Seq(Nat) /\ Clips[j] \in Seq(Nat)
          BY <2>1, <2>3, <2>4, <2>5
      <4> QED BY <4>1, LenProperties
    <3>1. CASE i = j /\ a < b
      <4>1. \E lo, hi : Ascends(Clips[i], lo, hi)
          BY <2>3, <2>4, <2>5
      <4> QED BY <3>0, <3>1, <4>1 DEF Ascends
    <3>2. CASE i < j /\ j \in 1..n
      <4>1. i \in 1..n
          BY <2>1, <3>2
      <4> QED BY <2>4, <3>0, <3>2, <4>1 DEF ClosedInv
    <3>3. CASE i < j /\ j = n + 1
      <4>1. i \in 1..n /\ Clips[i] = closed[i].frames /\ Clips[j] = clip
          BY <2>1, <2>4, <3>3
      <4>2. Clips[i][a] <= lastClose /\ lastClose < Clips[j][b]
          BY <2>3, <3>0, <4>1 DEF Ascends
      <4>3. Clips[i][a] \in Nat /\ Clips[j][b] \in Nat
          BY <2>1, <2>3, <3>0, <4>1, ElementOfSeq
      <4> QED BY <2>3, <4>2, <4>3
    <3> QED BY <2>5, <2>6, <3>1, <3>2, <3>3
  <2> HIDE DEF All
  <2> QED BY <2>5, <2>6 DEF ClipsRepeatNothing
<1> HIDE DEF All
<1>3. CameraInit => All
    BY CameraInits DEF All
<1> QED BY <1>1, <1>2, <1>3, PTL DEF CameraSpec

-----------------------------------------------------------------------------
\* The frames a file's consumer has still to take: rising, above the last one
\* it has taken, and below the one that is owed.
FramesRise(q, lo, hi) ==
    /\ \A i \in 1..Len(q) : q[i] \in OwnFrame => lo < q[i].n /\ q[i].n <= hi
    /\ \A i, j \in 1..Len(q) : i < j /\ q[i] \in OwnFrame /\ q[j] \in OwnFrame => q[i].n < q[j].n

Newest == IF Owed("frame") THEN seq - 1 ELSE seq

OrderInv == FramesRise(fightQ, lastSeq, Newest) /\ lastSeq <= Newest

\* No frame of the file is lost: what was taken, what waits and what is owed.
Kept == eaten + CountIn(fightQ, OwnFrame) = Newest

\* After an end of file no frame follows.
HasEof(q) == \E i \in 1..Len(q) : q[i] \in OwnEof
EofLast(q) == \A i, j \in 1..Len(q) : q[i] \in OwnEof /\ i < j => q[j] \notin OwnFrame

KeptInv ==
    /\ ~stop /\ ~fightStop => Kept
    /\ Owed("eof") /\ ~fightStop => Kept
    /\ HasEof(fightQ) => Kept /\ word = "eof"
    /\ EofLast(fightQ)
    /\ wpc = "eof" => eaten = seq /\ word = "eof" /\ clip = <<>>

FileInv == kind = "FILE" /\ ~Direct => OrderInv /\ KeptInv

LEMMA FramesRiseTail ==
    ASSUME NEW q \in Seq(Mine), q # <<>>, NEW lo, NEW hi, FramesRise(q, lo, hi)
    PROVE  /\ FramesRise(Tail(q), lo, hi)
           /\ Head(q) \in OwnFrame => lo < Head(q).n /\ Head(q).n <= hi /\ FramesRise(Tail(q), Head(q).n, hi)
<1>1. /\ Len(q) \in Nat \ {0} /\ Tail(q) \in Seq(Mine) /\ Len(Tail(q)) = Len(q) - 1 /\ Head(q) = q[1]
      /\ \A i \in 1..(Len(q) - 1) : Tail(q)[i] = q[i + 1]
    BY HeadTailProperties, LenProperties, EmptySeq
<1>2. \A i \in 1..(Len(q) - 1) : i + 1 \in 1..Len(q) /\ 1 \in 1..Len(q) /\ 1 < i + 1
    BY <1>1
<1>3. \A i, j \in 1..(Len(q) - 1) : i < j => i + 1 < j + 1
    BY <1>1
<1>4. 1 \in 1..Len(q)
    BY <1>1
<1> QED BY <1>1, <1>2, <1>3, <1>4 DEF FramesRise

LEMMA FramesRiseAppend ==
    ASSUME NEW q \in Seq(Mine), NEW m \in Mine, NEW lo \in Nat, NEW hi \in Int, NEW top \in Int,
           FramesRise(q, lo, hi), lo <= hi, hi <= top, m \in OwnFrame => hi < m.n /\ m.n <= top
    PROVE  FramesRise(Append(q, m), lo, top)
<1> DEFINE n == Len(q)
<1>1. /\ n \in Nat /\ Append(q, m) \in Seq(Mine) /\ Len(Append(q, m)) = n + 1
      /\ \A i \in 1..n : Append(q, m)[i] = q[i]
      /\ Append(q, m)[n + 1] = m
    BY AppendProperties, LenProperties
<1>2. \A i \in 1..(n + 1) : i \in 1..n \/ i = n + 1
    BY <1>1
<1>3. \A x \in Mine : x.n \in Nat
    BY DEF Mine
<1>4. \A i \in 1..n : q[i] \in Mine
    BY ElementOfSeq
<1>5. ASSUME NEW i \in 1..(n + 1), Append(q, m)[i] \in OwnFrame
      PROVE  lo < Append(q, m)[i].n /\ Append(q, m)[i].n <= top
  <2>1. CASE i \in 1..n
    <3>1. lo < q[i].n /\ q[i].n <= hi /\ q[i].n \in Nat
        BY <1>1, <1>3, <1>4, <1>5, <2>1 DEF FramesRise
    <3>2. lo < q[i].n /\ q[i].n <= top
        BY <3>1
    <3> QED BY <1>1, <2>1, <3>2
  <2>2. CASE i = n + 1
    <3>1. m \in OwnFrame /\ m.n \in Nat /\ Append(q, m)[i] = m
        BY <1>1, <1>3, <1>5, <2>2
    <3> QED BY <3>1
  <2> QED BY <1>2, <2>1, <2>2
<1>6. ASSUME NEW i \in 1..(n + 1), NEW j \in 1..(n + 1), i < j,
             Append(q, m)[i] \in OwnFrame, Append(q, m)[j] \in OwnFrame
      PROVE  Append(q, m)[i].n < Append(q, m)[j].n
  <2>1. i \in 1..n /\ Append(q, m)[i] = q[i]
      BY <1>1, <1>6
  <2>2. CASE j \in 1..n
    <3>1. Append(q, m)[j] = q[j]
        BY <1>1, <2>2
    <3> QED BY <1>6, <2>1, <2>2, <3>1 DEF FramesRise
  <2>3. CASE j = n + 1
    <3>1. q[i].n <= hi /\ q[i].n \in Nat
        BY <1>3, <1>4, <1>6, <2>1 DEF FramesRise
    <3>2. Append(q, m)[j] = m /\ m.n \in Nat /\ hi < m.n
        BY <1>1, <1>3, <1>6, <2>3
    <3>3. q[i].n < m.n
        BY <3>1, <3>2
    <3> QED BY <2>1, <3>2, <3>3
  <2> QED BY <1>2, <2>2, <2>3
<1> HIDE DEF n
<1> QED BY <1>1, <1>5, <1>6 DEF FramesRise

LEMMA FramesRiseWider ==
    ASSUME NEW q \in Seq(Mine), NEW lo, NEW hi \in Int, NEW top \in Int,
           FramesRise(q, lo, hi), hi <= top
    PROVE  FramesRise(q, lo, top)
<1>1. \A i \in 1..Len(q) : q[i].n \in Nat
  <2>1. \A i \in 1..Len(q) : q[i] \in Mine
      BY ElementOfSeq
  <2> QED BY <2>1 DEF Mine
<1> QED BY <1>1 DEF FramesRise

LEMMA FramesFirst ==
    ASSUME NEW m \in OwnFrame
    PROVE  m \notin OwnEof
BY DEF OwnFrame, OwnEof

LEMMA EofTail ==
    ASSUME NEW q \in Seq(Mine), q # <<>>
    PROVE  /\ HasEof(Tail(q)) => HasEof(q)
           /\ Head(q) \in OwnEof => HasEof(q)
           /\ EofLast(q) => EofLast(Tail(q))
           /\ EofLast(q) /\ Head(q) \in OwnEof => CountIn(q, OwnFrame) = 0
<1>1. /\ Len(q) \in Nat \ {0} /\ Tail(q) \in Seq(Mine) /\ Len(Tail(q)) = Len(q) - 1 /\ Head(q) = q[1]
      /\ \A i \in 1..(Len(q) - 1) : Tail(q)[i] = q[i + 1]
    BY HeadTailProperties, LenProperties, EmptySeq
<1>2. \A i \in 1..(Len(q) - 1) : i + 1 \in 1..Len(q)
    BY <1>1
<1>3. \A i, j \in 1..(Len(q) - 1) : i < j => i + 1 < j + 1
    BY <1>1
<1>4. 1 \in 1..Len(q) /\ \A i \in 1..Len(q) : i = 1 \/ 1 < i
    BY <1>1
<1>5. HasEof(Tail(q)) => HasEof(q)
    BY <1>1, <1>2 DEF HasEof
<1>6. Head(q) \in OwnEof => HasEof(q)
    BY <1>1, <1>4 DEF HasEof
<1>7. EofLast(q) => EofLast(Tail(q))
    BY <1>1, <1>2, <1>3 DEF EofLast
<1>8. ASSUME EofLast(q), Head(q) \in OwnEof PROVE CountIn(q, OwnFrame) = 0
  <2>1. q[1] \notin OwnFrame
      BY <1>1, <1>8, FramesFirst
  <2>2. \A i \in 1..Len(q) : q[i] \notin OwnFrame
      BY <1>1, <1>4, <1>8, <2>1 DEF EofLast
  <2> QED BY <2>2, CountZero
<1> QED BY <1>5, <1>6, <1>7, <1>8

LEMMA EofAppend ==
    ASSUME NEW q \in Seq(Mine), NEW m \in Mine
    PROVE  /\ HasEof(Append(q, m)) => HasEof(q) \/ m \in OwnEof
           /\ EofLast(q) /\ (m \notin OwnFrame \/ ~HasEof(q)) => EofLast(Append(q, m))
<1> DEFINE n == Len(q)
<1>1. /\ n \in Nat /\ Append(q, m) \in Seq(Mine) /\ Len(Append(q, m)) = n + 1
      /\ \A i \in 1..n : Append(q, m)[i] = q[i]
      /\ Append(q, m)[n + 1] = m
    BY AppendProperties, LenProperties
<1>2. \A i \in 1..(n + 1) : i \in 1..n \/ i = n + 1
    BY <1>1
<1>3. \A i, j \in 1..(n + 1) : i < j => i \in 1..n
    BY <1>1
<1>4. HasEof(Append(q, m)) => HasEof(q) \/ m \in OwnEof
    BY <1>1, <1>2 DEF HasEof
<1>5. ASSUME EofLast(q), m \notin OwnFrame \/ ~HasEof(q) PROVE EofLast(Append(q, m))
  <2> SUFFICES ASSUME NEW i \in 1..(n + 1), NEW j \in 1..(n + 1), i < j, Append(q, m)[i] \in OwnEof
               PROVE  Append(q, m)[j] \notin OwnFrame
      BY <1>1 DEF EofLast
  <2>1. i \in 1..n /\ q[i] \in OwnEof
      BY <1>1, <1>3
  <2>2. HasEof(q)
      BY <2>1 DEF HasEof
  <2>3. CASE j \in 1..n
      BY <1>1, <1>5, <2>1, <2>3 DEF EofLast
  <2>4. CASE j = n + 1
      BY <1>1, <1>5, <2>2, <2>4
  <2> QED BY <1>2, <2>3, <2>4
<1> QED BY <1>4, <1>5

\* A message is published to the channel of a file's consumer, or given up.
LEMMA PublishedKeeps ==
    ASSUME IngestInv, OrderInv, KeptInv, kind = "FILE", ~Direct, SendFight, UNCHANGED workerVars
    PROVE  OrderInv' /\ KeptInv'
<1> DEFINE m == Message(word)
<1>1. /\ fightQ \in Seq(Mine) /\ m \in Mine /\ m.n = seq /\ seq \in Nat /\ lastSeq \in Nat /\ eaten \in Nat
      /\ m \in OwnFrame <=> word = "frame"
      /\ m \in OwnEof <=> word = "eof"
    BY MessageIs DEF IngestInv
<1>2. /\ \/ fightQ' = Append(fightQ, m) /\ ~fightStop
         \/ fightQ' = fightQ /\ (stop \/ fightStop)
      /\ UNCHANGED <<stop, fightStop, word, seq, eaten, lastSeq, wpc, clip>>
  <2>1. Ordered /\ (FightFed <=> ~fightStop)
      BY DEF Ordered, FightFed, IngestInv, Direct
  <2>2. fightQ' \in FightAfter(m, Ordered)
      BY DEF SendFight
  <2>3. UNCHANGED <<stop, fightStop, word, seq, eaten, lastSeq, wpc, clip>>
      BY DEF SendFight, stops, workerVars
  <2> HIDE DEF m
  <2> QED BY <2>1, <2>2, <2>3, FightAfterIs
<1>3. \A t \in {"frame", "eof"} : (Owed(t) <=> word = t) /\ ~Owed(t)'
  <2>1. ipc = "send" /\ Head(todo) = "fight" /\ todo' = Tail(todo)
      BY DEF SendFight, Delivered
  <2>2. todo # <<>> /\ todo \in {<<>>, <<"fight">>, <<"speed">>, <<"fight", "speed">>, <<"speed", "fight">>}
      BY <2>1 DEF IngestInv
  <2>3. todo' = <<>> \/ Head(todo') = "speed"
      BY <2>1, <2>2, TodoTails
  <2> QED BY <2>1, <2>2, <2>3 DEF Owed
<1>4. /\ Newest = IF word = "frame" THEN seq - 1 ELSE seq
      /\ Newest' = seq /\ Newest \in Int /\ Newest <= seq /\ lastSeq <= Newest
    BY <1>1, <1>2, <1>3 DEF Newest, OrderInv
<1>5. CountIn(fightQ, OwnFrame) \in Nat
    BY <1>1, CountType
<1>6. word = "frame" => ~HasEof(fightQ) /\ wpc # "eof"
    BY DEF KeptInv
<1> HIDE DEF m
<1>7. CASE fightQ' = Append(fightQ, m) /\ ~fightStop
  <2>1. OrderInv'
    <3>1. FramesRise(fightQ, lastSeq, Newest)
        BY DEF OrderInv
    <3>2. m \in OwnFrame => Newest < m.n /\ m.n <= seq
        BY <1>1, <1>4
    <3>3. FramesRise(Append(fightQ, m), lastSeq, seq)
        BY <1>1, <1>4, <3>1, <3>2, FramesRiseAppend
    <3>4. lastSeq <= seq
        BY <1>1, <1>4
    <3> QED BY <1>2, <1>4, <1>7, <3>3, <3>4 DEF OrderInv
  <2>2. CountIn(fightQ', OwnFrame) = CountIn(fightQ, OwnFrame) + (IF word = "frame" THEN 1 ELSE 0)
      BY <1>1, <1>7, CountAppend
  <2>3. Kept => Kept'
      BY <1>1, <1>2, <1>4, <1>5, <2>2 DEF Kept
  <2>4. HasEof(fightQ') => Kept /\ word = "eof"
      BY <1>1, <1>3, <1>7, EofAppend DEF KeptInv
  <2>5. EofLast(fightQ')
      BY <1>1, <1>6, <1>7, EofAppend DEF KeptInv
  <2> QED BY <1>2, <1>3, <2>1, <2>3, <2>4, <2>5 DEF KeptInv
<1>8. CASE fightQ' = fightQ /\ (stop \/ fightStop)
  <2>1. OrderInv'
    <3>1. FramesRise(fightQ, lastSeq, Newest)
        BY DEF OrderInv
    <3>2. FramesRise(fightQ, lastSeq, seq)
        BY <1>1, <1>4, <3>1, FramesRiseWider
    <3>3. lastSeq <= seq
        BY <1>1, <1>4
    <3> QED BY <1>2, <1>4, <1>8, <3>2, <3>3 DEF OrderInv
  <2>2. HasEof(fightQ) => Kept' /\ word = "eof"
    <3>1. word = "eof" => Newest' = Newest
        BY <1>4
    <3> QED BY <1>2, <1>8, <3>1 DEF KeptInv, Kept
  <2> QED BY <1>2, <1>3, <1>8, <2>1, <2>2 DEF KeptInv
<1> QED BY <1>2, <1>7, <1>8

\* The other steps of the ingest.
LEMMA IngestKeeps ==
    ASSUME IngestInv, OrderInv, KeptInv, kind = "FILE", ~Direct, IngestStep, UNCHANGED workerVars
    PROVE  OrderInv' /\ KeptInv'
<1>0. /\ fightQ \in Seq(Mine) /\ seq \in Nat /\ lastSeq \in Nat /\ eaten \in Nat
      /\ UNCHANGED <<eaten, lastSeq, wpc, clip>>
    BY DEF IngestInv, workerVars
<1>1. CASE SendFight
    BY <1>1, PublishedKeeps
<1>2. CASE ReadFrame
  <2>1. UNCHANGED <<stop, fightStop, fightQ>> /\ seq' = seq + 1 /\ word # "eof" /\ word' = "frame" /\ ipc # "send"
      BY <1>2 DEF ReadFrame, stops, IngestInv
  <2>2. ~Owed("frame") /\ ~Owed("eof") /\ Owed("frame")' /\ ~Owed("eof")'
    <3>1. Route("fight", "speed") # <<>> /\ Head(Route("fight", "speed")) = "fight"
        BY DEF Route
    <3> QED BY <1>2, <2>1, <3>1 DEF Owed, ReadFrame
  <2>3. Newest' = Newest
      BY <1>0, <2>1, <2>2 DEF Newest
  <2>4. ~HasEof(fightQ) /\ wpc # "eof"
      BY <2>1 DEF KeptInv
  <2>5. Kept => Kept'
      BY <1>0, <2>1, <2>3 DEF Kept
  <2> QED BY <1>0, <2>1, <2>2, <2>3, <2>4, <2>5 DEF KeptInv, OrderInv
<1>3. CASE OpenSource \/ ReadRaises \/ Reconnect \/ ReadNothing
  <2>1. UNCHANGED <<stop, fightStop, fightQ, seq>> /\ word # "eof" /\ ipc # "send"
      BY <1>3 DEF OpenSource, ReadRaises, Reconnect, ReadNothing, settings, stops, IngestInv
  <2>2. ~Owed("frame") /\ ~Owed("eof") /\ ~Owed("frame")' /\ (Owed("eof")' => ~stop)
    <3>1. CASE OpenSource \/ ReadRaises \/ Reconnect
        BY <2>1, <3>1 DEF Owed, OpenSource, ReadRaises, Reconnect, Raise, TellFatal
    <3>2. CASE ReadNothing
        BY <2>1, <3>2 DEF Owed, ReadNothing, TellEof
    <3> QED BY <1>3, <3>1, <3>2
  <2>3. Newest' = Newest
      BY <2>1, <2>2 DEF Newest
  <2>4. ~HasEof(fightQ) /\ wpc # "eof"
      BY <2>1 DEF KeptInv
  <2>5. Kept => Kept'
      BY <1>0, <2>1, <2>3 DEF Kept
  <2> QED BY <1>0, <2>1, <2>2, <2>3, <2>4, <2>5 DEF KeptInv, OrderInv
<1>4. CASE SendSpeed
  <2>1. UNCHANGED <<stop, fightStop, fightQ, seq, word>> /\ ipc = "send" /\ Head(todo) = "speed" /\ todo' = Tail(todo)
      BY <1>4 DEF SendSpeed, stops, Delivered
  <2>2. ~Owed("frame") /\ ~Owed("eof") /\ ~Owed("frame")' /\ ~Owed("eof")'
    <3>1. word # "fatal_error" => todo' = <<>>
        BY <2>1, TodoTails DEF IngestInv
    <3> QED BY <2>1, <3>1 DEF Owed
  <2>3. Newest' = Newest
      BY <2>1, <2>2 DEF Newest
  <2>5. Kept' <=> Kept
      BY <1>0, <2>1, <2>3 DEF Kept
  <2> QED BY <1>0, <2>1, <2>2, <2>3, <2>5 DEF KeptInv, OrderInv
<1>5. CASE IngestStops
  <2>1. UNCHANGED <<stop, fightStop, seq, word>> /\ ipc \in {"open", "read"} /\ stop /\ ipc' = "done"
      BY <1>5 DEF IngestStops, stops
  <2>2. ~Owed("frame") /\ ~Owed("eof") /\ ~Owed("frame")' /\ ~Owed("eof")'
      BY <2>1 DEF Owed
  <2>3. Newest' = Newest /\ Newest = seq
      BY <2>1, <2>2 DEF Newest
  <2>4. word # "eof" /\ ~HasEof(fightQ) /\ wpc # "eof"
      BY <2>1 DEF KeptInv, IngestInv
  <2> DEFINE m == Message("stopping")
  <2>5. m \in Mine /\ m \notin OwnFrame /\ m \notin OwnEof
      BY <1>0, MessageIs
  <2>6. fightQ' \in FightAfter(m, FALSE)
      BY <1>5 DEF IngestStops
  <2> HIDE DEF m
  <2>7. \/ fightQ' = Append(fightQ, m)
        \/ fightQ' = fightQ
        \/ fightQ' = Append(Tail(fightQ), m) /\ fightQ # <<>>
      BY <1>0, <2>6, FightAfterIs, QueueTyped
  <2>8. lastSeq <= seq /\ FramesRise(fightQ, lastSeq, seq)
      BY <2>3 DEF OrderInv
  <2>9. ASSUME NEW q \in Seq(Mine), FramesRise(q, lastSeq, seq), ~HasEof(q), EofLast(q)
        PROVE  /\ FramesRise(Append(q, m), lastSeq, seq) /\ ~HasEof(Append(q, m)) /\ EofLast(Append(q, m))
      BY <1>0, <2>5, <2>8, <2>9, FramesRiseAppend, EofAppend
  <2>10. FramesRise(fightQ', lastSeq, seq) /\ ~HasEof(fightQ') /\ EofLast(fightQ')
    <3>1. EofLast(fightQ)
        BY DEF KeptInv
    <3>2. fightQ # <<>> => /\ Tail(fightQ) \in Seq(Mine) /\ FramesRise(Tail(fightQ), lastSeq, seq)
                           /\ ~HasEof(Tail(fightQ)) /\ EofLast(Tail(fightQ))
        BY <1>0, <2>4, <2>8, <3>1, FramesRiseTail, EofTail, QueueTyped
    <3> QED BY <1>0, <2>4, <2>7, <2>8, <2>9, <3>1, <3>2
  <2> QED BY <1>0, <2>1, <2>2, <2>3, <2>4, <2>8, <2>10 DEF KeptInv, OrderInv
<1> QED BY <1>1, <1>2, <1>3, <1>4, <1>5 DEF IngestStep

\* The consumer takes from the channel.
LEMMA TakenKeeps ==
    ASSUME IngestInv, OrderInv, KeptInv, kind = "FILE", ~Direct,
           DropForeign \/ TakeFrame \/ TakeSignal
    PROVE  OrderInv' /\ KeptInv'
<1> DEFINE m == Head(fightQ)
<1>0. /\ fightQ \in Seq(Mine) /\ seq \in Nat /\ lastSeq \in Nat /\ eaten \in Nat
      /\ fightQ # <<>> /\ fightQ' = Tail(fightQ) /\ wpc = "get"
      /\ UNCHANGED <<seq, word, todo, ipc, stop, fightStop>>
  <2>1. fightQ # <<>> /\ fightQ' = Tail(fightQ) /\ wpc = "get" /\ UNCHANGED <<seq, word, todo, ipc, stop, fightStop>>
      BY DEF DropForeign, TakeFrame, TakeSignal, ingestOnly, stops
  <2> QED BY <2>1 DEF IngestInv
<1>1. /\ m \in Mine /\ m.n \in Nat /\ Tail(fightQ) \in Seq(Mine)
      /\ \A t : Owed(t)' <=> Owed(t)
  <2>1. m \in Mine /\ Tail(fightQ) \in Seq(Mine)
      BY <1>0, QueueTyped
  <2>2. m.n \in Nat
      BY <2>1 DEF Mine
  <2>3. \A t : Owed(t)' <=> Owed(t)
      BY <1>0 DEF Owed
  <2> QED BY <2>1, <2>2, <2>3
<1>2. Newest' = Newest /\ Newest \in Int /\ CountIn(fightQ, OwnFrame) \in Nat /\ CountIn(fightQ', OwnFrame) \in Nat
  <2>1. Newest' = Newest /\ Newest \in Int
      BY <1>0, <1>1 DEF Newest
  <2> QED BY <1>0, <1>1, <2>1, CountType
<1>3. /\ HasEof(fightQ') => HasEof(fightQ)
      /\ EofLast(fightQ')
      /\ m \in OwnEof => HasEof(fightQ) /\ CountIn(fightQ, OwnFrame) = 0
    BY <1>0, EofTail DEF KeptInv
<1>4. CountIn(fightQ, OwnFrame) = CountIn(fightQ', OwnFrame) + (IF m \in OwnFrame THEN 1 ELSE 0)
    BY <1>0, CountTail
<1>5. /\ FramesRise(fightQ', lastSeq, Newest) /\ lastSeq <= Newest
      /\ m \in OwnFrame => lastSeq < m.n /\ m.n <= Newest /\ FramesRise(fightQ', m.n, Newest)
    BY <1>0, FramesRiseTail DEF OrderInv
<1> HIDE DEF m
<1>6. CASE DropForeign \/ TakeSignal
  <2>1. m \notin OwnFrame /\ UNCHANGED <<eaten, lastSeq>>
      BY <1>6 DEF DropForeign, TakeSignal, workerVars, OwnFrame, m
  <2>2. OrderInv'
      BY <1>2, <1>5, <2>1 DEF OrderInv
  <2>3. Kept => Kept'
      BY <1>0, <1>2, <1>4, <2>1 DEF Kept
  <2>4. wpc' = "eof" => m \in OwnEof /\ clip' = <<>>
    <3>1. wpc' = "eof" => TakeSignal
        BY <1>0, <1>6 DEF DropForeign, workerVars
    <3>2. TakeSignal /\ wpc' = "eof" => m.t = "eof" /\ m.epoch = Epoch /\ CloseActive
        BY DEF TakeSignal, Crash, m
    <3>3. CloseActive => clip' = <<>>
        BY DEF CloseActive, Close
    <3> QED BY <1>1, <3>1, <3>2, <3>3 DEF OwnEof
  <2>5. wpc' = "eof" => eaten' = seq' /\ word' = "eof" /\ clip' = <<>>
    <3> SUFFICES ASSUME wpc' = "eof" PROVE eaten' = seq' /\ word' = "eof" /\ clip' = <<>>
        OBVIOUS
    <3>1. Kept /\ word = "eof" /\ CountIn(fightQ, OwnFrame) = 0
        BY <1>3, <2>4 DEF KeptInv
    <3>2. Newest = seq
        BY <3>1 DEF Newest, Owed
    <3>3. eaten + CountIn(fightQ, OwnFrame) = seq
        BY <3>1, <3>2 DEF Kept
    <3>4. eaten = seq
        BY <1>0, <3>1, <3>3
    <3> QED BY <1>0, <2>1, <2>4, <3>1, <3>4
  <2> QED BY <1>0, <1>1, <1>3, <2>2, <2>3, <2>5 DEF KeptInv
<1>7. CASE TakeFrame
  <2>1. m \in OwnFrame
      BY <1>1, <1>7 DEF TakeFrame, OwnFrame, m
  <2>2. lastSeq' = m.n /\ eaten' = eaten + 1 /\ wpc' = "motion"
    <3>1. ~(m.n <= lastSeq)
        BY <1>0, <1>1, <1>5, <2>1
    <3> QED BY <1>7, <3>1 DEF TakeFrame, m
  <2>3. OrderInv'
      BY <1>2, <1>5, <2>1, <2>2 DEF OrderInv
  <2>4. Kept => Kept'
    <3>1. CountIn(fightQ, OwnFrame) = CountIn(fightQ', OwnFrame) + 1
        BY <1>4, <2>1
    <3> QED BY <1>0, <1>2, <2>2, <3>1 DEF Kept
  <2>5. wpc' # "eof"
      BY <2>2
  <2> QED BY <1>0, <1>1, <1>3, <2>3, <2>4, <2>5 DEF KeptInv
<1> QED BY <1>6, <1>7

LEMMA FileInvStep == IngestInv /\ FileInv /\ [CameraNext]_cameraVars => FileInv'
<1> SUFFICES ASSUME IngestInv, FileInv, [CameraNext]_cameraVars, kind' = "FILE", ~Direct'
             PROVE  OrderInv' /\ KeptInv'
    BY DEF FileInv
<1>1. kind = "FILE" /\ ~Direct /\ OrderInv /\ KeptInv
    BY DirectStays DEF FileInv
<1>2. ASSUME UNCHANGED <<ipc, word, todo, seq, fightQ, eaten, lastSeq>>, stop => stop', fightStop => fightStop',
             wpc' = "eof" => wpc = "eof" /\ clip' = clip
      PROVE  OrderInv' /\ KeptInv'
  <2>1. \A t : Owed(t)' <=> Owed(t)
      BY <1>2 DEF Owed
  <2>2. Newest' = Newest
      BY <1>2, <2>1 DEF Newest
  <2>3. Kept' <=> Kept
      BY <1>2, <2>2 DEF Kept
  <2> QED BY <1>1, <1>2, <2>1, <2>2, <2>3 DEF OrderInv, KeptInv
<1>3. CASE Inner
  <2>1. UNCHANGED <<ipc, word, todo, seq, fightQ, eaten, lastSeq, stop, fightStop>>
      BY <1>3, InnerKeeps DEF channelVars
  <2>2. wpc' = "eof" => wpc = "eof" /\ clip' = clip
    <3>1. Motion \/ People \/ Decide \/ AnswerStopped \/ LeaveLoop => wpc' # "eof"
        BY DEF Motion, People, Decide, AnswerStopped, LeaveLoop, Ask, Shed, Crash
    <3>2. AnswerPerson \/ AnswerPose => wpc' # "eof"
        BY DEF AnswerPerson, AnswerPose, Answer, Shed, Crash
    <3>3. ServePerson \/ ServePose => UNCHANGED <<wpc, clip>>
        BY DEF ServePerson, ServePose, Serve, eventVars
    <3> QED BY <1>3, <3>1, <3>2, <3>3 DEF Inner
  <2> QED BY <1>2, <2>1, <2>2
<1>4. CASE DropForeign \/ TakeFrame \/ TakeSignal
    BY <1>1, <1>4, TakenKeeps
<1>5. CASE DirectOpen \/ DirectRead \/ DirectNothing
    BY <1>1, <1>5 DEF DirectOpen, DirectRead, DirectNothing
<1>6. CASE IngestStep /\ UNCHANGED workerVars
    BY <1>1, <1>6, IngestKeeps
<1>7. CASE SpeedTakes /\ UNCHANGED workerVars
    BY <1>2, <1>7 DEF SpeedTakes, workerVars, stops
<1>8. CASE AskStop /\ UNCHANGED workerVars
    BY <1>2, <1>8 DEF AskStop, workerVars
<1>9. CASE UNCHANGED cameraVars
    BY <1>2, <1>9 DEF cameraVars, ingestVars, workerVars
<1> QED BY CameraCases, <1>3, <1>4, <1>5, <1>6, <1>7, <1>8, <1>9

\* A consumer that leaves at the end of a file has looked at every decoded frame.
THEOREM FileWholeHolds == CameraSpec => []FileWhole
<1>1. CameraInit => FileInv
  <2> SUFFICES ASSUME CameraInit, kind = "FILE", ~Direct PROVE OrderInv /\ KeptInv
      BY DEF FileInv
  <2> DEFINE old == [t |-> "frame", n |-> 1, epoch |-> Epoch - 1]
  <2>1. /\ fightQ \in {<<>>, <<old>>} /\ fightQ \in Seq(Mine)
        /\ seq = 0 /\ lastSeq = 0 /\ eaten = 0 /\ ipc = "open" /\ wpc = "get"
    <3>1. fightQ \in {<<>>, <<old>>}
        BY DEF CameraInit
    <3>2. seq = 0 /\ lastSeq = 0 /\ eaten = 0 /\ ipc = "open" /\ wpc = "get"
        BY DEF CameraInit, IngestInit, Direct
    <3> QED BY <3>1, <3>2, CameraInits DEF IngestInv
  <2>2. old \notin OwnFrame /\ old \notin OwnEof
      BY DEF OwnFrame, OwnEof, Epoch
  <2> HIDE DEF old
  <2>3. \A i \in 1..Len(fightQ) : fightQ[i] \notin OwnFrame /\ fightQ[i] \notin OwnEof
      BY <2>1, <2>2
  <2>4. CountIn(fightQ, OwnFrame) = 0
      BY <2>1, <2>3, CountZero
  <2>5. ~Owed("frame") /\ ~Owed("eof") /\ Newest = 0
      BY <2>1 DEF Owed, Newest
  <2>6. OrderInv
      BY <2>1, <2>3, <2>5 DEF OrderInv, FramesRise
  <2>7. Kept
      BY <2>1, <2>4, <2>5 DEF Kept
  <2>8. ~HasEof(fightQ) /\ EofLast(fightQ)
      BY <2>3 DEF HasEof, EofLast
  <2> QED BY <2>1, <2>6, <2>7, <2>8 DEF KeptInv
<1>2. IngestInv /\ FileInv => FileWhole
    BY DEF IngestInv, FileInv, KeptInv, FileWhole
<1>3. CameraInit => IngestInv
    BY CameraInits
<1> QED BY <1>1, <1>2, <1>3, IngestInvStep, FileInvStep, PTL DEF CameraSpec

=============================================================================
