-------------------------- MODULE FightRuntimeProofs --------------------------
(***************************************************************************)
(* Frames flow only to a consumer that can publish, a reading of a file is  *)
(* in order and one that ended cleanly is the last, for any number of       *)
(* cameras, slots, revisions, faults and restarts.                          *)
(*                                                                          *)
(* ItemInv says what every handler leaves of a camera's runtime, whatever   *)
(* the rest of the parent is doing; EpochInv ties consumers to the epochs   *)
(* and floors of the slot they occupy alone; BundleInv and WishInv tie      *)
(* those that are fed to the bundle that exists and to what is desired.     *)
(***************************************************************************)
EXTENDS FightRuntime, FiniteSetTheorems, TLAPS

\* What holds of the runtime i of camera c by itself.
ItemInv(c, i) ==
    /\ ~i.paused => i.consumer # "none" /\ ~i.failed /\ ~i.waiting /\ Fights(i.want)
    /\ i.waiting => Fights(i.want) /\ ~i.failed /\ ~i.done
    /\ i.eof \/ i.done => c \in Files
    /\ c \in Files => /\ i.spawns <= 1
                      /\ i.waiting => i.spawns = 0 /\ i.ingest = "none"
                      /\ Fights(i.want) /\ i.ingest # "none" /\ ~i.failed => i.spawns = 1 /\ i.consumer # "none"
    /\ i.done /\ ~i.failed => /\ i.eof /\ i.ingest = "exited"
                              /\ Fights(i.want) => i.consumer = "exited"

-----------------------------------------------------------------------------
(* What the handlers make of an item. *)
LEMMA FencedIs ==
    ASSUME NEW i \in Item, NEW waiting \in BOOLEAN
    PROVE  LET j == Fenced(i, waiting) IN
           /\ j \in Item /\ j.paused /\ j.waiting = waiting /\ j.failed = ~waiting /\ j.consumer = "none"
           /\ j.want = i.want /\ j.slot = i.slot /\ j.ingest = i.ingest /\ j.eof = i.eof /\ j.epoch = i.epoch
           /\ j.svc = i.svc /\ j.spawns = i.spawns /\ j.stale = i.stale /\ j.done = i.done
BY DEF Fenced, Item

LEMMA SpawnedIs ==
    ASSUME NEW i \in Item, epochs \in [Slots -> Nat], svcEpoch \in Nat
    PROVE  LET j == Spawned(i) IN
           /\ j \in Item /\ ~j.paused /\ ~j.waiting /\ ~j.failed /\ j.consumer = "alive"
           /\ j.epoch = epochs[i.slot] + 1 /\ j.svc = svcEpoch /\ j.spawns = i.spawns + 1
           /\ j.want = i.want /\ j.slot = i.slot /\ j.ingest = i.ingest /\ j.eof = i.eof
           /\ j.stale = i.stale /\ j.done = i.done
<1>1. i.slot \in Slots /\ epochs[i.slot] + 1 \in Nat /\ i.spawns + 1 \in Nat
    BY DEF Item
<1>2. PICK e \in Nat, n \in Nat : e = epochs[i.slot] + 1 /\ n = i.spawns + 1
    BY <1>1
<1>3. Spawned(i) = [i EXCEPT !.epoch = e, !.svc = svcEpoch, !.consumer = "alive",
                             !.spawns = n, !.paused = FALSE, !.waiting = FALSE, !.failed = FALSE]
    BY <1>2 DEF Spawned, Item
<1> QED BY <1>2, <1>3 DEF Item

LEMMA StartFailedIs ==
    ASSUME NEW i \in Item, NEW counted \in BOOLEAN
    PROVE  LET j == StartFailed(i, counted) IN
           /\ j \in Item /\ j.paused /\ j.failed /\ ~j.waiting /\ j.consumer = i.consumer
           /\ j.want = i.want /\ j.slot = i.slot /\ j.ingest = i.ingest /\ j.eof = i.eof /\ j.epoch = i.epoch
           /\ j.svc = i.svc /\ j.spawns = i.spawns /\ j.stale = i.stale /\ j.done = i.done
<1>1. PICK n \in Nat : n = IF counted THEN i.restarts ELSE i.restarts + 1
    BY DEF Item
<1>2. StartFailed(i, counted) = [i EXCEPT !.failed = TRUE, !.waiting = FALSE, !.paused = TRUE, !.restarts = n]
    BY <1>1 DEF StartFailed, Item
<1> QED BY <1>1, <1>2 DEF Item

Counters == epochs \in [Slots -> Nat] /\ svcEpoch \in Nat /\ faults \in 0..MaxFaults

\* The outcome o of a handler for item i of camera c leaves an item as it has to be,
\* and one that is fed has an epoch of its own and belongs to the bundle.
SameRuntime(i, j) == j.want = i.want /\ j.slot = i.slot /\ j.stale = i.stale /\ j.done = i.done /\ j.eof = i.eof

GoodOutcome(c, i, o) ==
    /\ o.item \in Item /\ ItemInv(c, o.item) /\ SameRuntime(i, o.item)
    /\ o.epochs \in {0, 1} /\ o.faults \in {0, 1} /\ o.ok \in BOOLEAN
    /\ o.item.epoch = i.epoch \/ o.item.epoch = epochs[i.slot] + o.epochs
    /\ ~o.item.paused => /\ o.epochs = 1 /\ o.item.epoch = epochs[i.slot] + 1
                         /\ o.item.svc = svcEpoch /\ service # "none"

\* A consumer is attached to an item that is not fed, a file's only once and first.
LEMMA EnsureIs ==
    ASSUME Counters, NEW c \in Cameras, NEW i \in Item, ItemInv(c, i), i.paused,
           c \in Files => i.spawns = 0 /\ i.ingest = "none",
           NEW o \in Ensure(i)
    PROVE  /\ GoodOutcome(c, i, o) /\ o.item.ingest = i.ingest
           /\ o.ok /\ available /\ Fights(i.want) /\ ~i.done /\ ~i.failed /\ i.consumer # "alive"
                => ~o.item.paused /\ o.item.spawns = i.spawns + 1
<1> DEFINE held == Outcome([i EXCEPT !.waiting = TRUE], 0, 0, TRUE)
           raised == [i EXCEPT !.epoch = epochs[i.slot] + 1]
           spawned == Spawned(i)
<1>1. i.slot \in Slots /\ epochs[i.slot] + 1 \in Nat
    BY DEF Counters, Item
<1>2. CASE o = Outcome(i, 0, 0, TRUE) /\ (i.done \/ i.failed \/ ~Fights(i.want) \/ i.consumer = "alive")
  <2>1. o.item = i /\ o.epochs = 0 /\ o.faults = 0 /\ o.ok = TRUE
      BY <1>2 DEF Outcome
  <2> QED BY <1>2, <2>1 DEF GoodOutcome, SameRuntime
<1>3. CASE o = held /\ ~i.done /\ ~i.failed /\ Fights(i.want) /\ ~available
  <2> DEFINE j == [i EXCEPT !.waiting = TRUE]
  <2>1. /\ j \in Item /\ j.waiting /\ SameRuntime(i, j) /\ j.epoch = i.epoch /\ j.paused /\ ~j.done /\ ~j.failed
        /\ j.spawns = i.spawns /\ j.ingest = i.ingest /\ j.consumer = i.consumer
      BY <1>3 DEF Item, SameRuntime
  <2>2. o = Outcome(j, 0, 0, TRUE)
      BY <1>3
  <2> HIDE DEF j
  <2>3. ItemInv(c, j)
      BY <1>3, <2>1 DEF ItemInv, SameRuntime
  <2>4. o.item = j /\ o.epochs = 0 /\ o.faults = 0 /\ o.ok = TRUE
      BY <2>2 DEF Outcome
  <2> QED BY <1>3, <2>1, <2>3, <2>4 DEF GoodOutcome
<1>4. CASE o = Outcome(raised, 1, 0, FALSE) \/ o = Outcome(raised, 1, 1, FALSE)
  <2>1. /\ raised \in Item /\ SameRuntime(i, raised) /\ raised.epoch = epochs[i.slot] + 1 /\ raised.paused
        /\ raised.waiting = i.waiting /\ raised.failed = i.failed
        /\ raised.spawns = i.spawns /\ raised.ingest = i.ingest /\ raised.consumer = i.consumer
      BY <1>1 DEF Item, SameRuntime
  <2> HIDE DEF raised
  <2>2. ItemInv(c, raised)
      BY <2>1 DEF ItemInv, SameRuntime
  <2>3. o.item = raised /\ o.epochs = 1 /\ o.faults \in {0, 1} /\ o.ok = FALSE
      BY <1>4 DEF Outcome
  <2> QED BY <2>1, <2>2, <2>3 DEF GoodOutcome
<1>5. CASE o = Outcome(spawned, 1, 0, TRUE) /\ ~i.done /\ ~i.failed /\ Fights(i.want) /\ service # "none"
  <2>1. /\ spawned \in Item /\ SameRuntime(i, spawned) /\ spawned.epoch = epochs[i.slot] + 1
        /\ spawned.svc = svcEpoch /\ ~spawned.paused /\ ~spawned.waiting /\ ~spawned.failed
        /\ spawned.spawns = i.spawns + 1 /\ spawned.ingest = i.ingest /\ spawned.consumer = "alive"
      BY SpawnedIs DEF Counters, SameRuntime
  <2> HIDE DEF spawned
  <2>2. ItemInv(c, spawned)
      BY <1>5, <2>1 DEF ItemInv, SameRuntime
  <2>3. o.item = spawned /\ o.epochs = 1 /\ o.faults = 0 /\ o.ok = TRUE
      BY <1>5 DEF Outcome
  <2> QED BY <1>5, <2>1, <2>2, <2>3 DEF GoodOutcome
<1>6. \/ o = Outcome(i, 0, 0, TRUE) /\ (i.done \/ i.failed \/ ~Fights(i.want) \/ i.consumer = "alive")
      \/ o = held /\ ~i.done /\ ~i.failed /\ Fights(i.want) /\ ~available
      \/ o = Outcome(raised, 1, 0, FALSE) \/ o = Outcome(raised, 1, 1, FALSE)
      \/ o = Outcome(spawned, 1, 0, TRUE) /\ ~i.done /\ ~i.failed /\ Fights(i.want) /\ service # "none"
    BY DEF Ensure
<1> QED BY <1>2, <1>3, <1>4, <1>5, <1>6

\* A handler may leave an item that is not fed as it is.
LEMMA IdleIs ==
    ASSUME NEW c, NEW i \in Item, ItemInv(c, i), i.paused
    PROVE  GoodOutcome(c, i, Outcome(i, 0, 0, TRUE))
<1> DEFINE o == Outcome(i, 0, 0, TRUE)
<1>1. o.item = i /\ o.epochs = 0 /\ o.faults = 0 /\ o.ok = TRUE
    BY DEF Outcome
<1> HIDE DEF o
<1>2. GoodOutcome(c, i, o)
    BY <1>1 DEF GoodOutcome, SameRuntime
<1> QED BY <1>2 DEF o

LEMMA EnsureCaughtIs ==
    ASSUME Counters, NEW c \in Cameras, NEW i \in Item, ItemInv(c, i), i.paused,
           c \in Files => i.spawns = 0 /\ i.ingest = "none",
           NEW counted \in BOOLEAN, NEW o \in EnsureCaught(i, counted)
    PROVE  GoodOutcome(c, i, o) /\ o.ok
<1>1. PICK e \in Ensure(i) :
        o = IF e.ok THEN e ELSE Outcome(StartFailed(e.item, counted), e.epochs, e.faults, TRUE)
    BY DEF EnsureCaught
<1>2. GoodOutcome(c, i, e)
    BY EnsureIs
<1>3. CASE e.ok
    BY <1>1, <1>2, <1>3
<1>4. CASE ~e.ok
  <2> DEFINE j == StartFailed(e.item, counted)
  <2>1. e.item \in Item /\ ItemInv(c, e.item) /\ SameRuntime(i, e.item)
      BY <1>2 DEF GoodOutcome
  <2>2. /\ j \in Item /\ j.paused /\ j.failed /\ ~j.waiting /\ SameRuntime(i, j) /\ j.epoch = e.item.epoch
        /\ j.ingest = e.item.ingest /\ j.spawns = e.item.spawns /\ j.eof = e.item.eof
      BY <2>1, StartFailedIs DEF SameRuntime
  <2>3. o.item = j /\ o.epochs = e.epochs /\ o.faults = e.faults /\ o.ok = TRUE
      BY <1>1, <1>4 DEF Outcome
  <2> HIDE DEF j
  <2>4. ItemInv(c, j)
      BY <2>1, <2>2 DEF ItemInv, SameRuntime
  <2> QED BY <1>2, <2>2, <2>3, <2>4 DEF GoodOutcome
<1> QED BY <1>3, <1>4

\* A consumer is only replaced where it may be: an item that is not fed, of no file.
LEMMA RestartIs ==
    ASSUME Counters, NEW c \in Cameras, NEW i \in Item, ItemInv(c, i), i.paused, NEW o \in Restart(c, i)
    PROVE  GoodOutcome(c, i, o)
<1> DEFINE j == [i EXCEPT !.restarts = @ + 1, !.failed = FALSE]
<1>1. CASE o = Outcome(i, 0, 0, TRUE)
    BY <1>1, IdleIs
<1>2. CASE o \in EnsureCaught(j, TRUE) /\ c \notin Files /\ ~i.waiting /\ ~i.done
  <2>1. PICK n \in Nat : n = i.restarts + 1
      BY DEF Item
  <2>2. j = [i EXCEPT !.restarts = n, !.failed = FALSE]
      BY <2>1 DEF Item
  <2>3. /\ j \in Item /\ SameRuntime(i, j) /\ j.epoch = i.epoch /\ j.paused /\ ~j.failed
        /\ j.waiting = i.waiting /\ j.done = i.done /\ j.eof = i.eof /\ j.slot = i.slot
      BY <2>2 DEF Item, SameRuntime
  <2> HIDE DEF j
  <2>4. ItemInv(c, j)
      BY <1>2, <2>3 DEF ItemInv
  <2>5. GoodOutcome(c, j, o)
      BY <1>2, <2>3, <2>4, EnsureCaughtIs
  <2> QED BY <2>3, <2>5 DEF GoodOutcome, SameRuntime
<1>3. o = Outcome(i, 0, 0, TRUE) \/ (o \in EnsureCaught(j, TRUE) /\ c \notin Files /\ ~i.waiting /\ ~i.done)
    BY DEF Restart
<1> QED BY <1>1, <1>2, <1>3

LEMMA FencedGood ==
    ASSUME NEW c, NEW i \in Item, ItemInv(c, i), NEW waiting \in BOOLEAN,
           waiting => c \notin Files /\ Fights(i.want) /\ ~i.done
    PROVE  ItemInv(c, Fenced(i, waiting))
<1> DEFINE j == Fenced(i, waiting)
<1>1. /\ j.paused /\ j.waiting = waiting /\ j.failed = ~waiting /\ j.consumer = "none" /\ j.want = i.want
      /\ j.ingest = i.ingest /\ j.eof = i.eof /\ j.spawns = i.spawns /\ j.done = i.done
    BY FencedIs
<1> HIDE DEF j
<1>2. ItemInv(c, j)
    BY <1>1 DEF ItemInv
<1> QED BY <1>2 DEF j

LEMMA NewItemIs ==
    ASSUME NEW c \in Cameras, NEW w \in Wants, NEW s \in Slots, NEW g \in Nat
    PROVE  LET j == NewItem(c, w, s, g) IN
           /\ j \in Item /\ ItemInv(c, j) /\ j.paused /\ ~j.waiting /\ ~j.failed /\ ~j.done /\ ~j.eof
           /\ j.want = w /\ j.slot = s /\ j.gen = g /\ j.epoch = 0 /\ j.spawns = 0 /\ j.ingest = "none"
           /\ j.consumer = "none" /\ j.stale = (w # desired[c])
<1> DEFINE j == NewItem(c, w, s, g)
<1>1. /\ j \in Item /\ j.paused /\ ~j.waiting /\ ~j.failed /\ ~j.done /\ ~j.eof
      /\ j.want = w /\ j.slot = s /\ j.gen = g /\ j.epoch = 0 /\ j.spawns = 0 /\ j.ingest = "none"
      /\ j.consumer = "none" /\ j.stale = (w # desired[c])
    BY RuntimeAssumption DEF NewItem, Item, Wants
<1> HIDE DEF j
<1>2. ItemInv(c, j)
    BY <1>1 DEF ItemInv
<1> QED BY <1>1, <1>2 DEF j

\* A new runtime: its consumer first, then its ingest; a file whose consumer cannot
\* be had waits unread.
LEMMA TrioIs ==
    ASSUME Counters, NEW c \in Cameras, NEW i \in Item, ItemInv(c, i), i.paused, ~i.waiting, ~i.failed, ~i.done,
           i.spawns = 0, i.ingest = "none", i.consumer = "none", NEW o \in Trio(c, i)
    PROVE  GoodOutcome(c, i, o)
<1>1. CASE c \in Files /\ Fights(i.want) /\ ~available /\ o = Outcome([i EXCEPT !.waiting = TRUE], 0, 0, TRUE)
  <2> DEFINE j == [i EXCEPT !.waiting = TRUE]
  <2>1. /\ j \in Item /\ j.waiting /\ SameRuntime(i, j) /\ j.epoch = i.epoch /\ j.paused /\ ~j.done /\ ~j.failed
        /\ j.spawns = 0 /\ j.ingest = "none" /\ j.consumer = "none"
      BY DEF Item, SameRuntime
  <2>2. o.item = j /\ o.epochs = 0 /\ o.faults = 0 /\ o.ok = TRUE
      BY <1>1 DEF Outcome
  <2> HIDE DEF j
  <2>3. ItemInv(c, j)
      BY <1>1, <2>1 DEF ItemInv, SameRuntime
  <2> QED BY <2>1, <2>2, <2>3 DEF GoodOutcome
<1>2. ASSUME ~(c \in Files /\ Fights(i.want) /\ ~available) PROVE GoodOutcome(c, i, o)
  <2>1. PICK e \in Ensure(i) :
          \/ o = e
          \/ e.ok /\ o = Outcome([e.item EXCEPT !.ingest = "alive"], e.epochs, e.faults, TRUE)
          \/ o = Outcome(e.item, e.epochs, 1, FALSE)
      BY <1>2 DEF Trio
  <2>2. /\ GoodOutcome(c, i, e) /\ e.item.ingest = i.ingest
        /\ e.ok /\ available /\ Fights(i.want) => ~e.item.paused /\ e.item.spawns = i.spawns + 1
      BY EnsureIs
  <2>3. CASE o = e
      BY <2>2, <2>3
  <2>4. CASE o = Outcome(e.item, e.epochs, 1, FALSE)
    <3>1. o.item = e.item /\ o.epochs = e.epochs /\ o.faults = 1 /\ o.ok = FALSE
        BY <2>4 DEF Outcome
    <3> QED BY <2>2, <3>1 DEF GoodOutcome
  <2>5. CASE e.ok /\ o = Outcome([e.item EXCEPT !.ingest = "alive"], e.epochs, e.faults, TRUE)
    <3> DEFINE k == e.item
               j == [k EXCEPT !.ingest = "alive"]
    <3>1. k \in Item /\ ItemInv(c, k) /\ SameRuntime(i, k)
        BY <2>2 DEF GoodOutcome
    <3>2. o.item = j /\ o.epochs = e.epochs /\ o.faults = e.faults /\ o.ok = TRUE
        BY <2>5 DEF Outcome
    <3> HIDE DEF k
    <3>3. /\ j \in Item /\ j.ingest = "alive" /\ SameRuntime(k, j) /\ j.epoch = k.epoch /\ j.paused = k.paused
          /\ j.waiting = k.waiting /\ j.failed = k.failed /\ j.consumer = k.consumer /\ j.spawns = k.spawns /\ j.svc = k.svc
        BY <3>1 DEF Item, SameRuntime
    <3> HIDE DEF j
    <3>4. c \in Files /\ Fights(k.want) => ~k.paused /\ k.spawns = 1
        BY <1>2, <2>2, <2>5, <3>1 DEF k, SameRuntime
    <3>5. k.done = i.done /\ (k.waiting => Fights(k.want))
        BY <3>1 DEF SameRuntime, ItemInv
    <3>6. ItemInv(c, j)
        BY <3>1, <3>3, <3>4, <3>5 DEF ItemInv, SameRuntime
    <3>7. SameRuntime(i, j)
        BY <3>1, <3>3 DEF SameRuntime
    <3> QED BY <2>2, <3>2, <3>3, <3>6, <3>7 DEF GoodOutcome, k
  <2> QED BY <2>1, <2>3, <2>4, <2>5
<1>3. CASE c \in Files /\ Fights(i.want) /\ ~available
    BY <1>1, <1>3 DEF Trio
<1> QED BY <1>2, <1>3

-----------------------------------------------------------------------------
\* A camera occupies a slot alone.
SlotInv == \A c, d \in Running : c # d => item[c].slot # item[d].slot

\* A consumer's epoch was handed out in its slot, and the floor of the slot is not
\* above the next one; what is fed is not below it.
EpochInv ==
    /\ \A s \in Slots : floor[s] <= epochs[s] + 1
    /\ \A c \in Running : /\ item[c].epoch <= epochs[item[c].slot]
                          /\ ~item[c].paused => floor[item[c].slot] <= item[c].epoch

\* A consumer that is fed belongs to the bundle, and the bundle is not fenced.
FedInv == \A c \in Running : ~item[c].paused /\ ~item[c].stale => service # "none" /\ item[c].svc = svcEpoch
BundleInv ==
    /\ serviceFloor <= svcEpoch + 1
    /\ service # "none" => serviceFloor <= svcEpoch
    /\ retry => service = "none"

\* Cameras that need not yet be what the loaded revision wants.
Unsettled == IF phase = "reconcile" THEN pending ELSE IF phase \in {"exit", "stopped"} THEN Cameras ELSE {}
WishInv ==
    /\ required = (\E c \in Cameras : Fights(desired[c]))
    /\ \A c \in Running \ Unsettled : ~item[c].stale => item[c].want = desired[c]

ItemTypes ==
    /\ item \in [Cameras -> Item \cup {None}]
    /\ epochs \in [Slots -> Nat] /\ floor \in [Slots -> Nat]
LoopTypes ==
    /\ phase \in {"load", "reconcile", "tick", "service", "idle", "poll", "retry", "watch", "exit", "stopped"}
    /\ pending \subseteq Cameras /\ at \in Cameras \cup {None}
    /\ desired \in [Cameras -> Wants] /\ failedWant \in [Cameras -> Wants \cup {None}]
    /\ phase = "retry" => \A c \in pending : failedWant[c] # None
    /\ gen \in [Slots -> Nat] /\ faults \in 0..MaxFaults
ServiceTypes ==
    /\ service \in {"none", "up", "broken"} /\ svcEpoch \in Nat /\ serviceFloor \in Nat
    /\ {available, required, retry, fightFailed} \subseteq BOOLEAN /\ attempts \in Nat

ItemsInv == \A c \in Running : ItemInv(c, item[c])

\* The part of it that is about the cameras' runtimes.
CamerasInv == ItemTypes /\ ItemsInv /\ SlotInv /\ EpochInv /\ FedInv
RuntimeInv == CamerasInv /\ LoopTypes /\ ServiceTypes /\ BundleInv /\ WishInv
-----------------------------------------------------------------------------
(* A handler is done with one camera: it has a new item, or none. *)
Fenceable(new) ==
    floor' = floor \/ \E n \in Nat : n <= epochs[new.slot] + 1 /\ floor' = [floor EXCEPT ![new.slot] = n]

Attended(c, new) ==
    /\ ItemInv(c, new) /\ item' = [item EXCEPT ![c] = new]
    /\ \A d \in Running : d # c => item[d].slot # new.slot
    /\ \E e \in Nat : epochs' = [epochs EXCEPT ![new.slot] = epochs[new.slot] + e] /\ new.epoch <= epochs[new.slot] + e
    /\ Fenceable(new)
    /\ ~new.paused => /\ floor'[new.slot] <= new.epoch
                      /\ new.stale \/ (service # "none" /\ new.svc = svcEpoch)

Released(c) ==
    /\ item' = [item EXCEPT ![c] = None] /\ floor' = floor
    /\ epochs' = epochs \/ \E s \in Slots, e \in Nat : epochs' = [epochs EXCEPT ![s] = epochs[s] + e]

LEMMA AttendedKeeps ==
    ASSUME CamerasInv, NEW c \in Cameras, NEW new \in Item, Attended(c, new), UNCHANGED <<service, svcEpoch>>
    PROVE  CamerasInv'
<1> USE DEF CamerasInv
<1>1. PICK e \in Nat : epochs' = [epochs EXCEPT ![new.slot] = epochs[new.slot] + e] /\ new.epoch <= epochs[new.slot] + e
    BY DEF Attended
<1>2. new.slot \in Slots /\ new.epoch \in Nat /\ epochs[new.slot] \in Nat /\ epochs[new.slot] + e \in Nat
    BY DEF Item, ItemTypes
<1>3. /\ item' \in [Cameras -> Item \cup {None}] /\ item'[c] = new
      /\ \A d \in Cameras : d # c => item'[d] = item[d]
    BY DEF Attended, ItemTypes
<1>4. /\ epochs' \in [Slots -> Nat] /\ epochs'[new.slot] = epochs[new.slot] + e
      /\ \A s \in Slots : s # new.slot => epochs'[s] = epochs[s]
    BY <1>1, <1>2 DEF ItemTypes
<1>5. /\ floor' \in [Slots -> Nat] /\ floor'[new.slot] <= epochs[new.slot] + 1
      /\ \A s \in Slots : s # new.slot => floor'[s] = floor[s]
  <2>1. CASE floor' = floor
      BY <1>2, <2>1 DEF ItemTypes, EpochInv
  <2>2. CASE floor' # floor
    <3>1. PICK n \in Nat : n <= epochs[new.slot] + 1 /\ floor' = [floor EXCEPT ![new.slot] = n]
        BY <2>2 DEF Attended, Fenceable
    <3> QED BY <1>2, <3>1 DEF ItemTypes
  <2> QED BY <2>1, <2>2
<1>6. \A d \in Running' : d = c \/ (d # c /\ d \in Running /\ item'[d] = item[d])
    BY <1>3 DEF Running
<1>7. \A d \in Running : item[d] \in Item /\ item[d].slot \in Slots /\ item[d].epoch \in Nat
    BY DEF ItemTypes, Running, Item
<1>8. \A d \in Running : d # c => item[d].slot # new.slot
    BY DEF Attended
<1>9. ItemTypes'
    BY <1>3, <1>4, <1>5 DEF ItemTypes
<1>10. ItemsInv'
    BY <1>3, <1>6 DEF ItemsInv, Attended
<1>11. SlotInv'
    BY <1>3, <1>6, <1>8 DEF SlotInv
<1>12. EpochInv'
  <2>1. \A s \in Slots : floor'[s] <= epochs'[s] + 1
    <3> TAKE s \in Slots
    <3>1. CASE s = new.slot
      <4>1. floor'[s] \in Nat /\ floor'[s] <= epochs[s] + 1 /\ epochs'[s] = epochs[s] + e /\ epochs[s] \in Nat
          BY <1>2, <1>4, <1>5, <3>1
      <4> QED BY <4>1
    <3>2. CASE s # new.slot
        BY <1>4, <1>5, <3>2 DEF EpochInv
    <3> QED BY <3>1, <3>2
  <2>2. ASSUME NEW d \in Running'
        PROVE  /\ item'[d].epoch <= epochs'[item'[d].slot]
               /\ ~item'[d].paused => floor'[item'[d].slot] <= item'[d].epoch
    <3>1. CASE d = c
        BY <1>1, <1>2, <1>3, <1>4, <3>1 DEF Attended
    <3>2. CASE d # c
        BY <1>4, <1>5, <1>6, <1>7, <1>8, <3>2 DEF EpochInv
    <3> QED BY <3>1, <3>2
  <2> QED BY <2>1, <2>2 DEF EpochInv
<1>13. FedInv'
    BY <1>3, <1>6 DEF FedInv, Attended
<1> QED BY <1>9, <1>10, <1>11, <1>12, <1>13

LEMMA ReleasedKeeps ==
    ASSUME CamerasInv, NEW c \in Cameras, Released(c), UNCHANGED <<service, svcEpoch>>
    PROVE  CamerasInv'
<1> USE DEF CamerasInv
<1>1. /\ item' \in [Cameras -> Item \cup {None}] /\ item'[c] = None
      /\ \A d \in Cameras : d # c => item'[d] = item[d]
    BY DEF Released, ItemTypes
<1>2. epochs' \in [Slots -> Nat] /\ \A s \in Slots : epochs[s] <= epochs'[s]
  <2>1. CASE epochs' = epochs
      BY <2>1 DEF ItemTypes
  <2>2. CASE epochs' # epochs
    <3>1. PICK s \in Slots, e \in Nat : epochs' = [epochs EXCEPT ![s] = epochs[s] + e]
        BY <2>2 DEF Released
    <3> QED BY <3>1 DEF ItemTypes
  <2> QED BY <2>1, <2>2
<1>3. \A d \in Running' : d # c /\ d \in Running /\ item'[d] = item[d]
    BY <1>1 DEF Running
<1>4. \A d \in Running : item[d].slot \in Slots /\ item[d].epoch \in Nat
    BY DEF ItemTypes, Running, Item
<1>5. floor' = floor /\ \A s \in Slots : floor[s] \in Nat /\ epochs[s] \in Nat /\ epochs'[s] \in Nat
    BY <1>2 DEF Released, ItemTypes
<1>6. EpochInv'
  <2>1. \A s \in Slots : floor'[s] <= epochs'[s] + 1
      BY <1>2, <1>5 DEF EpochInv
  <2>2. \A d \in Running' : /\ item'[d].epoch <= epochs'[item'[d].slot]
                            /\ ~item'[d].paused => floor'[item'[d].slot] <= item'[d].epoch
    <3> TAKE d \in Running'
    <3>1. PICK s \in Slots : s = item[d].slot
        BY <1>3, <1>4
    <3> QED BY <1>2, <1>3, <1>4, <1>5, <3>1 DEF EpochInv
  <2> QED BY <2>1, <2>2 DEF EpochInv
<1>7. ItemTypes' /\ ItemsInv' /\ SlotInv' /\ FedInv'
    BY <1>1, <1>2, <1>3, <1>5 DEF ItemTypes, ItemsInv, SlotInv, FedInv
<1> QED BY <1>6, <1>7

LEMMA OutcomeAttends ==
    ASSUME CamerasInv, NEW c \in Cameras, NEW i \in Item, NEW o, GoodOutcome(c, i, o),
           \A d \in Running : d # c => item[d].slot # i.slot,
           i.epoch <= epochs[i.slot],
           item' = [item EXCEPT ![c] = o.item],
           epochs' = [epochs EXCEPT ![i.slot] = @ + o.epochs],
           floor' = floor \/ floor' = [floor EXCEPT ![i.slot] = i.epoch + 1]
    PROVE  Attended(c, o.item)
<1>1. /\ o.item \in Item /\ ItemInv(c, o.item) /\ o.item.slot = i.slot /\ o.epochs \in {0, 1}
      /\ o.item.epoch = i.epoch \/ o.item.epoch = epochs[i.slot] + o.epochs
      /\ ~o.item.paused => /\ o.epochs = 1 /\ o.item.epoch = epochs[i.slot] + 1
                           /\ o.item.svc = svcEpoch /\ service # "none"
    BY DEF GoodOutcome, SameRuntime
<1>2. i.slot \in Slots /\ i.epoch \in Nat
    BY DEF Item
<1>3. epochs[i.slot] \in Nat /\ floor[i.slot] \in Nat /\ floor[i.slot] <= epochs[i.slot] + 1
    BY <1>2 DEF CamerasInv, ItemTypes, EpochInv
<1>4. PICK n \in Nat : n = epochs[i.slot] /\ i.epoch <= n /\ floor[i.slot] <= n + 1
    BY <1>3
<1>5. PICK e \in {0, 1} : e = o.epochs
    BY <1>1
<1>6. o.item.epoch <= n + e
    BY <1>1, <1>2, <1>4, <1>5
<1>7. epochs' = [epochs EXCEPT ![o.item.slot] = epochs[o.item.slot] + e] /\ o.item.epoch <= epochs[o.item.slot] + e
    BY <1>1, <1>4, <1>5, <1>6 DEF CamerasInv, ItemTypes
<1>8. e \in Nat
    OBVIOUS
<1>9. Fenceable(o.item)
  <2>1. i.epoch + 1 \in Nat /\ i.epoch + 1 <= epochs[o.item.slot] + 1
      BY <1>1, <1>2, <1>4
  <2> QED BY <1>1, <2>1 DEF Fenceable
<1>10. floor'[i.slot] <= n + 1
    BY <1>2, <1>4 DEF CamerasInv, ItemTypes
<1>11. ~o.item.paused => floor'[o.item.slot] <= o.item.epoch /\ service # "none" /\ o.item.svc = svcEpoch
    BY <1>1, <1>4, <1>10
<1> QED BY <1>1, <1>7, <1>8, <1>9, <1>11 DEF Attended

\* The runtimes after a step that is done with one camera, or that starts one anew.
LEMMA HandledKeeps ==
    ASSUME CamerasInv, NEW c \in Cameras, NEW i \in Item, NEW o, GoodOutcome(c, i, o),
           \A d \in Running : d # c => item[d].slot # i.slot,
           i.epoch <= epochs[i.slot],
           item' = [item EXCEPT ![c] = o.item],
           epochs' = [epochs EXCEPT ![i.slot] = @ + o.epochs],
           floor' = floor \/ floor' = [floor EXCEPT ![i.slot] = i.epoch + 1],
           UNCHANGED <<service, svcEpoch>>
    PROVE  CamerasInv'
BY OutcomeAttends, AttendedKeeps DEF GoodOutcome

LEMMA StartKeeps ==
    ASSUME CamerasInv, LoopTypes, svcEpoch \in Nat, NEW c \in Cameras, NEW w \in Wants, NEW s \in Slots, NEW g \in Nat,
           NEW n \in {0, 1},
           \A d \in Running : d # c => item[d].slot # s,
           StartAfter(c, w, s, g, n), UNCHANGED <<service, svcEpoch>>
    PROVE  /\ CamerasInv' /\ gen' \in [Slots -> Nat] /\ faults' \in 0..MaxFaults
           /\ \A d \in Cameras : d # c => item'[d] = item[d]
           /\ item'[c] # None => item'[c].want = w /\ item'[c].stale = (w # desired[c])
<1> DEFINE i == NewItem(c, w, s, g)
<1>1. PICK o \in Trio(c, i) :
        /\ TakesAlso(o, s, n)
        /\ item' = [item EXCEPT ![c] = IF o.ok THEN o.item ELSE None]
        /\ gen' = [gen EXCEPT ![s] = IF o.ok THEN g ELSE g + 1]
    BY DEF StartAfter
<1>2. /\ i \in Item /\ ItemInv(c, i) /\ i.paused /\ ~i.waiting /\ ~i.failed /\ ~i.done /\ i.want = w /\ i.slot = s
      /\ i.epoch = 0 /\ i.spawns = 0 /\ i.ingest = "none" /\ i.consumer = "none" /\ i.stale = (w # desired[c])
    BY NewItemIs
<1> HIDE DEF i
<1>3. Counters
    BY DEF Counters, CamerasInv, ItemTypes, LoopTypes
<1>4. GoodOutcome(c, i, o)
    BY <1>1, <1>2, <1>3, TrioIs
<1>5. epochs[s] \in Nat /\ 0 <= epochs[s] /\ floor' = floor
    BY DEF CamerasInv, ItemTypes, StartAfter
<1>6. epochs' = [epochs EXCEPT ![s] = @ + o.epochs] /\ faults' = faults + o.faults + n /\ faults' <= MaxFaults
    BY <1>1 DEF TakesAlso
<1>7. faults' \in 0..MaxFaults
  <2>1. o.faults \in {0, 1} /\ faults \in Nat /\ MaxFaults \in Nat
      BY <1>4, RuntimeAssumption DEF GoodOutcome, LoopTypes
  <2> QED BY <1>6, <2>1
<1>8. gen' \in [Slots -> Nat]
    BY <1>1 DEF LoopTypes
<1>9. CASE o.ok
  <2>1. item' = [item EXCEPT ![c] = o.item]
      BY <1>1, <1>9
  <2>2. CamerasInv'
      BY <1>2, <1>4, <1>5, <1>6, <2>1, HandledKeeps
  <2>3. item'[c] = o.item /\ \A d \in Cameras : d # c => item'[d] = item[d]
      BY <2>1 DEF CamerasInv, ItemTypes
  <2>4. o.item.want = w /\ o.item.stale = (w # desired[c])
      BY <1>2, <1>4 DEF GoodOutcome, SameRuntime
  <2> QED BY <1>7, <1>8, <2>2, <2>3, <2>4
<1>10. CASE ~o.ok
  <2>1. item' = [item EXCEPT ![c] = None]
      BY <1>1, <1>10
  <2>2. o.epochs \in Nat
      BY <1>4 DEF GoodOutcome
  <2>3. epochs' = [epochs EXCEPT ![s] = epochs[s] + o.epochs]
      BY <1>6 DEF CamerasInv, ItemTypes
  <2>4. Released(c)
      BY <1>5, <2>1, <2>2, <2>3 DEF Released
  <2>5. CamerasInv'
      BY <2>4, ReleasedKeeps
  <2>6. item'[c] = None /\ \A d \in Cameras : d # c => item'[d] = item[d]
      BY <2>1 DEF CamerasInv, ItemTypes
  <2> QED BY <1>7, <1>8, <2>5, <2>6
<1> QED BY <1>9, <1>10

-----------------------------------------------------------------------------
(* The main loop moves on, and the rest that a step leaves alone. *)
LEMMA FrameCameras == CamerasInv /\ UNCHANGED <<item, epochs, floor, service, svcEpoch>> => CamerasInv'
BY DEF CamerasInv, ItemTypes, ItemsInv, SlotInv, EpochInv, FedInv, Running

LEMMA FrameService ==
    ServiceTypes /\ BundleInv /\ UNCHANGED serviceVars => ServiceTypes' /\ BundleInv'
BY DEF ServiceTypes, BundleInv, serviceVars

\* What is desired is still so, and c is settled if it has to be.
LEMMA WishKeeps ==
    ASSUME WishInv, NEW c \in Cameras, UNCHANGED <<required, desired>>, \A d \in Cameras : d # c => item'[d] = item[d],
           Unsettled \subseteq Unsettled' \cup {c},
           item'[c] # None /\ c \notin Unsettled' /\ ~item'[c].stale => item'[c].want = desired[c]
    PROVE  WishInv'
<1>1. \A d \in Running' \ Unsettled' : d = c \/ d \in Running \ Unsettled
    BY DEF Running
<1>2. \A d \in Running' \ Unsettled' : ~item'[d].stale => item'[d].want = desired'[d]
    BY <1>1 DEF WishInv, Running
<1> QED BY <1>2 DEF WishInv

LEMMA WishFrame ==
    ASSUME WishInv, UNCHANGED <<required, desired, item>>, Unsettled \subseteq Unsettled'
    PROVE  WishInv'
BY DEF WishInv, Running

\* A handled camera wants what it wanted.
LEMMA WishSame ==
    ASSUME WishInv, NEW c \in Cameras, UNCHANGED <<required, desired>>, \A d \in Cameras : d # c => item'[d] = item[d],
           Unsettled \subseteq Unsettled', item[c] # None,
           item'[c] # None => item'[c].want = item[c].want /\ item'[c].stale = item[c].stale
    PROVE  WishInv'
<1>1. item'[c] # None /\ c \notin Unsettled' /\ ~item'[c].stale => item'[c].want = desired[c]
    BY DEF WishInv, Running
<1> QED BY <1>1, WishKeeps

\* Steps of the loop that touch no runtime and no service.
Moves == NoNewRevision \/ Reconciled \/ TickSkip \/ Polled \/ Retried \/ EndIteration \/ Unsafe
         \/ \E c \in Cameras : PollDone(c) \/ PollHealthy(c)

LEMMA MovesKeep == RuntimeInv /\ Moves => RuntimeInv'
<1> SUFFICES ASSUME RuntimeInv, Moves PROVE RuntimeInv'
    OBVIOUS
<1>1. UNCHANGED <<item, slotVars, serviceVars, wishVars>>
    BY DEF Moves, NoNewRevision, Reconciled, TickSkip, Polled, Retried, EndIteration, Unsafe, PollDone, PollHealthy, Keep
<1>2. CamerasInv' /\ ServiceTypes' /\ BundleInv'
    BY <1>1, FrameCameras, FrameService DEF RuntimeInv, slotVars, serviceVars
<1>3. LoopTypes'
  <2>1. faults' \in 0..MaxFaults
    <3>1. faults' = faults \/ (faults' = faults + 1 /\ faults < MaxFaults)
        BY DEF Moves, NoNewRevision, Reconciled, TickSkip, Polled, Retried, EndIteration, Unsafe, PollDone, PollHealthy, CanFault
    <3> QED BY <3>1, RuntimeAssumption DEF RuntimeInv, LoopTypes
  <2>2. /\ phase' \in {"load", "reconcile", "tick", "service", "idle", "poll", "retry", "watch", "exit", "stopped"}
        /\ pending' \subseteq Cameras /\ at' \in Cameras \cup {None}
        /\ phase' = "retry" => \A c \in pending' : failedWant[c] # None
      BY DEF Moves, NoNewRevision, Reconciled, TickSkip, Polled, Retried, EndIteration, Unsafe, PollDone, PollHealthy,
             NextPhase, Keep, Polls, Settle, RuntimeInv, LoopTypes
  <2> QED BY <1>1, <2>1, <2>2 DEF RuntimeInv, LoopTypes, wishVars, slotVars
<1>4. Unsettled \subseteq Unsettled'
    BY DEF Moves, NoNewRevision, Reconciled, TickSkip, Polled, Retried, EndIteration, Unsafe, PollDone, PollHealthy,
           NextPhase, Keep, Polls, Unsettled, RuntimeInv, LoopTypes
<1>5. WishInv'
    BY <1>1, <1>4, WishFrame DEF RuntimeInv, wishVars, serviceVars
<1> QED BY <1>2, <1>3, <1>5 DEF RuntimeInv


-----------------------------------------------------------------------------
(* Reconciliation: one camera is made what the loaded revision wants. *)
LEMMA ReconcileRest ==
    ASSUME RuntimeInv, NEW c \in Cameras, ReconcileStep(c), CamerasInv', gen' \in [Slots -> Nat], faults' \in 0..MaxFaults,
           failedWant' \in [Cameras -> Wants \cup {None}], \A d \in Cameras : d # c => item'[d] = item[d],
           item'[c] # None /\ ~item'[c].stale => item'[c].want = desired[c]
    PROVE  RuntimeInv'
<1>1. ServiceTypes' /\ BundleInv'
    BY FrameService DEF RuntimeInv, ReconcileStep
<1>2. LoopTypes'
    BY DEF RuntimeInv, LoopTypes, ReconcileStep
<1>3. Unsettled \subseteq Unsettled' \cup {c}
    BY DEF Unsettled, ReconcileStep
<1>4. WishInv'
    BY <1>3, WishKeeps DEF RuntimeInv, ReconcileStep, serviceVars
<1> QED BY <1>1, <1>2, <1>4 DEF RuntimeInv

\* What is remembered of a camera.
LEMMA RememberIs ==
    ASSUME failedWant \in [Cameras -> Wants \cup {None}], NEW c \in Cameras, NEW w \in Wants, Remember(c, w)
    PROVE  failedWant' \in [Cameras -> Wants \cup {None}]
BY DEF Remember

\* A start in a free slot disturbs no other camera.
LEMMA StartFreeKeeps ==
    ASSUME CamerasInv, LoopTypes, svcEpoch \in Nat, NEW c \in Cameras, NEW w \in Wants, StartFree(c, w),
           UNCHANGED <<service, svcEpoch>>
    PROVE  /\ CamerasInv' /\ gen' \in [Slots -> Nat] /\ faults' \in 0..MaxFaults
           /\ failedWant' \in [Cameras -> Wants \cup {None}]
           /\ \A d \in Cameras : d # c => item'[d] = item[d]
           /\ item' = item \/ (item'[c] # None => item'[c].want = w /\ item'[c].stale = (w # desired[c]))
<1>1. failedWant' \in [Cameras -> Wants \cup {None}]
    BY RememberIs DEF StartFree, LoopTypes
<1>2. CASE UNCHANGED <<item, slotVars, faults>>
    BY <1>1, <1>2, FrameCameras DEF slotVars, LoopTypes
<1>3. CASE \E s \in FreeSlots : Start(c, w, s, gen[s] + 1)
  <2>1. PICK s \in FreeSlots : Start(c, w, s, gen[s] + 1)
      BY <1>3
  <2>2. s \in Slots /\ gen[s] + 1 \in Nat /\ \A d \in Running : item[d].slot # s
      BY DEF FreeSlots, LoopTypes
  <2>3. StartAfter(c, w, s, gen[s] + 1, 0)
      BY <2>1 DEF Start
  <2> QED BY <1>1, <2>2, <2>3, StartKeeps
<1> QED BY <1>2, <1>3 DEF StartFree

\* A restart in the camera's own slot.
LEMMA RestartCameraKeeps ==
    ASSUME CamerasInv, LoopTypes, svcEpoch \in Nat, NEW c \in Cameras, NEW w \in Wants, item[c] # None, NEW n \in {0, 1},
           StartAfter(c, w, item[c].slot, gen[item[c].slot] + 1, n), UNCHANGED <<service, svcEpoch>>
    PROVE  /\ CamerasInv' /\ gen' \in [Slots -> Nat] /\ faults' \in 0..MaxFaults
           /\ \A d \in Cameras : d # c => item'[d] = item[d]
           /\ item'[c] # None => item'[c].want = w /\ item'[c].stale = (w # desired[c])
<1>1. item[c] \in Item /\ c \in Running
    BY DEF CamerasInv, ItemTypes, Running
<1>2. PICK s \in Slots : s = item[c].slot
    BY <1>1 DEF Item
<1>3. gen[s] + 1 \in Nat /\ \A d \in Running : d # c => item[d].slot # s
    BY <1>1, <1>2 DEF CamerasInv, SlotInv, LoopTypes
<1>4. StartAfter(c, w, s, gen[s] + 1, n)
    BY <1>2
<1> QED BY <1>3, <1>4, StartKeeps

LEMMA ReconcileRemovedKeeps ==
    ASSUME RuntimeInv, NEW c \in Cameras, ReconcileRemoved(c)
    PROVE  RuntimeInv'
<1>1. item[c] \in Item /\ item[c].slot \in Slots
    BY DEF ReconcileRemoved, Removed, RuntimeInv, CamerasInv, ItemTypes, Item
<1>2. gen' \in [Slots -> Nat] /\ UNCHANGED <<failedWant, faults, service, svcEpoch>>
    BY <1>1 DEF ReconcileRemoved, ReconcileStep, serviceVars, RuntimeInv, LoopTypes
<1>3. Released(c)
    BY DEF Released, ReconcileRemoved
<1>4. CamerasInv'
    BY <1>2, <1>3, ReleasedKeeps DEF RuntimeInv
<1>5. item'[c] = None /\ \A d \in Cameras : d # c => item'[d] = item[d]
    BY DEF ReconcileRemoved, RuntimeInv, CamerasInv, ItemTypes
<1> QED BY <1>2, <1>4, <1>5, ReconcileRest DEF ReconcileRemoved, RuntimeInv, LoopTypes

LEMMA ReconcileMovedKeeps ==
    ASSUME RuntimeInv, NEW c \in Cameras, ReconcileMoved(c)
    PROVE  RuntimeInv'
<1>1. /\ ReconcileStep(c) /\ item[c] # None /\ Remember(c, desired[c])
      /\ StartAfter(c, desired[c], item[c].slot, gen[item[c].slot] + 1, 0)
    BY DEF ReconcileMoved, Changed, RestartCamera, Start
<1>2. desired[c] \in Wants /\ svcEpoch \in Nat /\ UNCHANGED <<service, svcEpoch>>
    BY <1>1 DEF RuntimeInv, LoopTypes, ServiceTypes, ReconcileStep, serviceVars
<1>3. failedWant' \in [Cameras -> Wants \cup {None}]
    BY <1>1, <1>2, RememberIs DEF RuntimeInv, LoopTypes
<1>4. /\ CamerasInv' /\ gen' \in [Slots -> Nat] /\ faults' \in 0..MaxFaults
      /\ \A d \in Cameras : d # c => item'[d] = item[d]
      /\ item'[c] # None => item'[c].want = desired[c] /\ item'[c].stale = (desired[c] # desired[c])
    BY <1>1, <1>2, RestartCameraKeeps DEF RuntimeInv
<1> QED BY <1>1, <1>3, <1>4, ReconcileRest

LEMMA ReconcileAddedKeeps ==
    ASSUME RuntimeInv, NEW c \in Cameras, ReconcileAdded(c)
    PROVE  RuntimeInv'
<1>1. ReconcileStep(c) /\ item[c] = None /\ desired[c] \in Wants
    BY DEF ReconcileAdded, RuntimeInv, LoopTypes
<1>2. svcEpoch \in Nat /\ UNCHANGED <<service, svcEpoch>>
    BY <1>1 DEF RuntimeInv, ServiceTypes, ReconcileStep, serviceVars
<1>3. CASE UNCHANGED <<failedWant, item, slotVars, faults>>
  <2>1. CamerasInv'
      BY <1>2, <1>3, FrameCameras DEF RuntimeInv, slotVars
  <2> QED BY <1>1, <1>3, <2>1, ReconcileRest DEF RuntimeInv, LoopTypes, slotVars
<1>4. CASE StartFree(c, desired[c])
  <2>1. /\ CamerasInv' /\ gen' \in [Slots -> Nat] /\ faults' \in 0..MaxFaults
        /\ failedWant' \in [Cameras -> Wants \cup {None}]
        /\ \A d \in Cameras : d # c => item'[d] = item[d]
        /\ item' = item \/ (item'[c] # None => item'[c].want = desired[c])
      BY <1>1, <1>2, <1>4, StartFreeKeeps DEF RuntimeInv
  <2> QED BY <1>1, <2>1, ReconcileRest
<1> QED BY <1>3, <1>4 DEF ReconcileAdded

\* An item that is not fed changes hands within its slot, without a new epoch.
LEMMA PausedAttends ==
    ASSUME CamerasInv, NEW c \in Cameras, item[c] # None, NEW j \in Item, ItemInv(c, j), j.paused,
           j.slot = item[c].slot, j.epoch = item[c].epoch, item' = [item EXCEPT ![c] = j], epochs' = epochs,
           floor' = floor \/ floor' = FloorOf(item[c])
    PROVE  Attended(c, j)
<1>1. item[c] \in Item /\ c \in Running /\ j.slot \in Slots
    BY DEF CamerasInv, ItemTypes, Running, Item
<1>2. PICK e, n \in Nat : e = item[c].epoch /\ n = epochs[j.slot] /\ e <= n
    BY <1>1 DEF CamerasInv, ItemTypes, EpochInv, Item
<1>3. \A d \in Running : d # c => item[d].slot # j.slot
    BY <1>1 DEF CamerasInv, SlotInv
<1>4. epochs' = [epochs EXCEPT ![j.slot] = epochs[j.slot] + 0] /\ j.epoch <= epochs[j.slot] + 0
    BY <1>1, <1>2 DEF CamerasInv, ItemTypes
<1>5. Fenceable(j)
  <2>1. FloorOf(item[c]) = [floor EXCEPT ![j.slot] = e + 1]
      BY <1>2 DEF FloorOf
  <2>2. e + 1 \in Nat /\ e + 1 <= epochs[j.slot] + 1
      BY <1>2
  <2> QED BY <2>1, <2>2 DEF Fenceable
<1> QED BY <1>3, <1>4, <1>5 DEF Attended

LEMMA ReconcileFileKeeps ==
    ASSUME RuntimeInv, NEW c \in Cameras, ReconcileFile(c)
    PROVE  RuntimeInv'
<1>1. /\ ReconcileStep(c) /\ item[c] # None /\ c \in Files /\ failedWant' = [failedWant EXCEPT ![c] = None]
      /\ gen' = gen /\ epochs' = epochs /\ faults' = faults
    BY DEF ReconcileFile, Changed
<1>2. item[c] \in Item /\ ItemInv(c, item[c]) /\ desired[c] \in Wants /\ UNCHANGED <<service, svcEpoch>>
    BY <1>1 DEF RuntimeInv, CamerasInv, ItemTypes, ItemsInv, Running, LoopTypes, ReconcileStep, serviceVars
<1>3. failedWant' \in [Cameras -> Wants \cup {None}] /\ gen' \in [Slots -> Nat] /\ faults' \in 0..MaxFaults
    BY <1>1 DEF RuntimeInv, LoopTypes
<1>4. CASE item[c].want = desired[c] /\ UNCHANGED <<item, floor>>
  <2>1. CamerasInv'
      BY <1>1, <1>2, <1>4, FrameCameras DEF RuntimeInv
  <2> QED BY <1>1, <1>3, <1>4, <2>1, ReconcileRest
<1>5. CASE /\ item' = [item EXCEPT ![c] = [Fenced(@, FALSE) EXCEPT !.want = desired[c]]]
           /\ floor' = FloorOf(item[c])
  <2> DEFINE i == Fenced(item[c], FALSE)
             j == [i EXCEPT !.want = desired[c]]
  <2>1. item' = [item EXCEPT ![c] = j]
      BY <1>5
  <2>2. /\ i \in Item /\ i.paused /\ ~i.waiting /\ i.failed /\ i.slot = item[c].slot /\ i.epoch = item[c].epoch
        /\ i.done = item[c].done /\ ItemInv(c, i)
      BY <1>2, FencedIs, FencedGood
  <2> HIDE DEF i
  <2>3. /\ j \in Item /\ j.paused /\ ~j.waiting /\ j.failed /\ j.slot = i.slot /\ j.epoch = i.epoch
        /\ j.want = desired[c] /\ j.eof = i.eof /\ j.spawns = i.spawns /\ j.done = i.done
      BY <1>2, <2>2 DEF Item
  <2> HIDE DEF j
  <2>4. ItemInv(c, j)
      BY <1>1, <2>2, <2>3 DEF ItemInv
  <2>5. Attended(c, j)
      BY <1>1, <1>5, <2>1, <2>2, <2>3, <2>4, PausedAttends DEF RuntimeInv
  <2>6. CamerasInv'
      BY <1>2, <2>3, <2>5, AttendedKeeps DEF RuntimeInv
  <2>7. item'[c] = j /\ \A d \in Cameras : d # c => item'[d] = item[d]
      BY <2>1 DEF RuntimeInv, CamerasInv, ItemTypes
  <2> QED BY <1>1, <1>3, <2>3, <2>6, <2>7, ReconcileRest
<1> QED BY <1>4, <1>5 DEF ReconcileFile

LEMMA ReconcileLiveKeeps ==
    ASSUME RuntimeInv, NEW c \in Cameras, ReconcileLive(c)
    PROVE  RuntimeInv'
<1> DEFINE i == item[c]
           j == [i EXCEPT !.want = desired[c], !.failed = FALSE]
<1>1. ReconcileStep(c) /\ i # None /\ c \notin Files /\ failedWant' = [failedWant EXCEPT ![c] = None] /\ gen' = gen
    BY DEF ReconcileLive, Changed
<1>2. i \in Item /\ ItemInv(c, i) /\ c \in Running /\ desired[c] \in Wants /\ UNCHANGED <<service, svcEpoch>>
    BY <1>1 DEF RuntimeInv, CamerasInv, ItemTypes, ItemsInv, Running, LoopTypes, ReconcileStep, serviceVars
<1>3. failedWant' \in [Cameras -> Wants \cup {None}] /\ gen' \in [Slots -> Nat] /\ faults \in 0..MaxFaults
    BY <1>1 DEF RuntimeInv, LoopTypes
<1>4. CASE i.want = desired[c] /\ UNCHANGED <<item, epochs, floor, faults>>
  <2>1. CamerasInv'
      BY <1>1, <1>2, <1>4, FrameCameras DEF RuntimeInv
  <2> QED BY <1>1, <1>3, <1>4, <2>1, ReconcileRest
<1>5. CASE /\ Fights(i.want) /\ ~Fights(desired[c])
           /\ item' = [item EXCEPT ![c] = [Fenced(i, FALSE) EXCEPT !.want = desired[c], !.failed = FALSE]]
           /\ floor' = FloorOf(i) /\ UNCHANGED <<epochs, faults>>
  <2> DEFINE f == Fenced(i, FALSE)
             k == [f EXCEPT !.want = desired[c], !.failed = FALSE]
  <2>1. item' = [item EXCEPT ![c] = k]
      BY <1>5
  <2>2. /\ f \in Item /\ f.paused /\ ~f.waiting /\ f.failed /\ f.slot = i.slot /\ f.epoch = i.epoch
        /\ f.done = i.done /\ f.eof = i.eof
      BY <1>2, FencedIs
  <2> HIDE DEF f
  <2>3. /\ k \in Item /\ k.paused /\ ~k.waiting /\ ~k.failed /\ k.slot = f.slot /\ k.epoch = f.epoch
        /\ k.want = desired[c] /\ k.eof = f.eof /\ k.done = f.done
      BY <1>2, <2>2 DEF Item
  <2> HIDE DEF k
  <2>4. ItemInv(c, k)
      BY <1>1, <1>2, <2>2, <2>3 DEF ItemInv
  <2>5. Attended(c, k)
      BY <1>1, <1>5, <2>1, <2>2, <2>3, <2>4, PausedAttends DEF RuntimeInv
  <2>6. CamerasInv'
      BY <1>2, <2>3, <2>5, AttendedKeeps DEF RuntimeInv
  <2>7. item'[c] = k /\ \A d \in Cameras : d # c => item'[d] = item[d]
      BY <2>1 DEF RuntimeInv, CamerasInv, ItemTypes
  <2>8. faults' \in 0..MaxFaults
      BY <1>3, <1>5
  <2> QED BY <1>1, <1>3, <2>3, <2>6, <2>7, <2>8, ReconcileRest
<1>6. CASE /\ ~Fights(i.want) /\ Fights(desired[c])
           /\ \E o \in EnsureCaught(j, FALSE) : item' = [item EXCEPT ![c] = o.item] /\ Takes(o, i.slot)
           /\ UNCHANGED floor
  <2>1. PICK o \in EnsureCaught(j, FALSE) : item' = [item EXCEPT ![c] = o.item] /\ Takes(o, i.slot)
      BY <1>6
  <2>2. /\ j \in Item /\ j.paused = i.paused /\ ~j.failed /\ j.want = desired[c] /\ j.slot = i.slot
        /\ j.epoch = i.epoch /\ j.waiting = i.waiting /\ j.done = i.done /\ j.eof = i.eof /\ j.stale = i.stale
        /\ j.ingest = i.ingest /\ j.spawns = i.spawns
      BY <1>2 DEF Item
  <2> HIDE DEF j
  <2>3. j.paused /\ ItemInv(c, j)
    <3>1. i.paused /\ ~i.waiting
        BY <1>2, <1>6 DEF ItemInv
    <3>2. ~i.done \/ i.failed
        BY <1>1, <1>2 DEF ItemInv
    <3> QED BY <1>1, <1>2, <1>6, <2>2, <3>1, <3>2 DEF ItemInv
  <2>4. Counters
      BY DEF Counters, RuntimeInv, CamerasInv, ItemTypes, LoopTypes, ServiceTypes
  <2>5. GoodOutcome(c, j, o)
      BY <1>1, <2>1, <2>2, <2>3, <2>4, EnsureCaughtIs
  <2>6. \A d \in Running : d # c => item[d].slot # j.slot
      BY <1>2, <2>2 DEF RuntimeInv, CamerasInv, SlotInv
  <2>7. j.epoch <= epochs[j.slot]
      BY <1>2, <2>2 DEF RuntimeInv, CamerasInv, EpochInv
  <2>8. epochs' = [epochs EXCEPT ![j.slot] = @ + o.epochs] /\ faults' = faults + o.faults /\ faults' <= MaxFaults
      BY <1>3, <2>1, <2>2, <2>5 DEF Takes, TakesAlso, GoodOutcome
  <2>9. CamerasInv'
      BY <1>2, <1>6, <2>1, <2>2, <2>5, <2>6, <2>7, <2>8, HandledKeeps DEF RuntimeInv
  <2>10. faults' \in 0..MaxFaults
      BY <1>3, <2>5, <2>8, RuntimeAssumption DEF GoodOutcome
  <2>11. item'[c] = o.item /\ \A d \in Cameras : d # c => item'[d] = item[d]
      BY <2>1 DEF RuntimeInv, CamerasInv, ItemTypes
  <2>12. o.item.want = desired[c]
      BY <2>2, <2>5 DEF GoodOutcome, SameRuntime
  <2> QED BY <1>1, <1>3, <2>9, <2>10, <2>11, <2>12, ReconcileRest
<1> QED BY <1>4, <1>5, <1>6 DEF ReconcileLive

-----------------------------------------------------------------------------
(* The poll, the retries and the watchdog. *)
LEMMA HandledRest ==
    ASSUME RuntimeInv, NEW c \in Cameras, UNCHANGED <<revision, desired, serviceVars>>,
           phase \in {"poll", "retry", "watch"}, phase' = phase \/ phase' = "exit", pending' \subseteq pending,
           at' \in Cameras \cup {None},
           phase' = "retry" => c \notin pending' /\ \A d \in Cameras : d # c => failedWant'[d] = failedWant[d],
           CamerasInv', gen' \in [Slots -> Nat], faults' \in 0..MaxFaults, failedWant' \in [Cameras -> Wants \cup {None}],
           \A d \in Cameras : d # c => item'[d] = item[d],
           item' = item \/ (item'[c] # None /\ ~item'[c].stale => item'[c].want = desired[c])
    PROVE  RuntimeInv'
<1>1. ServiceTypes' /\ BundleInv'
    BY FrameService DEF RuntimeInv
<1>2. LoopTypes'
    BY DEF RuntimeInv, LoopTypes
<1>3. Unsettled \subseteq Unsettled' \cup {c} /\ Unsettled = {}
    BY DEF Unsettled
<1>4. item'[c] # None /\ ~item'[c].stale => item'[c].want = desired[c]
    BY <1>3 DEF RuntimeInv, WishInv, Running
<1>5. WishInv'
    BY <1>3, <1>4, WishKeeps DEF RuntimeInv, serviceVars
<1> QED BY <1>1, <1>2, <1>5 DEF RuntimeInv

\* Another consumer, or none, in the place of one that has been withdrawn.
LEMMA RestartKeeps ==
    ASSUME RuntimeInv, NEW c \in Cameras, item[c] # None, NEW j \in Item, ItemInv(c, j), j.paused,
           SameRuntime(item[c], j), j.epoch = item[c].epoch, floor' = floor \/ floor' = FloorOf(item[c]),
           NEW n \in {0, 1}, NEW o \in Restart(c, j), item' = [item EXCEPT ![c] = o.item],
           TakesAlso(o, item[c].slot, n), UNCHANGED <<service, svcEpoch>>
    PROVE  /\ CamerasInv' /\ faults' \in 0..MaxFaults
           /\ \A d \in Cameras : d # c => item'[d] = item[d]
           /\ item'[c].want = item[c].want /\ item'[c].stale = item[c].stale
<1>1. item[c] \in Item /\ c \in Running /\ j.slot = item[c].slot
    BY DEF RuntimeInv, CamerasInv, ItemTypes, Running, SameRuntime
<1>2. Counters
    BY DEF Counters, RuntimeInv, CamerasInv, ItemTypes, LoopTypes, ServiceTypes
<1>3. GoodOutcome(c, j, o)
    BY <1>2, RestartIs
<1>4. /\ \A d \in Running : d # c => item[d].slot # j.slot
      /\ j.epoch <= epochs[j.slot]
    BY <1>1 DEF RuntimeInv, CamerasInv, SlotInv, EpochInv
<1>5. /\ epochs' = [epochs EXCEPT ![j.slot] = @ + o.epochs]
      /\ floor' = floor \/ floor' = [floor EXCEPT ![j.slot] = j.epoch + 1]
      /\ faults' = faults + o.faults + n /\ faults' <= MaxFaults
    BY <1>1 DEF TakesAlso, FloorOf
<1>6. CamerasInv'
    BY <1>3, <1>4, <1>5, HandledKeeps DEF RuntimeInv
<1>7. faults' \in 0..MaxFaults
  <2>1. faults \in Nat /\ MaxFaults \in Nat /\ o.faults \in {0, 1}
      BY <1>3, RuntimeAssumption DEF RuntimeInv, LoopTypes, GoodOutcome
  <2> QED BY <1>5, <2>1
<1>8. item'[c] = o.item /\ \A d \in Cameras : d # c => item'[d] = item[d]
    BY DEF RuntimeInv, CamerasInv, ItemTypes
<1>9. o.item.want = item[c].want /\ o.item.stale = item[c].stale
    BY <1>3 DEF GoodOutcome, SameRuntime
<1> QED BY <1>6, <1>7, <1>8, <1>9

LEMMA RefenceKeeps ==
    ASSUME RuntimeInv, NEW c \in Cameras, item[c] # None, floor' = FloorOf(item[c]), NEW n \in {0, 1},
           NEW o \in Restart(c, Fenced(item[c], FALSE)), item' = [item EXCEPT ![c] = o.item],
           TakesAlso(o, item[c].slot, n), UNCHANGED <<service, svcEpoch>>
    PROVE  /\ CamerasInv' /\ faults' \in 0..MaxFaults
           /\ \A d \in Cameras : d # c => item'[d] = item[d]
           /\ item'[c].want = item[c].want /\ item'[c].stale = item[c].stale
<1> DEFINE j == Fenced(item[c], FALSE)
<1>1. item[c] \in Item /\ ItemInv(c, item[c])
    BY DEF RuntimeInv, CamerasInv, ItemTypes, ItemsInv, Running
<1>2. j \in Item /\ j.paused /\ SameRuntime(item[c], j) /\ j.epoch = item[c].epoch /\ ItemInv(c, j)
    BY <1>1, FencedIs, FencedGood DEF SameRuntime
<1> HIDE DEF j
<1>3. o \in Restart(c, j)
    BY DEF j
<1> QED BY <1>2, <1>3, RestartKeeps

\* In the middle of a round of the poll.
LEMMA PolledKeeps ==
    ASSUME RuntimeInv, NEW c \in Cameras, Polls(c), UNCHANGED <<phase, revision, desired, serviceVars>>,
           pending' \subseteq pending, at' \in {c, None}, gen' = gen, failedWant' = failedWant, CamerasInv',
           faults' \in 0..MaxFaults, \A d \in Cameras : d # c => item'[d] = item[d],
           item'[c] # None => item'[c].want = item[c].want /\ item'[c].stale = item[c].stale
    PROVE  RuntimeInv'
<1>1. phase = "poll" /\ at' \in Cameras \cup {None} /\ c \in Running
    BY DEF Polls, Running
<1>2. gen' \in [Slots -> Nat] /\ failedWant' \in [Cameras -> Wants \cup {None}]
    BY DEF RuntimeInv, LoopTypes
<1>3. item'[c] # None /\ ~item'[c].stale => item'[c].want = desired[c]
    BY <1>1 DEF RuntimeInv, WishInv, Unsettled
<1> QED BY <1>1, <1>2, <1>3, HandledRest

LEMMA PollFightKeeps ==
    ASSUME RuntimeInv, NEW c \in Cameras, PollFight(c)
    PROVE  RuntimeInv'
<1> DEFINE i == item[c]
<1>1. Polls(c) /\ i # None /\ UNCHANGED <<phase, revision, desired, serviceVars>>
    BY DEF PollFight, Polls
<1>2. UNCHANGED <<service, svcEpoch>>
    BY <1>1 DEF serviceVars
<1>3. i \in Item /\ ItemInv(c, i)
    BY <1>1 DEF RuntimeInv, CamerasInv, ItemTypes, ItemsInv, Running
<1>4. CASE /\ i.failed /\ Fights(i.want)
           /\ \E o \in Restart(c, i) : item' = [item EXCEPT ![c] = o.item] /\ Takes(o, i.slot)
           /\ at' = c /\ UNCHANGED <<pending, gen, floor, failedWant>>
  <2>1. PICK o \in Restart(c, i) : item' = [item EXCEPT ![c] = o.item] /\ TakesAlso(o, i.slot, 0)
      BY <1>4 DEF Takes
  <2>2. i.paused /\ SameRuntime(i, i)
      BY <1>3, <1>4 DEF ItemInv, SameRuntime, Item
  <2>3. /\ CamerasInv' /\ faults' \in 0..MaxFaults
        /\ \A d \in Cameras : d # c => item'[d] = item[d]
        /\ item'[c].want = i.want /\ item'[c].stale = i.stale
      BY <1>1, <1>2, <1>3, <1>4, <2>1, <2>2, RestartKeeps
  <2> QED BY <1>1, <1>4, <2>3, PolledKeeps
<1>5. CASE Refence(c) /\ Settle(c)
  <2>1. PICK o \in Restart(c, Fenced(i, FALSE)) : item' = [item EXCEPT ![c] = o.item] /\ TakesAlso(o, i.slot, 0)
      BY <1>5 DEF Refence, Takes
  <2>2. floor' = FloorOf(i) /\ gen' = gen /\ failedWant' = failedWant /\ pending' \subseteq pending /\ at' = None
      BY <1>5 DEF Refence, Settle
  <2>3. /\ CamerasInv' /\ faults' \in 0..MaxFaults
        /\ \A d \in Cameras : d # c => item'[d] = item[d]
        /\ item'[c].want = i.want /\ item'[c].stale = i.stale
      BY <1>1, <1>2, <2>1, <2>2, RefenceKeeps
  <2> QED BY <1>1, <2>2, <2>3, PolledKeeps
<1>6. CASE at' = c /\ UNCHANGED <<pending, item, slotVars, failedWant, faults>>
  <2>1. CamerasInv' /\ gen' = gen /\ faults' \in 0..MaxFaults
      BY <1>2, <1>6, FrameCameras DEF RuntimeInv, slotVars, LoopTypes
  <2> QED BY <1>1, <1>6, <2>1, PolledKeeps
<1> QED BY <1>4, <1>5, <1>6 DEF PollFight

\* A camera whose file is over.
LEMMA DoneKeeps ==
    ASSUME RuntimeInv, NEW c \in Cameras, item[c] # None, NEW j \in Item, item' = [item EXCEPT ![c] = j], ItemInv(c, j),
           j.slot = item[c].slot, j.epoch = item[c].epoch, j.paused = item[c].paused, j.svc = item[c].svc,
           j.stale = item[c].stale, UNCHANGED <<epochs, floor, service, svcEpoch>>
    PROVE  CamerasInv' /\ item'[c] = j /\ \A d \in Cameras : d # c => item'[d] = item[d]
<1>1. item[c] \in Item /\ c \in Running /\ item[c].slot \in Slots /\ item[c].epoch \in Nat
    BY DEF RuntimeInv, CamerasInv, ItemTypes, Running, Item
<1>2. \A d \in Running : d # c => item[d].slot # j.slot
    BY <1>1 DEF RuntimeInv, CamerasInv, SlotInv
<1>3. epochs' = [epochs EXCEPT ![j.slot] = epochs[j.slot] + 0] /\ j.epoch <= epochs[j.slot] + 0
    BY <1>1 DEF RuntimeInv, CamerasInv, ItemTypes, EpochInv
<1>4. ~j.paused => /\ floor'[j.slot] <= j.epoch
                   /\ j.stale \/ (service # "none" /\ j.svc = svcEpoch)
    BY <1>1 DEF RuntimeInv, CamerasInv, EpochInv, FedInv
<1>5. Attended(c, j)
    BY <1>2, <1>3, <1>4 DEF Attended, Fenceable
<1>6. CamerasInv'
    BY <1>5, AttendedKeeps DEF RuntimeInv
<1> QED BY <1>6 DEF RuntimeInv, CamerasInv, ItemTypes

LEMMA PollLatchedKeeps ==
    ASSUME RuntimeInv, NEW c \in Cameras, PollLatched(c)
    PROVE  RuntimeInv'
<1> DEFINE i == item[c]
           j == [i EXCEPT !.done = TRUE, !.consumer = "none"]
<1>1. Polls(c) /\ i # None /\ Settle(c) /\ c \in Files /\ i.failed /\ UNCHANGED <<slotVars, faults, phase, wishVars, serviceVars>>
    BY DEF PollLatched, Polls, Keep
<1>2. i \in Item /\ ItemInv(c, i)
    BY <1>1 DEF RuntimeInv, CamerasInv, ItemTypes, ItemsInv, Running
<1>3. item' = [item EXCEPT ![c] = j]
    BY DEF PollLatched
<1>4. /\ j \in Item /\ j.done /\ j.consumer = "none" /\ j.failed /\ j.slot = i.slot /\ j.epoch = i.epoch
      /\ j.paused = i.paused /\ j.svc = i.svc /\ j.stale = i.stale /\ j.want = i.want /\ j.waiting = i.waiting
      /\ j.spawns = i.spawns
    BY <1>1, <1>2 DEF Item
<1> HIDE DEF j
<1>5. ItemInv(c, j)
    BY <1>1, <1>2, <1>4 DEF ItemInv
<1>6. CamerasInv' /\ item'[c] = j /\ \A d \in Cameras : d # c => item'[d] = item[d]
    BY <1>1, <1>3, <1>4, <1>5, DoneKeeps DEF slotVars, serviceVars
<1>7. /\ pending' \subseteq pending /\ at' = None /\ faults' \in 0..MaxFaults /\ gen' = gen /\ failedWant' = failedWant
      /\ UNCHANGED <<revision, desired>>
    BY <1>1 DEF Settle, RuntimeInv, LoopTypes, slotVars, wishVars
<1> QED BY <1>1, <1>4, <1>6, <1>7, PolledKeeps

LEMMA PollEndKeeps ==
    ASSUME RuntimeInv, NEW c \in Cameras, PollEnd(c)
    PROVE  RuntimeInv'
<1> DEFINE i == item[c]
           j == [i EXCEPT !.done = TRUE]
<1>1. /\ Polls(c) /\ i # None /\ i.ingest = "exited" /\ i.eof /\ UNCHANGED <<phase, revision, desired, serviceVars>>
      /\ pending' \subseteq pending /\ at' = None
    BY DEF PollEnd, Polls, Settle, AtEnd
<1>2. UNCHANGED <<service, svcEpoch>>
    BY <1>1 DEF serviceVars
<1>3. i \in Item /\ ItemInv(c, i)
    BY <1>1 DEF RuntimeInv, CamerasInv, ItemTypes, ItemsInv, Running
<1>4. CASE UNCHANGED <<item, slotVars, failedWant, faults>>
  <2>1. CamerasInv' /\ gen' = gen /\ faults' \in 0..MaxFaults
      BY <1>2, <1>4, FrameCameras DEF RuntimeInv, slotVars, LoopTypes
  <2> QED BY <1>1, <1>4, <2>1, PolledKeeps
<1>5. CASE Refence(c)
  <2>1. PICK o \in Restart(c, Fenced(i, FALSE)) : item' = [item EXCEPT ![c] = o.item] /\ TakesAlso(o, i.slot, 0)
      BY <1>5 DEF Refence, Takes
  <2>2. floor' = FloorOf(i) /\ gen' = gen /\ failedWant' = failedWant
      BY <1>5 DEF Refence
  <2>3. /\ CamerasInv' /\ faults' \in 0..MaxFaults
        /\ \A d \in Cameras : d # c => item'[d] = item[d]
        /\ item'[c].want = i.want /\ item'[c].stale = i.stale
      BY <1>1, <1>2, <2>1, <2>2, RefenceKeeps
  <2> QED BY <1>1, <2>2, <2>3, PolledKeeps
<1>6. CASE i.consumer \in {"none", "exited"} /\ item' = [item EXCEPT ![c].done = TRUE] /\ UNCHANGED <<slotVars, failedWant, faults>>
  <2>1. item' = [item EXCEPT ![c] = j]
      BY <1>6
  <2>2. /\ j \in Item /\ j.done /\ j.consumer = i.consumer /\ j.failed = i.failed /\ j.slot = i.slot /\ j.epoch = i.epoch
        /\ j.paused = i.paused /\ j.svc = i.svc /\ j.stale = i.stale /\ j.want = i.want /\ j.waiting = i.waiting
        /\ j.spawns = i.spawns /\ j.ingest = i.ingest /\ j.eof = i.eof
      BY <1>3 DEF Item
  <2> HIDE DEF j
  <2>3. c \in Files /\ ~i.waiting /\ (Fights(i.want) /\ ~i.failed => i.consumer = "exited")
      BY <1>1, <1>3, <1>6 DEF ItemInv
  <2>4. ItemInv(c, j)
      BY <1>1, <1>3, <2>2, <2>3 DEF ItemInv
  <2>5. CamerasInv' /\ item'[c] = j /\ \A d \in Cameras : d # c => item'[d] = item[d]
      BY <1>1, <1>2, <1>6, <2>1, <2>2, <2>4, DoneKeeps DEF slotVars
  <2>6. faults' \in 0..MaxFaults /\ gen' = gen
      BY <1>6 DEF RuntimeInv, LoopTypes, slotVars
  <2> QED BY <1>1, <1>6, <2>2, <2>5, <2>6, PolledKeeps
<1> QED BY <1>4, <1>5, <1>6 DEF PollEnd

LEMMA PollIngestKeeps ==
    ASSUME RuntimeInv, NEW c \in Cameras, PollIngest(c)
    PROVE  RuntimeInv'
<1>1. /\ phase = "poll" /\ item[c] # None /\ UNCHANGED <<phase, revision, desired, serviceVars>>
      /\ pending' \subseteq pending /\ at' = None
    BY DEF PollIngest, Polls, Settle
<1>2. UNCHANGED <<service, svcEpoch>> /\ svcEpoch \in Nat /\ item[c].want \in Wants
    BY <1>1 DEF serviceVars, RuntimeInv, CamerasInv, ItemTypes, ServiceTypes, Item
<1>3. CASE UNCHANGED <<item, slotVars, failedWant, faults>>
  <2>1. CamerasInv' /\ gen' \in [Slots -> Nat] /\ faults' \in 0..MaxFaults /\ failedWant' \in [Cameras -> Wants \cup {None}]
      BY <1>2, <1>3, FrameCameras DEF RuntimeInv, slotVars, LoopTypes
  <2> QED BY <1>1, <1>3, <2>1, HandledRest
<1>4. CASE RestartCamera(c, item[c].want) /\ Remember(c, item[c].want)
  <2>1. StartAfter(c, item[c].want, item[c].slot, gen[item[c].slot] + 1, 0)
      BY <1>4 DEF RestartCamera, Start
  <2>2. failedWant' \in [Cameras -> Wants \cup {None}]
      BY <1>2, <1>4, RememberIs DEF RuntimeInv, LoopTypes
  <2>3. /\ CamerasInv' /\ gen' \in [Slots -> Nat] /\ faults' \in 0..MaxFaults
        /\ \A d \in Cameras : d # c => item'[d] = item[d]
        /\ item'[c] # None => item'[c].want = item[c].want /\ item'[c].stale = (item[c].want # desired[c])
      BY <1>1, <1>2, <2>1, RestartCameraKeeps DEF RuntimeInv
  <2> QED BY <1>1, <2>2, <2>3, HandledRest
<1> QED BY <1>3, <1>4 DEF PollIngest

LEMMA RetryFailedKeeps ==
    ASSUME RuntimeInv, NEW c \in Cameras, RetryFailed(c)
    PROVE  RuntimeInv'
<1> DEFINE w == failedWant[c]
<1>1. /\ phase = "retry" /\ UNCHANGED <<phase, revision, desired, serviceVars>> /\ c \in pending
      /\ pending' = pending \ {c} /\ at' = None /\ StartFree(c, w)
    BY DEF RetryFailed, Settle
<1>2. UNCHANGED <<service, svcEpoch>> /\ svcEpoch \in Nat /\ w \in Wants
    BY <1>1 DEF serviceVars, RuntimeInv, ServiceTypes, LoopTypes
<1>3. \A d \in Cameras : d # c => failedWant'[d] = failedWant[d]
    BY <1>1 DEF StartFree, Remember, RuntimeInv, LoopTypes
<1> HIDE DEF w
<1>4. /\ CamerasInv' /\ gen' \in [Slots -> Nat] /\ faults' \in 0..MaxFaults
      /\ failedWant' \in [Cameras -> Wants \cup {None}]
      /\ \A d \in Cameras : d # c => item'[d] = item[d]
      /\ item' = item \/ (item'[c] # None => item'[c].want = w /\ item'[c].stale = (w # desired[c]))
    BY <1>1, <1>2, StartFreeKeeps DEF RuntimeInv
<1> QED BY <1>1, <1>3, <1>4, HandledRest

LEMMA WatchFightKeeps ==
    ASSUME RuntimeInv, NEW c \in Cameras, WatchFight(c)
    PROVE  RuntimeInv'
<1>1. /\ phase = "watch" /\ item[c] # None /\ floor' = FloorOf(item[c])
      /\ UNCHANGED <<loopVars, gen, wishVars, serviceVars>>
    BY DEF WatchFight, Watch
<1>2. PICK o \in Restart(c, Fenced(item[c], FALSE)) : item' = [item EXCEPT ![c] = o.item] /\ TakesAlso(o, item[c].slot, 1)
    BY DEF WatchFight
<1>3. /\ CamerasInv' /\ faults' \in 0..MaxFaults
      /\ \A d \in Cameras : d # c => item'[d] = item[d]
      /\ item'[c].want = item[c].want /\ item'[c].stale = item[c].stale
    BY <1>1, <1>2, RefenceKeeps DEF serviceVars
<1>4. item'[c] # None /\ ~item'[c].stale => item'[c].want = desired[c]
    BY <1>1, <1>3 DEF RuntimeInv, WishInv, Unsettled, Running
<1>5. /\ UNCHANGED <<phase, pending, at, revision, desired>> /\ at \in Cameras \cup {None} /\ gen' \in [Slots -> Nat]
      /\ failedWant' \in [Cameras -> Wants \cup {None}]
    BY <1>1 DEF loopVars, wishVars, RuntimeInv, LoopTypes
<1> QED BY <1>1, <1>3, <1>4, <1>5, HandledRest

LEMMA WatchIngestKeeps ==
    ASSUME RuntimeInv, NEW c \in Cameras, WatchIngest(c)
    PROVE  RuntimeInv'
<1>1. /\ phase = "watch" /\ item[c] # None /\ UNCHANGED <<wishVars, serviceVars>>
      /\ StartAfter(c, item[c].want, item[c].slot, gen[item[c].slot] + 1, 1)
    BY DEF WatchIngest, Watch
<1>2. UNCHANGED <<service, svcEpoch>> /\ svcEpoch \in Nat /\ item[c].want \in Wants
    BY <1>1 DEF serviceVars, RuntimeInv, CamerasInv, ItemTypes, ServiceTypes, Item
<1>3. /\ CamerasInv' /\ gen' \in [Slots -> Nat] /\ faults' \in 0..MaxFaults
      /\ \A d \in Cameras : d # c => item'[d] = item[d]
      /\ item'[c] # None => item'[c].want = item[c].want /\ item'[c].stale = (item[c].want # desired[c])
    BY <1>1, <1>2, RestartCameraKeeps DEF RuntimeInv
<1>4. /\ phase' = phase \/ phase' = "exit"
      /\ pending' \subseteq pending /\ at' \in Cameras \cup {None}
    BY DEF WatchIngest, NextPhase, loopVars, RuntimeInv, LoopTypes
<1>5. UNCHANGED <<revision, desired>> /\ failedWant' \in [Cameras -> Wants \cup {None}]
    BY <1>1 DEF wishVars, RuntimeInv, LoopTypes
<1> QED BY <1>1, <1>3, <1>4, <1>5, HandledRest

-----------------------------------------------------------------------------
(* The children. *)
LEMMA ChildKeeps ==
    ASSUME RuntimeInv, NEW c \in Cameras, NEW j \in Item, Child(c, j), ItemInv(c, j),
           j.slot = item[c].slot, j.epoch = item[c].epoch, j.paused = item[c].paused, j.svc = item[c].svc,
           j.stale = item[c].stale, j.want = item[c].want, faults' = faults \/ (CanFault /\ faults' = faults + 1)
    PROVE  RuntimeInv'
<1>1. item[c] # None /\ item' = [item EXCEPT ![c] = j] /\ UNCHANGED <<loopVars, wishVars, slotVars, serviceVars>>
    BY DEF Child
<1>2. CamerasInv' /\ item'[c] = j /\ \A d \in Cameras : d # c => item'[d] = item[d]
    BY <1>1, DoneKeeps DEF slotVars, serviceVars
<1>3. faults' \in 0..MaxFaults
    BY RuntimeAssumption DEF RuntimeInv, LoopTypes, CanFault
<1>4. LoopTypes' /\ ServiceTypes' /\ BundleInv'
    BY <1>1, <1>3, FrameService DEF RuntimeInv, LoopTypes, loopVars, wishVars, slotVars
<1>5. Unsettled' = Unsettled
    BY <1>1 DEF Unsettled, loopVars
<1>6. WishInv'
    BY <1>1, <1>2, <1>5, WishSame DEF RuntimeInv, wishVars, serviceVars
<1> QED BY <1>2, <1>4, <1>6 DEF RuntimeInv

LEMMA ConsumerExitsKeeps ==
    ASSUME RuntimeInv, NEW c \in Cameras, ConsumerExits(c)
    PROVE  RuntimeInv'
<1> DEFINE i == item[c]
<1>1. PICK how \in {"dead", "exited"} : Child(c, [i EXCEPT !.consumer = how])
    BY DEF ConsumerExits
<1> DEFINE j == [i EXCEPT !.consumer = how]
<1>2. i \in Item /\ ItemInv(c, i) /\ i.consumer = "alive"
    BY DEF ConsumerExits, RuntimeInv, CamerasInv, ItemTypes, ItemsInv, Running
<1>3. /\ j \in Item /\ j.consumer = how /\ j.slot = i.slot /\ j.epoch = i.epoch /\ j.paused = i.paused /\ j.svc = i.svc
      /\ j.stale = i.stale /\ j.want = i.want /\ j.waiting = i.waiting /\ j.failed = i.failed /\ j.done = i.done
      /\ j.spawns = i.spawns /\ j.ingest = i.ingest /\ j.eof = i.eof
    BY <1>2 DEF Item
<1>4. Child(c, j) /\ (faults' = faults \/ (CanFault /\ faults' = faults + 1))
    BY <1>1 DEF ConsumerExits
<1> HIDE DEF j
<1>5. ItemInv(c, j)
    BY <1>2, <1>3 DEF ItemInv
<1> QED BY <1>3, <1>4, <1>5, ChildKeeps

LEMMA IngestStepKeeps ==
    ASSUME RuntimeInv, NEW c \in Cameras, IngestStep(c)
    PROVE  RuntimeInv'
<1> DEFINE i == item[c]
<1>1. i \in Item /\ ItemInv(c, i) /\ i.ingest = "alive"
    BY DEF IngestStep, RuntimeInv, CamerasInv, ItemTypes, ItemsInv, Running
<1>2. faults' = faults \/ (CanFault /\ faults' = faults + 1)
    BY DEF IngestStep
<1>3. CASE c \in Files /\ Child(c, [i EXCEPT !.eof = TRUE])
  <2> DEFINE j == [i EXCEPT !.eof = TRUE]
  <2>1. /\ j \in Item /\ j.eof /\ j.slot = i.slot /\ j.epoch = i.epoch /\ j.paused = i.paused /\ j.svc = i.svc
        /\ j.stale = i.stale /\ j.want = i.want /\ j.waiting = i.waiting /\ j.failed = i.failed /\ j.done = i.done
        /\ j.spawns = i.spawns /\ j.ingest = i.ingest /\ j.consumer = i.consumer
      BY <1>1 DEF Item
  <2>2. Child(c, j)
      BY <1>3
  <2> HIDE DEF j
  <2>3. ItemInv(c, j)
      BY <1>1, <1>3, <2>1 DEF ItemInv
  <2> QED BY <1>2, <2>1, <2>2, <2>3, ChildKeeps
<1>4. ASSUME NEW how \in {"dead", "exited"}, Child(c, [i EXCEPT !.ingest = how])
      PROVE  RuntimeInv'
  <2> DEFINE j == [i EXCEPT !.ingest = how]
  <2>1. /\ j \in Item /\ j.ingest = how /\ j.slot = i.slot /\ j.epoch = i.epoch /\ j.paused = i.paused /\ j.svc = i.svc
        /\ j.stale = i.stale /\ j.want = i.want /\ j.waiting = i.waiting /\ j.failed = i.failed /\ j.done = i.done
        /\ j.spawns = i.spawns /\ j.eof = i.eof /\ j.consumer = i.consumer
      BY <1>1 DEF Item
  <2>2. Child(c, j)
      BY <1>4
  <2> HIDE DEF j
  <2>3. ItemInv(c, j)
      BY <1>1, <2>1 DEF ItemInv
  <2> QED BY <1>2, <2>1, <2>2, <2>3, ChildKeeps
<1> QED BY <1>3, <1>4 DEF IngestStep

LEMMA ServiceBreaksKeeps ==
    ASSUME RuntimeInv, ServiceBreaks
    PROVE  RuntimeInv'
<1>1. /\ service = "up" /\ service' = "broken" /\ CanFault /\ faults' = faults + 1
      /\ UNCHANGED <<phase, pending, at, wishVars, item, slotVars, svcEpoch, serviceFloor, available, required, attempts,
                     retry, fightFailed>>
    BY DEF ServiceBreaks, loopVars
<1>2. CamerasInv'
    BY <1>1 DEF RuntimeInv, CamerasInv, ItemTypes, ItemsInv, SlotInv, EpochInv, FedInv, Running, slotVars
<1>3. LoopTypes' /\ ServiceTypes' /\ BundleInv'
    BY <1>1, RuntimeAssumption DEF RuntimeInv, LoopTypes, ServiceTypes, BundleInv, CanFault, wishVars, slotVars
<1>4. WishInv'
    BY <1>1, WishFrame DEF RuntimeInv, Unsettled, wishVars
<1> QED BY <1>2, <1>3, <1>4 DEF RuntimeInv

-----------------------------------------------------------------------------
(* A new revision, the end of the bundle, and the end of the run. *)
LEMMA LoadKeeps ==
    ASSUME RuntimeInv, NEW d \in [Cameras -> Wants], Load(d)
    PROVE  RuntimeInv'
<1>1. /\ phase = "load" /\ desired' = d /\ required' = \E c \in Cameras : Fights(d[c])
      /\ failedWant' = [c \in Cameras |-> IF d[c] = "off" THEN None ELSE failedWant[c]]
      /\ UNCHANGED <<item, slotVars, serviceFloor, attempts, retry, fightFailed>>
    BY DEF Load
<1>2. \/ /\ service = "none" /\ ~retry /\ service' = "up" /\ svcEpoch' = svcEpoch + 1 /\ available' = TRUE
         /\ NextPhase("reconcile", Cameras) /\ UNCHANGED faults
      \/ /\ service = "none" /\ CanFault /\ faults' = faults + 1 /\ svcEpoch' = svcEpoch + 1
         /\ NextPhase("exit", {}) /\ UNCHANGED <<service, available>>
      \/ NextPhase("reconcile", Cameras) /\ UNCHANGED <<service, svcEpoch, available, faults>>
    BY DEF Load
<1>3. FedInv'
    BY <1>1, <1>2 DEF RuntimeInv, CamerasInv, FedInv, Running
<1>4. CamerasInv'
    BY <1>1, <1>3 DEF RuntimeInv, CamerasInv, ItemTypes, ItemsInv, SlotInv, EpochInv, Running, slotVars
<1>5. faults' \in 0..MaxFaults
    BY <1>2, RuntimeAssumption DEF RuntimeInv, LoopTypes, CanFault
<1>6. LoopTypes'
  <2>1. failedWant' \in [Cameras -> Wants \cup {None}]
      BY <1>1 DEF RuntimeInv, LoopTypes
  <2>2. phase' \in {"reconcile", "exit"} /\ pending' \subseteq Cameras /\ at' = None
      BY <1>2 DEF NextPhase
  <2> QED BY <1>1, <1>5, <2>1, <2>2 DEF RuntimeInv, LoopTypes, slotVars
<1>7. ServiceTypes' /\ BundleInv'
  <2>1. required' \in BOOLEAN
      BY <1>1
  <2>2. svcEpoch \in Nat /\ available \in BOOLEAN /\ service \in {"none", "up", "broken"}
      BY DEF RuntimeInv, ServiceTypes
  <2>3. /\ svcEpoch' = svcEpoch \/ svcEpoch' = svcEpoch + 1
        /\ available' = available \/ available' = TRUE
        /\ service' = service \/ service' = "up"
      BY <1>2
  <2>4. svcEpoch' \in Nat /\ available' \in BOOLEAN /\ service' \in {"none", "up", "broken"}
    <3>1. available' \in BOOLEAN
        BY <2>2, <2>3, Zenon
    <3> QED BY <2>2, <2>3, <3>1
  <2>5. ServiceTypes'
      BY <1>1, <2>1, <2>4 DEF RuntimeInv, ServiceTypes
  <2>6. BundleInv'
      BY <1>1, <1>2 DEF RuntimeInv, ServiceTypes, BundleInv
  <2> QED BY <2>5, <2>6
<1>8. WishInv'
  <2>1. Unsettled' = Cameras
      BY <1>2 DEF Unsettled, NextPhase
  <2> QED BY <1>1, <2>1 DEF WishInv, Running
<1> QED BY <1>4, <1>6, <1>7, <1>8 DEF RuntimeInv

LEMMA TickIdleKeeps ==
    ASSUME RuntimeInv, TickIdle
    PROVE  RuntimeInv'
<1>1. /\ phase = "idle" /\ at' = None
      /\ phase' = "exit" \/ phase' = "poll"
      /\ pending' = {} \/ pending' = Running
      /\ service' = service \/ (~required /\ service' = "none")
      /\ UNCHANGED <<wishVars, item, slotVars, svcEpoch, serviceFloor, available, required, attempts, retry,
                     fightFailed, faults>>
    BY DEF TickIdle, NextPhase
<1>2. FedInv'
  <2>1. ASSUME ~required, NEW c \in Running, ~item[c].paused, ~item[c].stale
        PROVE  FALSE
    <3>1. Fights(item[c].want) /\ item[c].want = desired[c] /\ c \in Cameras
        BY <1>1, <2>1 DEF RuntimeInv, CamerasInv, ItemsInv, ItemInv, WishInv, Unsettled, Running
    <3> QED BY <2>1, <3>1 DEF RuntimeInv, WishInv
  <2> QED BY <1>1, <2>1 DEF RuntimeInv, CamerasInv, FedInv, Running
<1>3. CamerasInv'
    BY <1>1, <1>2 DEF RuntimeInv, CamerasInv, ItemTypes, ItemsInv, SlotInv, EpochInv, Running, slotVars
<1>4. LoopTypes' /\ ServiceTypes' /\ BundleInv'
    BY <1>1 DEF RuntimeInv, LoopTypes, ServiceTypes, BundleInv, Running, wishVars, slotVars
<1>5. WishInv'
    BY <1>1, WishFrame DEF RuntimeInv, Unsettled, wishVars
<1> QED BY <1>3, <1>4, <1>5 DEF RuntimeInv

LEMMA ShutdownKeeps ==
    ASSUME RuntimeInv, Shutdown
    PROVE  RuntimeInv'
<1>1. /\ phase' = "stopped" /\ pending' = {} /\ at' = None
      /\ item' = [c \in Cameras |-> None] /\ service' = "none"
      /\ gen' = [s \in Slots |-> IF s \in FreeSlots THEN gen[s] ELSE gen[s] + 1]
      /\ UNCHANGED <<wishVars, epochs, floor, svcEpoch, serviceFloor, available, required, attempts, retry, fightFailed,
                     faults>>
    BY DEF Shutdown, NextPhase
<1>2. Running' = {}
    BY <1>1 DEF Running
<1>3. CamerasInv'
    BY <1>1, <1>2 DEF RuntimeInv, CamerasInv, ItemTypes, ItemsInv, SlotInv, EpochInv, FedInv
<1>4. LoopTypes' /\ ServiceTypes' /\ BundleInv'
    BY <1>1 DEF RuntimeInv, LoopTypes, ServiceTypes, BundleInv, wishVars
<1>5. WishInv'
    BY <1>1, <1>2 DEF RuntimeInv, WishInv, wishVars
<1> QED BY <1>3, <1>4, <1>5 DEF RuntimeInv

-----------------------------------------------------------------------------
(* The shared service: all the runtimes at once. *)

\* The runtimes g are those of item with other consumers.
SameRuntimes(g) ==
    /\ g \in [Cameras -> Item \cup {None}]
    /\ \A c \in Cameras : item[c] = None => g[c] = None
    /\ \A c \in Running : g[c] # None =>
         g[c] \in Item /\ ItemInv(c, g[c]) /\ SameRuntime(item[c], g[c]) /\ g[c].epoch <= epochs'[g[c].slot]
EpochsGrow == epochs' \in [Slots -> Nat] /\ \A s \in Slots : epochs[s] <= epochs'[s]

LEMMA ServedKeeps ==
    ASSUME RuntimeInv, SameRuntimes(item'), EpochsGrow, floor' \in [Slots -> Nat],
           \A s \in Slots : floor'[s] <= epochs'[s] + 1,
           \A c \in Running : item'[c] # None /\ ~item'[c].paused =>
               /\ floor'[item'[c].slot] <= item'[c].epoch
               /\ item'[c].stale \/ (service' # "none" /\ item'[c].svc = svcEpoch')
    PROVE  CamerasInv'
<1>1. \A c \in Running' : c \in Running /\ item'[c] # None
    BY DEF Running, SameRuntimes
<1>2. ItemTypes'
    BY DEF ItemTypes, SameRuntimes, EpochsGrow
<1>3. ItemsInv'
    BY <1>1 DEF ItemsInv, SameRuntimes
<1>4. SlotInv'
    BY <1>1 DEF RuntimeInv, CamerasInv, SlotInv, SameRuntimes, SameRuntime
<1>5. EpochInv'
    BY <1>1 DEF EpochInv, SameRuntimes
<1>6. FedInv'
    BY <1>1 DEF FedInv
<1> QED BY <1>2, <1>3, <1>4, <1>5, <1>6 DEF CamerasInv

LEMMA ServedWish ==
    ASSUME RuntimeInv, SameRuntimes(item'), Unsettled = {}, UNCHANGED <<required, desired>>
    PROVE  WishInv'
<1>1. \A c \in Running' : c \in Running /\ item'[c] # None
    BY DEF Running, SameRuntimes
<1>2. \A c \in Running' : ~item'[c].stale => item'[c].want = desired[c]
    BY <1>1 DEF RuntimeInv, WishInv, SameRuntimes, SameRuntime
<1> QED BY <1>2 DEF RuntimeInv, WishInv

\* suspend_fight leaves nothing fed, and every floor at most at the next epoch.
LEMMA SuspendIs ==
    ASSUME RuntimeInv, NEW g, SameRuntimes(g), EpochsGrow, SuspendFight(g)
    PROVE  /\ SameRuntimes(item') /\ \A c \in Running : item'[c] # None => item'[c].paused
           /\ floor' \in [Slots -> Nat] /\ \A s \in Slots : floor'[s] <= epochs'[s] + 1
<1>1. item' = [c \in Cameras |-> IF Hit(g[c]) THEN Suspended(c, g[c]) ELSE g[c]]
    BY DEF SuspendFight
<1>2. ASSUME NEW c \in Running, Hit(g[c])
      PROVE  LET j == Suspended(c, g[c]) IN
             /\ j \in Item /\ ItemInv(c, j) /\ j.paused /\ SameRuntime(item[c], j) /\ j.epoch <= epochs'[j.slot]
  <2> DEFINE i == g[c]
             j == Suspended(c, i)
             w == c \notin Files
  <2>1. i \in Item /\ ItemInv(c, i) /\ SameRuntime(item[c], i) /\ i.epoch <= epochs'[i.slot] /\ Fights(i.want)
      BY <1>2 DEF SameRuntimes, Hit
  <2>2. w \in BOOLEAN /\ (w => c \notin Files /\ Fights(i.want) /\ ~i.done)
      BY <2>1 DEF ItemInv
  <2>3. j = Fenced(i, w)
      BY DEF Suspended
  <2> HIDE DEF i, w, j
  <2>4. /\ j \in Item /\ j.paused /\ j.want = i.want /\ j.slot = i.slot /\ j.eof = i.eof /\ j.epoch = i.epoch
        /\ j.stale = i.stale /\ j.done = i.done /\ ItemInv(c, j)
      BY <2>1, <2>2, <2>3, FencedIs, FencedGood
  <2>5. SameRuntime(item[c], j) /\ j.epoch <= epochs'[j.slot]
      BY <2>1, <2>4 DEF SameRuntime
  <2> QED BY <2>4, <2>5 DEF j, i
<1>3. ASSUME NEW c \in Running, ~Hit(g[c]), g[c] # None
      PROVE  g[c].paused
    BY <1>3 DEF Hit, SameRuntimes, ItemInv
<1>4. \A c \in Cameras : Hit(g[c]) => c \in Running
    BY DEF Hit, SameRuntimes, Running
<1>5. SameRuntimes(item')
  <2>1. ASSUME NEW c \in Cameras PROVE item'[c] \in Item \cup {None}
      BY <1>1, <1>2, <1>4 DEF SameRuntimes
  <2>2. item' \in [Cameras -> Item \cup {None}]
      BY <1>1, <2>1
  <2>3. \A c \in Cameras : item[c] = None => item'[c] = None
      BY <1>1, <1>4 DEF SameRuntimes, Running
  <2>4. ASSUME NEW c \in Running, item'[c] # None
        PROVE  item'[c] \in Item /\ ItemInv(c, item'[c]) /\ SameRuntime(item[c], item'[c]) /\ item'[c].epoch <= epochs'[item'[c].slot]
    <3>1. CASE Hit(g[c])
        BY <1>1, <1>2, <3>1 DEF Running
    <3>2. CASE ~Hit(g[c])
        BY <1>1, <2>4, <3>2 DEF SameRuntimes, Running
    <3> QED BY <3>1, <3>2
  <2> QED BY <2>2, <2>3, <2>4 DEF SameRuntimes
<1>6. \A c \in Running : item'[c] # None => item'[c].paused
    BY <1>1, <1>2, <1>3 DEF Running
<1>7. ASSUME NEW s \in Slots
      PROVE  floor'[s] \in Nat /\ floor'[s] <= epochs'[s] + 1
  <2> DEFINE hit == {c \in Running : g[c].slot = s /\ Hit(g[c])}
             last == CHOOSE i \in {g[c] : c \in hit} : TRUE
  <2>1. floor'[s] = IF hit = {} THEN floor[s] ELSE last.epoch + 1
      BY DEF SuspendFight
  <2>2. CASE hit = {}
    <3>1. floor[s] \in Nat /\ epochs[s] \in Nat /\ epochs'[s] \in Nat /\ epochs[s] <= epochs'[s]
        BY DEF EpochsGrow, RuntimeInv, CamerasInv, ItemTypes
    <3>2. floor[s] <= epochs[s] + 1
        BY DEF RuntimeInv, CamerasInv, EpochInv
    <3> QED BY <2>1, <2>2, <3>1, <3>2
  <2>3. CASE hit # {}
    <3>1. last \in {g[c] : c \in hit}
        BY <2>3
    <3>2. PICK c \in hit : last = g[c]
        BY <3>1
    <3>3. last \in Item /\ last.slot = s /\ last.epoch <= epochs'[last.slot]
        BY <3>2 DEF Hit, SameRuntimes
    <3>4. last.epoch \in Nat /\ epochs'[s] \in Nat
        BY <3>3 DEF Item, EpochsGrow
    <3> HIDE DEF last, hit
    <3> QED BY <2>1, <2>3, <3>3, <3>4
  <2> QED BY <2>2, <2>3
<1>8. floor' \in [Slots -> Nat]
    BY <1>7 DEF SuspendFight
<1> QED BY <1>5, <1>6, <1>7, <1>8

LEMMA FightFailureIs ==
    ASSUME RuntimeInv, NEW g, SameRuntimes(g), EpochsGrow, NEW n \in Nat, svcEpoch' = n, NEW k, FightFailure(n, k, g),
           attempts' \in Nat, UNCHANGED required
    PROVE  CamerasInv' /\ SameRuntimes(item') /\ ServiceTypes' /\ BundleInv'
<1>1. SuspendFight(g) /\ serviceFloor' = n + 1 /\ service' = "none"
    BY DEF FightFailure
<1>2. CamerasInv' /\ SameRuntimes(item')
    BY <1>1, SuspendIs, ServedKeeps
<1>3. fightFailed' \in BOOLEAN /\ retry' \in BOOLEAN /\ available' \in BOOLEAN
    BY Zenon DEF FightFailure, SuspendFight
<1>4. required \in BOOLEAN
    BY DEF RuntimeInv, ServiceTypes
<1>5. ServiceTypes'
    BY <1>1, <1>3, <1>4 DEF ServiceTypes
<1> QED BY <1>1, <1>2, <1>5 DEF BundleInv

\* As every camera has a slot of its own, finitely many run.
LEMMA RunningFinite == RuntimeInv => IsFiniteSet(Running)
<1> SUFFICES ASSUME RuntimeInv PROVE IsFiniteSet(Running)
    OBVIOUS
<1> DEFINE S == {item[c].slot : c \in Running}
           f == [s \in S |-> CHOOSE c \in Running : item[c].slot = s]
<1>1. \A c \in Running : item[c].slot \in Slots
    BY DEF RuntimeInv, CamerasInv, ItemTypes, Running, Item
<1>2. S \in SUBSET Slots
    BY <1>1
<1>3. IsFiniteSet(S)
    BY <1>2, RuntimeAssumption, FS_Subset
<1>4. \A c \in Running : item[c].slot \in S /\ f[item[c].slot] = c
    BY DEF RuntimeInv, CamerasInv, SlotInv
<1>5. f \in [S -> Running]
    OBVIOUS
<1> HIDE DEF f, S
<1>6. f \in Surjection(S, Running)
    BY <1>4, <1>5 DEF Surjection
<1> QED BY <1>3, <1>6, FS_Surjection

LEMMA ItemsAreSame ==
    ASSUME RuntimeInv, EpochsGrow
    PROVE  SameRuntimes(item)
<1>1. ASSUME NEW c \in Running
      PROVE  /\ item[c] \in Item /\ ItemInv(c, item[c]) /\ SameRuntime(item[c], item[c])
             /\ item[c].epoch <= epochs'[item[c].slot]
  <2>1. item[c] \in Item /\ ItemInv(c, item[c]) /\ item[c].epoch <= epochs[item[c].slot]
      BY DEF RuntimeInv, CamerasInv, ItemTypes, ItemsInv, EpochInv, Running
  <2>2. PICK s \in Slots : s = item[c].slot
      BY <2>1 DEF Item
  <2>3. item[c].epoch \in Nat /\ epochs[s] \in Nat /\ epochs'[s] \in Nat /\ epochs[s] <= epochs'[s]
      BY <2>1 DEF Item, EpochsGrow, RuntimeInv, CamerasInv, ItemTypes
  <2> QED BY <2>1, <2>2, <2>3 DEF SameRuntime
<1> QED BY <1>1 DEF SameRuntimes, RuntimeInv, CamerasInv, ItemTypes

LEMMA TickHealthKeeps ==
    ASSUME RuntimeInv, TickHealth
    PROVE  RuntimeInv'
<1>1. /\ phase = "tick" /\ phase' = "service" /\ pending' = {} /\ at' = None
      /\ UNCHANGED <<wishVars, gen, epochs, svcEpoch, required, attempts, faults>>
    BY DEF TickHealth, NextPhase
<1>2. EpochsGrow
    BY <1>1 DEF EpochsGrow, RuntimeInv, CamerasInv, ItemTypes
<1>3. LoopTypes' /\ Unsettled = {} /\ Unsettled' = {}
    BY <1>1 DEF RuntimeInv, LoopTypes, Unsettled, wishVars
<1>4. CASE FightFailure(svcEpoch, attempts, item)
  <2>1. SameRuntimes(item) /\ svcEpoch \in Nat /\ svcEpoch' = svcEpoch /\ attempts' \in Nat /\ required' = required
      BY <1>1, <1>2, ItemsAreSame DEF RuntimeInv, ServiceTypes
  <2>2. CamerasInv' /\ SameRuntimes(item') /\ ServiceTypes' /\ BundleInv'
      BY <1>2, <1>4, <2>1, FightFailureIs
  <2>3. WishInv'
      BY <1>1, <1>3, <2>2, ServedWish DEF wishVars
  <2> QED BY <1>3, <2>2, <2>3 DEF RuntimeInv
<1>5. CASE UNCHANGED <<serviceFloor, service, available, fightFailed, retry, item, floor>>
  <2>1. CamerasInv' /\ ServiceTypes' /\ BundleInv'
      BY <1>1, <1>5, FrameCameras, FrameService DEF RuntimeInv, serviceVars
  <2>2. WishInv'
      BY <1>1, <1>3, <1>5, WishFrame DEF RuntimeInv, wishVars
  <2> QED BY <1>3, <2>1, <2>2 DEF RuntimeInv
<1> QED BY <1>4, <1>5 DEF TickHealth

\* A waiting item that gets its consumer back, and one for which that fails.
LEMMA ResumedIs ==
    ASSUME RuntimeInv, NEW c \in Waiting, NEW n \in Nat
    PROVE  LET j == Resumed(c, n) IN
           /\ j \in Item /\ ItemInv(c, j) /\ SameRuntime(item[c], j) /\ ~j.paused
           /\ j.epoch = epochs[item[c].slot] + 1 /\ j.svc = n
<1> DEFINE i == item[c]
           k == Spawned(i)
           m == IF k.ingest = "none" THEN "alive" ELSE k.ingest
           j == [k EXCEPT !.svc = n, !.ingest = m]
<1>1. i \in Item /\ ItemInv(c, i) /\ i.waiting /\ c \in Cameras
    BY DEF Waiting, Running, RuntimeInv, CamerasInv, ItemTypes, ItemsInv
<1>2. /\ k \in Item /\ ~k.paused /\ ~k.waiting /\ ~k.failed /\ k.consumer = "alive"
      /\ k.epoch = epochs[i.slot] + 1 /\ k.spawns = i.spawns + 1 /\ SameRuntime(i, k) /\ k.ingest = i.ingest
    BY <1>1, SpawnedIs DEF RuntimeInv, CamerasInv, ItemTypes, ServiceTypes, SameRuntime
<1>3. m \in {"alive", "exited", "dead"}
    BY <1>2 DEF Item
<1>4. Resumed(c, n) = j
    BY DEF Resumed
<1> HIDE DEF k, m
<1>5. /\ j \in Item /\ ~j.paused /\ ~j.waiting /\ ~j.failed /\ j.consumer = "alive" /\ j.svc = n /\ j.ingest = m
      /\ j.epoch = k.epoch /\ j.spawns = k.spawns /\ SameRuntime(k, j)
    BY <1>2, <1>3 DEF Item, SameRuntime
<1> HIDE DEF j
<1>6. SameRuntime(i, j)
    BY <1>2, <1>5 DEF SameRuntime
<1>7. ItemInv(c, j)
    BY <1>1, <1>2, <1>5, <1>6 DEF ItemInv, SameRuntime
<1> QED BY <1>2, <1>4, <1>5, <1>6, <1>7

LEMMA RaisedIs ==
    ASSUME RuntimeInv, NEW c \in Waiting
    PROVE  LET j == [item[c] EXCEPT !.epoch = epochs[item[c].slot] + 1] IN
           j \in Item /\ ItemInv(c, j) /\ SameRuntime(item[c], j) /\ j.epoch = epochs[item[c].slot] + 1
<1> DEFINE i == item[c]
           j == [i EXCEPT !.epoch = epochs[i.slot] + 1]
<1>1. i \in Item /\ ItemInv(c, i) /\ i.waiting /\ c \in Cameras
    BY DEF Waiting, Running, RuntimeInv, CamerasInv, ItemTypes, ItemsInv
<1>2. epochs[i.slot] + 1 \in Nat
    BY <1>1 DEF Item, RuntimeInv, CamerasInv, ItemTypes
<1>3. /\ j \in Item /\ SameRuntime(i, j) /\ j.epoch = epochs[i.slot] + 1 /\ j.paused = i.paused /\ j.waiting = i.waiting
      /\ j.failed = i.failed /\ j.spawns = i.spawns /\ j.ingest = i.ingest /\ j.consumer = i.consumer
    BY <1>1, <1>2 DEF Item, SameRuntime
<1> HIDE DEF j
<1>4. ItemInv(c, j)
    BY <1>1, <1>3 DEF ItemInv, SameRuntime
<1> QED BY <1>3, <1>4 DEF j

LEMMA BrokenIs ==
    ASSUME RuntimeInv, NEW c \in Waiting
    PROVE  LET j == Broken(c) IN
           /\ j \in Item /\ ItemInv(c, j) /\ SameRuntime(item[c], j) /\ j.paused
           /\ j.epoch = epochs[item[c].slot] + 1
<1> DEFINE i == [item[c] EXCEPT !.epoch = epochs[item[c].slot] + 1]
           j == StartFailed(i, FALSE)
<1>1. i \in Item /\ ItemInv(c, i) /\ SameRuntime(item[c], i) /\ i.epoch = epochs[item[c].slot] + 1
    BY RaisedIs
<1>2. Broken(c) = j
    BY DEF Broken
<1> HIDE DEF i
<1>3. /\ j \in Item /\ j.paused /\ j.failed /\ ~j.waiting /\ SameRuntime(i, j) /\ j.epoch = i.epoch
      /\ j.ingest = i.ingest /\ j.spawns = i.spawns
    BY <1>1, StartFailedIs DEF SameRuntime
<1> HIDE DEF j
<1>4. ItemInv(c, j)
    BY <1>1, <1>3 DEF ItemInv, SameRuntime
<1> QED BY <1>1, <1>2, <1>3, <1>4 DEF SameRuntime

LEMMA EpochsTakenGrow ==
    ASSUME RuntimeInv, NEW who \in SUBSET Running, EpochsTaken(who)
    PROVE  EpochsGrow /\ \A c \in who : epochs'[item[c].slot] = epochs[item[c].slot] + 1
<1>1. epochs \in [Slots -> Nat] /\ \A c \in Running : item[c].slot \in Slots
    BY DEF RuntimeInv, CamerasInv, ItemTypes, Running, Item
<1>2. ASSUME NEW s \in Slots PROVE epochs'[s] \in Nat /\ epochs[s] <= epochs'[s]
    BY <1>1 DEF EpochsTaken
<1>3. EpochsGrow
    BY <1>2 DEF EpochsTaken, EpochsGrow
<1>4. ASSUME NEW c \in who PROVE epochs'[item[c].slot] = epochs[item[c].slot] + 1
  <2>1. PICK s \in Slots : s = item[c].slot
      BY <1>1
  <2> QED BY <2>1 DEF EpochsTaken
<1> QED BY <1>3, <1>4

LEMMA TickReplaceKeeps ==
    ASSUME RuntimeInv, TickReplace
    PROVE  RuntimeInv'
<1>1. /\ phase = "service" /\ phase' = "idle" /\ pending' = {} /\ at' = None /\ retry
      /\ attempts' = attempts + 1 /\ svcEpoch' = svcEpoch + 1
      /\ UNCHANGED <<revision, desired, failedWant, gen, required>>
    BY DEF TickReplace, NextPhase, wishVars
<1>2. service = "none" /\ svcEpoch' \in Nat /\ attempts' \in Nat /\ svcEpoch \in Nat
    BY <1>1 DEF RuntimeInv, BundleInv, ServiceTypes
<1>3. Unsettled = {}
    BY <1>1 DEF Unsettled
<1>4. Waiting \in SUBSET Running
    BY DEF Waiting
<1>5. ASSUME faults' \in 0..MaxFaults, SameRuntimes(item'), CamerasInv', ServiceTypes', BundleInv'
      PROVE  RuntimeInv'
  <2>1. LoopTypes'
      BY <1>1, <1>5 DEF RuntimeInv, LoopTypes
  <2>2. WishInv'
      BY <1>1, <1>3, <1>5, ServedWish
  <2> QED BY <1>5, <2>1, <2>2 DEF RuntimeInv
<1>6. ASSUME NEW bad \in SUBSET (Waiting \ Files), faults' = faults + Cardinality(bad), faults + Cardinality(bad) <= MaxFaults,
             item' = ResumeFight(svcEpoch', Waiting, bad), EpochsTaken(Waiting), service' = "up", available' = TRUE,
             retry' = FALSE, UNCHANGED <<serviceFloor, fightFailed, floor>>
      PROVE  RuntimeInv'
  <2>1. IsFiniteSet(bad)
      BY <1>4, RunningFinite, FS_Subset
  <2>2. faults' \in 0..MaxFaults
      BY <1>6, <2>1, FS_CardinalityType, RuntimeAssumption DEF RuntimeInv, LoopTypes
  <2>3. EpochsGrow /\ \A c \in Waiting : epochs'[item[c].slot] = epochs[item[c].slot] + 1
      BY <1>4, <1>6, EpochsTakenGrow
  <2>4. SameRuntimes(item)
      BY <2>3, ItemsAreSame
  <2>5. item' = [c \in Cameras |-> IF c \in bad THEN Broken(c) ELSE IF c \in Waiting THEN Resumed(c, svcEpoch') ELSE item[c]]
      BY <1>6 DEF ResumeFight
  <2>6. ASSUME NEW c \in Waiting
        PROVE  /\ item'[c] \in Item /\ ItemInv(c, item'[c]) /\ SameRuntime(item[c], item'[c])
               /\ item'[c].epoch = epochs[item[c].slot] + 1
               /\ ~item'[c].paused => item'[c].svc = svcEpoch'
      BY <1>2, <2>5, ResumedIs, BrokenIs DEF Waiting, Running
  <2>7. \A c \in Cameras : c \notin Waiting => item'[c] = item[c]
      BY <2>5
  <2>8. SameRuntimes(item')
    <3>1. ASSUME NEW c \in Cameras PROVE item'[c] \in Item \cup {None} /\ (item[c] = None => item'[c] = None)
        BY <2>4, <2>6, <2>7 DEF SameRuntimes, Waiting, Running
    <3>2. item' \in [Cameras -> Item \cup {None}]
        BY <2>5, <3>1
    <3>3. ASSUME NEW c \in Running, item'[c] # None
          PROVE  /\ item'[c] \in Item /\ ItemInv(c, item'[c]) /\ SameRuntime(item[c], item'[c])
                 /\ item'[c].epoch <= epochs'[item'[c].slot]
      <4>1. CASE c \in Waiting
        <5>1. item'[c].slot = item[c].slot /\ epochs'[item[c].slot] = epochs[item[c].slot] + 1
            BY <2>3, <2>6, <4>1 DEF SameRuntime
        <5>2. item'[c].epoch = epochs'[item'[c].slot] /\ item'[c].epoch \in Nat
            BY <2>6, <4>1, <5>1 DEF Item
        <5> QED BY <2>6, <4>1, <5>2
      <4>2. CASE c \notin Waiting
          BY <2>4, <2>7, <3>3, <4>2 DEF SameRuntimes, Running
      <4> QED BY <4>1, <4>2
    <3> QED BY <3>1, <3>2, <3>3 DEF SameRuntimes
  <2>9. floor' \in [Slots -> Nat] /\ \A s \in Slots : floor'[s] <= epochs'[s] + 1
      BY <1>6, <2>3 DEF RuntimeInv, CamerasInv, ItemTypes, EpochInv, EpochsGrow
  <2>10. ASSUME NEW c \in Running, item'[c] # None, ~item'[c].paused
         PROVE  /\ floor'[item'[c].slot] <= item'[c].epoch
                /\ item'[c].stale \/ (service' # "none" /\ item'[c].svc = svcEpoch')
    <3>1. CASE c \in Waiting
      <4>1. item'[c].slot = item[c].slot /\ item[c].slot \in Slots
          BY <2>6, <3>1 DEF SameRuntime, RuntimeInv, CamerasInv, ItemTypes, Running, Item
      <4>2. floor[item[c].slot] <= epochs[item[c].slot] + 1
          BY <4>1 DEF RuntimeInv, CamerasInv, EpochInv
      <4> QED BY <1>6, <2>6, <2>10, <3>1, <4>1, <4>2
    <3>2. CASE c \notin Waiting
        BY <1>2, <1>6, <2>7, <2>10, <3>2 DEF RuntimeInv, CamerasInv, EpochInv, FedInv, Running
    <3> QED BY <3>1, <3>2
  <2>11. CamerasInv'
      BY <2>3, <2>8, <2>9, <2>10, ServedKeeps
  <2>12. ServiceTypes'
      BY <1>1, <1>2, <1>6 DEF RuntimeInv, ServiceTypes
  <2>13. BundleInv'
      BY <1>1, <1>2, <1>6 DEF RuntimeInv, BundleInv, ServiceTypes
  <2> QED BY <1>5, <2>2, <2>8, <2>11, <2>12, <2>13
<1>7. ASSUME CanFault, faults' = faults + 1, NEW g, SameRuntimes(g), EpochsGrow, FightFailure(svcEpoch', attempts', g)
      PROVE  RuntimeInv'
  <2>1. PICK n \in Nat : n = svcEpoch'
      BY <1>2
  <2>2. FightFailure(n, attempts', g)
      BY <1>7, <2>1
  <2>3. CamerasInv' /\ SameRuntimes(item') /\ ServiceTypes' /\ BundleInv'
      BY <1>1, <1>2, <1>7, <2>1, <2>2, FightFailureIs
  <2>4. faults' \in 0..MaxFaults
      BY <1>7, RuntimeAssumption DEF RuntimeInv, LoopTypes, CanFault
  <2> QED BY <1>5, <2>3, <2>4
<1>8. CASE CanFault /\ faults' = faults + 1 /\ FightFailure(svcEpoch', attempts', item) /\ UNCHANGED epochs
  <2>1. EpochsGrow
      BY <1>8 DEF EpochsGrow, RuntimeInv, CamerasInv, ItemTypes
  <2> QED BY <1>7, <1>8, <2>1, ItemsAreSame
<1>9. ASSUME CanFault, faults' = faults + 1, NEW f \in Waiting \cap Files, NEW reached \in SUBSET Waiting,
             f \notin reached, EpochsTaken(reached \cup {f}),
             FightFailure(svcEpoch', attempts',
               [ResumeFight(svcEpoch', reached, {}) EXCEPT ![f].epoch = epochs[item[f].slot] + 1])
      PROVE  RuntimeInv'
  <2> DEFINE g == [ResumeFight(svcEpoch', reached, {}) EXCEPT ![f].epoch = epochs[item[f].slot] + 1]
             raised == [item[f] EXCEPT !.epoch = epochs[item[f].slot] + 1]
  <2>1. EpochsGrow /\ \A c \in reached \cup {f} : epochs'[item[c].slot] = epochs[item[c].slot] + 1
      BY <1>4, <1>9, EpochsTakenGrow
  <2>2. SameRuntimes(item)
      BY <2>1, ItemsAreSame
  <2>3. g = [c \in Cameras |-> IF c = f THEN raised ELSE IF c \in reached THEN Resumed(c, svcEpoch') ELSE item[c]]
      BY <1>9 DEF ResumeFight, Waiting, Running
  <2> HIDE DEF g
  <2>4. ASSUME NEW c \in reached \cup {f}
        PROVE  /\ g[c] \in Item /\ ItemInv(c, g[c]) /\ SameRuntime(item[c], g[c])
               /\ g[c].epoch = epochs[item[c].slot] + 1
      BY <1>2, <1>9, <2>3, ResumedIs, RaisedIs DEF Waiting, Running
  <2>5. \A c \in Cameras : c \notin reached \cup {f} => g[c] = item[c]
      BY <2>3
  <2>6. SameRuntimes(g)
    <3>1. ASSUME NEW c \in Cameras PROVE g[c] \in Item \cup {None} /\ (item[c] = None => g[c] = None)
        BY <2>2, <2>4, <2>5 DEF SameRuntimes, Waiting, Running
    <3>2. g \in [Cameras -> Item \cup {None}]
        BY <2>3, <3>1
    <3>3. ASSUME NEW c \in Running, g[c] # None
          PROVE  g[c] \in Item /\ ItemInv(c, g[c]) /\ SameRuntime(item[c], g[c]) /\ g[c].epoch <= epochs'[g[c].slot]
      <4>1. CASE c \in reached \cup {f}
        <5>1. g[c].slot = item[c].slot /\ epochs'[item[c].slot] = epochs[item[c].slot] + 1
            BY <2>1, <2>4, <4>1 DEF SameRuntime
        <5>2. g[c].epoch = epochs'[g[c].slot] /\ g[c].epoch \in Nat
            BY <2>4, <4>1, <5>1 DEF Item
        <5> QED BY <2>4, <4>1, <5>2
      <4>2. CASE c \notin reached \cup {f}
          BY <2>2, <2>5, <3>3, <4>2 DEF SameRuntimes, Running
      <4> QED BY <4>1, <4>2
    <3> QED BY <3>1, <3>2, <3>3 DEF SameRuntimes
  <2> QED BY <1>7, <1>9, <2>1, <2>6 DEF g
<1> QED BY <1>6, <1>8, <1>9 DEF TickReplace

-----------------------------------------------------------------------------
(* The invariant, and what it was for. *)
LEMMA RuntimeStarts == Init => RuntimeInv
<1> SUFFICES ASSUME Init PROVE RuntimeInv
    OBVIOUS
<1>1. Running = {} /\ Unsettled = {}
    BY DEF Init, Running, Unsettled
<1>2. CamerasInv
    BY <1>1 DEF Init, CamerasInv, ItemTypes, ItemsInv, SlotInv, EpochInv, FedInv
<1>3. LoopTypes
    BY RuntimeAssumption DEF Init, LoopTypes, Wants
<1>4. ServiceTypes /\ BundleInv
  <2>1. {available, required, retry, fightFailed} \subseteq BOOLEAN
      BY Zenon DEF Init
  <2>2. /\ service = "none" /\ svcEpoch = 0 /\ serviceFloor = 0 /\ attempts = 0 /\ retry = FALSE
      BY DEF Init
  <2> QED BY <2>1, <2>2 DEF ServiceTypes, BundleInv
<1>5. WishInv
    BY <1>1 DEF Init, WishInv, Fights
<1> QED BY <1>2, <1>3, <1>4, <1>5 DEF RuntimeInv

LEMMA ReconcileKeeps ==
    ASSUME RuntimeInv, NEW c \in Cameras,
           ReconcileRemoved(c) \/ ReconcileMoved(c) \/ ReconcileFile(c) \/ ReconcileLive(c) \/ ReconcileAdded(c)
    PROVE  RuntimeInv'
BY ReconcileRemovedKeeps, ReconcileMovedKeeps, ReconcileFileKeeps, ReconcileLiveKeeps, ReconcileAddedKeeps

LEMMA RuntimeSteps == RuntimeInv /\ [Next]_vars => RuntimeInv'
<1> SUFFICES ASSUME RuntimeInv, [Next]_vars PROVE RuntimeInv'
    OBVIOUS
<1>1. CASE Reconcile
    BY <1>1, ReconcileKeeps, MovesKeep DEF Reconcile, Moves
<1>2. CASE Tick
    BY <1>2, TickHealthKeeps, TickReplaceKeeps, TickIdleKeeps, MovesKeep DEF Tick, Moves
<1>3. CASE Poll
    BY <1>3, PollFightKeeps, PollLatchedKeeps, PollEndKeeps, PollIngestKeeps, MovesKeep DEF Poll, Moves
<1>4. CASE Retry
    BY <1>4, RetryFailedKeeps, WatchFightKeeps, WatchIngestKeeps, MovesKeep DEF Retry, Moves
<1>5. CASE NoNewRevision \/ Shutdown \/ Unsafe
    BY <1>5, ShutdownKeeps, MovesKeep DEF Moves
<1>6. CASE Children
    BY <1>6, ServiceBreaksKeeps, ConsumerExitsKeeps, IngestStepKeeps DEF Children
<1>7. CASE \E d \in Loads : Load(d)
    BY <1>7, LoadKeeps, RuntimeAssumption
<1>8. CASE UNCHANGED vars
  <2>1. UNCHANGED <<loopVars, wishVars, item, slotVars, serviceVars, faults>>
      BY <1>8 DEF vars
  <2>2. CamerasInv' /\ ServiceTypes' /\ BundleInv'
      BY <2>1, FrameCameras, FrameService DEF RuntimeInv, slotVars, serviceVars
  <2>3. LoopTypes'
      BY <2>1 DEF RuntimeInv, LoopTypes, loopVars, wishVars, slotVars
  <2>4. WishInv'
      BY <2>1, WishFrame DEF RuntimeInv, Unsettled, loopVars, wishVars, serviceVars
  <2> QED BY <2>2, <2>3, <2>4 DEF RuntimeInv
<1> QED BY <1>1, <1>2, <1>3, <1>4, <1>5, <1>6, <1>7, <1>8 DEF Next, Loop

\* Every reachable state: what the handlers leave of each camera, alone in its slot;
\* epochs and floors; the bundle; and what is desired (camera_lifecycle.py:219-311,
\* shared_services.py:213-268).
THEOREM RuntimeHolds == Spec => []RuntimeInv
<1>1. RuntimeInv /\ [Next]_vars => RuntimeInv'
    BY RuntimeSteps
<1> QED BY RuntimeStarts, <1>1, PTL DEF Spec

\* The variables keep their types.
THEOREM TypesHold == Spec => []TypeOK
<1>1. RuntimeInv => TypeOK
    BY DEF RuntimeInv, CamerasInv, ItemTypes, LoopTypes, ServiceTypes, TypeOK
<1> QED BY RuntimeHolds, <1>1, PTL

\* Frames flow only to a consumer that can publish: attached to the bundle that
\* exists, and neither its slot's floor nor the service's is above it
\* (camera_lifecycle.py:289, shared_services.py:249).
THEOREM FlowingHolds == Spec => []FlowingIsPublishable
<1>1. ASSUME RuntimeInv, NEW c \in Running, ~item[c].paused, ~item[c].stale
      PROVE  /\ item[c].consumer # "none" /\ ~item[c].failed /\ ~item[c].waiting
             /\ item[c].epoch >= floor[item[c].slot]
             /\ service # "none" /\ item[c].svc = svcEpoch /\ svcEpoch >= serviceFloor
  <2>1. item[c].consumer # "none" /\ ~item[c].failed /\ ~item[c].waiting
      BY <1>1 DEF RuntimeInv, CamerasInv, ItemsInv, ItemInv
  <2>2. item[c].epoch \in Nat /\ floor[item[c].slot] \in Nat /\ floor[item[c].slot] <= item[c].epoch
      BY <1>1 DEF RuntimeInv, CamerasInv, ItemTypes, EpochInv, Running, Item
  <2>3. service # "none" /\ item[c].svc = svcEpoch
      BY <1>1 DEF RuntimeInv, CamerasInv, FedInv
  <2>4. svcEpoch >= serviceFloor
      BY <1>1, <2>3 DEF RuntimeInv, BundleInv, ServiceTypes
  <2> QED BY <2>1, <2>2, <2>3, <2>4
<1>2. RuntimeInv => FlowingIsPublishable
    BY <1>1 DEF FlowingIsPublishable
<1> QED BY RuntimeHolds, <1>2, PTL

\* A file is read under at most one consumer per generation and never before that
\* consumer exists, and one that counts as finished was read to its end and drained
\* by the consumer it had (camera_lifecycle.py:219, 756, 777).
THEOREM ReadingHolds == Spec => []ReadingOrdered
<1>1. RuntimeInv => FileOrdered
    BY DEF RuntimeInv, CamerasInv, ItemsInv, ItemInv, FileOrdered, Running
<1>2. RuntimeInv => FinishedIsDrained
    BY DEF RuntimeInv, CamerasInv, ItemsInv, ItemInv, FinishedIsDrained, Running
<1> QED BY RuntimeHolds, <1>1, <1>2, PTL DEF ReadingOrdered
-----------------------------------------------------------------------------
(* A reading that ended cleanly begins no other. *)

\* A camera that has a runtime is not remembered as one that failed to start.
RememberedInv == \A c \in Cameras : item[c] = None \/ failedWant[c] = None

NotReplayed(c) ==
    /\ item[c] # None /\ AtEnd(item[c])
    /\ item'[c] # None /\ SameSource(item[c].want, item'[c].want)
    => item'[c].gen = item[c].gen /\ AtEnd(item'[c])
Quiet == RememberedInv' /\ \A c \in Files : NotReplayed(c)

\* A step that leaves the generation and the end of every reading alone.
LEMMA QuietAll ==
    ASSUME RememberedInv,
           \A c \in Cameras : \/ item'[c] = None
                              \/ /\ item[c] # None /\ item'[c].gen = item[c].gen
                                 /\ AtEnd(item[c]) => AtEnd(item'[c])
                                 /\ failedWant'[c] \in {failedWant[c], None}
    PROVE  Quiet
BY RuntimeAssumption DEF Quiet, RememberedInv, NotReplayed

\* A step of one camera.
LEMMA QuietOne ==
    ASSUME RememberedInv, NEW c \in Cameras,
           \A d \in Cameras : d # c => item'[d] = item[d] /\ failedWant'[d] = failedWant[d],
           item'[c] = None \/ failedWant'[c] = None, c \in Files => NotReplayed(c)
    PROVE  Quiet
<1>1. RememberedInv'
    BY DEF RememberedInv
<1>2. ASSUME NEW d \in Files, d # c PROVE NotReplayed(d)
    BY <1>2, RuntimeAssumption DEF NotReplayed
<1> QED BY <1>1, <1>2 DEF Quiet

\* One whose reading goes on.
LEMMA QuietItem ==
    ASSUME RememberedInv, NEW c \in Cameras, item[c] # None,
           \A d \in Cameras : d # c => item'[d] = item[d] /\ failedWant'[d] = failedWant[d],
           failedWant'[c] \in {failedWant[c], None},
           item'[c].gen = item[c].gen /\ (AtEnd(item[c]) => AtEnd(item'[c]))
    PROVE  Quiet
BY QuietOne DEF RememberedInv, NotReplayed

LEMMA FencedReading ==
    ASSUME NEW i \in Item, NEW waiting \in BOOLEAN
    PROVE  LET j == Fenced(i, waiting) IN j \in Item /\ j.gen = i.gen /\ (AtEnd(i) => AtEnd(j))
BY DEF Fenced, Item, AtEnd

\* A started camera, wherever: it had no runtime, its old one was not at its end, or
\* its source is another.
LEMMA QuietStart ==
    ASSUME RuntimeInv, RememberedInv, NEW c \in Cameras, NEW w \in Wants, NEW s \in Slots, NEW g \in Nat,
           NEW n \in {0, 1}, StartAfter(c, w, s, g, n),
           \A d \in Running : d # c => item[d].slot # s,
           UNCHANGED <<service, svcEpoch>>,
           \A d \in Cameras : d # c => failedWant'[d] = failedWant[d],
           item'[c] = None \/ failedWant'[c] = None,
           c \in Files => item[c] = None \/ ~AtEnd(item[c]) \/ ~SameSource(item[c].want, w)
    PROVE  Quiet
<1>1. /\ \A d \in Cameras : d # c => item'[d] = item[d]
      /\ item'[c] # None => item'[c].want = w
    BY StartKeeps DEF RuntimeInv, ServiceTypes
<1>2. c \in Files => NotReplayed(c)
    BY <1>1 DEF NotReplayed
<1> QED BY <1>1, <1>2, QuietOne

LEMMA RemembersOne ==
    ASSUME RuntimeInv, NEW c \in Cameras, NEW w \in Wants, Remember(c, w)
    PROVE  /\ \A d \in Cameras : d # c => failedWant'[d] = failedWant[d]
           /\ item'[c] = None \/ failedWant'[c] = None
BY DEF Remember, RuntimeInv, LoopTypes

LEMMA QuietStartFree ==
    ASSUME RuntimeInv, RememberedInv, NEW c \in Cameras, NEW w \in Wants, StartFree(c, w), item[c] = None,
           UNCHANGED <<service, svcEpoch>>
    PROVE  Quiet
<1>1. /\ \A d \in Cameras : d # c => failedWant'[d] = failedWant[d]
      /\ item'[c] = None \/ failedWant'[c] = None
    BY RemembersOne DEF StartFree
<1>2. CASE UNCHANGED item
    BY <1>1, <1>2, QuietOne DEF NotReplayed
<1>3. CASE \E s \in FreeSlots : Start(c, w, s, gen[s] + 1)
  <2>1. PICK s \in FreeSlots : StartAfter(c, w, s, gen[s] + 1, 0)
      BY <1>3 DEF Start
  <2>2. s \in Slots /\ gen[s] + 1 \in Nat /\ \A d \in Running : item[d].slot # s
      BY DEF FreeSlots, RuntimeInv, LoopTypes
  <2> QED BY <1>1, <2>1, <2>2, QuietStart
<1> QED BY <1>2, <1>3 DEF StartFree

LEMMA QuietRestart ==
    ASSUME RuntimeInv, RememberedInv, NEW c \in Cameras, NEW w \in Wants, item[c] # None, NEW n \in {0, 1},
           StartAfter(c, w, item[c].slot, gen[item[c].slot] + 1, n), UNCHANGED <<service, svcEpoch>>,
           \A d \in Cameras : d # c => failedWant'[d] = failedWant[d],
           item'[c] = None \/ failedWant'[c] = None,
           c \in Files => ~AtEnd(item[c]) \/ ~SameSource(item[c].want, w)
    PROVE  Quiet
<1>1. item[c] \in Item /\ c \in Running
    BY DEF RuntimeInv, CamerasInv, ItemTypes, Running
<1>2. PICK s \in Slots : s = item[c].slot
    BY <1>1 DEF Item
<1>3. gen[s] + 1 \in Nat /\ \A d \in Running : d # c => item[d].slot # s
    BY <1>1, <1>2 DEF RuntimeInv, CamerasInv, SlotInv, LoopTypes
<1>4. StartAfter(c, w, s, gen[s] + 1, n)
    BY <1>2
<1> QED BY <1>3, <1>4, QuietStart
LEMMA QuietReconcile ==
    ASSUME RuntimeInv, RememberedInv, NEW c \in Cameras,
           ReconcileRemoved(c) \/ ReconcileMoved(c) \/ ReconcileFile(c) \/ ReconcileLive(c) \/ ReconcileAdded(c)
    PROVE  Quiet
<1>1. /\ UNCHANGED <<service, svcEpoch>> /\ desired[c] \in Wants
      /\ item \in [Cameras -> Item \cup {None}] /\ failedWant \in [Cameras -> Wants \cup {None}]
    BY DEF ReconcileRemoved, ReconcileMoved, ReconcileFile, ReconcileLive, ReconcileAdded, ReconcileStep, serviceVars,
           RuntimeInv, LoopTypes, CamerasInv, ItemTypes
<1>2. CASE ReconcileRemoved(c)
  <2>1. item'[c] = None /\ \A d \in Cameras : d # c => item'[d] = item[d] /\ failedWant'[d] = failedWant[d]
      BY <1>1, <1>2 DEF ReconcileRemoved
  <2> QED BY <2>1, QuietOne DEF NotReplayed
<1>3. CASE ReconcileMoved(c)
  <2>1. /\ StartAfter(c, desired[c], item[c].slot, gen[item[c].slot] + 1, 0) /\ Remember(c, desired[c])
        /\ item[c] # None /\ ~SameSource(item[c].want, desired[c])
      BY <1>3 DEF ReconcileMoved, Changed, RestartCamera, Start
  <2> QED BY <1>1, <2>1, RemembersOne, QuietRestart
<1>4. CASE ReconcileFile(c)
  <2>1. item[c] \in Item
      BY <1>1, <1>4 DEF ReconcileFile, Changed
  <2>2. \/ item' = item
        \/ item' = [item EXCEPT ![c] = [Fenced(item[c], FALSE) EXCEPT !.want = desired[c]]]
      BY <1>4 DEF ReconcileFile
  <2>3. failedWant' = [failedWant EXCEPT ![c] = None]
      BY <1>4 DEF ReconcileFile
  <2>4. LET j == [Fenced(item[c], FALSE) EXCEPT !.want = desired[c]]
        IN j.gen = item[c].gen /\ (AtEnd(item[c]) => AtEnd(j))
    <3> DEFINE f == Fenced(item[c], FALSE)
    <3>1. f \in Item /\ f.gen = item[c].gen /\ (AtEnd(item[c]) => AtEnd(f))
        BY <2>1, FencedReading
    <3> HIDE DEF f
    <3>2. LET j == [f EXCEPT !.want = desired[c]] IN j.gen = f.gen /\ (AtEnd(f) => AtEnd(j))
        BY <3>1 DEF Item, AtEnd
    <3> QED BY <3>1, <3>2 DEF f
  <2>5. item[c] # None /\ item'[c].gen = item[c].gen /\ (AtEnd(item[c]) => AtEnd(item'[c]))
      BY <1>1, <1>4, <2>2, <2>4 DEF ReconcileFile, Changed
  <2>6. \A d \in Cameras : d # c => item'[d] = item[d] /\ failedWant'[d] = failedWant[d]
      BY <1>1, <2>2, <2>3
  <2>7. failedWant'[c] = None
      BY <1>1, <2>3
  <2> QED BY <2>5, <2>6, <2>7, QuietItem
<1>5. CASE ReconcileLive(c)
  <2>1. c \notin Files /\ failedWant' = [failedWant EXCEPT ![c] = None]
      BY <1>5 DEF ReconcileLive
  <2>2. \A d \in Cameras : d # c => item'[d] = item[d]
      BY <1>1, <1>5 DEF ReconcileLive
  <2> QED BY <1>1, <2>1, <2>2, QuietOne
<1>6. CASE ReconcileAdded(c)
  <2>1. CASE UNCHANGED <<failedWant, item>>
      BY <2>1, QuietAll
  <2>2. CASE StartFree(c, desired[c])
      BY <1>1, <1>6, <2>2, QuietStartFree DEF ReconcileAdded
  <2> QED BY <1>6, <2>1, <2>2 DEF ReconcileAdded
<1> QED BY <1>2, <1>3, <1>4, <1>5, <1>6

\* A failure of the bundle withdraws consumers; the readings of files stay.
LEMMA QuietFailure ==
    ASSUME RuntimeInv, RememberedInv, UNCHANGED failedWant, NEW n, NEW k, NEW g, FightFailure(n, k, g),
           \A c \in Cameras : \/ item[c] = None /\ g[c] = None
                              \/ item[c] # None /\ g[c] \in Item /\ g[c].gen = item[c].gen
                                 /\ (AtEnd(item[c]) => AtEnd(g[c]))
    PROVE  Quiet
<1>1. item' = [c \in Cameras |-> IF Hit(g[c]) THEN Suspended(c, g[c]) ELSE g[c]]
    BY DEF FightFailure, SuspendFight
<1>2. ASSUME NEW c \in Cameras, item'[c] # None
      PROVE  item[c] # None /\ item'[c].gen = item[c].gen /\ (AtEnd(item[c]) => AtEnd(item'[c]))
  <2>1. item[c] # None /\ g[c] \in Item
      BY <1>1, <1>2 DEF Hit
  <2>2. (c \notin Files) \in BOOLEAN
      OBVIOUS
  <2>3. LET j == Suspended(c, g[c]) IN j.gen = g[c].gen /\ (AtEnd(g[c]) => AtEnd(j))
      BY <2>1, <2>2, FencedReading DEF Suspended
  <2> QED BY <1>1, <2>1, <2>3
<1> QED BY <1>2, QuietAll

\* A camera that waits for the service has no reading that could be at its end; one
\* that is resumed keeps its generation.
LEMMA ResumedReading ==
    ASSUME RuntimeInv, NEW c \in Waiting, NEW m \in Nat
    PROVE  /\ Resumed(c, m) \in Item /\ Resumed(c, m).gen = item[c].gen
           /\ AtEnd(item[c]) => AtEnd(Resumed(c, m))
<1>1. item[c] \in Item /\ ItemInv(c, item[c]) /\ c \in Cameras
    BY DEF Waiting, Running, RuntimeInv, CamerasInv, ItemTypes, ItemsInv
<1>2. epochs \in [Slots -> Nat] /\ svcEpoch \in Nat
    BY DEF RuntimeInv, CamerasInv, ItemTypes, ServiceTypes
<1>3. Spawned(item[c]) \in Item /\ Spawned(item[c]).ingest = item[c].ingest /\ Spawned(item[c]).eof = item[c].eof
    BY <1>1, <1>2, SpawnedIs
<1>4. Spawned(item[c]).gen = item[c].gen
    BY <1>1 DEF Spawned, Item
<1> QED BY <1>1, <1>3, <1>4 DEF Resumed, Item, AtEnd

LEMMA BrokenReading ==
    ASSUME RuntimeInv, NEW c \in Waiting
    PROVE  Broken(c).gen = item[c].gen /\ (AtEnd(item[c]) => AtEnd(Broken(c)))
<1>1. item[c] \in Item
    BY DEF Waiting, Running, RuntimeInv, CamerasInv, ItemTypes
<1> QED BY <1>1 DEF Broken, StartFailed, Item, AtEnd

LEMMA QuietTick ==
    ASSUME RuntimeInv, RememberedInv, TickHealth \/ TickReplace \/ TickIdle
    PROVE  Quiet
<1>1. UNCHANGED failedWant /\ item \in [Cameras -> Item \cup {None}] /\ svcEpoch \in Nat
    BY DEF TickHealth, TickReplace, TickIdle, wishVars, RuntimeInv, CamerasInv, ItemTypes, ServiceTypes
<1>2. CASE UNCHANGED item
    BY <1>1, <1>2, QuietAll
<1>3. ASSUME NEW n, NEW k, FightFailure(n, k, item) PROVE Quiet
    BY <1>1, <1>3, QuietFailure
<1>4. PICK m \in Nat : m = svcEpoch + 1
    BY <1>1
<1>5. ASSUME NEW bad \in SUBSET (Waiting \ Files), item' = ResumeFight(m, Waiting, bad) PROVE Quiet
  <2>1. item' = [c \in Cameras |-> IF c \in bad THEN Broken(c) ELSE IF c \in Waiting THEN Resumed(c, m) ELSE item[c]]
      BY <1>5 DEF ResumeFight
  <2>2. ASSUME NEW c \in Cameras, item'[c] # None
        PROVE  item[c] # None /\ item'[c].gen = item[c].gen /\ (AtEnd(item[c]) => AtEnd(item'[c]))
    <3>1. CASE c \in Waiting
        BY <2>1, <3>1, ResumedReading, BrokenReading DEF Waiting, Running
    <3>2. CASE c \notin Waiting
        BY <2>1, <2>2, <3>2
    <3> QED BY <3>1, <3>2
  <2> QED BY <1>1, <2>2, QuietAll
<1>6. ASSUME NEW k, NEW f \in Waiting \cap Files, NEW reached \in SUBSET Waiting,
             FightFailure(m, k, [ResumeFight(m, reached, {}) EXCEPT ![f].epoch = epochs[item[f].slot] + 1]),
             f \notin reached
      PROVE  Quiet
  <2> DEFINE g == [ResumeFight(m, reached, {}) EXCEPT ![f].epoch = epochs[item[f].slot] + 1]
             raised == [item[f] EXCEPT !.epoch = epochs[item[f].slot] + 1]
  <2>1. g = [c \in Cameras |-> IF c = f THEN raised ELSE IF c \in reached THEN Resumed(c, m) ELSE item[c]]
      BY <1>6 DEF ResumeFight, Waiting, Running
  <2>2. f \in Cameras /\ item[f] \in Item /\ item[f] # None
      BY <1>1 DEF Waiting, Running
  <2>3. epochs[item[f].slot] + 1 \in Nat
      BY <2>2 DEF Item, RuntimeInv, CamerasInv, ItemTypes
  <2>4. raised \in Item /\ raised.gen = item[f].gen /\ (AtEnd(item[f]) => AtEnd(raised))
      BY <2>2, <2>3 DEF Item, AtEnd
  <2> HIDE DEF raised, g
  <2>5. ASSUME NEW c \in Cameras
        PROVE  \/ item[c] = None /\ g[c] = None
               \/ item[c] # None /\ g[c] \in Item /\ g[c].gen = item[c].gen /\ (AtEnd(item[c]) => AtEnd(g[c]))
    <3>1. CASE c = f
        BY <2>1, <2>2, <2>4, <3>1
    <3>2. CASE c # f /\ c \in reached
      <4>1. c \in Waiting /\ item[c] # None
          BY <3>2 DEF Waiting, Running
      <4> QED BY <2>1, <3>2, <4>1, ResumedReading
    <3>3. CASE c # f /\ c \notin reached
        BY <1>1, <2>1, <3>3
    <3> QED BY <3>1, <3>2, <3>3
  <2>6. FightFailure(m, k, g)
      BY <1>6 DEF g
  <2> QED BY <1>1, <2>5, <2>6, QuietFailure
<1>7. CASE TickHealth
    BY <1>2, <1>3, <1>7 DEF TickHealth
<1>8. CASE TickReplace
  <2>1. svcEpoch' = m
      BY <1>4, <1>8 DEF TickReplace
  <2> QED BY <1>3, <1>5, <1>6, <1>8, <2>1 DEF TickReplace
<1>9. CASE TickIdle
    BY <1>2, <1>9 DEF TickIdle
<1> QED BY <1>7, <1>8, <1>9
\* A consumer that is fenced, and perhaps replaced, reads on in the same generation.
LEMMA QuietRefence ==
    ASSUME RuntimeInv, RememberedInv, NEW c \in Cameras, item[c] # None, Refence(c)
    PROVE  Quiet
<1>1. item \in [Cameras -> Item \cup {None}] /\ item[c] \in Item /\ failedWant' = failedWant
    BY DEF RuntimeInv, CamerasInv, ItemTypes, Refence
<1>2. PICK o \in Restart(c, Fenced(item[c], FALSE)) : item' = [item EXCEPT ![c] = o.item]
    BY DEF Refence
<1>3. \A d \in Cameras : d # c => item'[d] = item[d] /\ failedWant'[d] = failedWant[d]
    BY <1>1, <1>2
<1>4. CASE c \in Files
  <2>1. o = Outcome(Fenced(item[c], FALSE), 0, 0, TRUE)
      BY <1>2, <1>4 DEF Restart
  <2>2. item'[c] = Fenced(item[c], FALSE)
      BY <1>1, <1>2, <2>1 DEF Outcome
  <2>3. item'[c].gen = item[c].gen /\ (AtEnd(item[c]) => AtEnd(item'[c]))
      BY <1>1, <2>2, FencedReading
  <2> QED BY <1>1, <1>3, <2>3, QuietItem
<1>5. CASE c \notin Files
    BY <1>1, <1>3, <1>5, QuietOne DEF RememberedInv
<1> QED BY <1>4, <1>5

LEMMA QuietPoll ==
    ASSUME RuntimeInv, RememberedInv, NEW c \in Cameras,
           PollFight(c) \/ PollLatched(c) \/ PollEnd(c) \/ PollIngest(c)
    PROVE  Quiet
<1>1. /\ item \in [Cameras -> Item \cup {None}] /\ item[c] \in Item /\ item[c] # None /\ item[c].want \in Wants
      /\ UNCHANGED <<service, svcEpoch>>
    BY DEF PollFight, PollLatched, PollEnd, PollIngest, Polls, Keep, serviceVars, RuntimeInv, CamerasInv, ItemTypes, Item
<1>2. CASE Refence(c)
    BY <1>1, <1>2, QuietRefence
<1>3. CASE UNCHANGED <<item, failedWant>>
    BY <1>3, QuietAll
<1>4. ASSUME NEW o \in Restart(c, item[c]), item' = [item EXCEPT ![c] = o.item], UNCHANGED failedWant
      PROVE  Quiet
  <2>1. \A d \in Cameras : d # c => item'[d] = item[d] /\ failedWant'[d] = failedWant[d]
      BY <1>1, <1>4
  <2>2. ASSUME c \in Files PROVE item' = item
    <3>1. o = Outcome(item[c], 0, 0, TRUE)
        BY <1>4, <2>2 DEF Restart
    <3> QED BY <1>1, <1>4, <3>1 DEF Outcome
  <2>3. CASE c \in Files
      BY <1>3, <1>4, <2>2, <2>3
  <2>4. CASE c \notin Files
      BY <1>1, <1>4, <2>1, <2>4, QuietOne DEF RememberedInv
  <2> QED BY <2>3, <2>4
<1>5. CASE PollFight(c)
    BY <1>2, <1>3, <1>4, <1>5 DEF PollFight
<1>6. ASSUME NEW i, item' = [item EXCEPT ![c] = i], UNCHANGED failedWant,
             i.gen = item[c].gen /\ (AtEnd(item[c]) => AtEnd(i))
      PROVE  Quiet
  <2>1. \A d \in Cameras : d # c => item'[d] = item[d] /\ failedWant'[d] = failedWant[d]
      BY <1>1, <1>6
  <2>2. item'[c] = i
      BY <1>1, <1>6
  <2> QED BY <1>1, <1>6, <2>1, <2>2, QuietItem
<1>7. CASE PollLatched(c)
  <2>1. LET j == [item[c] EXCEPT !.done = TRUE, !.consumer = "none"]
        IN item' = [item EXCEPT ![c] = j] /\ j.gen = item[c].gen /\ (AtEnd(item[c]) => AtEnd(j))
      BY <1>1, <1>7 DEF PollLatched, Item, AtEnd
  <2>2. UNCHANGED failedWant
      BY <1>7 DEF PollLatched, Keep, wishVars
  <2> QED BY <1>6, <2>1, <2>2
<1>8. CASE PollEnd(c)
  <2>1. CASE item' = [item EXCEPT ![c].done = TRUE] /\ UNCHANGED failedWant
    <3>1. LET j == [item[c] EXCEPT !.done = TRUE]
          IN item' = [item EXCEPT ![c] = j] /\ j.gen = item[c].gen /\ (AtEnd(item[c]) => AtEnd(j))
        BY <1>1, <2>1 DEF Item, AtEnd
    <3> QED BY <1>6, <2>1, <3>1
  <2> QED BY <1>2, <1>3, <1>8, <2>1 DEF PollEnd
<1>9. CASE PollIngest(c)
  <2>1. CASE RestartCamera(c, item[c].want) /\ Remember(c, item[c].want) /\ ~AtEnd(item[c])
      BY <1>1, <2>1, RemembersOne, QuietRestart DEF RestartCamera, Start
  <2> QED BY <1>3, <1>9, <2>1 DEF PollIngest
<1> QED BY <1>5, <1>7, <1>8, <1>9

LEMMA QuietWatch ==
    ASSUME RuntimeInv, RememberedInv, NEW c \in Cameras, WatchFight(c) \/ WatchIngest(c)
    PROVE  Quiet
<1>1. /\ item \in [Cameras -> Item \cup {None}] /\ item[c] # None /\ item[c] \in Item /\ item[c].want \in Wants
      /\ UNCHANGED <<service, svcEpoch, failedWant>>
    BY DEF WatchFight, WatchIngest, Watch, wishVars, serviceVars, RuntimeInv, CamerasInv, ItemTypes, Item
<1>2. CASE WatchFight(c)
  <2>1. PICK o \in Restart(c, Fenced(item[c], FALSE)) : item' = [item EXCEPT ![c] = o.item]
      BY <1>2 DEF WatchFight
  <2>2. \A d \in Cameras : d # c => item'[d] = item[d] /\ failedWant'[d] = failedWant[d]
      BY <1>1, <2>1
  <2>3. CASE c \in Files
    <3>1. o = Outcome(Fenced(item[c], FALSE), 0, 0, TRUE)
        BY <2>1, <2>3 DEF Restart
    <3>2. item'[c] = Fenced(item[c], FALSE)
        BY <1>1, <2>1, <3>1 DEF Outcome
    <3>3. item'[c].gen = item[c].gen /\ (AtEnd(item[c]) => AtEnd(item'[c]))
        BY <1>1, <3>2, FencedReading
    <3> QED BY <1>1, <2>2, <3>3, QuietItem
  <2>4. CASE c \notin Files
      BY <1>1, <2>2, <2>4, QuietOne DEF RememberedInv
  <2> QED BY <2>3, <2>4
<1>3. CASE WatchIngest(c)
  <2>1. StartAfter(c, item[c].want, item[c].slot, gen[item[c].slot] + 1, 1) /\ ~AtEnd(item[c])
      BY <1>3 DEF WatchIngest, AtEnd
  <2>2. failedWant'[c] = None /\ \A d \in Cameras : d # c => failedWant'[d] = failedWant[d]
      BY <1>1 DEF RememberedInv
  <2> QED BY <1>1, <2>1, <2>2, QuietRestart
<1> QED BY <1>2, <1>3

LEMMA QuietChild ==
    ASSUME RuntimeInv, RememberedInv, NEW c \in Cameras, ConsumerExits(c) \/ IngestStep(c)
    PROVE  Quiet
<1>1. item \in [Cameras -> Item \cup {None}] /\ item[c] # None /\ item[c] \in Item
    BY DEF ConsumerExits, IngestStep, RuntimeInv, CamerasInv, ItemTypes
<1>2. ASSUME NEW i, Child(c, i), i.gen = item[c].gen, AtEnd(item[c]) => AtEnd(i)
      PROVE  Quiet
  <2>1. item' = [item EXCEPT ![c] = i] /\ UNCHANGED failedWant
      BY <1>2 DEF Child, wishVars
  <2>2. \A d \in Cameras : d # c => item'[d] = item[d] /\ failedWant'[d] = failedWant[d]
      BY <1>1, <2>1
  <2>3. item'[c] = i
      BY <1>1, <2>1
  <2> QED BY <1>1, <1>2, <2>1, <2>2, <2>3, QuietItem
<1>3. ASSUME NEW how PROVE LET j == [item[c] EXCEPT !.consumer = how]
                           IN j.gen = item[c].gen /\ (AtEnd(item[c]) => AtEnd(j))
    BY <1>1 DEF Item, AtEnd
<1>4. CASE ConsumerExits(c)
    BY <1>2, <1>3, <1>4 DEF ConsumerExits
<1>5. CASE IngestStep(c)
  <2>1. ~AtEnd(item[c])
      BY <1>5 DEF IngestStep, AtEnd
  <2>2. [item[c] EXCEPT !.eof = TRUE].gen = item[c].gen
      BY <1>1 DEF Item
  <2>3. ASSUME NEW how PROVE [item[c] EXCEPT !.ingest = how].gen = item[c].gen
      BY <1>1 DEF Item
  <2> QED BY <1>2, <1>5, <2>1, <2>2, <2>3 DEF IngestStep
<1> QED BY <1>4, <1>5

LEMMA QuietLoad ==
    ASSUME RememberedInv, NEW d \in [Cameras -> Wants], Load(d)
    PROVE  Quiet
<1>1. item' = item /\ failedWant' = [c \in Cameras |-> IF d[c] = "off" THEN None ELSE failedWant[c]]
    BY DEF Load
<1> QED BY <1>1, RuntimeAssumption DEF Quiet, RememberedInv, NotReplayed

LEMMA QuietSteps == RuntimeInv /\ RememberedInv /\ [Next]_vars => Quiet
<1> SUFFICES ASSUME RuntimeInv, RememberedInv, [Next]_vars PROVE Quiet
    OBVIOUS
<1>1. CASE Moves \/ ServiceBreaks \/ UNCHANGED vars
  <2>1. UNCHANGED <<item, failedWant>>
      BY <1>1 DEF Moves, NoNewRevision, Reconciled, TickSkip, Polled, Retried, EndIteration, Unsafe, PollDone,
                  PollHealthy, Keep, ServiceBreaks, wishVars, vars
  <2> QED BY <2>1, QuietAll
<1>2. CASE Reconcile
    BY <1>1, <1>2, QuietReconcile DEF Reconcile, Moves
<1>3. CASE Tick
    BY <1>1, <1>3, QuietTick DEF Tick, Moves
<1>4. CASE Poll
    BY <1>1, <1>4, QuietPoll DEF Poll, Moves
<1>5. CASE Retry
  <2>1. ASSUME NEW c \in Cameras, RetryFailed(c) PROVE Quiet
    <3>1. /\ phase = "retry" /\ c \in pending /\ StartFree(c, failedWant[c])
          /\ UNCHANGED <<service, svcEpoch>>
        BY <2>1 DEF RetryFailed, serviceVars
    <3>2. failedWant[c] # None /\ failedWant[c] \in Wants
        BY <3>1 DEF RuntimeInv, LoopTypes
    <3>3. item[c] = None
        BY <3>2 DEF RememberedInv
    <3> QED BY <3>1, <3>2, <3>3, QuietStartFree
  <2> QED BY <1>1, <1>5, <2>1, QuietWatch DEF Retry, Moves
<1>6. CASE Shutdown
  <2>1. \A c \in Cameras : item'[c] = None
      BY <1>6 DEF Shutdown
  <2> QED BY <2>1, QuietAll
<1>7. CASE Children
    BY <1>1, <1>7, QuietChild DEF Children
<1>8. CASE \E d \in Loads : Load(d)
    BY <1>8, QuietLoad, RuntimeAssumption
<1> QED BY <1>1, <1>2, <1>3, <1>4, <1>5, <1>6, <1>7, <1>8 DEF Next, Loop, Moves

\* A file whose source has ended cleanly is not read again under another generation,
\* whatever its consumer, the service or the watchdog come to, until an operator
\* changes its source or takes it away (camera_lifecycle.py:778; ARCHITECTURE.md:176).
THEOREM CleanEndHolds == Spec => CleanEndIsFinal
<1>1. Init => RememberedInv
    BY DEF Init, RememberedInv
<1>2. RuntimeInv /\ RememberedInv /\ [Next]_vars => RememberedInv'
    BY QuietSteps DEF Quiet
<1>3. RuntimeInv /\ RememberedInv /\ [Next]_vars => [\A c \in Files :
         /\ item[c] # None /\ AtEnd(item[c])
         /\ item'[c] # None /\ SameSource(item[c].want, item'[c].want)
         => item'[c].gen = item[c].gen /\ AtEnd(item'[c])]_vars
    BY QuietSteps DEF Quiet, NotReplayed
<1> QED BY RuntimeHolds, <1>1, <1>2, <1>3, PTL DEF Spec, CleanEndIsFinal
=============================================================================
