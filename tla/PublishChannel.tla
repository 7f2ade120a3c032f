--------------------------- MODULE PublishChannel ---------------------------
(***************************************************************************)
(* robot_mujoco_ros2/src/publish_channel.cpp: the way from the simulation  *)
(* to the publish worker of the ROS bridge, with no lock.                  *)
(*                                                                         *)
(* The latest small snapshot (clock, IMUs, lidars) lies in one of two      *)
(* slots, the index of the active one in an atomic.  Camera frames lie in  *)
(* NumSlots slots whose indices go round through two rings: free_slots     *)
(* (consumer to producer) and ready_slots (producer to consumer).  A       *)
(* producer that finds no free slot takes the oldest ready one.            *)
(*                                                                         *)
(* One producer, the scheduler's worker, runs publish_bundle (on_activate, *)
(* which publishes once, too, is in HardwareInterface); one consumer runs  *)
(* the loop of SimulationRosBridge::run_publish_worker.  An action         *)
(* holds one access to shared memory.  Bundle n is the n-th published and  *)
(* stands for its own time and content; the two parts of a slot are what   *)
(* is written first (sim_time, IMUs; the frame's header) and last (lidars; *)
(* the image).  copy_lidar_state and copy_camera_state do not fail: the    *)
(* sizes on both sides come from one configuration.                        *)
(*                                                                         *)
(* Each ring was made for one thread at either end.  ready_slots has one   *)
(* that pushes and two that pop, free_slots one that pops and two that     *)
(* push, so the operations that two threads share are in two steps.        *)
(***************************************************************************)
EXTENDS Naturals

CONSTANTS
  NumSlots,   \* camera_slots_.size()
  MaxBundle   \* bound: bundles published

ASSUME SlotsAssumption == NumSlots \in Nat \ {0}
ASSUME BundlesAssumption == MaxBundle \in Nat

VARIABLES
  pp,             \* where the producer is in publish_bundle
  bundle,         \* the bundle the producer is at, or was at last
  slots,          \* small_snapshot_slots_
  active,         \* active_small_snapshot_slot_
  latest,         \* latest_small_snapshot_sequence_
  clockNs,        \* latest_clock_ns_
  clockSequence,  \* latest_clock_sequence_
  frames,         \* camera_slots_
  free,           \* camera_free_slots_
  ready,          \* camera_ready_slots_
  mine,           \* the camera slot (and ring position) the producer works with
  spare,          \* the camera slot (and ring position) it gives back to free_slots
  cp,             \* where the consumer is in its loop
  seen,           \* the sequence and the slot the consumer has loaded
  consumed,       \* consumed_small_snapshot_sequence_
  consumedClock,  \* consumed_clock_sequence_
  got,            \* the snapshot the consumer copies
  delivered,      \* history: the last snapshot published to ROS
  clock,          \* history: the last /clock published to ROS
  theirs,         \* the camera slot (and ring position) the consumer works with
  frame,          \* the camera frame the consumer copies
  stole           \* history: the producer has taken a slot from ready_slots

producerVars == <<pp, bundle, mine, spare, stole>>
snapshotVars == <<slots, active, latest>>
clockVars    == <<clockNs, clockSequence>>
cameraVars   == <<frames, free, ready>>
consumerVars == <<cp, seen, consumed, consumedClock, got, delivered, clock, theirs, frame>>
vars == <<producerVars, snapshotVars, clockVars, cameraVars, consumerVars>>

SlotIds == 1..NumSlots
Bundles == 0..MaxBundle
Parts   == [first : Bundles, last : Bundles]
NothingSeen == [sequence |-> 0, slot |-> 0]
Whole(n) == [first |-> n, last |-> n]
Tickets == [slot : SlotIds, at : 0..NumSlots + 1]
NoTicket == [slot |-> 1, at |-> 0]   \* a local that is not in use

(***************************************************************************)
(* realtime_tools::LockFreeSPSCQueue(slot_count + 1): a ring with one cell *)
(* more than its capacity, and a read and a write position.                *)
(***************************************************************************)
RingSize == NumSlots + 2
After(position) == (position + 1) % RingSize
Empty(ring) == ring.read = ring.write
Full(ring)  == After(ring.write) = ring.read
Fill(ring, at, slot) == [ring EXCEPT !.cells[at] = slot]
Extend(ring, at) == [ring EXCEPT !.write = After(at)]
Push(ring, slot) == Extend(Fill(ring, ring.write, slot), ring.write)
Peek(ring) == [slot |-> ring.cells[ring.read], at |-> ring.read]
Commit(ring, ticket) == [ring EXCEPT !.read = After(ticket.at)]
Rings == [cells : [0..RingSize - 1 -> SlotIds], read : 0..RingSize - 1, write : 0..RingSize - 1]

Init ==
  /\ pp = "idle" /\ bundle = 0
  /\ slots = [i \in 0..1 |-> Whole(0)] /\ active = 0 /\ latest = 0
  /\ clockNs = 0 /\ clockSequence = 0
  /\ frames = [s \in SlotIds |-> Whole(0)]
  /\ free  = [cells |-> [i \in 0..RingSize - 1 |-> IF i < NumSlots THEN i + 1 ELSE 1],
              read |-> 0, write |-> NumSlots]
  /\ ready = [cells |-> [i \in 0..RingSize - 1 |-> 1], read |-> 0, write |-> 0]
  /\ mine = NoTicket /\ spare = NoTicket /\ stole = FALSE
  /\ cp = "look" /\ seen = NothingSeen
  /\ consumed = 0 /\ consumedClock = 0
  /\ got = Whole(0) /\ delivered = Whole(0) /\ clock = 0
  /\ theirs = NoTicket /\ frame = Whole(0)

(***************************************************************************)
(* The producer: publish_bundle.                                           *)
(***************************************************************************)
Produce(from, to) ==
  /\ pp = from /\ pp' = to
  /\ stole' = (stole \/ to = "stolen")
  /\ UNCHANGED consumerVars

Inactive == 1 - active

WriteSnapshotFirst ==
  /\ Produce("idle", "lidars")
  /\ bundle < MaxBundle
  /\ bundle' = bundle + 1
  /\ slots' = [slots EXCEPT ![Inactive].first = bundle']
  /\ UNCHANGED <<mine, spare, active, latest, clockVars, cameraVars>>

WriteSnapshotLast ==
  /\ Produce("lidars", "take")
  /\ slots' = [slots EXCEPT ![Inactive].last = bundle]
  /\ UNCHANGED <<bundle, mine, spare, active, latest, clockVars, cameraVars>>

\* Nobody else pops from free_slots.
TakeFree ==
  /\ IF Empty(free) THEN /\ Produce("take", "steal")
                         /\ UNCHANGED <<mine, spare, free>>
                    ELSE /\ Produce("take", "header")
                         /\ mine' = Peek(free)
                         /\ free' = Commit(free, Peek(free))
  /\ UNCHANGED <<bundle, spare, snapshotVars, clockVars, frames, ready>>

\* Without a slot the bundle is given up before anything of it can be seen.
Starve ==
  /\ Produce("steal", "idle") /\ Empty(ready)
  /\ UNCHANGED <<bundle, mine, spare, snapshotVars, clockVars, cameraVars>>

StealOldest ==
  \/ /\ Produce("steal", "stolen") /\ ~Empty(ready)
     /\ mine' = Peek(ready)
     /\ UNCHANGED <<bundle, spare, snapshotVars, clockVars, cameraVars>>
  \/ /\ Produce("stolen", "header")
     /\ ready' = Commit(ready, mine)
     /\ UNCHANGED <<bundle, mine, spare, snapshotVars, clockVars, frames, free>>

WithoutImage == "push"                 \* mutant: the image is not copied
AfterHeader == "image"

WriteFrame ==
  \/ /\ Produce("header", AfterHeader)
     /\ frames' = [frames EXCEPT ![mine.slot].first = bundle]
     /\ UNCHANGED <<bundle, mine, spare, snapshotVars, clockVars, free, ready>>
  \/ /\ Produce("image", "push")
     /\ frames' = [frames EXCEPT ![mine.slot].last = bundle]
     /\ UNCHANGED <<bundle, mine, spare, snapshotVars, clockVars, free, ready>>

PushReady ==
  /\ Produce("push", "clock") /\ ~Full(ready)
  /\ ready' = Push(ready, mine.slot) /\ mine' = NoTicket
  /\ UNCHANGED <<bundle, spare, snapshotVars, clockVars, frames, free>>

\* Indices that two threads popped can fill the ring: the oldest is discarded.
FindFull ==
  /\ Produce("push", "discard") /\ Full(ready)
  /\ UNCHANGED <<bundle, mine, spare, snapshotVars, clockVars, cameraVars>>

DiscardOldest ==
  \/ /\ Produce("discard", "discarded") /\ ~Empty(ready)
     /\ spare' = Peek(ready)
     /\ UNCHANGED <<bundle, mine, snapshotVars, clockVars, cameraVars>>
  \/ /\ Produce("discarded", "pushAgain")
     /\ ready' = Commit(ready, spare)
     /\ UNCHANGED <<bundle, mine, spare, snapshotVars, clockVars, frames, free>>

PushAgain ==
  /\ Produce("pushAgain", "giveSpare") /\ ~Full(ready)
  /\ ready' = Push(ready, mine.slot) /\ mine' = NoTicket
  /\ UNCHANGED <<bundle, spare, snapshotVars, clockVars, frames, free>>

\* The ring was drained, or filled again, in the meantime: the bundle is given up.
GiveUp ==
  /\ \/ Produce("discard", "giveBack") /\ Empty(ready)
     \/ Produce("pushAgain", "giveBack") /\ Full(ready)
  /\ spare' = mine /\ mine' = NoTicket
  /\ UNCHANGED <<bundle, snapshotVars, clockVars, cameraVars>>

\* A push to a full ring is lost.
GiveBack(from, filled, to) ==
  \/ /\ Produce(from, to) /\ Full(free)
     /\ spare' = NoTicket
     /\ UNCHANGED <<bundle, mine, snapshotVars, clockVars, cameraVars>>
  \/ /\ Produce(from, filled) /\ ~Full(free)
     /\ free' = Fill(free, free.write, spare.slot)
     /\ spare' = [spare EXCEPT !.at = free.write]
     /\ UNCHANGED <<bundle, mine, snapshotVars, clockVars, frames, ready>>
  \/ /\ Produce(filled, to)
     /\ free' = Extend(free, spare.at) /\ spare' = NoTicket
     /\ UNCHANGED <<bundle, mine, snapshotVars, clockVars, frames, ready>>

NewTime == bundle

StoreClock ==
  /\ Produce("clock", "count")
  /\ clockNs' = NewTime
  /\ UNCHANGED <<bundle, mine, spare, snapshotVars, clockSequence, cameraVars>>

CountClock ==
  /\ Produce("count", "activate")
  /\ clockSequence' = clockSequence + 1
  /\ UNCHANGED <<bundle, mine, spare, snapshotVars, clockNs, cameraVars>>

Activate ==
  /\ Produce("activate", "announce")
  /\ active' = Inactive
  /\ UNCHANGED <<bundle, mine, spare, slots, latest, clockVars, cameraVars>>

NextSequence == latest + 1

Announce ==
  /\ Produce("announce", "idle")
  /\ latest' = NextSequence
  /\ UNCHANGED <<bundle, mine, spare, slots, active, clockVars, cameraVars>>

(***************************************************************************)
(* The consumer: run_publish_worker.                                       *)
(***************************************************************************)
Consume(from, to) ==
  /\ cp = from /\ cp' = to
  /\ UNCHANGED <<producerVars, snapshotVars, clockVars, frames>>

KeepCamera == UNCHANGED <<free, ready, theirs, frame>>

WaitsForTwo == latest <= consumed + 1  \* mutant: off by one
NothingNew == latest \in {0, consumed}

Look ==
  /\ IF NothingNew
       THEN Consume("look", "lookClock") /\ UNCHANGED seen
       ELSE Consume("look", "load") /\ seen' = [seen EXCEPT !.sequence = latest]
  /\ KeepCamera /\ UNCHANGED <<consumed, consumedClock, got, delivered, clock>>

LoadActive ==
  /\ Consume("load", "copy")
  /\ seen' = [seen EXCEPT !.slot = active]
  /\ KeepCamera /\ UNCHANGED <<consumed, consumedClock, got, delivered, clock>>

CopySnapshot ==
  /\ \/ Consume("copy", "copyLast") /\ got' = [got EXCEPT !.first = slots[seen.slot].first]
     \/ Consume("copyLast", "consume") /\ got' = [got EXCEPT !.last = slots[seen.slot].last]
  /\ KeepCamera /\ UNCHANGED <<seen, consumed, consumedClock, delivered, clock>>

Reloaded == latest                     \* mutant: the sequence is loaded again
SequenceSeen == seen.sequence

\* The snapshot is marked consumed and published, its time as /clock first.
PublishSnapshot ==
  /\ Consume("consume", "frames")
  /\ consumed' = SequenceSeen
  /\ delivered' = got /\ clock' = got.first
  /\ seen' = NothingSeen /\ got' = Whole(0)
  /\ KeepCamera /\ UNCHANGED consumedClock

LookClock ==
  /\ IF clockSequence \in {0, consumedClock}
       THEN Consume("lookClock", "frames") /\ UNCHANGED seen
       ELSE Consume("lookClock", "readClock") /\ seen' = [seen EXCEPT !.sequence = clockSequence]
  /\ KeepCamera /\ UNCHANGED <<consumed, consumedClock, got, delivered, clock>>

PublishClock ==
  /\ Consume("readClock", "frames")
  /\ clock' = clockNs /\ consumedClock' = seen.sequence
  /\ seen' = NothingSeen
  /\ KeepCamera /\ UNCHANGED <<consumed, got, delivered>>

KeepSnapshot == UNCHANGED <<seen, consumed, consumedClock, got, delivered, clock>>

NoMoreFrames ==
  /\ Consume("frames", "look") /\ Empty(ready)
  /\ KeepCamera /\ KeepSnapshot

PopReady ==
  /\ \/ /\ Consume("frames", "pop") /\ ~Empty(ready)
        /\ theirs' = Peek(ready)
        /\ UNCHANGED <<free, ready, frame>>
     \/ /\ Consume("pop", "header")
        /\ ready' = Commit(ready, theirs)
        /\ UNCHANGED <<free, theirs, frame>>
  /\ KeepSnapshot

CopyFrame ==
  /\ \/ Consume("header", "image") /\ frame' = [frame EXCEPT !.first = frames[theirs.slot].first]
     \/ Consume("image", "return") /\ frame' = [frame EXCEPT !.last = frames[theirs.slot].last]
  /\ KeepSnapshot /\ UNCHANGED <<free, ready, theirs>>

ReturnSlot ==
  /\ \/ /\ Consume("return", "frames") /\ Full(free)
        /\ theirs' = NoTicket /\ UNCHANGED free
     \/ /\ Consume("return", "returned") /\ ~Full(free)
        /\ free' = Fill(free, free.write, theirs.slot)
        /\ theirs' = [theirs EXCEPT !.at = free.write]
     \/ /\ Consume("returned", "frames")
        /\ free' = Extend(free, theirs.at) /\ theirs' = NoTicket
  /\ frame' = Whole(0)
  /\ KeepSnapshot /\ UNCHANGED ready

-----------------------------------------------------------------------------
Producer ==
  \/ WriteSnapshotFirst \/ WriteSnapshotLast \/ TakeFree \/ Starve \/ StealOldest
  \/ WriteFrame \/ PushReady \/ FindFull \/ DiscardOldest \/ PushAgain \/ GiveUp
  \/ GiveBack("giveSpare", "gaveSpare", "clock") \/ GiveBack("giveBack", "gaveBack", "idle")
  \/ StoreClock \/ CountClock \/ Activate \/ Announce

Consumer ==
  \/ Look \/ LoadActive \/ CopySnapshot \/ PublishSnapshot \/ LookClock \/ PublishClock
  \/ NoMoreFrames \/ PopReady \/ CopyFrame \/ ReturnSlot

Next == Producer \/ Consumer

Spec == Init /\ [][Next]_vars

\* Both threads are scheduled; the producer need not publish a next bundle.
FairSpec == Spec /\ WF_vars(Consumer) /\ WF_vars(Producer /\ pp # "idle")

-----------------------------------------------------------------------------
(***************************************************************************)
(* Properties.                                                             *)
(***************************************************************************)
SnapshotTypes ==
  /\ bundle \in Bundles
  /\ slots \in [0..1 -> Parts] /\ active \in 0..1 /\ latest \in 0..bundle
  /\ clockNs \in Bundles /\ clockSequence \in 0..bundle
  /\ seen \in [sequence : Bundles, slot : 0..1]
  /\ consumed \in 0..latest /\ consumedClock \in 0..clockSequence
  /\ got \in Parts /\ delivered \in Parts /\ clock \in Bundles

CameraTypes ==
  /\ mine \in Tickets /\ spare \in Tickets /\ theirs \in Tickets /\ stole \in BOOLEAN
  /\ frames \in [SlotIds -> Parts] /\ frame \in Parts
  /\ free \in Rings /\ ready \in Rings

TypeOK == SnapshotTypes /\ CameraTypes

\* Whatever is marked consumed has been published to ROS, or something newer
\* has: a snapshot announced while another one is copied is not lost
\* (consume_latest_small_snapshot loads the sequence before the slot, and
\* publish_bundle stores the slot before the sequence).
NothingMissed == delivered.first >= consumed /\ delivered.last >= consumed

\* As long as the producer has found a free slot every time, every frame that
\* is published is one whole frame: only taking from ready_slots breaks this.
FrameWholeUntilStolen == cp = "return" /\ ~stole => frame.first = frame.last

(***************************************************************************)
(* What they rest on.                                                      *)
(***************************************************************************)
\* Every bundle is announced once, and counted once for /clock; what the
\* consumer has seen of the counters was there.
SequencesFollow ==
  /\ pp # "idle" => latest < bundle
  /\ pp \notin {"idle", "activate", "announce"} => clockSequence < bundle
  /\ cp \in {"load", "copy", "copyLast", "consume"} => seen.sequence <= latest
  /\ cp = "readClock" => seen.sequence <= clockSequence

\* Both parts are of bundle n or of a newer one.
AtLeast(part, n) == part.first >= n /\ part.last >= n

\* The active slot holds what is announced, or newer; the other one, what is written.
ActiveIsAnnounced ==
  /\ AtLeast(slots[active], latest)
  /\ pp = "lidars" => slots[Inactive].first = bundle
  /\ pp \notin {"idle", "lidars", "announce"} => slots[Inactive] = Whole(bundle)
  /\ pp = "announce" => slots[active] = Whole(bundle)

\* The slot that is copied is never older than the sequence it was found under.
CopyIsNotOlder ==
  /\ cp \in {"copy", "copyLast", "consume"} => AtLeast(slots[seen.slot], seen.sequence)
  /\ cp \in {"copyLast", "consume"} => got.first >= seen.sequence
  /\ cp = "consume" => got.last >= seen.sequence

\* The cells between the two positions of a ring, how many there are, and the
\* camera slots in them.
Occupied(ring) ==
  IF ring.read <= ring.write THEN ring.read .. ring.write - 1
                             ELSE (ring.read .. RingSize - 1) \union (0 .. ring.write - 1)
Size(ring) == ring.write - ring.read + (IF ring.read <= ring.write THEN 0 ELSE RingSize)
Holds(ring, slot) == \E i \in Occupied(ring) : ring.cells[i] = slot
HoldsEachOnce(ring) == \A i, j \in Occupied(ring) : ring.cells[i] = ring.cells[j] => i = j

ProducerHolds == pp \in {"header", "image", "push"}
ConsumerHolds == cp \in {"header", "image", "return", "returned"}

\* Until the producer takes from ready_slots every camera slot is in one place,
\* so that no ring is ever full and ...
SlotsInOnePlace ==
  /\ pp \in {"idle", "lidars", "take", "steal", "header", "image", "push",
            "clock", "count", "activate", "announce"}
  /\ Size(free) + Size(ready) + (IF ProducerHolds THEN 1 ELSE 0)
       + (IF ConsumerHolds THEN 1 ELSE 0) = NumSlots
  /\ HoldsEachOnce(free) /\ HoldsEachOnce(ready)
  /\ \A slot \in SlotIds : ~(Holds(free, slot) /\ Holds(ready, slot))
  /\ ProducerHolds => ~Holds(free, mine.slot) /\ ~Holds(ready, mine.slot)
  /\ ConsumerHolds => ~Holds(free, theirs.slot) /\ ~Holds(ready, theirs.slot)
  /\ ProducerHolds /\ ConsumerHolds => mine.slot # theirs.slot
  /\ cp = "pop" => theirs = Peek(ready) /\ ~Empty(ready)
  /\ cp = "returned" => theirs.at = free.write /\ free.cells[theirs.at] = theirs.slot /\ ~Full(free)

IsWhole(part) == part.first = part.last

\* ... the frame in it is whole from the time that it is pushed.
FramesInPlaceAreWhole ==
  /\ \A slot \in SlotIds : Holds(ready, slot) => IsWhole(frames[slot])
  /\ pp = "image" => frames[mine.slot].first = bundle
  /\ pp = "push" => IsWhole(frames[mine.slot])
  /\ cp \in {"header", "image"} => IsWhole(frames[theirs.slot])
  /\ cp = "image" => frame.first = frames[theirs.slot].first

\* The active bundle: the last one that was activated.
Current == slots[active].first

\* A camera slot is with a thread or in a ring, whatever happened to the others:
\* with none in its hands the consumer has not left the producer without one.
SlotIsSomewhere ==
  /\ cp \notin {"pop", "header", "image", "return", "returned"} =>
       \/ ~Empty(free) \/ ~Empty(ready)
       \/ pp \in {"stolen", "header", "image", "push", "discard", "discarded", "pushAgain",
                  "giveSpare", "gaveSpare", "giveBack", "gaveBack"}
  /\ cp = "returned" /\ free.read = After(theirs.at) =>
       ~Empty(ready) \/ pp \in {"stolen", "header", "image", "push", "discarded", "pushAgain"}
  /\ pp \in {"gaveSpare", "gaveBack"} => free.read # After(spare.at)

\* The consumer can come upon a bundle that is not activated: it copies a slot that
\* is no longer the active one, or looks at the clock with a snapshot announced.
Watching ==
  \/ cp \in {"copy", "copyLast"} /\ seen.slot = Inactive
  \/ cp \in {"lookClock", "readClock"} /\ ~NothingNew

\* Such a bundle is the next one and is not given up, as nobody else is at the rings.
WatchedIsNext ==
  Watching =>
    /\ bundle = IF pp \in {"idle", "announce"} THEN Current ELSE Current + 1
    /\ pp = "steal" => ~Empty(ready)
    /\ pp = "discard" => Full(ready)
    /\ pp = "discarded" => Full(ready) /\ spare.at = ready.read
    /\ pp = "pushAgain" => ~Full(ready)
    /\ pp \notin {"giveBack", "gaveBack"}

\* Nobody has anything of a bundle that was not begun; the active one is whole, and
\* its time is on the clock until the next one's is.
NoneBeyond ==
  /\ \A i \in 0..1 : slots[i].first <= bundle /\ slots[i].last <= bundle
  /\ got.first <= bundle /\ got.last <= bundle
  /\ delivered.first <= bundle /\ delivered.last <= bundle /\ clock <= bundle
  /\ slots[active].last = Current
  /\ clockNs = IF pp \in {"count", "activate"} THEN bundle ELSE Current

\* What was copied and what was published is at most one bundle ahead of the active
\* one.  A clock that is further ahead is that of a bundle about to be activated,
\* before which no snapshot is loaded.
OneAhead ==
  /\ delivered.first <= Current + 1 /\ delivered.last <= Current + 1
  /\ \/ clock <= Current + 1
     \/ /\ pp \in {"count", "activate"} /\ NothingNew
        /\ cp \notin {"load", "copy", "copyLast", "consume"}
  /\ cp \in {"copyLast", "consume"} => got.first <= Current + 1
  /\ cp = "consume" => got.last <= Current + 1

\* What is copied is at most one bundle behind what was published.
OneBehind ==
  /\ cp \in {"copy", "copyLast", "consume"} =>
       /\ delivered.first <= slots[seen.slot].first + 1 /\ clock <= slots[seen.slot].first + 1
       /\ delivered.last <= slots[seen.slot].last + 1
  /\ cp \in {"copyLast", "consume"} => delivered.first <= got.first + 1 /\ clock <= got.first + 1
  /\ cp = "consume" => delivered.last <= got.last + 1

RegisterKept == SlotIsSomewhere /\ WatchedIsNext /\ NoneBeyond /\ OneAhead /\ OneBehind

\* The type invariant, with what implements the register and the frame that the
\* consumer holds whole.
ChannelInv ==
  /\ TypeOK /\ SequencesFollow /\ ActiveIsAnnounced /\ CopyIsNotOlder /\ RegisterKept
  /\ ~stole => SlotsInOnePlace /\ FramesInPlaceAreWhole
  /\ FrameWholeUntilStolen

\* The channel implements its abstract register: a consumer that is overtaken
\* publishes a bundle that is not announced yet and goes back to the announced
\* one, never further, also on /clock, which has two sources; and a bundle that
\* was announced is published in the end, or a newer one is.
Register == INSTANCE LatestBundle WITH made <- bundle, announced <- latest
RegisterSpec == Register!RegisterSpec
=============================================================================
