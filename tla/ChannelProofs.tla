---------------------------- MODULE ChannelProofs ----------------------------
(***************************************************************************)
(* The invariants of PublishChannel, for any number of slots.              *)
(***************************************************************************)
EXTENDS PublishChannel, Integers, TLAPS

-----------------------------------------------------------------------------
(***************************************************************************)
(* A ring: which cells an operation occupies and frees.                    *)
(***************************************************************************)
\* The remainder of a number that is not past the divisor.
LEMMA RemainderBelow ==
  ASSUME NEW r \in Nat \ {0}, NEW x \in 0..r
  PROVE  x % r = IF x = r THEN 0 ELSE x
<1> DEFINE d == x \div r
           m == x % r
<1>0. x \in Int
  OBVIOUS
<1>1. x = r * d + m /\ m \in 0..(r-1) /\ d \in Int
  BY <1>0
<1> HIDE DEF d, m
<1>2. CASE d <= -1
  <2>1. r * d = r * (d + 1) - r /\ r * (d + 1) <= 0
    BY <1>1, <1>2
  <2>. QED BY <1>1, <2>1
<1>3. CASE d = 0
  <2>1. r * d = 0
    BY <1>3
  <2>. QED BY <1>1, <2>1 DEF m
<1>4. CASE d = 1
  <2>1. r * d = r
    BY <1>4
  <2>. QED BY <1>1, <2>1 DEF m
<1>5. CASE d >= 2
  <2>1. r * d = r + r + r * (d - 2) /\ r * (d - 2) >= 0
    BY <1>1, <1>5
  <2>. QED BY <1>1, <2>1
<1>. QED
  BY <1>1, <1>2, <1>3, <1>4, <1>5

\* The position after the last one is the first one.
LEMMA AfterIs ==
  ASSUME NEW p \in 0..(RingSize - 1)
  PROVE  After(p) = IF p = RingSize - 1 THEN 0 ELSE p + 1
<1>1. RingSize \in Nat \ {0} /\ p + 1 \in 0..RingSize
  BY SlotsAssumption DEF RingSize
<1>2. (p + 1) % RingSize = IF p + 1 = RingSize THEN 0 ELSE p + 1
  BY <1>1, RemainderBelow
<1>. QED
  BY <1>1, <1>2 DEF After

\* The parts of a ring.
LEMMA RingParts ==
  ASSUME NEW ring \in Rings
  PROVE  /\ RingSize \in Nat /\ RingSize >= 3 /\ NumSlots = RingSize - 2
         /\ ring.read \in 0..(RingSize - 1) /\ ring.write \in 0..(RingSize - 1)
         /\ ring.cells \in [0..(RingSize - 1) -> SlotIds]
         /\ ring = [cells |-> ring.cells, read |-> ring.read, write |-> ring.write]
         /\ Occupied(ring) \subseteq 0..(RingSize - 1)
         /\ Size(ring) \in 0..(RingSize - 1)
         /\ ring.write \notin Occupied(ring)
BY SlotsAssumption DEF Rings, RingSize, Occupied, Size

\* A ring is empty or full according to its size.
LEMMA RingLimits ==
  ASSUME NEW ring \in Rings
  PROVE  /\ Empty(ring) <=> Size(ring) = 0
         /\ Full(ring) <=> Size(ring) = RingSize - 1
         /\ ~Empty(ring) => ring.read \in Occupied(ring)
<1>1. /\ RingSize \in Nat /\ RingSize >= 3
      /\ ring.read \in 0..(RingSize - 1) /\ ring.write \in 0..(RingSize - 1)
      /\ After(ring.write) = IF ring.write = RingSize - 1 THEN 0 ELSE ring.write + 1
  BY RingParts, AfterIs
<1>2. Empty(ring) <=> Size(ring) = 0
  BY <1>1 DEF Empty, Size
<1>3. Full(ring) <=> Size(ring) = RingSize - 1
  BY <1>1 DEF Full, Size
<1>4. ~Empty(ring) => ring.read \in Occupied(ring)
  BY <1>1 DEF Empty, Occupied
<1>. QED
  BY <1>2, <1>3, <1>4

\* Filling the cell to be written next changes nothing that is held.
LEMMA FillKeeps ==
  ASSUME NEW ring \in Rings, NEW slot \in SlotIds, NEW at \in 0..(RingSize - 1)
  PROVE  /\ Fill(ring, at, slot) \in Rings
         /\ Fill(ring, at, slot).read = ring.read /\ Fill(ring, at, slot).write = ring.write
         /\ Fill(ring, at, slot).cells = [ring.cells EXCEPT ![at] = slot]
         /\ Occupied(Fill(ring, at, slot)) = Occupied(ring)
         /\ Size(Fill(ring, at, slot)) = Size(ring)
         /\ Full(Fill(ring, at, slot)) <=> Full(ring)
<1>0. ring = [cells |-> ring.cells, read |-> ring.read, write |-> ring.write]
  BY RingParts
<1>1. Fill(ring, at, slot) = [cells |-> [ring.cells EXCEPT ![at] = slot], read |-> ring.read, write |-> ring.write]
  BY ONLY <1>0 DEF Fill
<1>2. [ring.cells EXCEPT ![at] = slot] \in [0..(RingSize - 1) -> SlotIds]
  BY RingParts
<1>. QED
  BY <1>1, <1>2, RingParts DEF Rings, Occupied, Size, Full

\* Moving the write position on adds the cell it was at.
LEMMA ExtendAdds ==
  ASSUME NEW ring \in Rings, ~Full(ring)
  PROVE  /\ Extend(ring, ring.write).cells = ring.cells /\ Extend(ring, ring.write).read = ring.read
         /\ Occupied(Extend(ring, ring.write)) = Occupied(ring) \union {ring.write}
         /\ Size(Extend(ring, ring.write)) = Size(ring) + 1
<1> DEFINE r == Extend(ring, ring.write)
<1>1. r = [cells |-> ring.cells, read |-> ring.read, write |-> After(ring.write)]
  BY RingParts DEF Extend
<1>2. r.cells = ring.cells /\ r.read = ring.read /\ r.write = After(ring.write)
  BY <1>1
<1>3. /\ RingSize \in Nat /\ RingSize >= 3
      /\ ring.read \in 0..(RingSize - 1) /\ ring.write \in 0..(RingSize - 1)
      /\ After(ring.write) = IF ring.write = RingSize - 1 THEN 0 ELSE ring.write + 1
      /\ After(ring.write) # ring.read
  BY RingParts, AfterIs DEF Full
<1> HIDE DEF r
<1>4. Size(r) = Size(ring) + 1
  BY <1>2, <1>3 DEF Size
<1>5. Occupied(r) = Occupied(ring) \union {ring.write}
  BY <1>2, <1>3 DEF Occupied
<1>. QED
  BY <1>2, <1>4, <1>5 DEF r

\* A write position is moved to a position.
LEMMA ExtendIsRing ==
  ASSUME NEW ring \in Rings, NEW at \in 0..(RingSize - 1)
  PROVE  Extend(ring, at) \in Rings
<1>1. Extend(ring, at) = [cells |-> ring.cells, read |-> ring.read, write |-> After(at)]
  BY RingParts DEF Extend
<1>2. After(at) \in 0..(RingSize - 1)
  BY RingParts, AfterIs
<1>. QED
  BY <1>1, <1>2, RingParts DEF Rings

\* Moving the read position on frees the cell it was at.
LEMMA CommitFrees ==
  ASSUME NEW ring \in Rings, ~Empty(ring), NEW ticket, ticket.at = ring.read
  PROVE  /\ Commit(ring, ticket).cells = ring.cells /\ Commit(ring, ticket).write = ring.write
         /\ Occupied(Commit(ring, ticket)) = Occupied(ring) \ {ring.read}
         /\ Size(Commit(ring, ticket)) = Size(ring) - 1
         /\ ~Full(Commit(ring, ticket))
<1> DEFINE r == Commit(ring, ticket)
<1>1. r = [cells |-> ring.cells, read |-> After(ring.read), write |-> ring.write]
  BY RingParts DEF Commit
<1>2. r.cells = ring.cells /\ r.read = After(ring.read) /\ r.write = ring.write
  BY <1>1
<1>3. /\ RingSize \in Nat /\ RingSize >= 3
      /\ ring.read \in 0..(RingSize - 1) /\ ring.write \in 0..(RingSize - 1)
      /\ After(ring.read) = IF ring.read = RingSize - 1 THEN 0 ELSE ring.read + 1
      /\ After(ring.write) = IF ring.write = RingSize - 1 THEN 0 ELSE ring.write + 1
      /\ ring.read # ring.write
  BY RingParts, AfterIs DEF Empty
<1> HIDE DEF r
<1>4. Size(r) = Size(ring) - 1
  BY <1>2, <1>3 DEF Size
<1>5. Occupied(r) = Occupied(ring) \ {ring.read}
  BY <1>2, <1>3 DEF Occupied
<1>6. ~Full(r)
  BY <1>2, <1>3 DEF Full
<1>. QED
  BY <1>2, <1>4, <1>5, <1>6 DEF r

\* A read position is moved to a position.
LEMMA CommitIsRing ==
  ASSUME NEW ring \in Rings, NEW ticket, ticket.at \in 0..(RingSize - 1)
  PROVE  Commit(ring, ticket) \in Rings
<1>1. Commit(ring, ticket) = [cells |-> ring.cells, read |-> After(ticket.at), write |-> ring.write]
  BY RingParts DEF Commit
<1>2. After(ticket.at) \in 0..(RingSize - 1)
  BY RingParts, AfterIs
<1>. QED
  BY <1>1, <1>2, RingParts DEF Rings

\* The next ticket of a ring.
LEMMA PeekIsTicket ==
  ASSUME NEW ring \in Rings
  PROVE  /\ Peek(ring) \in Tickets /\ Peek(ring).at = ring.read
         /\ Peek(ring).slot = ring.cells[ring.read]
         /\ Peek(ring).at \in 0..(RingSize - 1)
BY RingParts DEF Peek, Tickets

\* A freed cell's slot is no longer held.
LEMMA CommitReleases ==
  ASSUME NEW ring \in Rings, ~Empty(ring), HoldsEachOnce(ring), NEW ticket, ticket.at = ring.read
  PROVE  /\ HoldsEachOnce(Commit(ring, ticket)) /\ Holds(ring, ring.cells[ring.read])
         /\ \A slot : Holds(Commit(ring, ticket), slot) <=> Holds(ring, slot) /\ slot # ring.cells[ring.read]
<1> DEFINE r == Commit(ring, ticket)
<1>1. r.cells = ring.cells /\ Occupied(r) = Occupied(ring) \ {ring.read}
  BY CommitFrees
<1>2. ring.read \in Occupied(ring)
  BY RingLimits
<1> HIDE DEF r
<1>3. HoldsEachOnce(r)
  BY <1>1 DEF HoldsEachOnce
<1>4. Holds(ring, ring.cells[ring.read])
  BY <1>2 DEF Holds
<1>5. \A slot : Holds(r, slot) <=> Holds(ring, slot) /\ slot # ring.cells[ring.read]
  BY <1>1, <1>2 DEF Holds, HoldsEachOnce
<1>. QED
  BY <1>3, <1>4, <1>5 DEF r

\* A cell that is filled but not yet counted holds nothing.
LEMMA FillHidden ==
  ASSUME NEW ring \in Rings, NEW slot \in SlotIds
  PROVE  /\ HoldsEachOnce(ring) => HoldsEachOnce(Fill(ring, ring.write, slot))
         /\ Fill(ring, ring.write, slot).cells[ring.write] = slot
         /\ \A s : Holds(Fill(ring, ring.write, slot), s) <=> Holds(ring, s)
<1> DEFINE r == Fill(ring, ring.write, slot)
<1>1. r.cells = [ring.cells EXCEPT ![ring.write] = slot] /\ Occupied(r) = Occupied(ring)
  BY FillKeeps, RingParts
<1>2. /\ ring.write \notin Occupied(ring) /\ ring.write \in 0..(RingSize - 1)
      /\ ring.cells \in [0..(RingSize - 1) -> SlotIds] /\ Occupied(ring) \subseteq 0..(RingSize - 1)
  BY RingParts
<1> HIDE DEF r
<1>3. r.cells[ring.write] = slot /\ \A i \in Occupied(ring) : r.cells[i] = ring.cells[i]
  BY <1>1, <1>2
<1>4. HoldsEachOnce(ring) => HoldsEachOnce(r)
  BY <1>1, <1>3 DEF HoldsEachOnce
<1>5. \A s : Holds(r, s) <=> Holds(ring, s)
  BY <1>1, <1>3 DEF Holds
<1>. QED
  BY <1>3, <1>4, <1>5 DEF r

\* A cell that is counted now holds its slot.
LEMMA ExtendHolds ==
  ASSUME NEW ring \in Rings, ~Full(ring)
  PROVE  /\ HoldsEachOnce(ring) /\ ~Holds(ring, ring.cells[ring.write]) =>
              HoldsEachOnce(Extend(ring, ring.write))
         /\ \A s : Holds(Extend(ring, ring.write), s) <=> Holds(ring, s) \/ s = ring.cells[ring.write]
<1> DEFINE r == Extend(ring, ring.write)
           slot == ring.cells[ring.write]
<1>1. r.cells = ring.cells /\ Occupied(r) = Occupied(ring) \union {ring.write}
  BY ExtendAdds
<1> HIDE DEF r
<1>2. HoldsEachOnce(ring) /\ ~Holds(ring, slot) => HoldsEachOnce(r)
  BY <1>1 DEF HoldsEachOnce, Holds
<1>3. \A s : Holds(r, s) <=> Holds(ring, s) \/ s = slot
  BY <1>1 DEF Holds
<1>. QED
  BY <1>2, <1>3 DEF r

\* A slot that is pushed is held from then on.
LEMMA PushHolds ==
  ASSUME NEW ring \in Rings, ~Full(ring), NEW slot \in SlotIds
  PROVE  /\ Push(ring, slot) \in Rings /\ Size(Push(ring, slot)) = Size(ring) + 1
         /\ HoldsEachOnce(ring) /\ ~Holds(ring, slot) => HoldsEachOnce(Push(ring, slot))
         /\ \A s : Holds(Push(ring, slot), s) <=> Holds(ring, s) \/ s = slot
         /\ ~Empty(ring) => ~Empty(Push(ring, slot)) /\ Peek(Push(ring, slot)) = Peek(ring)
<1> DEFINE f == Fill(ring, ring.write, slot)
<1>1. ring.write \in 0..(RingSize - 1)
  BY RingParts
<1>2. /\ f \in Rings /\ f.read = ring.read /\ f.write = ring.write /\ ~Full(f)
      /\ f.cells = [ring.cells EXCEPT ![ring.write] = slot] /\ Size(f) = Size(ring)
  BY <1>1, FillKeeps
<1>3. /\ HoldsEachOnce(ring) => HoldsEachOnce(f)
      /\ f.cells[ring.write] = slot
      /\ \A s : Holds(f, s) <=> Holds(ring, s)
  BY FillHidden
<1>4. Push(ring, slot) = Extend(f, f.write)
  BY <1>2 DEF Push
<1> HIDE DEF f
<1>5. Push(ring, slot) \in Rings
  BY <1>1, <1>2, <1>4, ExtendIsRing
<1>6. Size(Push(ring, slot)) = Size(ring) + 1
  BY <1>2, <1>4, ExtendAdds
<1>7. /\ HoldsEachOnce(f) /\ ~Holds(f, slot) => HoldsEachOnce(Push(ring, slot))
      /\ \A s : Holds(Push(ring, slot), s) <=> Holds(f, s) \/ s = slot
  <2>1. f.cells[f.write] = slot
    BY <1>2, <1>3
  <2>2. /\ HoldsEachOnce(f) /\ ~Holds(f, f.cells[f.write]) => HoldsEachOnce(Extend(f, f.write))
        /\ \A s : Holds(Extend(f, f.write), s) <=> Holds(f, s) \/ s = f.cells[f.write]
    BY <1>2, ExtendHolds
  <2>. QED
    BY ONLY <2>1, <2>2, <1>4
<1>8. ASSUME ~Empty(ring) PROVE ~Empty(Push(ring, slot)) /\ Peek(Push(ring, slot)) = Peek(ring)
  <2>1. Size(ring) >= 1 /\ Size(Push(ring, slot)) # 0
    BY <1>6, <1>8, RingLimits, RingParts
  <2>2. ~Empty(Push(ring, slot))
    BY <1>5, <2>1, RingLimits
  <2>3. Push(ring, slot).read = ring.read /\ Push(ring, slot).cells = f.cells
    BY <1>2, <1>4, ExtendAdds
  <2>4. ring.read # ring.write
    BY <1>8 DEF Empty
  <2>5. f.cells[ring.read] = ring.cells[ring.read]
    BY <1>2, <2>4, RingParts
  <2>. QED
    BY <2>2, <2>3, <2>5 DEF Peek
<1>. QED
  BY <1>3, <1>5, <1>6, <1>7, <1>8

\* Writing one part of a slot or of a frame.
WriteFirst(f, s, n) == [f EXCEPT ![s].first = n]
WriteLast(f, s, n)  == [f EXCEPT ![s].last = n]

\* It changes that part and nothing else.
LEMMA PartIsWritten ==
  ASSUME NEW f, NEW s, f[s] \in Parts, NEW n
  PROVE  /\ WriteFirst(f, s, n) = [f EXCEPT ![s] = [first |-> n, last |-> f[s].last]]
         /\ WriteLast(f, s, n) = [f EXCEPT ![s] = [first |-> f[s].first, last |-> n]]
<1>1. f[s] = [first |-> f[s].first, last |-> f[s].last]
  BY DEF Parts
<1>2. [f[s] EXCEPT !.first = n] = [first |-> n, last |-> f[s].last]
  BY ONLY <1>1
<1>3. [f[s] EXCEPT !.last = n] = [first |-> f[s].first, last |-> n]
  BY ONLY <1>1
<1>. QED
  BY <1>2, <1>3 DEF WriteFirst, WriteLast

-----------------------------------------------------------------------------
(***************************************************************************)
(* The camera slots.                                                       *)
(***************************************************************************)
\* What is kept until the producer takes from ready_slots for the first time.
Owned == SlotsInOnePlace /\ FramesInPlaceAreWhole /\ (cp = "return" => IsWhole(frame))

CameraInv == CameraTypes /\ (~stole => Owned)

\* The parts of a ticket.
LEMMA TicketParts ==
  ASSUME NEW t \in Tickets
  PROVE  t.slot \in SlotIds /\ t.at \in 0..(RingSize - 1) /\ t = [slot |-> t.slot, at |-> t.at]
BY SlotsAssumption DEF Tickets, RingSize

\* A slot that comes with a position is a ticket.
LEMMA TicketMoved ==
  ASSUME NEW t \in Tickets, NEW at \in 0..(RingSize - 1)
  PROVE  [t EXCEPT !.at = at] \in Tickets /\ [t EXCEPT !.at = at].slot = t.slot
         /\ [t EXCEPT !.at = at].at = at
<1>1. t = [slot |-> t.slot, at |-> t.at] /\ t.slot \in SlotIds
  BY TicketParts
<1>2. [t EXCEPT !.at = at] = [slot |-> t.slot, at |-> at]
  BY ONLY <1>1
<1>3. at \in 0..NumSlots + 1
  BY SlotsAssumption DEF RingSize
<1>. QED
  BY <1>1, <1>2, <1>3 DEF Tickets

\* A local that is not in use is no stranger to the types.
LEMMA NoTicketIsTicket == NoTicket \in Tickets
BY SlotsAssumption DEF NoTicket, Tickets, SlotIds

\* The camera part of the types holds after every operation on the rings.
LEMMA CameraTypesKept ==
  ASSUME CameraTypes, bundle \in Bundles,
         \/ TakeFree \/ Starve \/ StealOldest \/ WriteFrame \/ PushReady \/ FindFull
         \/ DiscardOldest \/ PushAgain \/ GiveUp
         \/ GiveBack("giveSpare", "gaveSpare", "clock") \/ GiveBack("giveBack", "gaveBack", "idle")
         \/ NoMoreFrames \/ PopReady \/ CopyFrame \/ ReturnSlot
  PROVE  CameraTypes'
<1> USE DEF Produce, Consume, KeepCamera, KeepSnapshot, producerVars, consumerVars, cameraVars
<1>1. /\ mine \in Tickets /\ spare \in Tickets /\ theirs \in Tickets /\ stole \in BOOLEAN
      /\ frames \in [SlotIds -> Parts] /\ frame \in Parts /\ free \in Rings /\ ready \in Rings
  BY DEF CameraTypes
<1>2. /\ mine.slot \in SlotIds /\ spare.slot \in SlotIds /\ theirs.slot \in SlotIds
      /\ mine.at \in 0..(RingSize - 1) /\ spare.at \in 0..(RingSize - 1) /\ theirs.at \in 0..(RingSize - 1)
      /\ free.write \in 0..(RingSize - 1)
  BY <1>1, TicketParts, RingParts
<1>3. /\ Peek(free) \in Tickets /\ Peek(ready) \in Tickets /\ NoTicket \in Tickets
      /\ Commit(free, Peek(free)) \in Rings /\ Commit(ready, mine) \in Rings
      /\ Commit(ready, spare) \in Rings /\ Commit(ready, theirs) \in Rings
  BY <1>1, <1>2, PeekIsTicket, CommitIsRing, NoTicketIsTicket
<1>4. /\ Fill(free, free.write, spare.slot) \in Rings /\ Fill(free, free.write, theirs.slot) \in Rings
      /\ Extend(free, spare.at) \in Rings /\ Extend(free, theirs.at) \in Rings
      /\ [spare EXCEPT !.at = free.write] \in Tickets /\ [theirs EXCEPT !.at = free.write] \in Tickets
  BY <1>1, <1>2, FillKeeps, ExtendIsRing, TicketMoved
<1>5. ~Full(ready) => Push(ready, mine.slot) \in Rings
  BY <1>1, <1>2, PushHolds
<1>6. stole' \in BOOLEAN
  BY <1>1 DEF TakeFree, Starve, StealOldest, WriteFrame, PushReady, FindFull, DiscardOldest, PushAgain,
              GiveUp, GiveBack, NoMoreFrames, PopReady, CopyFrame, ReturnSlot
<1>7. CASE TakeFree \/ Starve \/ FindFull \/ GiveUp \/ StealOldest \/ DiscardOldest
  BY <1>1, <1>3, <1>6, <1>7 DEF TakeFree, Starve, FindFull, GiveUp, StealOldest, DiscardOldest, CameraTypes
<1>8. CASE WriteFrame
  <2>1. /\ WriteFirst(frames, mine.slot, bundle) \in [SlotIds -> Parts]
        /\ WriteLast(frames, mine.slot, bundle) \in [SlotIds -> Parts]
    <3>1. frames[mine.slot] \in Parts
      BY <1>1, <1>2
    <3>2. frames[mine.slot].first \in Bundles /\ frames[mine.slot].last \in Bundles
      BY <3>1 DEF Parts
    <3>3. /\ [first |-> bundle, last |-> frames[mine.slot].last] \in Parts
          /\ [first |-> frames[mine.slot].first, last |-> bundle] \in Parts
      BY <3>2 DEF Parts
    <3>. QED
      BY <1>1, <1>2, <3>1, <3>3, PartIsWritten
  <2>. QED
    BY <1>1, <1>6, <1>8, <2>1 DEF WriteFrame, CameraTypes, WriteFirst, WriteLast
<1>9. CASE PushReady \/ PushAgain
  BY <1>1, <1>3, <1>5, <1>6, <1>9 DEF PushReady, PushAgain, CameraTypes
<1>10. CASE GiveBack("giveSpare", "gaveSpare", "clock") \/ GiveBack("giveBack", "gaveBack", "idle")
  BY <1>1, <1>3, <1>4, <1>6, <1>10 DEF GiveBack, CameraTypes
<1>11. CASE NoMoreFrames \/ PopReady
  BY <1>1, <1>3, <1>6, <1>11 DEF NoMoreFrames, PopReady, CameraTypes
<1>12. CASE CopyFrame
  <2>1. frames[theirs.slot].first \in Bundles /\ frames[theirs.slot].last \in Bundles
    BY <1>1, <1>2 DEF Parts
  <2>2. frame' \in Parts
    BY <1>1, <1>12, <2>1 DEF CopyFrame, Parts
  <2>. QED
    BY <1>1, <1>6, <1>12, <2>2 DEF CopyFrame, CameraTypes
<1>13. CASE ReturnSlot
  <2>1. Whole(0) \in Parts
    BY BundlesAssumption DEF Whole, Parts, Bundles
  <2>. QED
    BY <1>1, <1>3, <1>4, <1>6, <1>13, <2>1 DEF ReturnSlot, CameraTypes
<1>. QED
  BY <1>7, <1>8, <1>9, <1>10, <1>11, <1>12, <1>13

\* Moves between places where a thread works with no camera slot.
LEMMA MovesKeepOwned ==
  ASSUME Owned, UNCHANGED <<frames, free, ready, mine, theirs, frame>>,
         \/ pp' = pp
         \/ ~ProducerHolds /\ pp' \in {"idle", "lidars", "take", "steal", "clock", "count", "activate", "announce"},
         \/ cp' = cp
         \/ cp' \notin {"header", "image", "return", "returned", "pop"} /\ ~ConsumerHolds,
         bundle' = bundle \/ ~ProducerHolds
  PROVE  Owned'
<1> USE DEF Owned, ProducerHolds, ConsumerHolds
<1>1. SlotsInOnePlace'
  BY DEF SlotsInOnePlace, Holds, HoldsEachOnce, Occupied, Size, Peek, Empty, Full
<1>2. FramesInPlaceAreWhole'
  BY DEF FramesInPlaceAreWhole, Holds, Occupied, IsWhole
<1>. QED
  BY <1>1, <1>2 DEF IsWhole

\* The producer takes a free slot, which nobody else holds.
LEMMA TakeFreeKeepsOwned ==
  ASSUME CameraTypes, Owned, TakeFree
  PROVE  Owned'
<1> USE DEF Produce, consumerVars, snapshotVars, clockVars
<1>1. CASE Empty(free)
  BY <1>1, MovesKeepOwned DEF TakeFree, ProducerHolds
<1>2. CASE ~Empty(free)
  <2> DEFINE taken == free.cells[free.read]
  <2>1. free \in Rings
    BY DEF CameraTypes
  <2>2. /\ pp = "take" /\ pp' = "header" /\ mine' = Peek(free) /\ free' = Commit(free, Peek(free))
        /\ UNCHANGED <<bundle, frames, ready, cp, theirs, frame>>
    BY <1>2 DEF TakeFree
  <2>3. Peek(free).at = free.read /\ mine'.slot = taken
    BY <2>1, <2>2, PeekIsTicket
  <2>4. /\ free'.cells = free.cells /\ free'.write = free.write /\ Size(free)' = Size(free) - 1 /\ ~Full(free)'
    BY <1>2, <2>1, <2>2, <2>3, CommitFrees DEF Size, Full, After
  <2>5. /\ HoldsEachOnce(free)' /\ Holds(free, taken)
        /\ \A slot : Holds(free, slot)' <=> Holds(free, slot) /\ slot # taken
    <3>1. HoldsEachOnce(free)
      BY DEF Owned, SlotsInOnePlace
    <3>2. /\ HoldsEachOnce(free') /\ Holds(free, taken)
          /\ \A slot : Holds(free', slot) <=> Holds(free, slot) /\ slot # taken
      BY <1>2, <2>1, <2>2, <2>3, <3>1, CommitReleases
    <3>. QED
      BY <3>2 DEF HoldsEachOnce, Holds, Occupied
  <2> HIDE DEF taken
  <2>6. taken \in SlotIds
    BY <2>1, RingParts DEF taken
  <2>7. SlotsInOnePlace'
    <3>1. /\ ~ProducerHolds /\ ProducerHolds' /\ ConsumerHolds' = ConsumerHolds
      BY <2>2 DEF ProducerHolds, ConsumerHolds
    <3>2. Size(free)' + Size(ready)' + (IF ProducerHolds' THEN 1 ELSE 0) + (IF ConsumerHolds' THEN 1 ELSE 0) = NumSlots
      <4>1. Size(free) \in Int /\ Size(ready) \in Int /\ Size(ready)' = Size(ready)
        BY <2>1, <2>2, RingParts DEF CameraTypes, Size
      <4>. QED
        BY <2>4, <3>1, <4>1 DEF Owned, SlotsInOnePlace
    <3>3. HoldsEachOnce(ready)' /\ \A slot : Holds(ready, slot)' <=> Holds(ready, slot)
      BY <2>2 DEF HoldsEachOnce, Holds, Occupied, Owned, SlotsInOnePlace
    <3>4. (cp = "pop" => theirs = Peek(ready) /\ ~Empty(ready))'
      BY <2>2 DEF Owned, SlotsInOnePlace, Peek, Empty
    <3>. QED
      BY <2>2, <2>3, <2>4, <2>5, <2>6, <3>1, <3>2, <3>3, <3>4 DEF Owned, SlotsInOnePlace
  <2>8. FramesInPlaceAreWhole' /\ (cp = "return" => IsWhole(frame))'
    BY <2>2 DEF Owned, FramesInPlaceAreWhole, Holds, Occupied, IsWhole
  <2>. QED
    BY <2>7, <2>8 DEF Owned
<1>. QED
  BY <1>1, <1>2

\* The producer writes a frame that nobody else can see.
LEMMA WriteFrameKeepsOwned ==
  ASSUME CameraTypes, bundle \in Bundles, Owned, WriteFrame
  PROVE  Owned'
<1> USE DEF Produce, consumerVars, snapshotVars, clockVars
<1>1. /\ pp \in {"header", "image"} /\ pp' = (IF pp = "header" THEN "image" ELSE "push")
      /\ UNCHANGED <<bundle, free, ready, mine, cp, theirs, frame>>
  BY DEF WriteFrame, AfterHeader
<1>2. mine.slot \in SlotIds /\ frames \in [SlotIds -> Parts]
  BY TicketParts DEF CameraTypes
<1>3. frames' = IF pp = "header" THEN WriteFirst(frames, mine.slot, bundle)
                                 ELSE WriteLast(frames, mine.slot, bundle)
  BY DEF WriteFrame, WriteFirst, WriteLast
<1>4. /\ \A slot \in SlotIds \ {mine.slot} : frames'[slot] = frames[slot]
      /\ pp = "header" => frames'[mine.slot].first = bundle
      /\ pp = "image" => frames'[mine.slot] = [first |-> frames[mine.slot].first, last |-> bundle]
  <2>1. frames[mine.slot] \in Parts
    BY <1>2
  <2>2. frames' = [frames EXCEPT ![mine.slot] =
                     IF pp = "header" THEN [first |-> bundle, last |-> frames[mine.slot].last]
                                      ELSE [first |-> frames[mine.slot].first, last |-> bundle]]
    BY <1>3, <2>1, PartIsWritten
  <2>. QED
    BY <1>1, <1>2, <2>2
<1>5. SlotsInOnePlace'
  BY <1>1 DEF Owned, SlotsInOnePlace, ProducerHolds, ConsumerHolds, Holds, HoldsEachOnce,
              Occupied, Size, Peek, Empty, Full
<1>6. FramesInPlaceAreWhole'
  <2>1. \A slot : Holds(ready, slot)' <=> Holds(ready, slot)
    BY <1>1 DEF Holds, Occupied
  <2>2. ~Holds(ready, mine.slot) /\ (cp \in {"header", "image"} => theirs.slot # mine.slot)
    BY <1>1 DEF Owned, SlotsInOnePlace, ProducerHolds, ConsumerHolds
  <2>3. \A slot \in SlotIds : Holds(ready, slot)' => IsWhole(frames'[slot])
    BY <1>4, <2>1, <2>2 DEF Owned, FramesInPlaceAreWhole
  <2>4. cp \in {"header", "image"} => frames'[theirs.slot] = frames[theirs.slot]
    BY <1>4, <2>2, TicketParts DEF CameraTypes
  <2>5. pp = "image" => frames'[mine.slot].first = frames'[mine.slot].last
    BY <1>4 DEF Owned, FramesInPlaceAreWhole
  <2>. QED
    BY <1>1, <1>4, <2>3, <2>4, <2>5 DEF Owned, FramesInPlaceAreWhole, IsWhole
<1>. QED
  BY <1>1, <1>5, <1>6 DEF Owned, IsWhole

\* With every slot in one place no ring is full.
LEMMA NeverFull ==
  ASSUME CameraTypes, Owned
  PROVE  ~Full(ready) /\ ~Full(free)
<1>1. /\ Size(free) \in 0..(RingSize - 1) /\ Size(ready) \in 0..(RingSize - 1)
      /\ RingSize \in Nat /\ NumSlots = RingSize - 2
  BY RingParts DEF CameraTypes
<1>2. Size(free) + Size(ready) <= NumSlots
  BY <1>1 DEF Owned, SlotsInOnePlace
<1>. QED
  BY <1>1, <1>2, RingLimits DEF CameraTypes

\* The producer hands on the slot that it has filled.
LEMMA PushReadyKeepsOwned ==
  ASSUME CameraTypes, Owned, PushReady
  PROVE  Owned'
<1> USE DEF Produce, consumerVars, snapshotVars, clockVars
<1>1. /\ pp = "push" /\ pp' = "clock" /\ ~Full(ready) /\ ready' = Push(ready, mine.slot)
      /\ UNCHANGED <<bundle, frames, free, cp, theirs, frame>>
  BY DEF PushReady
<1>2. ready \in Rings /\ mine.slot \in SlotIds
  BY TicketParts DEF CameraTypes
<1>3. /\ HoldsEachOnce(ready) /\ ~Holds(ready, mine.slot) /\ ~Holds(free, mine.slot)
      /\ ConsumerHolds => mine.slot # theirs.slot
  BY <1>1 DEF Owned, SlotsInOnePlace, ProducerHolds
<1>4. /\ Size(ready)' = Size(ready) + 1 /\ HoldsEachOnce(ready)'
      /\ \A slot : Holds(ready, slot)' <=> Holds(ready, slot) \/ slot = mine.slot
      /\ ~Empty(ready) => ~Empty(ready)' /\ Peek(ready)' = Peek(ready)
  <2>1. /\ Size(ready') = Size(ready) + 1 /\ HoldsEachOnce(ready')
        /\ \A slot : Holds(ready', slot) <=> Holds(ready, slot) \/ slot = mine.slot
        /\ ~Empty(ready) => ~Empty(ready') /\ Peek(ready') = Peek(ready)
    BY <1>1, <1>2, <1>3, PushHolds
  <2>. QED
    BY <2>1 DEF Size, HoldsEachOnce, Holds, Occupied, Empty, Peek
<1>5. SlotsInOnePlace'
  <2>1. ProducerHolds /\ ~ProducerHolds' /\ ConsumerHolds' = ConsumerHolds
    BY <1>1 DEF ProducerHolds, ConsumerHolds
  <2>2. Size(free)' + Size(ready)' + (IF ProducerHolds' THEN 1 ELSE 0) + (IF ConsumerHolds' THEN 1 ELSE 0) = NumSlots
    <3>1. Size(free) \in Int /\ Size(ready) \in Int /\ Size(free)' = Size(free)
      BY <1>1, RingParts DEF CameraTypes, Size
    <3>. QED
      BY <1>4, <2>1, <3>1 DEF Owned, SlotsInOnePlace
  <2>3. HoldsEachOnce(free)' /\ \A slot : Holds(free, slot)' <=> Holds(free, slot)
    BY <1>1 DEF HoldsEachOnce, Holds, Occupied, Owned, SlotsInOnePlace
  <2>4. Full(free)' = Full(free)
    BY <1>1 DEF Full
  <2>. QED
    BY <1>1, <1>3, <1>4, <2>1, <2>2, <2>3, <2>4 DEF Owned, SlotsInOnePlace
<1>6. FramesInPlaceAreWhole' /\ (cp = "return" => IsWhole(frame))'
  BY <1>1, <1>4 DEF Owned, FramesInPlaceAreWhole, IsWhole
<1>. QED
  BY <1>5, <1>6 DEF Owned

\* The consumer takes the oldest frame, which is whole.
LEMMA PopReadyKeepsOwned ==
  ASSUME CameraTypes, Owned, PopReady
  PROVE  Owned'
<1> USE DEF Consume, producerVars, snapshotVars, clockVars, KeepSnapshot
<1>1. UNCHANGED <<bundle, pp, mine, frames, free, frame>>
  BY DEF PopReady
<1>2. CASE cp = "frames"
  <2>1. cp' = "pop" /\ theirs' = Peek(ready) /\ ready' = ready /\ ~Empty(ready)
    BY <1>2 DEF PopReady
  <2>2. SlotsInOnePlace'
    BY <1>1, <1>2, <2>1 DEF Owned, SlotsInOnePlace, ProducerHolds, ConsumerHolds, Holds, HoldsEachOnce,
                            Occupied, Size, Peek, Empty, Full
  <2>3. FramesInPlaceAreWhole' /\ (cp = "return" => IsWhole(frame))'
    BY <1>1, <1>2, <2>1 DEF Owned, FramesInPlaceAreWhole, Holds, Occupied, IsWhole
  <2>. QED
    BY <2>2, <2>3 DEF Owned
<1>3. CASE cp = "pop"
  <2> DEFINE popped == ready.cells[ready.read]
  <2>1. cp' = "header" /\ ready' = Commit(ready, theirs) /\ theirs' = theirs
    BY <1>3 DEF PopReady
  <2>2. ready \in Rings /\ theirs = Peek(ready) /\ ~Empty(ready)
    BY <1>3 DEF CameraTypes, Owned, SlotsInOnePlace
  <2>3. theirs.at = ready.read /\ theirs.slot = popped /\ popped \in SlotIds
    BY <2>2, PeekIsTicket, RingParts
  <2>4. HoldsEachOnce(ready)
    BY DEF Owned, SlotsInOnePlace
  <2>5. /\ Size(ready)' = Size(ready) - 1 /\ HoldsEachOnce(ready)' /\ Holds(ready, popped)
        /\ \A slot : Holds(ready, slot)' <=> Holds(ready, slot) /\ slot # popped
    <3>1. /\ Size(ready') = Size(ready) - 1 /\ HoldsEachOnce(ready') /\ Holds(ready, popped)
          /\ \A slot : Holds(ready', slot) <=> Holds(ready, slot) /\ slot # popped
      BY <2>1, <2>2, <2>3, <2>4, CommitFrees, CommitReleases
    <3>. QED
      BY <3>1 DEF Size, HoldsEachOnce, Holds, Occupied
  <2> HIDE DEF popped
  <2>6. SlotsInOnePlace'
    <3>1. ProducerHolds' = ProducerHolds /\ ~ConsumerHolds /\ ConsumerHolds'
      BY <1>1, <1>3, <2>1 DEF ProducerHolds, ConsumerHolds
    <3>2. Size(free)' + Size(ready)' + (IF ProducerHolds' THEN 1 ELSE 0) + (IF ConsumerHolds' THEN 1 ELSE 0) = NumSlots
      <4>1. Size(free) \in Int /\ Size(ready) \in Int /\ Size(free)' = Size(free)
        BY <1>1, RingParts DEF CameraTypes, Size
      <4>. QED
        BY <2>5, <3>1, <4>1 DEF Owned, SlotsInOnePlace
    <3>3. HoldsEachOnce(free)' /\ \A slot : Holds(free, slot)' <=> Holds(free, slot)
      BY <1>1 DEF HoldsEachOnce, Holds, Occupied, Owned, SlotsInOnePlace
    <3>. QED
      BY <1>1, <2>1, <2>3, <2>5, <3>1, <3>2, <3>3 DEF Owned, SlotsInOnePlace
  <2>7. FramesInPlaceAreWhole' /\ (cp = "return" => IsWhole(frame))'
    BY <1>1, <2>1, <2>3, <2>5 DEF Owned, FramesInPlaceAreWhole, IsWhole
  <2>. QED
    BY <2>6, <2>7 DEF Owned
<1>. QED
  BY <1>2, <1>3 DEF PopReady

\* The consumer copies a frame that stays whole meanwhile.
LEMMA CopyFrameKeepsOwned ==
  ASSUME CameraTypes, Owned, CopyFrame
  PROVE  Owned'
<1> USE DEF Consume, producerVars, snapshotVars, clockVars, KeepSnapshot
<1>1. /\ cp \in {"header", "image"} /\ cp' = (IF cp = "header" THEN "image" ELSE "return")
      /\ UNCHANGED <<bundle, pp, mine, frames, free, ready, theirs>>
  BY DEF CopyFrame
<1>2. frame = [first |-> frame.first, last |-> frame.last]
  BY DEF CameraTypes, Parts
<1>3. /\ cp = "header" => frame'.first = frames[theirs.slot].first
      /\ cp = "image" => frame'.first = frame.first /\ frame'.last = frames[theirs.slot].last
  <2>1. cp = "header" => frame' = [frame EXCEPT !.first = frames[theirs.slot].first]
    BY DEF CopyFrame
  <2>2. cp = "image" => frame' = [frame EXCEPT !.last = frames[theirs.slot].last]
    BY DEF CopyFrame
  <2>. QED
    BY ONLY <1>2, <2>1, <2>2
<1>4. SlotsInOnePlace'
  BY <1>1 DEF Owned, SlotsInOnePlace, ProducerHolds, ConsumerHolds, Holds, HoldsEachOnce,
              Occupied, Size, Peek, Empty, Full
<1>5. FramesInPlaceAreWhole' /\ (cp = "return" => IsWhole(frame))'
  BY <1>1, <1>3 DEF Owned, FramesInPlaceAreWhole, Holds, Occupied, IsWhole
<1>. QED
  BY <1>4, <1>5 DEF Owned

\* The consumer gives back the slot that only it holds.
LEMMA ReturnSlotKeepsOwned ==
  ASSUME CameraTypes, Owned, ReturnSlot
  PROVE  Owned'
<1> USE DEF Consume, producerVars, snapshotVars, clockVars, KeepSnapshot
<1>1. UNCHANGED <<bundle, pp, mine, frames, ready>> /\ frame' = Whole(0)
  BY DEF ReturnSlot
<1>2. /\ free \in Rings /\ free.write \in 0..(RingSize - 1) /\ theirs \in Tickets /\ theirs.slot \in SlotIds
  BY RingParts, TicketParts DEF CameraTypes
<1>3. /\ \A slot : Holds(ready, slot)' <=> Holds(ready, slot)
      /\ HoldsEachOnce(ready)' /\ HoldsEachOnce(free)
  BY <1>1 DEF Holds, HoldsEachOnce, Occupied, Owned, SlotsInOnePlace
<1>4. ProducerHolds' = ProducerHolds
  BY <1>1 DEF ProducerHolds
<1>5. CASE cp = "return"
  <2>1. /\ cp' = "returned" /\ ~Full(free) /\ free' = Fill(free, free.write, theirs.slot)
        /\ theirs' = [theirs EXCEPT !.at = free.write]
    BY <1>5, NeverFull DEF ReturnSlot
  <2>2. theirs'.slot = theirs.slot /\ theirs'.at = free.write
    BY <1>2, <2>1, TicketMoved
  <2>3. /\ Size(free)' = Size(free) /\ HoldsEachOnce(free)' /\ free'.write = free.write /\ ~Full(free)'
        /\ free'.cells[free.write] = theirs.slot
        /\ \A slot : Holds(free, slot)' <=> Holds(free, slot)
    <3>1. /\ Size(free') = Size(free) /\ HoldsEachOnce(free') /\ free'.write = free.write /\ ~Full(free')
          /\ free'.cells[free.write] = theirs.slot
          /\ \A slot : Holds(free', slot) <=> Holds(free, slot)
      BY <1>2, <1>3, <2>1, FillKeeps, FillHidden
    <3>. QED
      BY <3>1 DEF Size, HoldsEachOnce, Holds, Occupied, Full, After
  <2>4. ConsumerHolds /\ ConsumerHolds'
    BY <1>5, <2>1 DEF ConsumerHolds
  <2>5. Size(ready)' = Size(ready)
    BY <1>1 DEF Size
  <2>6. SlotsInOnePlace'
    BY <1>1, <1>3, <1>4, <2>1, <2>2, <2>3, <2>4, <2>5 DEF Owned, SlotsInOnePlace
  <2>7. FramesInPlaceAreWhole' /\ (cp = "return" => IsWhole(frame))'
    BY <1>1, <1>3, <2>1 DEF Owned, FramesInPlaceAreWhole, IsWhole
  <2>. QED
    BY <2>6, <2>7 DEF Owned
<1>6. CASE cp = "returned"
  <2>1. /\ cp' = "frames" /\ free' = Extend(free, free.write)
        /\ free.cells[free.write] = theirs.slot /\ ~Full(free)
    BY <1>6 DEF ReturnSlot, Owned, SlotsInOnePlace
  <2>2. ConsumerHolds /\ ~ConsumerHolds' /\ ~Holds(free, theirs.slot)
    BY <1>6, <2>1 DEF ConsumerHolds, Owned, SlotsInOnePlace
  <2>3. /\ Size(free)' = Size(free) + 1 /\ HoldsEachOnce(free)'
        /\ \A slot : Holds(free, slot)' <=> Holds(free, slot) \/ slot = theirs.slot
    <3>1. /\ Size(free') = Size(free) + 1 /\ HoldsEachOnce(free')
          /\ \A slot : Holds(free', slot) <=> Holds(free, slot) \/ slot = theirs.slot
      <4>1. Size(Extend(free, free.write)) = Size(free) + 1
        BY <1>2, <2>1, ExtendAdds
      <4>2. /\ HoldsEachOnce(free) /\ ~Holds(free, free.cells[free.write]) => HoldsEachOnce(Extend(free, free.write))
            /\ \A s : Holds(Extend(free, free.write), s) <=> Holds(free, s) \/ s = free.cells[free.write]
        BY <1>2, <2>1, ExtendHolds
      <4>. QED
        BY <1>3, <2>1, <2>2, <4>1, <4>2
    <3>. QED
      BY <3>1 DEF Size, HoldsEachOnce, Holds, Occupied
  <2>4. Size(free)' + Size(ready)' + (IF ProducerHolds' THEN 1 ELSE 0) + (IF ConsumerHolds' THEN 1 ELSE 0) = NumSlots
    <3>1. Size(free) \in Int /\ Size(ready) \in Int /\ Size(ready)' = Size(ready)
      BY <1>1, RingParts DEF CameraTypes, Size
    <3>. QED
      BY <1>4, <2>2, <2>3, <3>1 DEF Owned, SlotsInOnePlace
  <2>5. SlotsInOnePlace'
    BY <1>1, <1>3, <1>4, <2>1, <2>2, <2>3, <2>4 DEF Owned, SlotsInOnePlace
  <2>6. FramesInPlaceAreWhole' /\ (cp = "return" => IsWhole(frame))'
    BY <1>1, <1>3, <2>1 DEF Owned, FramesInPlaceAreWhole, IsWhole
  <2>. QED
    BY <2>5, <2>6 DEF Owned
<1>. QED
  BY <1>5, <1>6 DEF ReturnSlot

\* The actions that work with camera slots.
CameraAction ==
  \/ TakeFree \/ Starve \/ StealOldest \/ WriteFrame \/ PushReady \/ FindFull
  \/ DiscardOldest \/ PushAgain \/ GiveUp
  \/ GiveBack("giveSpare", "gaveSpare", "clock") \/ GiveBack("giveBack", "gaveBack", "idle")
  \/ NoMoreFrames \/ PopReady \/ CopyFrame \/ ReturnSlot

\* They keep every slot in one place until one is stolen.
LEMMA CameraActionKeepsCamera ==
  ASSUME CameraInv, bundle \in Bundles, CameraAction
  PROVE  CameraInv'
<1>1. CameraTypes
  BY DEF CameraInv
<1>2. CameraTypes'
  BY <1>1, CameraTypesKept DEF CameraAction
<1>3. ASSUME ~stole' PROVE Owned'
  <2> USE DEF Produce, Consume, producerVars, consumerVars, snapshotVars, clockVars, cameraVars,
              KeepCamera, KeepSnapshot
  <2>1. ~stole
    BY <1>3 DEF CameraAction, TakeFree, Starve, StealOldest, WriteFrame, PushReady, FindFull, DiscardOldest,
                PushAgain, GiveUp, GiveBack, NoMoreFrames, PopReady, CopyFrame, ReturnSlot
  <2>2. Owned
    BY <2>1 DEF CameraInv
  <2>3. pp \notin {"stolen", "discard", "discarded", "pushAgain", "giveSpare", "gaveSpare", "giveBack", "gaveBack"}
    BY <2>2 DEF Owned, SlotsInOnePlace
  <2>4. ~Full(ready)
    BY <1>1, <2>2, NeverFull
  <2>5. CASE Starve \/ NoMoreFrames
    BY <2>2, <2>5, MovesKeepOwned DEF Starve, NoMoreFrames, ProducerHolds, ConsumerHolds
  <2>6. ~StealOldest
    BY <1>3, <2>3 DEF StealOldest
  <2>7. ~(FindFull \/ DiscardOldest \/ PushAgain \/ GiveUp \/ GiveBack("giveSpare", "gaveSpare", "clock")
           \/ GiveBack("giveBack", "gaveBack", "idle"))
    BY <2>3, <2>4 DEF FindFull, DiscardOldest, PushAgain, GiveUp, GiveBack
  <2>. QED
    BY <1>1, <2>2, <2>5, <2>6, <2>7, TakeFreeKeepsOwned, WriteFrameKeepsOwned, PushReadyKeepsOwned,
       PopReadyKeepsOwned, CopyFrameKeepsOwned, ReturnSlotKeepsOwned DEF CameraAction
<1>. QED
  BY <1>2, <1>3 DEF CameraInv

-----------------------------------------------------------------------------
(***************************************************************************)
(* The small snapshot and the clock.                                       *)
(***************************************************************************)
SnapshotInv == SnapshotTypes /\ SequencesFollow /\ ActiveIsAnnounced /\ CopyIsNotOlder /\ NothingMissed

\* The actions that work with snapshot slots, sequences and clocks.
SnapshotAction ==
  \/ WriteSnapshotFirst \/ WriteSnapshotLast \/ StoreClock \/ CountClock \/ Activate \/ Announce
  \/ Look \/ LoadActive \/ CopySnapshot \/ PublishSnapshot \/ LookClock \/ PublishClock

\* Camera slots and snapshots have nothing in common but the order of the work.
LEMMA CameraActionKeepsSnapshot ==
  ASSUME SnapshotInv, CameraAction
  PROVE  SnapshotInv'
<1> USE DEF Produce, Consume, producerVars, consumerVars, snapshotVars, clockVars, cameraVars,
            KeepCamera, KeepSnapshot
<1> DEFINE between == {"take", "steal", "stolen", "header", "image", "push", "discard", "discarded",
                       "pushAgain", "giveSpare", "gaveSpare", "giveBack", "gaveBack"}
           outside == {"load", "copy", "copyLast", "consume", "readClock"}
<1>1. UNCHANGED <<bundle, slots, active, latest, clockNs, clockSequence, seen, consumed, consumedClock,
                  got, delivered, clock>>
  BY DEF CameraAction, TakeFree, Starve, StealOldest, WriteFrame, PushReady, FindFull, DiscardOldest,
         PushAgain, GiveUp, GiveBack, NoMoreFrames, PopReady, CopyFrame, ReturnSlot
<1>2. /\ pp' = pp \/ (pp \in between /\ pp' \in between \union {"idle", "clock"})
      /\ cp' = cp \/ cp' \notin outside
  <2>1. CASE NoMoreFrames \/ PopReady \/ CopyFrame \/ ReturnSlot
    BY <2>1 DEF NoMoreFrames, PopReady, CopyFrame, ReturnSlot
  <2>2. CASE TakeFree \/ Starve \/ StealOldest \/ WriteFrame \/ PushReady \/ FindFull
    BY <2>2 DEF TakeFree, Starve, StealOldest, WriteFrame, AfterHeader, PushReady, FindFull
  <2>3. CASE DiscardOldest \/ PushAgain \/ GiveUp
    BY <2>3 DEF DiscardOldest, PushAgain, GiveUp
  <2>4. CASE GiveBack("giveSpare", "gaveSpare", "clock") \/ GiveBack("giveBack", "gaveBack", "idle")
    BY <2>4 DEF GiveBack
  <2>. QED
    BY <2>1, <2>2, <2>3, <2>4 DEF CameraAction
<1>3. SnapshotTypes' /\ NothingMissed'
  BY <1>1 DEF SnapshotInv, SnapshotTypes, NothingMissed
<1>4. SequencesFollow'
  BY <1>1, <1>2 DEF SnapshotInv, SequencesFollow
<1>5. ActiveIsAnnounced'
  BY <1>1, <1>2 DEF SnapshotInv, ActiveIsAnnounced, AtLeast, Inactive
<1>6. CopyIsNotOlder'
  BY <1>1, <1>2 DEF SnapshotInv, CopyIsNotOlder, AtLeast
<1>. QED
  BY <1>3, <1>4, <1>5, <1>6 DEF SnapshotInv

\* And the other way round.
LEMMA SnapshotActionKeepsCamera ==
  ASSUME CameraInv, SnapshotAction
  PROVE  CameraInv'
<1> USE DEF Produce, Consume, producerVars, consumerVars, snapshotVars, clockVars, cameraVars, KeepCamera
<1>1. UNCHANGED <<frames, free, ready, mine, spare, theirs, frame>> /\ (stole' <=> stole) /\ stole' \in BOOLEAN
  BY DEF SnapshotAction, WriteSnapshotFirst, WriteSnapshotLast, StoreClock, CountClock, Activate, Announce,
         Look, LoadActive, CopySnapshot, PublishSnapshot, LookClock, PublishClock, CameraInv, CameraTypes
<1>2. /\ \/ pp' = pp
         \/ /\ pp \in {"idle", "lidars", "clock", "count", "activate", "announce"}
            /\ pp' \in {"idle", "lidars", "take", "clock", "count", "activate", "announce"}
      /\ \/ cp' = cp
         \/ /\ cp \in {"look", "load", "copy", "copyLast", "consume", "lookClock", "readClock"}
            /\ cp' \in {"load", "copy", "copyLast", "consume", "lookClock", "readClock", "frames"}
      /\ bundle' = bundle \/ pp = "idle"
  BY DEF SnapshotAction, WriteSnapshotFirst, WriteSnapshotLast, StoreClock, CountClock, Activate, Announce,
         Look, LoadActive, CopySnapshot, PublishSnapshot, LookClock, PublishClock
<1>3. CameraTypes'
  BY <1>1 DEF CameraInv, CameraTypes
<1>4. Owned => Owned'
  BY <1>1, <1>2, MovesKeepOwned DEF ProducerHolds, ConsumerHolds
<1>. QED
  BY <1>1, <1>3, <1>4 DEF CameraInv

\* The producer writes into the slot that is not active, then makes it the active
\* one, then announces it.
LEMMA ProducerKeepsSnapshot ==
  ASSUME SnapshotInv,
         \/ WriteSnapshotFirst \/ WriteSnapshotLast \/ StoreClock \/ CountClock \/ Activate \/ Announce
  PROVE  SnapshotInv'
<1> USE DEF Produce, producerVars, consumerVars, snapshotVars, clockVars, cameraVars
<1>1. /\ bundle \in Bundles /\ bundle \in Nat /\ latest \in 0..bundle /\ clockSequence \in 0..bundle
      /\ slots \in [0..1 -> Parts] /\ active \in 0..1 /\ Inactive \in 0..1 /\ Inactive # active
      /\ clockNs \in Bundles /\ MaxBundle \in Nat
      /\ seen \in [sequence : Bundles, slot : 0..1] /\ seen.sequence \in Nat /\ seen.slot \in 0..1
      /\ consumed \in 0..latest /\ consumedClock \in 0..clockSequence
      /\ got \in Parts /\ delivered \in Parts /\ clock \in Bundles
  BY BundlesAssumption DEF SnapshotInv, SnapshotTypes, Bundles, Inactive
<1>2. /\ \A i \in 0..1 : slots[i].first \in Bundles /\ slots[i].last \in Bundles
      /\ Bundles \subseteq Nat
  BY <1>1 DEF Parts, Bundles
<1>3. UNCHANGED <<cp, seen, consumed, consumedClock, got, delivered, clock>>
  BY DEF WriteSnapshotFirst, WriteSnapshotLast, StoreClock, CountClock, Activate, Announce
<1>4. NothingMissed'
  BY <1>3 DEF SnapshotInv, NothingMissed
<1>5. CASE WriteSnapshotFirst
  <2>1. /\ pp = "idle" /\ pp' = "lidars" /\ bundle' = bundle + 1 /\ bundle' \in Bundles
        /\ slots' = WriteFirst(slots, Inactive, bundle')
        /\ UNCHANGED <<active, latest, clockNs, clockSequence>> /\ Inactive' = Inactive
    BY <1>1, <1>5 DEF WriteSnapshotFirst, WriteFirst, Bundles, Inactive
  <2>2. /\ slots' \in [0..1 -> Parts] /\ slots'[active] = slots[active]
        /\ slots'[Inactive] = [first |-> bundle', last |-> slots[Inactive].last]
    <3>1. slots[Inactive] \in Parts /\ [first |-> bundle', last |-> slots[Inactive].last] \in Parts
      BY <1>1, <1>2, <2>1 DEF Parts
    <3>2. slots' = [slots EXCEPT ![Inactive] = [first |-> bundle', last |-> slots[Inactive].last]]
      BY <2>1, <3>1, PartIsWritten
    <3>. QED
      BY <1>1, <3>1, <3>2
  <2>3. SnapshotTypes'
    BY <1>1, <1>3, <2>1, <2>2 DEF SnapshotTypes
  <2>4. SequencesFollow'
    BY <1>1, <1>3, <2>1 DEF SnapshotInv, SequencesFollow
  <2>5. ActiveIsAnnounced'
    BY <1>1, <2>1, <2>2 DEF SnapshotInv, ActiveIsAnnounced, AtLeast
  <2>6. CopyIsNotOlder'
    <3>1. seen.slot \in {active, Inactive}
      BY <1>1 DEF Inactive
    <3>2. cp \in {"copy", "copyLast", "consume"} => seen.sequence <= bundle'
      BY <1>1, <2>1 DEF SnapshotInv, SequencesFollow
    <3>. QED
      BY <1>1, <1>2, <1>3, <2>2, <3>1, <3>2 DEF SnapshotInv, CopyIsNotOlder, AtLeast
  <2>. QED
    BY <1>4, <2>3, <2>4, <2>5, <2>6 DEF SnapshotInv
<1>6. CASE WriteSnapshotLast
  <2>1. /\ pp = "lidars" /\ pp' = "take" /\ slots' = WriteLast(slots, Inactive, bundle)
        /\ UNCHANGED <<bundle, active, latest, clockNs, clockSequence>> /\ Inactive' = Inactive
    BY <1>6 DEF WriteSnapshotLast, WriteLast, Inactive
  <2>2. /\ slots' \in [0..1 -> Parts] /\ slots'[active] = slots[active]
        /\ slots'[Inactive] = [first |-> slots[Inactive].first, last |-> bundle]
    <3>1. slots[Inactive] \in Parts /\ [first |-> slots[Inactive].first, last |-> bundle] \in Parts
      BY <1>1, <1>2, <2>1 DEF Parts
    <3>2. slots' = [slots EXCEPT ![Inactive] = [first |-> slots[Inactive].first, last |-> bundle]]
      BY <2>1, <3>1, PartIsWritten
    <3>. QED
      BY <1>1, <3>1, <3>2
  <2>3. SnapshotTypes'
    BY <1>1, <1>3, <2>1, <2>2 DEF SnapshotTypes
  <2>4. SequencesFollow'
    BY <1>1, <1>3, <2>1 DEF SnapshotInv, SequencesFollow
  <2>5. ActiveIsAnnounced'
    BY <1>1, <2>1, <2>2 DEF SnapshotInv, ActiveIsAnnounced, AtLeast, Whole
  <2>6. CopyIsNotOlder'
    <3>1. seen.slot \in {active, Inactive}
      BY <1>1 DEF Inactive
    <3>2. cp \in {"copy", "copyLast", "consume"} => seen.sequence <= bundle
      BY <1>1 DEF SnapshotInv, SequencesFollow
    <3>. QED
      BY <1>1, <1>2, <1>3, <2>2, <3>1, <3>2 DEF SnapshotInv, CopyIsNotOlder, AtLeast
  <2>. QED
    BY <1>4, <2>3, <2>4, <2>5, <2>6 DEF SnapshotInv
<1>7. CASE StoreClock \/ CountClock
  <2>1. /\ pp' \in {"count", "activate"} /\ pp \in {"clock", "count"} /\ clockNs' \in Bundles
        /\ UNCHANGED <<bundle, slots, active, latest>> /\ Inactive' = Inactive
        /\ \/ pp' = "count" /\ clockSequence' = clockSequence
           \/ pp' = "activate" /\ clockSequence' = clockSequence + 1
    BY <1>1, <1>7 DEF StoreClock, CountClock, NewTime, Inactive
  <2>2. clockSequence < bundle
    BY <1>1, <2>1 DEF SnapshotInv, SequencesFollow
  <2>3. SnapshotTypes'
    BY <1>1, <1>3, <2>1, <2>2 DEF SnapshotTypes
  <2>4. SequencesFollow'
    BY <1>1, <1>3, <2>1, <2>2 DEF SnapshotInv, SequencesFollow
  <2>5. ActiveIsAnnounced' /\ CopyIsNotOlder'
    BY <1>3, <2>1 DEF SnapshotInv, ActiveIsAnnounced, CopyIsNotOlder, AtLeast
  <2>. QED
    BY <1>4, <2>3, <2>4, <2>5 DEF SnapshotInv
<1>8. CASE Activate
  <2>1. /\ pp = "activate" /\ pp' = "announce" /\ active' = Inactive
        /\ UNCHANGED <<bundle, slots, latest, clockNs, clockSequence>>
    BY <1>8 DEF Activate
  <2>2. slots[Inactive] = Whole(bundle)
    BY <2>1 DEF SnapshotInv, ActiveIsAnnounced
  <2>3. SnapshotTypes' /\ SequencesFollow' /\ CopyIsNotOlder'
    BY <1>1, <1>3, <2>1 DEF SnapshotInv, SnapshotTypes, SequencesFollow, CopyIsNotOlder, AtLeast
  <2>4. ActiveIsAnnounced'
    BY <1>1, <2>1, <2>2 DEF ActiveIsAnnounced, AtLeast, Whole
  <2>. QED
    BY <1>4, <2>3, <2>4 DEF SnapshotInv
<1>9. CASE Announce
  <2>1. /\ pp = "announce" /\ pp' = "idle" /\ latest' = latest + 1
        /\ UNCHANGED <<bundle, slots, active, clockNs, clockSequence>>
    BY <1>9 DEF Announce, NextSequence
  <2>2. slots[active] = Whole(bundle) /\ latest < bundle
    BY <2>1 DEF SnapshotInv, ActiveIsAnnounced, SequencesFollow
  <2>3. SnapshotTypes' /\ SequencesFollow' /\ CopyIsNotOlder'
    BY <1>1, <1>3, <2>1, <2>2 DEF SnapshotInv, SnapshotTypes, SequencesFollow, CopyIsNotOlder, AtLeast
  <2>4. ActiveIsAnnounced'
    BY <1>1, <2>1, <2>2 DEF ActiveIsAnnounced, AtLeast, Whole
  <2>. QED
    BY <1>4, <2>3, <2>4 DEF SnapshotInv
<1>. QED
  BY <1>5, <1>6, <1>7, <1>8, <1>9

\* The consumer loads the sequence first, then the slot, then copies: what it
\* marks consumed it has, or something newer.
LEMMA ConsumerKeepsSnapshot ==
  ASSUME SnapshotInv,
         \/ Look \/ LoadActive \/ CopySnapshot \/ PublishSnapshot \/ LookClock \/ PublishClock
  PROVE  SnapshotInv'
<1> USE DEF Consume, producerVars, consumerVars, snapshotVars, clockVars, cameraVars, KeepCamera
<1>1. /\ bundle \in Bundles /\ bundle \in Nat /\ latest \in 0..bundle /\ clockSequence \in 0..bundle
      /\ slots \in [0..1 -> Parts] /\ active \in 0..1 /\ clockNs \in Bundles /\ MaxBundle \in Nat
      /\ 0..bundle \subseteq Bundles
      /\ seen \in [sequence : Bundles, slot : 0..1] /\ seen.sequence \in Nat /\ seen.slot \in 0..1
      /\ seen = [sequence |-> seen.sequence, slot |-> seen.slot]
      /\ consumed \in 0..latest /\ consumedClock \in 0..clockSequence
      /\ got \in Parts /\ delivered \in Parts /\ clock \in Bundles
  BY BundlesAssumption DEF SnapshotInv, SnapshotTypes, Bundles
<1>2. /\ got = [first |-> got.first, last |-> got.last] /\ got.first \in Bundles /\ got.last \in Bundles
      /\ Bundles \subseteq Nat /\ Whole(0) \in Parts /\ NothingSeen \in [sequence : Bundles, slot : 0..1]
      /\ \A i \in 0..1 : slots[i].first \in Bundles /\ slots[i].last \in Bundles
  BY <1>1 DEF Parts, Bundles, Whole, NothingSeen
<1>3. UNCHANGED <<pp, bundle, slots, active, latest, clockNs, clockSequence>>
  BY DEF Look, LoadActive, CopySnapshot, PublishSnapshot, LookClock, PublishClock
<1>4. ActiveIsAnnounced'
  BY <1>3 DEF SnapshotInv, ActiveIsAnnounced, AtLeast, Inactive
<1>5. CASE Look \/ LookClock
  <2>1. \/ /\ cp' \in {"lookClock", "frames"} /\ seen' = seen
        \/ /\ cp' = "load" /\ seen' = [seen EXCEPT !.sequence = latest]
        \/ /\ cp' = "readClock" /\ seen' = [seen EXCEPT !.sequence = clockSequence]
    BY <1>5 DEF Look, LookClock
  <2>2. \/ /\ cp' \in {"lookClock", "frames"} /\ seen' = seen
        \/ /\ cp' = "load" /\ seen' = [sequence |-> latest, slot |-> seen.slot]
        \/ /\ cp' = "readClock" /\ seen' = [sequence |-> clockSequence, slot |-> seen.slot]
    <3>1. seen = [sequence |-> seen.sequence, slot |-> seen.slot]
      BY <1>1
    <3>. QED
      BY ONLY <2>1, <3>1
  <2>3. UNCHANGED <<consumed, consumedClock, got, delivered, clock>>
    BY <1>5 DEF Look, LookClock
  <2>4. seen' \in [sequence : Bundles, slot : 0..1]
    BY <1>1, <2>2
  <2>5. SnapshotTypes' /\ NothingMissed'
    BY <1>3, <2>3, <2>4 DEF SnapshotInv, SnapshotTypes, NothingMissed
  <2>6. SequencesFollow' /\ CopyIsNotOlder'
    BY <1>1, <1>3, <2>2 DEF SnapshotInv, SequencesFollow, CopyIsNotOlder
  <2>. QED
    BY <1>4, <2>5, <2>6 DEF SnapshotInv
<1>6. CASE LoadActive
  <2>1. /\ cp = "load" /\ cp' = "copy" /\ seen' = [seen EXCEPT !.slot = active]
        /\ UNCHANGED <<consumed, consumedClock, got, delivered, clock>>
    BY <1>6 DEF LoadActive
  <2>2. seen' = [sequence |-> seen.sequence, slot |-> active]
    <3>1. seen = [sequence |-> seen.sequence, slot |-> seen.slot]
      BY <1>1
    <3>. QED
      BY ONLY <2>1, <3>1
  <2>3. seen' \in [sequence : Bundles, slot : 0..1]
    BY <1>1, <2>2
  <2>4. SnapshotTypes' /\ NothingMissed'
    BY <1>3, <2>1, <2>3 DEF SnapshotInv, SnapshotTypes, NothingMissed
  <2>5. SequencesFollow'
    BY <1>3, <2>1, <2>2 DEF SnapshotInv, SequencesFollow
  <2>6. CopyIsNotOlder'
    <3>1. AtLeast(slots[active], latest) /\ seen.sequence <= latest
      BY <2>1 DEF SnapshotInv, ActiveIsAnnounced, SequencesFollow
    <3>. QED
      BY <1>1, <1>2, <1>3, <2>1, <2>2, <3>1 DEF CopyIsNotOlder, AtLeast
  <2>. QED
    BY <1>4, <2>4, <2>5, <2>6 DEF SnapshotInv
<1>7. CASE CopySnapshot
  <2>1. /\ cp \in {"copy", "copyLast"} /\ cp' = (IF cp = "copy" THEN "copyLast" ELSE "consume")
        /\ UNCHANGED <<seen, consumed, consumedClock, delivered, clock>>
    BY <1>7 DEF CopySnapshot
  <2>2. got' = IF cp = "copy" THEN [first |-> slots[seen.slot].first, last |-> got.last]
                             ELSE [first |-> got.first, last |-> slots[seen.slot].last]
    <3>1. got = [first |-> got.first, last |-> got.last]
      BY <1>2
    <3>2. got' = IF cp = "copy" THEN [got EXCEPT !.first = slots[seen.slot].first]
                               ELSE [got EXCEPT !.last = slots[seen.slot].last]
      BY <1>7 DEF CopySnapshot
    <3>. QED
      BY ONLY <3>1, <3>2
  <2>3. got' \in Parts
    BY <1>1, <1>2, <2>1, <2>2 DEF Parts
  <2>4. SnapshotTypes' /\ NothingMissed'
    BY <1>3, <2>1, <2>3 DEF SnapshotInv, SnapshotTypes, NothingMissed
  <2>5. SequencesFollow'
    BY <1>3, <2>1 DEF SnapshotInv, SequencesFollow
  <2>6. CopyIsNotOlder'
    BY <1>3, <2>1, <2>2 DEF SnapshotInv, CopyIsNotOlder, AtLeast
  <2>. QED
    BY <1>4, <2>4, <2>5, <2>6 DEF SnapshotInv
<1>8. CASE PublishSnapshot
  <2>1. /\ cp = "consume" /\ cp' = "frames" /\ consumed' = seen.sequence /\ delivered' = got
        /\ clock' = got.first /\ seen' = NothingSeen /\ got' = Whole(0) /\ consumedClock' = consumedClock
    BY <1>8 DEF PublishSnapshot, SequenceSeen
  <2>2. seen.sequence <= latest /\ got.first >= seen.sequence /\ got.last >= seen.sequence
    BY <2>1 DEF SnapshotInv, SequencesFollow, CopyIsNotOlder
  <2>3. SnapshotTypes'
    BY <1>1, <1>2, <1>3, <2>1, <2>2 DEF SnapshotTypes
  <2>4. SequencesFollow' /\ CopyIsNotOlder' /\ NothingMissed'
    BY <1>3, <2>1, <2>2 DEF SnapshotInv, SequencesFollow, CopyIsNotOlder, NothingMissed
  <2>. QED
    BY <1>4, <2>3, <2>4 DEF SnapshotInv
<1>9. CASE PublishClock
  <2>1. /\ cp = "readClock" /\ cp' = "frames" /\ clock' = clockNs /\ consumedClock' = seen.sequence
        /\ seen' = NothingSeen /\ UNCHANGED <<consumed, got, delivered>>
    BY <1>9 DEF PublishClock
  <2>2. seen.sequence <= clockSequence
    BY <2>1 DEF SnapshotInv, SequencesFollow
  <2>3. SnapshotTypes'
    BY <1>1, <1>2, <1>3, <2>1, <2>2 DEF SnapshotTypes
  <2>4. SequencesFollow' /\ CopyIsNotOlder' /\ NothingMissed'
    BY <1>3, <2>1 DEF SnapshotInv, SequencesFollow, CopyIsNotOlder, NothingMissed
  <2>. QED
    BY <1>4, <2>3, <2>4 DEF SnapshotInv
<1>. QED
  BY <1>5, <1>6, <1>7, <1>8, <1>9

-----------------------------------------------------------------------------
(***************************************************************************)
(* The register: how far what is published can be from what is announced.  *)
(***************************************************************************)
\* A full ring is not empty, and one that was pushed to is not either.
LEMMA FullIsNotEmpty ==
  ASSUME NEW ring \in Rings
  PROVE  /\ Full(ring) => ~Empty(ring)
         /\ \A slot \in SlotIds : ~Full(ring) => ~Empty(Push(ring, slot))
<1>1. Full(ring) => ~Empty(ring)
  BY RingLimits, RingParts
<1>2. ASSUME NEW slot \in SlotIds, ~Full(ring) PROVE ~Empty(Push(ring, slot))
  BY <1>2, PushHolds, RingLimits, RingParts
<1>. QED
  BY <1>1, <1>2

\* The two positions of a ring after an operation on it.
LEMMA Positions ==
  ASSUME NEW ring \in Rings, NEW ticket, NEW at, NEW slot
  PROVE  /\ Extend(ring, at).read = ring.read /\ Extend(ring, at).write = After(at)
         /\ Fill(ring, at, slot).read = ring.read /\ Fill(ring, at, slot).write = ring.write
         /\ Commit(ring, ticket).read = After(ticket.at) /\ Commit(ring, ticket).write = ring.write
<1>1. ring = [cells |-> ring.cells, read |-> ring.read, write |-> ring.write]
  BY RingParts
<1>2. /\ Extend(ring, at) = [cells |-> ring.cells, read |-> ring.read, write |-> After(at)]
      /\ Fill(ring, at, slot) = [cells |-> [ring.cells EXCEPT ![at] = slot], read |-> ring.read, write |-> ring.write]
      /\ Commit(ring, ticket) = [cells |-> ring.cells, read |-> After(ticket.at), write |-> ring.write]
  BY ONLY <1>1 DEF Extend, Fill, Commit
<1>. QED
  BY <1>2

\* Whatever threads do to the rings at the same time, the slots do not all get lost.
LEMMA CameraActionKeepsSlot ==
  ASSUME CameraTypes, SlotIsSomewhere, CameraAction
  PROVE  SlotIsSomewhere'
<1> USE DEF Produce, Consume, producerVars, consumerVars, snapshotVars, clockVars, cameraVars,
            KeepCamera, KeepSnapshot
<1>0. free \in Rings /\ ready \in Rings /\ mine.slot \in SlotIds /\ theirs \in Tickets /\ spare \in Tickets
      /\ [spare EXCEPT !.at = free.write].at = free.write
      /\ [theirs EXCEPT !.at = free.write].at = free.write
  BY TicketParts, TicketMoved, RingParts DEF CameraTypes
<1>1. CASE TakeFree
  <2>1. CASE Empty(free)
    BY <1>1, <2>1 DEF TakeFree, SlotIsSomewhere, Empty
  <2>2. CASE ~Empty(free)
    BY <1>1, <2>2 DEF TakeFree, SlotIsSomewhere, Empty
  <2>. QED BY <2>1, <2>2
<1>2. CASE Starve
  BY <1>2 DEF Starve, SlotIsSomewhere, Empty
<1>3. CASE StealOldest
  BY <1>3 DEF StealOldest, SlotIsSomewhere, Empty
<1>4. CASE WriteFrame
  BY <1>4 DEF WriteFrame, AfterHeader, SlotIsSomewhere, Empty
<1>5. CASE PushReady \/ PushAgain
  <2>1. ~Full(ready) /\ ready' = Push(ready, mine.slot) /\ free' = free /\ cp' = cp /\ theirs' = theirs
        /\ pp' \in {"clock", "giveSpare"}
    BY <1>5 DEF PushReady, PushAgain
  <2>2. ~Empty(ready')
    BY <1>0, <2>1, FullIsNotEmpty
  <2>. QED BY <2>1, <2>2 DEF SlotIsSomewhere, Empty
<1>6. CASE FindFull
  <2>1. ~Empty(ready)
    BY <1>0, <1>6, FullIsNotEmpty DEF FindFull
  <2>. QED BY <1>6, <2>1 DEF FindFull, SlotIsSomewhere, Empty
<1>7. CASE DiscardOldest
  BY <1>7 DEF DiscardOldest, SlotIsSomewhere, Empty
<1>8. CASE GiveUp
  <2>1. \/ pp = "discard" /\ Empty(ready)
        \/ ~Empty(ready)
    BY <1>0, <1>8, FullIsNotEmpty DEF GiveUp
  <2>2. pp' = "giveBack" /\ UNCHANGED <<free, ready, cp, theirs>>
    BY <1>8 DEF GiveUp
  <2>. QED BY <2>1, <2>2 DEF SlotIsSomewhere, Empty
<1>9. CASE GiveBack("giveSpare", "gaveSpare", "clock") \/ GiveBack("giveBack", "gaveBack", "idle")
  <2>1. /\ pp \in {"giveSpare", "gaveSpare", "giveBack", "gaveBack"} /\ UNCHANGED <<ready, cp, theirs>>
    BY <1>9 DEF GiveBack
  <2>2. CASE Full(free) /\ pp \in {"giveSpare", "giveBack"} /\ pp' \in {"clock", "idle"} /\ free' = free
    <3>1. ~Empty(free)
      BY <1>0, <2>2, FullIsNotEmpty
    <3>. QED BY <2>1, <2>2, <3>1 DEF SlotIsSomewhere, Empty
  <2>3. CASE ~Full(free) /\ pp' \in {"gaveSpare", "gaveBack"}
             /\ free' = Fill(free, free.write, spare.slot) /\ spare' = [spare EXCEPT !.at = free.write]
    <3>1. free'.read = free.read /\ free'.write = free.write /\ spare'.at = free.write
      BY <1>0, <2>3, Positions
    <3>. QED BY <2>1, <2>3, <3>1 DEF SlotIsSomewhere, Empty, Full
  <2>4. CASE pp \in {"gaveSpare", "gaveBack"} /\ pp' \in {"clock", "idle"} /\ free' = Extend(free, spare.at)
    <3>1. free'.read = free.read /\ free'.write = After(spare.at)
      BY <1>0, <2>4, Positions
    <3>. QED BY <2>1, <2>4, <3>1 DEF SlotIsSomewhere, Empty
  <2>. QED BY <1>9, <2>1, <2>2, <2>3, <2>4 DEF GiveBack
<1>10. CASE NoMoreFrames
  BY <1>10 DEF NoMoreFrames, SlotIsSomewhere, Empty
<1>11. CASE PopReady
  BY <1>11 DEF PopReady, SlotIsSomewhere, Empty
<1>12. CASE CopyFrame
  BY <1>12 DEF CopyFrame, SlotIsSomewhere, Empty
<1>13. CASE ReturnSlot
  <2>1. UNCHANGED <<pp, spare, ready>>
    BY <1>13 DEF ReturnSlot
  <2>2. CASE Full(free) /\ free' = free /\ cp' = "frames"
    <3>1. ~Empty(free)
      BY <1>0, <2>2, FullIsNotEmpty
    <3>. QED BY <2>1, <2>2, <3>1 DEF SlotIsSomewhere, Empty
  <2>3. CASE ~Full(free) /\ cp' = "returned" /\ free' = Fill(free, free.write, theirs.slot)
             /\ theirs' = [theirs EXCEPT !.at = free.write]
    <3>1. free'.read = free.read /\ theirs'.at = free.write
      BY <1>0, <2>3, Positions
    <3>. QED BY <2>1, <2>3, <3>1 DEF SlotIsSomewhere, Full
  <2>4. CASE cp = "returned" /\ cp' = "frames" /\ free' = Extend(free, theirs.at)
    <3>1. free'.read = free.read /\ free'.write = After(theirs.at)
      BY <1>0, <2>4, Positions
    <3>. QED BY <2>1, <2>4, <3>1 DEF SlotIsSomewhere, Empty
  <2>. QED BY <1>13, <2>2, <2>3, <2>4 DEF ReturnSlot
<1>. QED
  BY <1>1, <1>2, <1>3, <1>4, <1>5, <1>6, <1>7, <1>8, <1>9, <1>10, <1>11, <1>12, <1>13 DEF CameraAction

\* Nor does the work on snapshots lose one.
LEMMA SnapshotActionKeepsSlot ==
  ASSUME SlotIsSomewhere, SnapshotAction
  PROVE  SlotIsSomewhere'
<1> USE DEF Produce, Consume, producerVars, consumerVars, snapshotVars, clockVars, cameraVars, KeepCamera
<1>1. UNCHANGED <<free, ready, spare, theirs>>
  BY DEF SnapshotAction, WriteSnapshotFirst, WriteSnapshotLast, StoreClock, CountClock, Activate, Announce,
         Look, LoadActive, CopySnapshot, PublishSnapshot, LookClock, PublishClock
<1>2. /\ \/ pp' = pp
         \/ /\ pp \in {"idle", "lidars", "clock", "count", "activate", "announce"}
            /\ pp' \in {"idle", "lidars", "take", "clock", "count", "activate", "announce"}
      /\ \/ cp' = cp
         \/ /\ cp \in {"look", "load", "copy", "copyLast", "consume", "lookClock", "readClock"}
            /\ cp' \in {"load", "copy", "copyLast", "consume", "lookClock", "readClock", "frames"}
  BY DEF SnapshotAction, WriteSnapshotFirst, WriteSnapshotLast, StoreClock, CountClock, Activate, Announce,
         Look, LoadActive, CopySnapshot, PublishSnapshot, LookClock, PublishClock
<1>. QED
  BY <1>1, <1>2 DEF SlotIsSomewhere, Empty

\* A bundle that the consumer can come upon is not given up.
LEMMA CameraActionKeepsWatched ==
  ASSUME CameraTypes, SlotIsSomewhere, WatchedIsNext, CameraAction
  PROVE  WatchedIsNext'
<1> USE DEF Produce, Consume, producerVars, consumerVars, snapshotVars, clockVars, cameraVars,
            KeepCamera, KeepSnapshot
<1>0. free \in Rings /\ ready \in Rings /\ mine.slot \in SlotIds /\ theirs \in Tickets /\ spare \in Tickets
  BY TicketParts DEF CameraTypes
<1>1. CASE NoMoreFrames \/ PopReady \/ CopyFrame \/ ReturnSlot
  <2>1. cp' \notin {"copy", "copyLast", "lookClock", "readClock"}
    BY <1>1 DEF NoMoreFrames, PopReady, CopyFrame, ReturnSlot
  <2>. QED BY <2>1 DEF WatchedIsNext, Watching
<1>2. ASSUME ~(NoMoreFrames \/ PopReady \/ CopyFrame \/ ReturnSlot) PROVE WatchedIsNext'
  <2>1. UNCHANGED <<cp, seen, consumed, slots, active, latest, bundle>>
    BY <1>2 DEF CameraAction, TakeFree, Starve, StealOldest, WriteFrame, PushReady, FindFull, DiscardOldest,
                PushAgain, GiveUp, GiveBack
  <2>2. (Watching' <=> Watching) /\ Current' = Current
    BY <2>1 DEF Watching, Inactive, NothingNew, Current
  <2> SUFFICES ASSUME Watching PROVE WatchedIsNext'
    BY <2>2 DEF WatchedIsNext
  <2>3. /\ bundle = IF pp \in {"idle", "announce"} THEN Current ELSE Current + 1
        /\ pp = "steal" => ~Empty(ready)
        /\ pp = "discard" => Full(ready)
        /\ pp = "discarded" => Full(ready) /\ spare.at = ready.read
        /\ pp = "pushAgain" => ~Full(ready)
        /\ pp \notin {"giveBack", "gaveBack"}
        /\ cp \notin {"pop", "header", "image", "return", "returned"}
    BY DEF WatchedIsNext, Watching
  <2>4. CASE TakeFree
    <3>1. Empty(free) => ~Empty(ready)
      BY <2>3, <2>4 DEF TakeFree, SlotIsSomewhere
    <3>2. pp = "take" /\ (pp' = "header" \/ (pp' = "steal" /\ Empty(free))) /\ ready' = ready
      BY <2>4 DEF TakeFree
    <3>. QED BY <2>1, <2>2, <2>3, <3>1, <3>2 DEF WatchedIsNext, Empty
  <2>5. CASE Starve
    BY <2>3, <2>5 DEF Starve
  <2>6. CASE StealOldest \/ WriteFrame \/ PushReady
    <3>1. /\ pp \in {"steal", "stolen", "header", "image", "push"}
          /\ pp' \in {"stolen", "header", "image", "push", "clock"}
      BY <2>6 DEF StealOldest, WriteFrame, AfterHeader, PushReady
    <3>. QED BY <2>1, <2>2, <2>3, <3>1 DEF WatchedIsNext
  <2>7. CASE FindFull
    BY <2>1, <2>2, <2>3, <2>7 DEF FindFull, WatchedIsNext, Full
  <2>8. CASE DiscardOldest
    <3>1. CASE pp = "discard"
      <4>1. pp' = "discarded" /\ spare' = Peek(ready) /\ ready' = ready
        BY <2>8, <3>1 DEF DiscardOldest
      <4>2. Peek(ready).at = ready.read
        BY DEF Peek
      <4>. QED BY <2>1, <2>2, <2>3, <3>1, <4>1, <4>2 DEF WatchedIsNext, Full
    <3>2. CASE pp = "discarded"
      <4>1. pp' = "pushAgain" /\ ready' = Commit(ready, spare)
        BY <2>8, <3>2 DEF DiscardOldest
      <4>2. ~Full(ready')
        BY <1>0, <2>3, <3>2, <4>1, FullIsNotEmpty, CommitFrees
      <4>. QED BY <2>1, <2>2, <2>3, <3>2, <4>1, <4>2 DEF WatchedIsNext, Full
    <3>. QED BY <2>8, <3>1, <3>2 DEF DiscardOldest
  <2>9. CASE PushAgain
    <3>1. pp = "pushAgain" /\ pp' = "giveSpare"
      BY <2>9 DEF PushAgain
    <3>. QED BY <2>1, <2>2, <2>3, <3>1 DEF WatchedIsNext
  <2>10. CASE GiveUp
    <3>1. ~Empty(ready) \/ ~Full(ready)
      BY <1>0, FullIsNotEmpty
    <3>. QED BY <1>0, <2>3, <2>10, <3>1, FullIsNotEmpty DEF GiveUp
  <2>11. CASE GiveBack("giveSpare", "gaveSpare", "clock") \/ GiveBack("giveBack", "gaveBack", "idle")
    <3>1. pp \in {"giveSpare", "gaveSpare"} /\ pp' \in {"gaveSpare", "clock"}
      BY <2>3, <2>11 DEF GiveBack
    <3>. QED BY <2>1, <2>2, <2>3, <3>1 DEF WatchedIsNext
  <2>. QED
    BY <1>2, <2>4, <2>5, <2>6, <2>7, <2>8, <2>9, <2>10, <2>11 DEF CameraAction
<1>. QED
  BY <1>1, <1>2

\* What the work on camera slots leaves alone.
LEMMA CameraActionLeaves ==
  ASSUME CameraAction
  PROVE  /\ UNCHANGED <<bundle, slots, active, latest, clockNs, clockSequence, seen, consumed, consumedClock,
                        got, delivered, clock>>
         /\ pp' = pp \/ (pp \notin {"count", "activate"} /\ pp' \notin {"count", "activate"})
         /\ cp' = cp \/ cp' \notin {"load", "copy", "copyLast", "consume", "readClock"}
<1> USE DEF Produce, Consume, producerVars, consumerVars, snapshotVars, clockVars, cameraVars,
            KeepCamera, KeepSnapshot
<1>1. UNCHANGED <<bundle, slots, active, latest, clockNs, clockSequence, seen, consumed, consumedClock,
                  got, delivered, clock>>
  BY DEF CameraAction, TakeFree, Starve, StealOldest, WriteFrame, PushReady, FindFull, DiscardOldest,
         PushAgain, GiveUp, GiveBack, NoMoreFrames, PopReady, CopyFrame, ReturnSlot
<1>2. CASE NoMoreFrames \/ PopReady \/ CopyFrame \/ ReturnSlot
  BY <1>1, <1>2 DEF NoMoreFrames, PopReady, CopyFrame, ReturnSlot
<1>3. CASE TakeFree \/ Starve \/ StealOldest \/ WriteFrame \/ PushReady \/ FindFull
  BY <1>1, <1>3 DEF TakeFree, Starve, StealOldest, WriteFrame, AfterHeader, PushReady, FindFull
<1>4. CASE DiscardOldest \/ PushAgain \/ GiveUp
  BY <1>1, <1>4 DEF DiscardOldest, PushAgain, GiveUp
<1>5. CASE GiveBack("giveSpare", "gaveSpare", "clock") \/ GiveBack("giveBack", "gaveBack", "idle")
  BY <1>1, <1>5 DEF GiveBack
<1>. QED
  BY <1>2, <1>3, <1>4, <1>5 DEF CameraAction

\* What is written of a snapshot is in the slot that is not active.
LEMMA SnapshotIsWritten ==
  ASSUME SnapshotTypes, WriteSnapshotFirst \/ WriteSnapshotLast
  PROVE  /\ UNCHANGED <<active, latest, clockNs, clockSequence, cp, seen, consumed, consumedClock, got,
                        delivered, clock>>
         /\ slots'[active] = slots[active]
         /\ \/ /\ pp = "idle" /\ pp' = "lidars" /\ bundle' = bundle + 1
               /\ slots'[Inactive] = [first |-> bundle + 1, last |-> slots[Inactive].last]
            \/ /\ pp = "lidars" /\ pp' = "take" /\ bundle' = bundle
               /\ slots'[Inactive] = [first |-> slots[Inactive].first, last |-> bundle]
<1> USE DEF Produce, producerVars, consumerVars, snapshotVars, clockVars, cameraVars
<1>1. /\ slots \in [0..1 -> Parts] /\ active \in 0..1 /\ Inactive \in 0..1 /\ Inactive # active
      /\ slots[Inactive] \in Parts
  BY DEF SnapshotTypes, Inactive
<1>2. CASE WriteSnapshotFirst
  <2>1. slots' = [slots EXCEPT ![Inactive] = [first |-> bundle + 1, last |-> slots[Inactive].last]]
    <3>1. slots' = WriteFirst(slots, Inactive, bundle + 1)
      BY <1>2 DEF WriteSnapshotFirst, WriteFirst
    <3>. QED BY <1>1, <3>1, PartIsWritten
  <2>. QED BY <1>1, <1>2, <2>1 DEF WriteSnapshotFirst
<1>3. CASE WriteSnapshotLast
  <2>1. slots' = [slots EXCEPT ![Inactive] = [first |-> slots[Inactive].first, last |-> bundle]]
    <3>1. slots' = WriteLast(slots, Inactive, bundle)
      BY <1>3 DEF WriteSnapshotLast, WriteLast
    <3>. QED BY <1>1, <3>1, PartIsWritten
  <2>. QED BY <1>1, <1>3, <2>1 DEF WriteSnapshotLast
<1>. QED
  BY <1>2, <1>3

\* The bundles as numbers.
LEMMA Numbers ==
  ASSUME SnapshotTypes
  PROVE  /\ bundle \in Nat /\ latest \in Nat /\ clockNs \in Nat /\ clock \in Nat /\ consumed \in Nat
         /\ delivered.first \in Nat /\ delivered.last \in Nat /\ got.first \in Nat /\ got.last \in Nat
         /\ \A i \in 0..1 : slots[i].first \in Nat /\ slots[i].last \in Nat
         /\ active \in 0..1 /\ Inactive \in 0..1 /\ Inactive = 1 - active /\ seen.slot \in 0..1
         /\ seen.slot = active \/ seen.slot = Inactive
         /\ Current \in Nat
         /\ seen = [sequence |-> seen.sequence, slot |-> seen.slot]
         /\ got = [first |-> got.first, last |-> got.last]
BY BundlesAssumption DEF SnapshotTypes, Bundles, Parts, Inactive, Current

\* A watched bundle stays the next one while snapshots are written and read.
LEMMA SnapshotActionKeepsWatched ==
  ASSUME SnapshotInv, WatchedIsNext, SnapshotAction
  PROVE  WatchedIsNext'
<1> USE DEF Produce, Consume, producerVars, consumerVars, snapshotVars, clockVars, cameraVars, KeepCamera
<1>0. SnapshotTypes /\ ActiveIsAnnounced
  BY DEF SnapshotInv
<1>1. CASE WriteSnapshotFirst \/ WriteSnapshotLast
  <2>1. /\ UNCHANGED <<active, latest, cp, seen, consumed>> /\ Current' = Current
    BY <1>0, <1>1, SnapshotIsWritten DEF Current
  <2>2. Watching' <=> Watching
    BY <2>1 DEF Watching, Inactive, NothingNew
  <2>. QED BY <1>0, <1>1, <2>1, <2>2, SnapshotIsWritten DEF WatchedIsNext
<1>2. CASE StoreClock \/ CountClock
  <2>1. /\ pp \in {"clock", "count"} /\ pp' \in {"count", "activate"}
        /\ UNCHANGED <<bundle, slots, active, latest, cp, seen, consumed>>
    BY <1>2 DEF StoreClock, CountClock
  <2>. QED BY <2>1 DEF WatchedIsNext, Watching, Inactive, NothingNew, Current
<1>3. CASE Activate
  <2>1. /\ pp = "activate" /\ pp' = "announce" /\ active' = Inactive /\ UNCHANGED <<bundle, slots>>
    BY <1>3 DEF Activate
  <2>2. slots[Inactive].first = bundle
    BY <1>0, <2>1 DEF ActiveIsAnnounced, Whole
  <2>. QED BY <2>1, <2>2 DEF WatchedIsNext, Current
<1>4. CASE Announce
  <2>1. /\ pp = "announce" /\ pp' = "idle" /\ UNCHANGED <<bundle, slots, active>>
    BY <1>4 DEF Announce
  <2>2. slots[active].first = bundle
    BY <1>0, <2>1 DEF ActiveIsAnnounced, Whole
  <2>. QED BY <2>1, <2>2 DEF WatchedIsNext, Current
<1>5. CASE Look
  <2>1. /\ \/ cp' = "lookClock" /\ NothingNew
           \/ cp' = "load"
        /\ UNCHANGED <<latest, consumed>>
    BY <1>5 DEF Look
  <2>. QED BY <2>1 DEF WatchedIsNext, Watching, NothingNew
<1>6. CASE LoadActive
  <2>1. cp' = "copy" /\ seen' = [seen EXCEPT !.slot = active] /\ active' = active
    BY <1>6 DEF LoadActive
  <2>2. seen'.slot # Inactive'
    BY <1>0, <2>1, Numbers DEF Inactive
  <2>. QED BY <2>1, <2>2 DEF WatchedIsNext, Watching
<1>7. CASE CopySnapshot
  <2>1. /\ UNCHANGED <<pp, bundle, slots, active, seen, ready, spare>>
        /\ \/ cp = "copy" /\ cp' = "copyLast"
           \/ cp' = "consume"
    BY <1>7 DEF CopySnapshot
  <2>. QED BY <2>1 DEF WatchedIsNext, Watching, Inactive, Current, Full, Empty
<1>8. CASE PublishSnapshot \/ PublishClock
  <2>1. cp' = "frames"
    BY <1>8 DEF PublishSnapshot, PublishClock
  <2>. QED BY <2>1 DEF WatchedIsNext, Watching
<1>9. CASE LookClock
  <2>1. /\ UNCHANGED <<pp, bundle, slots, active, latest, consumed, ready, spare>>
        /\ cp = "lookClock" /\ cp' \in {"frames", "readClock"}
    BY <1>9 DEF LookClock
  <2>. QED BY <2>1 DEF WatchedIsNext, Watching, NothingNew, Current, Full, Empty
<1>. QED
  BY <1>1, <1>2, <1>3, <1>4, <1>5, <1>6, <1>7, <1>8, <1>9 DEF SnapshotAction

\* What is published and copied stays within one bundle of the active one.
Near == NoneBeyond /\ OneAhead /\ OneBehind

\* The work on camera slots changes none of it.
LEMMA CameraActionKeepsNear ==
  ASSUME Near, CameraAction
  PROVE  Near'
<1>1. UNCHANGED <<bundle, slots, active, latest, clockNs, seen, consumed, got, delivered, clock, Current, NothingNew>>
  BY CameraActionLeaves DEF Current, NothingNew
<1>2. /\ pp' = pp \/ (pp \notin {"count", "activate"} /\ pp' \notin {"count", "activate"})
      /\ cp' = cp \/ cp' \notin {"load", "copy", "copyLast", "consume"}
  BY CameraActionLeaves
<1>3. NoneBeyond'
  BY <1>1, <1>2 DEF Near, NoneBeyond
<1>4. OneAhead'
  BY <1>1, <1>2 DEF Near, OneAhead
<1>5. OneBehind'
  BY <1>1, <1>2 DEF Near, OneBehind
<1>. QED
  BY <1>3, <1>4, <1>5 DEF Near

\* The producer moves what is active to the bundle it has written.
LEMMA ProducerKeepsNear ==
  ASSUME SnapshotInv, Near,
         \/ WriteSnapshotFirst \/ WriteSnapshotLast \/ StoreClock \/ CountClock \/ Activate \/ Announce
  PROVE  Near'
<1> USE DEF Produce, producerVars, consumerVars, snapshotVars, clockVars, cameraVars
<1>0. SnapshotTypes /\ ActiveIsAnnounced /\ NoneBeyond /\ OneAhead /\ OneBehind
  BY DEF SnapshotInv, Near
<1>1. CASE WriteSnapshotFirst \/ WriteSnapshotLast
  <2>1. /\ UNCHANGED <<active, latest, clockNs, cp, seen, consumed, got, delivered, clock>>
        /\ slots'[active] = slots[active] /\ Current' = Current
        /\ pp \in {"idle", "lidars"} /\ pp' \in {"lidars", "take"}
        /\ bundle' >= bundle
        /\ slots'[Inactive].first \in {slots[Inactive].first, bundle'}
        /\ slots'[Inactive].last \in {slots[Inactive].last, bundle'}
    BY <1>0, <1>1, SnapshotIsWritten, Numbers DEF Current
  <2>2. bundle' \in Nat
    BY <1>0, <1>1, SnapshotIsWritten, Numbers
  <2>3. NoneBeyond'
    <3>1. \A i \in 0..1 : i = active \/ i = Inactive
      BY <1>0, Numbers
    <3>2. \A i \in 0..1 : slots'[i].first <= bundle' /\ slots'[i].last <= bundle'
      BY <1>0, <2>1, <2>2, <3>1, Numbers DEF NoneBeyond
    <3>. QED BY <1>0, <2>1, <2>2, <3>2, Numbers DEF NoneBeyond
  <2>4. OneAhead'
    BY <1>0, <2>1 DEF OneAhead
  <2>5. OneBehind'
    BY <1>0, <2>1, <2>2, Numbers DEF OneBehind, NoneBeyond
  <2>. QED BY <2>3, <2>4, <2>5 DEF Near
<1>2. CASE StoreClock \/ CountClock
  <2>1. /\ pp' \in {"count", "activate"} /\ UNCHANGED <<bundle, slots, active, latest, cp, seen, consumed, got,
                                                        delivered, clock, Current, NothingNew>>
        /\ clockNs' = bundle /\ pp # "activate"
    <3>1. CASE StoreClock
      BY <3>1 DEF StoreClock, NewTime, Current, NothingNew
    <3>2. CASE CountClock
      BY <1>0, <3>2 DEF CountClock, NoneBeyond, Current, NothingNew
    <3>. QED BY <1>2, <3>1, <3>2
  <2>2. NoneBeyond'
    BY <1>0, <2>1, Numbers DEF NoneBeyond
  <2>3. OneAhead' /\ OneBehind'
    BY <1>0, <2>1 DEF OneAhead, OneBehind
  <2>. QED BY <2>2, <2>3 DEF Near
<1>3. CASE Activate
  <2>1. /\ pp = "activate" /\ pp' = "announce" /\ active' = Inactive
        /\ UNCHANGED <<bundle, slots, clockNs, cp, seen, got, delivered, clock>>
    BY <1>3 DEF Activate
  <2>2. slots[Inactive] = Whole(bundle)
    BY <1>0, <2>1 DEF ActiveIsAnnounced
  <2>3. Current' = bundle /\ slots'[active'].last = bundle /\ clockNs = bundle
    BY <1>0, <2>1, <2>2 DEF Current, Whole, NoneBeyond
  <2>4. NoneBeyond'
    BY <1>0, <2>1, <2>3 DEF NoneBeyond
  <2>5. OneAhead'
    BY <1>0, <2>1, <2>3, Numbers DEF NoneBeyond, OneAhead
  <2>6. OneBehind'
    BY <1>0, <2>1 DEF OneBehind
  <2>. QED BY <2>4, <2>5, <2>6 DEF Near
<1>4. CASE Announce
  <2>1. /\ pp = "announce" /\ pp' = "idle" /\ Current' = Current
        /\ UNCHANGED <<bundle, slots, active, clockNs, cp, seen, got, delivered, clock>>
    BY <1>4 DEF Announce, Current
  <2>. QED BY <1>0, <2>1 DEF Near, NoneBeyond, OneAhead, OneBehind
<1>. QED
  BY <1>1, <1>2, <1>3, <1>4

\* A clock that is read is that of the active bundle or of the one to be activated.
LEMMA ClockIsNear ==
  ASSUME SnapshotTypes, NoneBeyond, WatchedIsNext, cp = "readClock"
  PROVE  /\ clockNs <= Current + 1 \/ (pp \in {"count", "activate"} /\ NothingNew)
         /\ OneAhead => clock <= clockNs + 1
         /\ clockNs <= bundle
<1>1. CASE pp \notin {"count", "activate"}
  BY <1>1, Numbers DEF NoneBeyond, OneAhead
<1>2. CASE pp \in {"count", "activate"}
  <2>1. ~NothingNew => bundle = Current + 1
    BY <1>2 DEF WatchedIsNext, Watching
  <2>. QED BY <1>2, <2>1, Numbers DEF NoneBeyond
<1>. QED
  BY <1>1, <1>2

\* The consumer copies the active slot, or that of the next bundle.
LEMMA ConsumerKeepsNear ==
  ASSUME SnapshotInv, WatchedIsNext, Near,
         \/ Look \/ LoadActive \/ CopySnapshot \/ PublishSnapshot \/ LookClock \/ PublishClock
  PROVE  Near'
<1> USE DEF Consume, producerVars, consumerVars, snapshotVars, clockVars, cameraVars, KeepCamera
<1>0. SnapshotTypes /\ NoneBeyond /\ OneAhead /\ OneBehind
  BY DEF SnapshotInv, Near
<1>1. UNCHANGED <<pp, bundle, slots, active, latest, clockNs>> /\ Current' = Current
  BY DEF Look, LoadActive, CopySnapshot, PublishSnapshot, LookClock, PublishClock, Current
<1>2. CASE Look \/ LookClock
  <2>1. /\ UNCHANGED <<got, delivered, clock>> /\ (NothingNew' <=> NothingNew)
        /\ cp' \in {"lookClock", "frames", "load", "readClock"}
        /\ cp' = "load" => ~NothingNew
    BY <1>2 DEF Look, LookClock, NothingNew
  <2>2. cp \notin {"load", "copy", "copyLast", "consume"}
    BY <1>2 DEF Look, LookClock
  <2>. QED BY <1>0, <1>1, <2>1, <2>2 DEF Near, NoneBeyond, OneAhead, OneBehind
<1>3. CASE LoadActive
  <2>1. /\ cp = "load" /\ cp' = "copy" /\ UNCHANGED <<consumed, got, delivered, clock>>
        /\ seen'.slot = active
    BY <1>0, <1>3, Numbers DEF LoadActive
  <2>2. NoneBeyond'
    BY <1>0, <1>1, <2>1 DEF NoneBeyond
  <2>3. OneAhead'
    BY <1>0, <1>1, <2>1 DEF OneAhead
  <2>4. OneBehind'
    BY <1>0, <1>1, <2>1 DEF OneAhead, OneBehind, NoneBeyond, Current
  <2>. QED BY <2>2, <2>3, <2>4 DEF Near
<1>4. CASE CopySnapshot
  <2>1. /\ UNCHANGED <<seen, consumed, delivered, clock>>
        /\ \/ /\ cp = "copy" /\ cp' = "copyLast"
              /\ got' = [first |-> slots[seen.slot].first, last |-> got.last]
           \/ /\ cp = "copyLast" /\ cp' = "consume"
              /\ got' = [first |-> got.first, last |-> slots[seen.slot].last]
    BY <1>0, <1>4, Numbers DEF CopySnapshot
  <2>2. slots[seen.slot].first <= Current + 1 /\ slots[seen.slot].last <= Current + 1
    <3>1. CASE seen.slot = active
      BY <1>0, <3>1, Numbers DEF NoneBeyond, Current
    <3>2. CASE seen.slot = Inactive
      <4>1. bundle <= Current + 1
        BY <1>0, <2>1, <3>2, Numbers DEF WatchedIsNext, Watching
      <4>. QED BY <1>0, <4>1, Numbers DEF NoneBeyond
    <3>. QED BY <1>0, <3>1, <3>2, Numbers
  <2>3. NoneBeyond'
    BY <1>0, <1>1, <2>1, Numbers DEF NoneBeyond
  <2>4. OneAhead'
    BY <1>0, <1>1, <2>1, <2>2 DEF OneAhead
  <2>5. OneBehind'
    BY <1>0, <1>1, <2>1 DEF OneBehind
  <2>. QED BY <2>3, <2>4, <2>5 DEF Near
<1>5. CASE PublishSnapshot
  <2>1. /\ cp = "consume" /\ cp' = "frames" /\ delivered' = got /\ clock' = got.first /\ got' = Whole(0)
    BY <1>5 DEF PublishSnapshot
  <2>2. NoneBeyond'
    BY <1>0, <1>1, <2>1, Numbers DEF NoneBeyond, Whole
  <2>3. OneAhead' /\ OneBehind'
    BY <1>0, <1>1, <2>1 DEF OneAhead, OneBehind
  <2>. QED BY <2>2, <2>3 DEF Near
<1>6. CASE PublishClock
  <2>1. /\ cp = "readClock" /\ cp' = "frames" /\ clock' = clockNs /\ UNCHANGED <<consumed, got, delivered>>
    BY <1>6 DEF PublishClock
  <2>2. NothingNew' <=> NothingNew
    BY <1>1, <2>1 DEF NothingNew
  <2>3. NoneBeyond'
    BY <1>0, <1>1, <2>1, ClockIsNear DEF NoneBeyond
  <2>4. OneAhead'
    BY <1>0, <1>1, <2>1, <2>2, ClockIsNear DEF OneAhead
  <2>5. OneBehind'
    BY <2>1 DEF OneBehind
  <2>. QED BY <2>3, <2>4, <2>5 DEF Near
<1>. QED
  BY <1>2, <1>3, <1>4, <1>5, <1>6

\* Every step of the channel is a step of the register, or none.
LEMMA StepOfRegister ==
  ASSUME SnapshotInv, WatchedIsNext, Near, [Next]_vars
  PROVE  [Register!RegisterNext]_(Register!registerVars)
<1> USE DEF Produce, Consume, producerVars, consumerVars, snapshotVars, clockVars, cameraVars, KeepCamera,
            Register!registerVars, Register!RegisterNext
<1>0. SnapshotTypes /\ SequencesFollow /\ NoneBeyond /\ OneAhead /\ OneBehind
  BY DEF SnapshotInv, Near
<1>1. CASE CameraAction
  BY <1>1, CameraActionLeaves
<1>2. CASE WriteSnapshotFirst
  BY <1>2 DEF WriteSnapshotFirst, Register!Make
<1>3. CASE WriteSnapshotLast \/ StoreClock \/ CountClock \/ Activate
  BY <1>3 DEF WriteSnapshotLast, StoreClock, CountClock, Activate
<1>4. CASE Announce
  <2>1. latest < bundle
    BY <1>0, <1>4 DEF Announce, SequencesFollow
  <2>. QED BY <1>4, <2>1 DEF Announce, NextSequence, Register!Announce
<1>5. CASE Look \/ LoadActive \/ CopySnapshot \/ LookClock
  BY <1>5 DEF Look, LoadActive, CopySnapshot, LookClock
<1>6. CASE PublishSnapshot
  <2>1. /\ delivered' = [first |-> got.first, last |-> got.last] /\ clock' = got.first
        /\ UNCHANGED <<bundle, latest>> /\ cp = "consume"
    BY <1>0, <1>6, Numbers DEF PublishSnapshot
  <2>2. /\ got.first \in Register!OneBackOrLater(delivered.first)
        /\ got.last \in Register!OneBackOrLater(delivered.last)
        /\ got.first \in Register!OneBackOrLater(clock)
    BY <1>0, <2>1, Numbers DEF OneBehind, NoneBeyond, Register!OneBackOrLater
  <2>. QED BY <2>1, <2>2 DEF Register!Publish
<1>7. CASE PublishClock
  <2>1. /\ delivered' = delivered /\ clock' = clockNs /\ UNCHANGED <<bundle, latest>> /\ cp = "readClock"
    BY <1>7 DEF PublishClock
  <2>2. clock' \in Register!OneBackOrLater(clock)
    BY <1>0, <2>1, ClockIsNear, Numbers DEF Register!OneBackOrLater
  <2>3. /\ delivered = [first |-> delivered.first, last |-> delivered.last]
        /\ delivered.first \in Register!OneBackOrLater(delivered.first)
        /\ delivered.last \in Register!OneBackOrLater(delivered.last)
    BY <1>0, Numbers DEF NoneBeyond, Register!OneBackOrLater, SnapshotTypes, Parts
  <2>. QED BY <2>1, <2>2, <2>3 DEF Register!Publish
<1>8. CASE UNCHANGED vars
  BY <1>8 DEF vars
<1>. QED
  BY <1>1, <1>2, <1>3, <1>4, <1>5, <1>6, <1>7, <1>8 DEF Next, Producer, Consumer, CameraAction

-----------------------------------------------------------------------------
\* The inductive invariant: what the run checks.
IInv == SnapshotInv /\ CameraInv /\ RegisterKept

\* Its parts make up the invariants of the run.
LEMMA InvariantsOfRun == IInv => ChannelInv /\ NothingMissed
BY DEF IInv, SnapshotInv, CameraInv, Owned, ChannelInv, TypeOK, FrameWholeUntilStolen, IsWhole

\* A bridge that has just been made has all slots free and nothing announced.
LEMMA InitKeeps == Init => IInv
<1> SUFFICES ASSUME Init PROVE IInv
  OBVIOUS
<1> USE SlotsAssumption, BundlesAssumption
<1>1. 0 \in Bundles /\ Whole(0) \in Parts /\ Whole(0).first = 0 /\ Whole(0).last = 0
  BY DEF Bundles, Parts, Whole
<1>2. /\ slots = [i \in 0..1 |-> Whole(0)] /\ slots[0] = Whole(0) /\ slots[1] = Whole(0) /\ active = 0
      /\ slots \in [0..1 -> Parts]
  BY <1>1 DEF Init
<1>3. SnapshotTypes
  BY <1>1, <1>2 DEF Init, SnapshotTypes, NothingSeen
<1>4. SequencesFollow /\ ActiveIsAnnounced /\ CopyIsNotOlder /\ NothingMissed
  BY <1>1, <1>2 DEF Init, SequencesFollow, ActiveIsAnnounced, AtLeast, CopyIsNotOlder, NothingMissed
<1>5. CameraTypes
  <2>1. free \in Rings
    BY DEF Init, Rings, RingSize, SlotIds
  <2>2. ready \in Rings
    BY DEF Init, Rings, RingSize, SlotIds
  <2>. QED
    BY <1>1, <2>1, <2>2, NoTicketIsTicket DEF Init, CameraTypes
<1>6. Owned
  <2>1. /\ free.read = 0 /\ free.write = NumSlots /\ ready.read = 0 /\ ready.write = 0
        /\ \A i \in 0..(NumSlots - 1) : free.cells[i] = i + 1
    <3>1. /\ free.cells = [i \in 0..(RingSize - 1) |-> IF i < NumSlots THEN i + 1 ELSE 1]
          /\ free.read = 0 /\ free.write = NumSlots /\ ready.read = 0 /\ ready.write = 0
      BY DEF Init
    <3>2. \A i \in 0..(NumSlots - 1) : i \in 0..(RingSize - 1) /\ i < NumSlots
      BY DEF RingSize
    <3>. QED
      BY <3>1, <3>2
  <2>2. Occupied(free) = 0..(NumSlots - 1) /\ Occupied(ready) = {} /\ Size(free) = NumSlots /\ Size(ready) = 0
    BY <2>1 DEF Occupied, Size
  <2>3. HoldsEachOnce(free) /\ HoldsEachOnce(ready) /\ \A slot : ~Holds(ready, slot)
    BY <2>1, <2>2 DEF HoldsEachOnce, Holds
  <2>4. pp = "idle" /\ cp = "look"
    BY DEF Init
  <2>. QED
    BY <2>2, <2>3, <2>4 DEF Owned, SlotsInOnePlace, FramesInPlaceAreWhole, ProducerHolds, ConsumerHolds
<1>7. SlotIsSomewhere
  <2>1. free.read = 0 /\ free.write = NumSlots /\ pp = "idle" /\ cp = "look"
    BY DEF Init
  <2>. QED
    BY <2>1 DEF SlotIsSomewhere, Empty
<1>8. WatchedIsNext
  BY DEF Init, WatchedIsNext, Watching
<1>9. Near
  BY <1>1, <1>2 DEF Init, Near, NoneBeyond, OneAhead, OneBehind, Current
<1>. QED
  BY <1>3, <1>4, <1>5, <1>6, <1>7, <1>8, <1>9 DEF IInv, SnapshotInv, CameraInv, RegisterKept, Near

\* Every step keeps it.
LEMMA StepKeeps == IInv /\ [Next]_vars => IInv'
<1> SUFFICES ASSUME IInv, [Next]_vars PROVE IInv'
  OBVIOUS
<1>0. /\ SnapshotInv /\ CameraInv /\ CameraTypes /\ bundle \in Bundles
      /\ SlotIsSomewhere /\ WatchedIsNext /\ Near
  BY DEF IInv, RegisterKept, Near, CameraInv, SnapshotInv, SnapshotTypes
<1>1. CASE CameraAction
  <2>1. SnapshotInv' /\ CameraInv'
    BY <1>0, <1>1, CameraActionKeepsCamera, CameraActionKeepsSnapshot
  <2>2. SlotIsSomewhere' /\ WatchedIsNext' /\ Near'
    BY <1>0, <1>1, CameraActionKeepsSlot, CameraActionKeepsWatched, CameraActionKeepsNear
  <2>. QED
    BY <2>1, <2>2 DEF IInv, RegisterKept, Near
<1>2. CASE SnapshotAction
  <2>1. SnapshotInv' /\ CameraInv'
    BY <1>0, <1>2, SnapshotActionKeepsCamera, ProducerKeepsSnapshot, ConsumerKeepsSnapshot DEF SnapshotAction
  <2>2. SlotIsSomewhere' /\ WatchedIsNext' /\ Near'
    BY <1>0, <1>2, SnapshotActionKeepsSlot, SnapshotActionKeepsWatched, ProducerKeepsNear, ConsumerKeepsNear
    DEF SnapshotAction
  <2>. QED
    BY <2>1, <2>2 DEF IInv, RegisterKept, Near
<1>3. CASE UNCHANGED vars
  <2> USE <1>3 DEF vars, producerVars, consumerVars, snapshotVars, clockVars, cameraVars
  <2>1. SnapshotInv'
    BY <1>0 DEF SnapshotInv, SnapshotTypes, SequencesFollow, ActiveIsAnnounced, AtLeast, CopyIsNotOlder,
           NothingMissed, Inactive
  <2>2. CameraTypes'
    BY <1>0 DEF CameraTypes
  <2>3. Owned => Owned'
    BY MovesKeepOwned
  <2>4. SlotIsSomewhere'
    BY <1>0 DEF SlotIsSomewhere, Empty
  <2>5. WatchedIsNext'
    BY <1>0 DEF WatchedIsNext, Watching, NothingNew, Inactive, Current, Empty, Full
  <2>6. Near'
    BY <1>0 DEF Near, NoneBeyond, OneAhead, OneBehind, Current, NothingNew
  <2>. QED
    BY <1>0, <2>1, <2>2, <2>3, <2>4, <2>5, <2>6 DEF IInv, CameraInv, RegisterKept, Near
<1>. QED
  BY <1>1, <1>2, <1>3 DEF Next, Producer, Consumer, CameraAction, SnapshotAction

\* The inductive invariant holds in every reachable state.
THEOREM Invariance == Spec => []IInv
BY InitKeeps, StepKeeps, PTL DEF Spec

\* In every reachable state the variables have their types, the sequences follow
\* the bundles, and until the producer takes from ready_slots every camera slot is
\* in one place and every frame that the consumer holds is a whole one.
THEOREM ChannelIsSound == Spec => []ChannelInv
BY Invariance, InvariantsOfRun, PTL

\* Whatever is marked consumed was published, in both its parts, or something newer.
THEOREM NothingIsMissed == Spec => []NothingMissed
BY Invariance, InvariantsOfRun, PTL

\* Without stealing the bridge publishes only whole frames, for any number of slots.
THEOREM FramesAreWhole == Spec => []FrameWholeUntilStolen
<1>1. ChannelInv => FrameWholeUntilStolen
  BY DEF ChannelInv
<1>. QED
  BY ChannelIsSound, <1>1, PTL

\* The channel implements its register, for any number of slots and bundles: what
\* is published is made, and never goes back by more than one bundle, neither in
\* the two parts of a snapshot nor on /clock; and bundles are announced in order.
THEOREM ImplementsRegister == Spec => Register!RegisterSafety
<1>1. Init => Register!RegisterInit
  BY DEF Init, Register!RegisterInit, Whole
<1>2. IInv /\ [Next]_vars => [Register!RegisterNext]_(Register!registerVars)
  BY StepOfRegister DEF IInv, RegisterKept, Near
<1>. QED
  BY <1>1, <1>2, Invariance, PTL DEF Spec, Register!RegisterSafety
=============================================================================
