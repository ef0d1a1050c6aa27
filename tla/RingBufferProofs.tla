-------------------------- MODULE RingBufferProofs --------------------------
(***************************************************************************)
(* Proofs about RingBuffer for every size, every set of elements and every *)
(* set of threads its assumption admits.                                   *)
(***************************************************************************)
EXTENDS RingBuffer, Sequences, TLAPS

(* Reducing a sum of two positions modulo n takes at most one subtraction. *)
LEMMA Modulo ==
  ASSUME NEW n \in Nat \ {0}, NEW k \in 0 .. 2 * n - 1
  PROVE  k % n = IF k < n THEN k ELSE k - n
<1>1. CASE k < n
  BY <1>1
<1>2. CASE k >= n
  BY <1>2
<1> QED
  BY <1>1, <1>2

LEMMA ModuloN == \A k \in 0 .. 2 * N - 1 : k % N = IF k < N THEN k ELSE k - N
<1>1. N \in Nat \ {0}
  BY RingAssumption
<1> QED
  BY <1>1, Modulo

(* Where a position moves to, and that it stays a position. *)
LEMMA FollowingFact ==
  ASSUME NEW p \in Slot
  PROVE  /\ Following(p) = IF p = N - 1 THEN 0 ELSE p + 1
         /\ Following(p) \in Slot
BY ModuloN, RingAssumption DEF Following, Slot

(* Two writers are never both inside the writer side, nor two readers. *)
LEMMA OneInside ==
  ASSUME LocksHeld
  PROVE  /\ \A w, x \in Writers : InWrite(w) /\ InWrite(x) => w = x
         /\ \A r, s \in Readers : InRead(r) /\ InRead(s) => r = s
BY RingAssumption DEF LocksHeld

(* The types are kept by every step. *)
LEMMA TypeStep ==
  ASSUME RingInv, [Next]_vars
  PROVE  TypeOK'
<1> USE DEF RingInv, TypeOK, WriterPC, ReaderPC
<1>1. ASSUME NEW w \in Writers, NEW v \in Value, NEW op \in PushOps, StartPush(w, v, op)
      PROVE  TypeOK'
  BY <1>1, RingAssumption DEF StartPush, WriteEntry, readerVars
<1>2. ASSUME NEW w \in Writers, WriterStep(w)
      PROVE  TypeOK'
  <2>1. CASE LockWriteSide(w)
    BY <2>1 DEF LockWriteSide, readerVars
  <2>2. CASE CheckFull(w)
    BY <2>2 DEF CheckFull, readerVars
  <2>3. CASE PushWait(w)
    BY <2>3 DEF PushWait, readerVars
  <2>4. CASE StoreSlot(w)
    BY <2>4 DEF StoreSlot, readerVars
  <2>5. CASE AdvanceWrite(w)
    BY <2>5, FollowingFact DEF AdvanceWrite, readerVars
  <2>6. CASE WakeReader(w)
    BY <2>6 DEF WakeReader, ReadEntry
  <2> QED
    BY <1>2, <2>1, <2>2, <2>3, <2>4, <2>5, <2>6 DEF WriterStep
<1>3. ASSUME NEW r \in Readers, NEW op \in PopOps, StartPop(r, op)
      PROVE  TypeOK'
  BY <1>3, RingAssumption DEF StartPop, ReadEntry, writerVars
<1>4. ASSUME NEW r \in Readers, ReaderStep(r)
      PROVE  TypeOK'
  <2>1. CASE LockReadSide(r)
    BY <2>1 DEF LockReadSide, writerVars
  <2>2. CASE CheckEmpty(r)
    BY <2>2 DEF CheckEmpty, writerVars
  <2>3. CASE PopWait(r) \/ PopTimeout(r)
    BY <2>3 DEF PopWait, PopTimeout, ReadEntry, writerVars
  <2>4. CASE LoadSlot(r)
    BY <2>4 DEF LoadSlot, writerVars
  <2>5. CASE AdvanceRead(r)
    BY <2>5, FollowingFact DEF AdvanceRead, writerVars
  <2>6. CASE WakeWriter(r)
    BY <2>6 DEF WakeWriter, WriteEntry
  <2> QED
    BY <1>4, <2>1, <2>2, <2>3, <2>4, <2>5, <2>6 DEF ReaderStep
<1>5. CASE UNCHANGED vars
  BY <1>5 DEF vars, writerVars, readerVars
<1> QED
  BY <1>1, <1>2, <1>3, <1>4, <1>5 DEF Next

(* No step lets a thread past its lock without owning it. *)
LEMMA LockStep ==
  ASSUME RingInv, [Next]_vars
  PROVE  LocksHeld'
<1> USE DEF RingInv, LocksHeld, InWrite, InRead, TypeOK, WriterPC, ReaderPC
<1>1. ASSUME NEW w \in Writers, NEW v \in Value, NEW op \in PushOps, StartPush(w, v, op)
      PROVE  LocksHeld'
  BY <1>1, RingAssumption DEF StartPush, WriteEntry, readerVars
<1>2. ASSUME NEW w \in Writers, WriterStep(w)
      PROVE  LocksHeld'
  <2>1. CASE LockWriteSide(w)
    BY <2>1, RingAssumption DEF LockWriteSide, readerVars
  <2>2. CASE CheckFull(w)
    BY <2>2, RingAssumption DEF CheckFull, readerVars
  <2>3. CASE PushWait(w)
    BY <2>3, RingAssumption DEF PushWait, readerVars
  <2>4. CASE StoreSlot(w)
    BY <2>4, RingAssumption DEF StoreSlot, readerVars
  <2>5. CASE AdvanceWrite(w)
    BY <2>5, RingAssumption DEF AdvanceWrite, readerVars
  <2>6. CASE WakeReader(w)
    BY <2>6, RingAssumption DEF WakeReader, ReadEntry
  <2> QED
    BY <1>2, <2>1, <2>2, <2>3, <2>4, <2>5, <2>6 DEF WriterStep
<1>3. ASSUME NEW r \in Readers, NEW op \in PopOps, StartPop(r, op)
      PROVE  LocksHeld'
  BY <1>3, RingAssumption DEF StartPop, ReadEntry, writerVars
<1>4. ASSUME NEW r \in Readers, ReaderStep(r)
      PROVE  LocksHeld'
  <2>1. CASE LockReadSide(r)
    BY <2>1, RingAssumption DEF LockReadSide, writerVars
  <2>2. CASE CheckEmpty(r)
    BY <2>2, RingAssumption DEF CheckEmpty, writerVars
  <2>3. CASE PopWait(r) \/ PopTimeout(r)
    BY <2>3, RingAssumption DEF PopWait, PopTimeout, ReadEntry, writerVars
  <2>4. CASE LoadSlot(r)
    BY <2>4, RingAssumption DEF LoadSlot, writerVars
  <2>5. CASE AdvanceRead(r)
    BY <2>5, RingAssumption DEF AdvanceRead, writerVars
  <2>6. CASE WakeWriter(r)
    BY <2>6, RingAssumption DEF WakeWriter, WriteEntry
  <2> QED
    BY <1>4, <2>1, <2>2, <2>3, <2>4, <2>5, <2>6 DEF ReaderStep
<1>5. CASE UNCHANGED vars
  BY <1>5 DEF vars, writerVars, readerVars
<1> QED
  BY <1>1, <1>2, <1>3, <1>4, <1>5 DEF Next

(* The slot of the k-th element, and how the length follows the positions. *)
LEMMA SizeFact ==
  ASSUME readPos \in Slot, writePos \in Slot
  PROVE  /\ Size \in 0 .. N - 1
         /\ Empty <=> Size = 0
         /\ Full <=> Size = N - 1
         /\ \A k \in 0 .. N - 1 :
              SlotOf(k) = IF readPos + k < N THEN readPos + k ELSE readPos + k - N
         /\ \A k \in 0 .. N - 1 : SlotOf(k) \in Slot /\ (SlotOf(k) = writePos <=> k = Size)
<1>1. N \in Nat /\ N >= 2
  BY RingAssumption
<1>2. \A k \in 0 .. N - 1 :
         SlotOf(k) = IF readPos + k < N THEN readPos + k ELSE readPos + k - N
  BY <1>1, ModuloN DEF SlotOf, Slot
<1>3. Following(writePos) = IF writePos = N - 1 THEN 0 ELSE writePos + 1
  BY FollowingFact
<1> QED
  BY <1>1, <1>2, <1>3 DEF Size, Slot, Empty, Full

(* A push makes the queue one longer and leaves the elements in place. *)
LEMMA GrowFact ==
  ASSUME readPos \in Slot, writePos \in Slot, ~Full,
         writePos' = Following(writePos), readPos' = readPos
  PROVE  /\ Size' = Size + 1
         /\ ~Empty'
         /\ \A k \in 0 .. N - 1 : SlotOf(k)' = SlotOf(k)
<1>1. N \in Nat /\ N >= 2
  BY RingAssumption
<1>2. Following(writePos) = IF writePos = N - 1 THEN 0 ELSE writePos + 1
  BY FollowingFact
<1> QED
  BY <1>1, <1>2 DEF Size, Slot, Empty, Full, SlotOf

(* A pop makes it one shorter and moves every element one place up. *)
LEMMA ShrinkFact ==
  ASSUME readPos \in Slot, writePos \in Slot, ~Empty,
         readPos' = Following(readPos), writePos' = writePos
  PROVE  /\ Size' = Size - 1
         /\ ~Full'
         /\ \A k \in 0 .. N - 2 : SlotOf(k)' = SlotOf(k + 1)
<1>1. N \in Nat /\ N >= 2
  BY RingAssumption
<1>2. Following(readPos) = IF readPos = N - 1 THEN 0 ELSE readPos + 1
  BY FollowingFact
<1>3. Following(writePos) = IF writePos = N - 1 THEN 0 ELSE writePos + 1
  BY FollowingFact
<1>4. readPos' \in Slot
  BY FollowingFact
<1>5. \A k \in 0 .. N - 1 :
         SlotOf(k) = IF readPos + k < N THEN readPos + k ELSE readPos + k - N
  BY SizeFact
<1>6. \A k \in 0 .. N - 2 :
         SlotOf(k)' = IF readPos' + k < N THEN readPos' + k ELSE readPos' + k - N
  BY <1>1, <1>4, ModuloN DEF SlotOf, Slot
<1>7. Size' = Size - 1
  BY <1>1, <1>2 DEF Size, Slot, Empty
<1>8. ~Full'
  BY <1>1, <1>2, <1>3 DEF Full, Slot, Empty, Following
<1> QED
  BY <1>1, <1>2, <1>5, <1>6, <1>7, <1>8 DEF Slot

(* Room seen by a push is still there when it stores and moves the position. *)
LEMMA StoreStep ==
  ASSUME RingInv, [Next]_vars
  PROVE  StoreIsOutsideQueue'
<1> USE DEF RingInv, TypeOK, WriterPC, ReaderPC, StoreIsOutsideQueue, Full
<1>1. ASSUME NEW w \in Writers, NEW v \in Value, NEW op \in PushOps, StartPush(w, v, op)
      PROVE  StoreIsOutsideQueue'
  BY <1>1, RingAssumption DEF StartPush, WriteEntry, readerVars
<1>2. ASSUME NEW w \in Writers, WriterStep(w)
      PROVE  StoreIsOutsideQueue'
  <2>1. CASE LockWriteSide(w)
    BY <2>1, RingAssumption DEF LockWriteSide, readerVars
  <2>2. CASE CheckFull(w)
    BY <2>2, RingAssumption DEF CheckFull, readerVars
  <2>3. CASE PushWait(w)
    BY <2>3, RingAssumption DEF PushWait, readerVars
  <2>4. CASE StoreSlot(w)
    BY <2>4, OneInside, RingAssumption DEF StoreSlot, InWrite, readerVars
  <2>5. CASE AdvanceWrite(w)
    BY <2>5, OneInside, RingAssumption DEF AdvanceWrite, InWrite, readerVars
  <2>6. CASE WakeReader(w)
    BY <2>6, RingAssumption DEF WakeReader, ReadEntry
  <2> QED
    BY <1>2, <2>1, <2>2, <2>3, <2>4, <2>5, <2>6 DEF WriterStep
<1>3. ASSUME NEW r \in Readers, NEW op \in PopOps, StartPop(r, op)
      PROVE  StoreIsOutsideQueue'
  BY <1>3, RingAssumption DEF StartPop, ReadEntry, writerVars
<1>4. ASSUME NEW r \in Readers, ReaderStep(r)
      PROVE  StoreIsOutsideQueue'
  <2>1. CASE LockReadSide(r)
    BY <2>1, RingAssumption DEF LockReadSide, writerVars
  <2>2. CASE CheckEmpty(r)
    BY <2>2, RingAssumption DEF CheckEmpty, writerVars
  <2>3. CASE PopWait(r)
    BY <2>3, RingAssumption DEF PopWait, writerVars
  <2>4. CASE PopTimeout(r)
    BY <2>4, RingAssumption DEF PopTimeout, ReadEntry, writerVars
  <2>5. CASE LoadSlot(r)
    BY <2>5, RingAssumption DEF LoadSlot, writerVars
  <2>6. CASE AdvanceRead(r)
    <3>1. ~Empty
      BY <2>6 DEF AdvanceRead, LoadIsHead
    <3>2. ~Full'
      BY <2>6, <3>1, ShrinkFact DEF AdvanceRead
    <3> QED
      BY <2>6, <3>2 DEF AdvanceRead, writerVars
  <2>7. CASE WakeWriter(r)
    BY <2>7, RingAssumption DEF WakeWriter, WriteEntry
  <2> QED
    BY <1>4, <2>1, <2>2, <2>3, <2>4, <2>5, <2>6, <2>7 DEF ReaderStep
<1>5. CASE UNCHANGED vars
  BY <1>5 DEF vars, writerVars, readerVars
<1> QED
  BY <1>1, <1>2, <1>3, <1>4, <1>5 DEF Next

(* The element seen by a pop is still the head when it is loaded and taken. *)
LEMMA LoadStep ==
  ASSUME RingInv, [Next]_vars
  PROVE  LoadIsHead'
<1> USE DEF RingInv, TypeOK, WriterPC, ReaderPC, LoadIsHead, Empty
<1>1. ASSUME NEW w \in Writers, NEW v \in Value, NEW op \in PushOps, StartPush(w, v, op)
      PROVE  LoadIsHead'
  BY <1>1, RingAssumption DEF StartPush, WriteEntry, readerVars
<1>2. ASSUME NEW w \in Writers, WriterStep(w)
      PROVE  LoadIsHead'
  <2>1. CASE LockWriteSide(w)
    BY <2>1, RingAssumption DEF LockWriteSide, readerVars
  <2>2. CASE CheckFull(w)
    BY <2>2, RingAssumption DEF CheckFull, readerVars
  <2>3. CASE PushWait(w)
    BY <2>3, RingAssumption DEF PushWait, readerVars
  <2>4. CASE StoreSlot(w)
    <3>1. ASSUME NEW r \in Readers, rpc[r] \in {"load", "advance"}
          PROVE  slots'[readPos] = slots[readPos]
      BY <2>4, <3>1, RingAssumption DEF StoreSlot
    <3> QED
      BY <2>4, <3>1 DEF StoreSlot, readerVars
  <2>5. CASE AdvanceWrite(w)
    <3>1. ~Full
      BY <2>5 DEF AdvanceWrite, StoreIsOutsideQueue
    <3>2. ~Empty'
      BY <2>5, <3>1, GrowFact DEF AdvanceWrite
    <3> QED
      BY <2>5, <3>2 DEF AdvanceWrite, readerVars
  <2>6. CASE WakeReader(w)
    BY <2>6, RingAssumption DEF WakeReader, ReadEntry
  <2> QED
    BY <1>2, <2>1, <2>2, <2>3, <2>4, <2>5, <2>6 DEF WriterStep
<1>3. ASSUME NEW r \in Readers, NEW op \in PopOps, StartPop(r, op)
      PROVE  LoadIsHead'
  BY <1>3, RingAssumption DEF StartPop, ReadEntry, writerVars
<1>4. ASSUME NEW r \in Readers, ReaderStep(r)
      PROVE  LoadIsHead'
  <2>1. CASE LockReadSide(r)
    BY <2>1, RingAssumption DEF LockReadSide, writerVars
  <2>2. CASE CheckEmpty(r)
    BY <2>2, RingAssumption DEF CheckEmpty, writerVars
  <2>3. CASE PopWait(r)
    BY <2>3, RingAssumption DEF PopWait, writerVars
  <2>4. CASE PopTimeout(r)
    BY <2>4, RingAssumption DEF PopTimeout, ReadEntry, writerVars
  <2>5. CASE LoadSlot(r)
    BY <2>5, OneInside DEF LoadSlot, InRead, writerVars
  <2>6. CASE AdvanceRead(r)
    BY <2>6, OneInside DEF AdvanceRead, InRead, writerVars
  <2>7. CASE WakeWriter(r)
    BY <2>7, RingAssumption DEF WakeWriter, WriteEntry
  <2> QED
    BY <1>4, <2>1, <2>2, <2>3, <2>4, <2>5, <2>6, <2>7 DEF ReaderStep
<1>5. CASE UNCHANGED vars
  BY <1>5 DEF vars, writerVars, readerVars
<1> QED
  BY <1>1, <1>2, <1>3, <1>4, <1>5 DEF Next

(* Every queued slot holds an element, wherever the positions are. *)
LEMMA QueuedStep ==
  ASSUME RingInv, [Next]_vars
  PROVE  QueuedAreElements'
<1> USE DEF RingInv, TypeOK, WriterPC, ReaderPC
<1>1. ASSUME NEW w \in Writers, NEW v \in Value, NEW op \in PushOps, StartPush(w, v, op)
      PROVE  QueuedAreElements'
  BY <1>1 DEF StartPush, QueuedAreElements, Size, SlotOf
<1>2. ASSUME NEW w \in Writers, WriterStep(w)
      PROVE  QueuedAreElements'
  <2>1. CASE LockWriteSide(w)
    BY <2>1 DEF LockWriteSide, QueuedAreElements, Size, SlotOf
  <2>2. CASE CheckFull(w)
    BY <2>2 DEF CheckFull, QueuedAreElements, Size, SlotOf
  <2>3. CASE PushWait(w)
    BY <2>3 DEF PushWait, QueuedAreElements, Size, SlotOf
  <2>4. CASE StoreSlot(w)
    <3>1. \A k \in 0 .. N - 1 : k < Size => SlotOf(k) # writePos /\ SlotOf(k) \in Slot
      BY SizeFact
    <3>2. Size' = Size /\ \A k \in 0 .. N - 1 : SlotOf(k)' = SlotOf(k)
      BY <2>4 DEF StoreSlot, Size, SlotOf
    <3> QED
      BY <2>4, <3>1, <3>2 DEF StoreSlot, QueuedAreElements
  <2>5. CASE AdvanceWrite(w)
    <3>1. ~Full /\ slots[writePos] \in Value
      BY <2>5 DEF AdvanceWrite, StoreIsOutsideQueue
    <3>2. Size' = Size + 1 /\ \A k \in 0 .. N - 1 : SlotOf(k)' = SlotOf(k)
      BY <2>5, <3>1, GrowFact DEF AdvanceWrite
    <3>3. Size \in 0 .. N - 1 /\ \A k \in 0 .. N - 1 : SlotOf(k) = writePos <=> k = Size
      BY SizeFact
    <3>4. ASSUME NEW k \in 0 .. N - 1, k < Size + 1
          PROVE  slots[SlotOf(k)] \in Value
      BY <3>1, <3>3, <3>4 DEF QueuedAreElements
    <3>5. slots' = slots
      BY <2>5 DEF AdvanceWrite
    <3> QED
      BY <3>2, <3>4, <3>5 DEF QueuedAreElements
  <2>6. CASE WakeReader(w)
    BY <2>6 DEF WakeReader, QueuedAreElements, Size, SlotOf
  <2> QED
    BY <1>2, <2>1, <2>2, <2>3, <2>4, <2>5, <2>6 DEF WriterStep
<1>3. ASSUME NEW r \in Readers, NEW op \in PopOps, StartPop(r, op)
      PROVE  QueuedAreElements'
  BY <1>3 DEF StartPop, QueuedAreElements, Size, SlotOf
<1>4. ASSUME NEW r \in Readers, ReaderStep(r)
      PROVE  QueuedAreElements'
  <2>1. CASE LockReadSide(r)
    BY <2>1 DEF LockReadSide, QueuedAreElements, Size, SlotOf
  <2>2. CASE CheckEmpty(r)
    BY <2>2 DEF CheckEmpty, QueuedAreElements, Size, SlotOf
  <2>3. CASE PopWait(r)
    BY <2>3 DEF PopWait, QueuedAreElements, Size, SlotOf
  <2>4. CASE PopTimeout(r)
    BY <2>4 DEF PopTimeout, QueuedAreElements, Size, SlotOf
  <2>5. CASE LoadSlot(r)
    BY <2>5 DEF LoadSlot, QueuedAreElements, Size, SlotOf
  <2>6. CASE AdvanceRead(r)
    <3>1. ~Empty
      BY <2>6 DEF AdvanceRead, LoadIsHead
    <3>2. Size' = Size - 1 /\ \A k \in 0 .. N - 2 : SlotOf(k)' = SlotOf(k + 1)
      BY <2>6, <3>1, ShrinkFact DEF AdvanceRead
    <3>3. Size \in 0 .. N - 1 /\ N \in Nat
      BY SizeFact, RingAssumption
    <3>4. ASSUME NEW k \in 0 .. N - 1, k < Size - 1
          PROVE  slots[SlotOf(k)'] \in Value
      <4>1. k + 1 \in 0 .. N - 1 /\ k + 1 < Size /\ k \in 0 .. N - 2
        BY <3>3, <3>4
      <4> QED
        BY <3>2, <4>1 DEF QueuedAreElements
    <3>5. slots' = slots
      BY <2>6 DEF AdvanceRead
    <3> QED
      BY <3>2, <3>4, <3>5 DEF QueuedAreElements
  <2>7. CASE WakeWriter(r)
    BY <2>7 DEF WakeWriter, QueuedAreElements, Size, SlotOf
  <2> QED
    BY <1>4, <2>1, <2>2, <2>3, <2>4, <2>5, <2>6, <2>7 DEF ReaderStep
<1>5. CASE UNCHANGED vars
  BY <1>5 DEF vars, QueuedAreElements, Size, SlotOf
<1> QED
  BY <1>1, <1>2, <1>3, <1>4, <1>5 DEF Next

-----------------------------------------------------------------------------
(* RingInv holds at the start and is kept by every step. *)
LEMMA RingInvInit == Init => RingInv
<1> SUFFICES ASSUME Init PROVE RingInv
  OBVIOUS
<1> USE DEF Init
<1>1. 0 \in Slot /\ Size = 0
  BY RingAssumption DEF Slot, Size
<1>2. TypeOK
  BY <1>1 DEF TypeOK, WriterPC, ReaderPC
<1>3. LocksHeld /\ StoreIsOutsideQueue /\ LoadIsHead
  BY DEF LocksHeld, InWrite, InRead, StoreIsOutsideQueue, LoadIsHead
<1>4. QueuedAreElements
  BY <1>1 DEF QueuedAreElements
<1> QED
  BY <1>2, <1>3, <1>4 DEF RingInv

LEMMA RingInvStep == RingInv /\ [Next]_vars => RingInv'
BY TypeStep, LockStep, StoreStep, LoadStep, QueuedStep DEF RingInv

(* The ring invariant: types, lock ownership, and that a position is only   *)
(* moved over a slot whose element is settled.                              *)
THEOREM RingInvariant == Spec => []RingInv
BY RingInvInit, RingInvStep, PTL DEF Spec

(* A thread between lock and unlock of a side has that side's mutex.       *)
THEOREM LocksAreHeld == Spec => []LocksHeld
<1>1. RingInv => LocksHeld
  BY DEF RingInv
<1> QED
  BY <1>1, RingInvariant, PTL

(* __push stores outside the elements that are queued, although the test   *)
(* for a free slot was made without the readers' lock.                     *)
THEOREM StoresAreOutside == Spec => []StoreIsOutsideQueue
<1>1. RingInv => StoreIsOutsideQueue
  BY DEF RingInv
<1> QED
  BY <1>1, RingInvariant, PTL

(* __pop loads the oldest element queued, although the writers' lock is    *)
(* not taken.                                                              *)
THEOREM LoadsAreHeads == Spec => []LoadIsHead
<1>1. RingInv => LoadIsHead
  BY DEF RingInv
<1> QED
  BY <1>1, RingInvariant, PTL

-----------------------------------------------------------------------------
(* The sequence the refinement maps the ring to. *)
Contents == [k \in 1 .. Size |-> slots[SlotOf(k - 1)]]

LEMMA ContentsFact ==
  ASSUME RingInv
  PROVE  /\ Contents \in Seq(Value)
         /\ Len(Contents) = Size
<1>1. Size \in 0 .. N - 1 /\ N \in Nat
  BY SizeFact, RingAssumption DEF RingInv, TypeOK
<1>2. \A k \in 1 .. Size : slots[SlotOf(k - 1)] \in Value
  BY <1>1 DEF RingInv, QueuedAreElements
<1> QED
  BY <1>1, <1>2 DEF Contents

(* A sequence is the function of its elements. *)
LEMMA SeqIsFunction ==
  ASSUME NEW S, NEW s \in Seq(S)
  PROVE  s = [k \in DOMAIN s |-> s[k]]
OBVIOUS

(* A step that moves no position and stores outside the queue stutters. *)
LEMMA QuietStep ==
  ASSUME RingInv, readPos' = readPos, writePos' = writePos,
         \A k \in 0 .. N - 1 : k < Size => slots'[SlotOf(k)] = slots[SlotOf(k)]
  PROVE  Contents' = Contents
<1>1. Size' = Size /\ \A k : SlotOf(k)' = SlotOf(k)
  BY DEF Size, SlotOf
<1>2. Size \in 0 .. N - 1 /\ N \in Nat
  BY SizeFact, RingAssumption DEF RingInv, TypeOK
<1>3. \A k \in 1 .. Size : slots'[SlotOf(k - 1)] = slots[SlotOf(k - 1)]
  BY <1>2
<1> QED
  BY <1>1, <1>3 DEF Contents

LEMMA PutStep ==
  ASSUME RingInv, NEW w \in Writers, AdvanceWrite(w)
  PROVE  /\ Len(Contents) < N - 1
         /\ Contents' = Append(Contents, wval[w])
         /\ wval[w] \in Value
<1>1. ~Full /\ slots[writePos] = wval[w] /\ wval[w] \in Value
  BY DEF AdvanceWrite, RingInv, StoreIsOutsideQueue
<1>2. Size' = Size + 1 /\ \A k \in 0 .. N - 1 : SlotOf(k)' = SlotOf(k)
  BY <1>1, GrowFact DEF AdvanceWrite, RingInv, TypeOK
<1>3. /\ Size \in 0 .. N - 1 /\ Size # N - 1 /\ N \in Nat
      /\ SlotOf(Size) = writePos
  BY <1>1, SizeFact, RingAssumption DEF RingInv, TypeOK
<1>4. slots' = slots
  BY DEF AdvanceWrite
<1>5. Contents' = [k \in 1 .. Size + 1 |-> slots[SlotOf(k - 1)]]
  <2>1. Contents' = [k \in 1 .. Size' |-> slots'[SlotOf(k - 1)']]
    BY DEF Contents
  <2>2. \A k \in 1 .. Size + 1 : SlotOf(k - 1)' = SlotOf(k - 1)
    BY <1>2, <1>3
  <2> QED
    BY <2>1, <2>2, <1>2, <1>4
<1>6. Append(Contents, wval[w]) = [k \in 1 .. Size + 1 |-> slots[SlotOf(k - 1)]]
  <2>1. Contents \in Seq(Value) /\ Len(Contents) = Size
    BY ContentsFact
  <2>2. DOMAIN Append(Contents, wval[w]) = 1 .. Size + 1
    BY <2>1, <1>3, <1>1
  <2>3. \A k \in 1 .. Size + 1 :
           Append(Contents, wval[w])[k] = IF k = Size + 1 THEN wval[w] ELSE Contents[k]
    BY <2>1, <1>3, <1>1
  <2>4. \A k \in 1 .. Size : Contents[k] = slots[SlotOf(k - 1)]
    BY DEF Contents
  <2>5. slots[SlotOf((Size + 1) - 1)] = wval[w]
    BY <1>1, <1>3
  <2>6. \A k \in 1 .. Size + 1 : Append(Contents, wval[w])[k] = slots[SlotOf(k - 1)]
    <3> SUFFICES ASSUME NEW k \in 1 .. Size + 1
                 PROVE  Append(Contents, wval[w])[k] = slots[SlotOf(k - 1)]
      OBVIOUS
    <3>1. CASE k = Size + 1
      BY <3>1, <2>3, <2>5
    <3>2. CASE k # Size + 1
      <4>1. k \in 1 .. Size
        BY <3>2, <1>3
      <4>2. Append(Contents, wval[w])[k] = Contents[k]
        BY <3>2, <2>3
      <4> QED
        BY <4>1, <4>2, <2>4
    <3> QED
      BY <3>1, <3>2
  <2>7. Append(Contents, wval[w]) \in Seq(Value)
    BY <2>1, <1>1
  <2>8. Append(Contents, wval[w])
           = [k \in DOMAIN Append(Contents, wval[w]) |-> Append(Contents, wval[w])[k]]
    BY <2>7
  <2> QED
    BY <2>2, <2>6, <2>8, Zenon
<1> QED
  BY <1>1, <1>3, <1>5, <1>6, ContentsFact

LEMMA TakeStep ==
  ASSUME RingInv, NEW r \in Readers, AdvanceRead(r)
  PROVE  /\ Contents # <<>>
         /\ taken' = Head(Contents)
         /\ Contents' = Tail(Contents)
<1>1. ~Empty /\ rval[r] = slots[readPos]
  BY DEF AdvanceRead, RingInv, LoadIsHead
<1>2. Size' = Size - 1 /\ \A k \in 0 .. N - 2 : SlotOf(k)' = SlotOf(k + 1)
  BY <1>1, ShrinkFact DEF AdvanceRead, RingInv, TypeOK
<1>3. /\ Size \in 1 .. N - 1 /\ N \in Nat /\ N >= 2
      /\ SlotOf(0) = readPos
  BY <1>1, SizeFact, RingAssumption DEF RingInv, TypeOK, Slot
<1>4. slots' = slots /\ taken' = rval[r]
  BY DEF AdvanceRead
<1>5. Contents \in Seq(Value) /\ Len(Contents) = Size
  BY ContentsFact
<1>6. Contents[1] = slots[readPos]
  BY <1>3 DEF Contents
<1>7. Contents' = [k \in 1 .. Size - 1 |-> slots[SlotOf(k)]]
  <2>1. Contents' = [k \in 1 .. Size' |-> slots'[SlotOf(k - 1)']]
    BY DEF Contents
  <2>2. \A k \in 1 .. Size - 1 : SlotOf(k - 1)' = SlotOf(k)
    BY <1>2, <1>3
  <2> QED
    BY <2>1, <2>2, <1>2, <1>4
<1>8. Tail(Contents) = [k \in 1 .. Size - 1 |-> slots[SlotOf(k)]]
  <2>1. Contents # <<>>
    BY <1>3, <1>5
  <2>2. /\ Tail(Contents) \in Seq(Value)
        /\ Len(Tail(Contents)) = Size - 1
        /\ \A k \in 1 .. Size - 1 : Tail(Contents)[k] = Contents[k + 1]
    BY <1>3, <1>5, <2>1
  <2>3. DOMAIN Tail(Contents) = 1 .. Size - 1
    BY <2>2
  <2>4. \A k \in 1 .. Size - 1 : Contents[k + 1] = slots[SlotOf(k)]
    <3> SUFFICES ASSUME NEW k \in 1 .. Size - 1
                 PROVE  Contents[k + 1] = slots[SlotOf(k)]
      OBVIOUS
    <3>1. k + 1 \in 1 .. Size /\ (k + 1) - 1 = k
      BY <1>3
    <3> QED
      BY <3>1 DEF Contents
  <2>5. \A k \in 1 .. Size - 1 : Tail(Contents)[k] = slots[SlotOf(k)]
    BY <2>2, <2>4
  <2>6. Tail(Contents) = [k \in DOMAIN Tail(Contents) |-> Tail(Contents)[k]]
    <3>1. Tail(Contents) \in Seq(Value)
      BY <2>2
    <3> QED
      BY <3>1, SeqIsFunction
  <2> QED
    BY <2>3, <2>5, <2>6, Zenon
<1> QED
  BY <1>1, <1>3, <1>4, <1>5, <1>6, <1>7, <1>8

(* Every step of the ring is a step of the bounded queue or leaves it be. *)
LEMMA QueueStep ==
  ASSUME RingInv, [Next]_vars
  PROVE  [Queue!Next]_(Queue!qvars)
<1> USE DEF Queue!qvars
<1> DEFINE Quiet == Contents' = Contents /\ taken' = taken
<1>1. ASSUME NEW w \in Writers, NEW v \in Value, NEW op \in PushOps, StartPush(w, v, op)
      PROVE  Quiet
  BY <1>1, QuietStep DEF StartPush, readerVars
<1>2. ASSUME NEW w \in Writers, WriterStep(w), ~AdvanceWrite(w)
      PROVE  Quiet
  <2>1. CASE LockWriteSide(w)
    BY <2>1, QuietStep DEF LockWriteSide, readerVars
  <2>2. CASE CheckFull(w)
    BY <2>2, QuietStep DEF CheckFull, readerVars
  <2>3. CASE PushWait(w)
    BY <2>3, QuietStep DEF PushWait, readerVars
  <2>4. CASE StoreSlot(w)
    <3>1. \A k \in 0 .. N - 1 : k < Size => SlotOf(k) # writePos
      BY SizeFact, RingAssumption DEF RingInv, TypeOK
    <3>2. \A k \in 0 .. N - 1 : k < Size => slots'[SlotOf(k)] = slots[SlotOf(k)]
      <4> SUFFICES ASSUME NEW k \in 0 .. N - 1, k < Size
                   PROVE  slots'[SlotOf(k)] = slots[SlotOf(k)]
        OBVIOUS
      <4>1. SlotOf(k) \in Slot /\ SlotOf(k) # writePos
        BY <3>1, SizeFact DEF RingInv, TypeOK
      <4> QED
        BY <2>4, <4>1 DEF StoreSlot, RingInv, TypeOK
    <3> QED
      BY <2>4, <3>2, QuietStep DEF StoreSlot, readerVars
  <2>5. CASE WakeReader(w)
    BY <2>5, QuietStep DEF WakeReader
  <2> QED
    BY <1>2, <2>1, <2>2, <2>3, <2>4, <2>5 DEF WriterStep
<1>3. ASSUME NEW r \in Readers, NEW op \in PopOps, StartPop(r, op)
      PROVE  Quiet
  BY <1>3, QuietStep DEF StartPop
<1>4. ASSUME NEW r \in Readers, ReaderStep(r), ~AdvanceRead(r)
      PROVE  Quiet
  BY <1>4, QuietStep DEF ReaderStep, LockReadSide, CheckEmpty, PopWait, PopTimeout,
                         LoadSlot, WakeWriter
<1>5. ASSUME NEW w \in Writers, AdvanceWrite(w)
      PROVE  \E v \in Value : Queue!Put(v)
  BY <1>5, PutStep DEF Queue!Put, Contents, AdvanceWrite, readerVars
<1>6. ASSUME NEW r \in Readers, AdvanceRead(r)
      PROVE  Queue!Take
  BY <1>6, TakeStep DEF Queue!Take, Contents
<1>7. CASE UNCHANGED vars
  <2>1. Quiet
    BY <1>7, QuietStep DEF vars, readerVars
  <2> QED
    BY <2>1 DEF Contents
<1>8. Quiet => UNCHANGED Queue!qvars
  BY DEF Contents
<1> QED
  BY <1>1, <1>2, <1>3, <1>4, <1>5, <1>6, <1>7, <1>8 DEF Next, Queue!Next

LEMMA QueueInit == Init => Queue!Init
<1> SUFFICES ASSUME Init PROVE Queue!Init
  OBVIOUS
<1>1. Size = 0
  BY DEF Init, Size
<1> QED
  BY <1>1 DEF Init, Queue!Init

(* Whatever the number of slots, of elements and of threads, the ring is a  *)
(* first in, first out queue of N - 1 elements.                             *)
THEOREM RingIsQueue == Spec => QueueSpec
BY RingInvariant, QueueInit, QueueStep, PTL DEF Spec, QueueSpec, Queue!Spec
=============================================================================
