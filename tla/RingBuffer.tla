----------------------------- MODULE RingBuffer -----------------------------
(***************************************************************************)
(* The ring buffers of libutil/inc/AdBuff.h, one shared memory access or   *)
(* lock operation per step.  The four classes are one algorithm:           *)
(*                                                                         *)
(*     class               WriteLock   ReadLock   used for                 *)
(*     AdRingBufferSRSW      FALSE       FALSE    worker and write queues  *)
(*     AdRingBufferSRMW      TRUE        FALSE    control and new queues   *)
(*     AdRingBufferMRSW      FALSE       TRUE     not used                 *)
(*     AdRingBufferMRMW      TRUE        TRUE     pools of parameters      *)
(*                                                                         *)
(* The side whose lock is missing must have a single thread.  wake() is    *)
(* pthread_cond_signal without the mutex, so a signal sent between a       *)
(* thread's test of the ring and its wait is lost; the model keeps that    *)
(* window as a step of its own.                                            *)
(*                                                                         *)
(* The positions are plain ints read by the other side without a lock.     *)
(* The stores of __push and __pop become visible in program order: the     *)
(* build is unoptimised (config.mk: cflags-y += -Wall -g) for x86-64.      *)
(***************************************************************************)
EXTENDS Integers, FiniteSets

CONSTANTS
  Writers, Readers,   \* threads that push, threads that pop
  Value, NoValue,     \* elements, and "no element"
  NoThread,           \* a lock nobody holds
  N,                  \* m_iSize, the number of slots
  WriteLock,          \* the writer side runs under m_cWriteLock
  ReadLock,           \* the reader side runs under m_cReadLock
  TimedPop,           \* pop(iMs) with iMs > 0: the wait ends by itself
  PushOps, PopOps     \* the operations called: "block" (push, pop), "try"

ASSUME RingAssumption ==
  /\ N \in Nat /\ N >= 2
  /\ WriteLock \in BOOLEAN /\ ReadLock \in BOOLEAN /\ TimedPop \in BOOLEAN
  /\ NoValue \notin Value
  /\ NoThread \notin Writers \cup Readers
  /\ PushOps \subseteq {"block", "try"} /\ PopOps \subseteq {"block", "try"}
  /\ ~WriteLock => \A w, x \in Writers : w = x
  /\ ~ReadLock => \A r, s \in Readers : r = s
  \* pop of the locked readers calls itself: only tryPop is ever used there
  /\ ReadLock => PopOps = {"try"}

VARIABLES
  slots,      \* m_vRing
  readPos,    \* m_iReadPosition
  writePos,   \* m_iWritePosition
  writeLock,  \* holder of the mutex of m_cWriteLock
  readLock,   \* holder of the mutex of m_cReadLock
  wpc, wval, wop,   \* per writer: next step, element, operation
  rpc, rval, rop,   \* per reader: next step, element loaded, operation
  taken       \* the element the last pop returned

writerVars == <<writeLock, wpc, wval, wop>>
readerVars == <<readLock, rpc, rval, rop, taken>>
vars == <<slots, readPos, writePos, writerVars, readerVars>>

Slot == 0 .. N - 1

Following(p) == (p + 1) % N

Full == readPos = Following(writePos)

Empty == readPos = writePos

Size ==
  IF readPos = writePos THEN 0
  ELSE IF readPos > writePos THEN N - readPos + writePos
  ELSE writePos - readPos

WriterPC == {"idle", "lock", "check", "wait", "asleep", "store", "advance", "wake"}
ReaderPC == {"idle", "lock", "check", "wait", "asleep", "load", "advance", "wake"}

\* where push and pop start, and where a thread woken in wait() goes on
WriteEntry == IF WriteLock THEN "lock" ELSE "check"
ReadEntry == IF ReadLock THEN "lock" ELSE "check"

Init ==
  /\ slots = [p \in Slot |-> NoValue]
  /\ readPos = 0
  /\ writePos = 0
  /\ writeLock = NoThread
  /\ readLock = NoThread
  /\ wpc = [w \in Writers |-> "idle"]
  /\ wval = [w \in Writers |-> NoValue]
  /\ wop = [w \in Writers |-> "try"]
  /\ rpc = [r \in Readers |-> "idle"]
  /\ rval = [r \in Readers |-> NoValue]
  /\ rop = [r \in Readers |-> "try"]
  /\ taken = NoValue

-----------------------------------------------------------------------------
(* The writer side: push and tryPush. *)

StartPush(w, v, op) ==
  /\ wpc[w] = "idle"
  /\ wval' = [wval EXCEPT ![w] = v]
  /\ wop' = [wop EXCEPT ![w] = op]
  /\ wpc' = [wpc EXCEPT ![w] = WriteEntry]
  /\ UNCHANGED <<slots, readPos, writePos, writeLock, readerVars>>

\* mutant: the lock does not exclude anybody
LockWriteSideShared(w) ==
  /\ wpc[w] = "lock"
  /\ writeLock' = w
  /\ wpc' = [wpc EXCEPT ![w] = "check"]
  /\ UNCHANGED <<slots, readPos, writePos, wval, wop, readerVars>>

LockWriteSide(w) ==
  /\ wpc[w] = "lock"
  /\ writeLock = NoThread
  /\ writeLock' = w
  /\ wpc' = [wpc EXCEPT ![w] = "check"]
  /\ UNCHANGED <<slots, readPos, writePos, wval, wop, readerVars>>

\* mutant: push does not test the ring
CheckFullNever(w) ==
  /\ wpc[w] = "check"
  /\ wpc' = [wpc EXCEPT ![w] = "store"]
  /\ UNCHANGED <<slots, readPos, writePos, writeLock, wval, wop, readerVars>>

\* tryPush on a full ring unlocks and returns false; push waits
CheckFull(w) ==
  /\ wpc[w] = "check"
  /\ \/ /\ ~Full
        /\ wpc' = [wpc EXCEPT ![w] = "store"]
        /\ UNCHANGED writeLock
     \/ /\ Full /\ wop[w] = "block"
        /\ wpc' = [wpc EXCEPT ![w] = "wait"]
        /\ UNCHANGED writeLock
     \/ /\ Full /\ wop[w] = "try"
        /\ wpc' = [wpc EXCEPT ![w] = "idle"]
        /\ writeLock' = NoThread
  /\ UNCHANGED <<slots, readPos, writePos, wval, wop, readerVars>>

\* pthread_cond_wait gives the mutex back as it goes to sleep
PushWait(w) ==
  /\ wpc[w] = "wait"
  /\ wpc' = [wpc EXCEPT ![w] = "asleep"]
  /\ writeLock' = NoThread
  /\ UNCHANGED <<slots, readPos, writePos, wval, wop, readerVars>>

\* mutant: the element goes one slot too far
StoreSlotAhead(w) ==
  /\ wpc[w] = "store"
  /\ slots' = [slots EXCEPT ![Following(writePos)] = wval[w]]
  /\ wpc' = [wpc EXCEPT ![w] = "advance"]
  /\ UNCHANGED <<readPos, writePos, writeLock, wval, wop, readerVars>>

StoreSlot(w) ==
  /\ wpc[w] = "store"
  /\ slots' = [slots EXCEPT ![writePos] = wval[w]]
  /\ wpc' = [wpc EXCEPT ![w] = "advance"]
  /\ UNCHANGED <<readPos, writePos, writeLock, wval, wop, readerVars>>

AdvanceWrite(w) ==
  /\ wpc[w] = "advance"
  /\ writePos' = Following(writePos)
  /\ writeLock' = NoThread
  /\ wpc' = [wpc EXCEPT ![w] = "wake"]
  /\ UNCHANGED <<slots, readPos, wval, wop, readerVars>>

\* m_cReadLock.wake(): one sleeping reader, if there is one, tests again
WakeReader(w) ==
  /\ wpc[w] = "wake"
  /\ wpc' = [wpc EXCEPT ![w] = "idle"]
  /\ \/ \E r \in Readers :
          /\ rpc[r] = "asleep"
          /\ rpc' = [rpc EXCEPT ![r] = ReadEntry]
     \/ /\ \A r \in Readers : rpc[r] # "asleep"
        /\ UNCHANGED rpc
  /\ UNCHANGED <<slots, readPos, writePos, writeLock, wval, wop,
                 readLock, rval, rop, taken>>

-----------------------------------------------------------------------------
(* The reader side: pop and tryPop. *)

StartPop(r, op) ==
  /\ rpc[r] = "idle"
  /\ rop' = [rop EXCEPT ![r] = op]
  /\ rpc' = [rpc EXCEPT ![r] = ReadEntry]
  /\ UNCHANGED <<slots, readPos, writePos, writerVars, readLock, rval, taken>>

\* mutant: the lock does not exclude anybody
LockReadSideShared(r) ==
  /\ rpc[r] = "lock"
  /\ readLock' = r
  /\ rpc' = [rpc EXCEPT ![r] = "check"]
  /\ UNCHANGED <<slots, readPos, writePos, writerVars, rval, rop, taken>>

LockReadSide(r) ==
  /\ rpc[r] = "lock"
  /\ readLock = NoThread
  /\ readLock' = r
  /\ rpc' = [rpc EXCEPT ![r] = "check"]
  /\ UNCHANGED <<slots, readPos, writePos, writerVars, rval, rop, taken>>

\* mutant: pop does not test the ring
CheckEmptyNever(r) ==
  /\ rpc[r] = "check"
  /\ rpc' = [rpc EXCEPT ![r] = "load"]
  /\ UNCHANGED <<slots, readPos, writePos, writerVars, readLock, rval, rop, taken>>

CheckEmpty(r) ==
  /\ rpc[r] = "check"
  /\ \/ /\ ~Empty
        /\ rpc' = [rpc EXCEPT ![r] = "load"]
        /\ UNCHANGED readLock
     \/ /\ Empty /\ rop[r] = "block"
        /\ rpc' = [rpc EXCEPT ![r] = "wait"]
        /\ UNCHANGED readLock
     \/ /\ Empty /\ rop[r] = "try"
        /\ rpc' = [rpc EXCEPT ![r] = "idle"]
        /\ readLock' = NoThread
  /\ UNCHANGED <<slots, readPos, writePos, writerVars, rval, rop, taken>>

\* without ReadLock, popWait takes the mutex only here, after the test
PopWait(r) ==
  /\ rpc[r] = "wait"
  /\ rpc' = [rpc EXCEPT ![r] = "asleep"]
  /\ readLock' = NoThread
  /\ UNCHANGED <<slots, readPos, writePos, writerVars, rval, rop, taken>>

\* mutant: after the timeout pop waits again without a test
PopTimeoutWaits(r) ==
  /\ TimedPop
  /\ rpc[r] = "asleep"
  /\ rpc' = [rpc EXCEPT ![r] = "wait"]
  /\ UNCHANGED <<slots, readPos, writePos, writerVars, readLock, rval, rop, taken>>

\* pthread_cond_timedwait runs out; pop tests the ring again
PopTimeout(r) ==
  /\ TimedPop
  /\ rpc[r] = "asleep"
  /\ rpc' = [rpc EXCEPT ![r] = ReadEntry]
  /\ UNCHANGED <<slots, readPos, writePos, writerVars, readLock, rval, rop, taken>>

LoadSlot(r) ==
  /\ rpc[r] = "load"
  /\ rval' = [rval EXCEPT ![r] = slots[readPos]]
  /\ rpc' = [rpc EXCEPT ![r] = "advance"]
  /\ UNCHANGED <<slots, readPos, writePos, writerVars, readLock, rop, taken>>

AdvanceRead(r) ==
  /\ rpc[r] = "advance"
  /\ readPos' = Following(readPos)
  /\ readLock' = NoThread
  /\ taken' = rval[r]
  /\ rpc' = [rpc EXCEPT ![r] = "wake"]
  /\ UNCHANGED <<slots, writePos, writerVars, rval, rop>>

\* mutant: pop does not signal
WakeWriterSilent(r) ==
  /\ rpc[r] = "wake"
  /\ rpc' = [rpc EXCEPT ![r] = "idle"]
  /\ UNCHANGED <<slots, readPos, writePos, writerVars, readLock, rval, rop, taken>>

\* m_cWriteLock.wake(): a woken pusher takes its mutex again inside wait()
WakeWriter(r) ==
  /\ rpc[r] = "wake"
  /\ rpc' = [rpc EXCEPT ![r] = "idle"]
  /\ \/ \E w \in Writers :
          /\ wpc[w] = "asleep"
          /\ wpc' = [wpc EXCEPT ![w] = WriteEntry]
     \/ /\ \A w \in Writers : wpc[w] # "asleep"
        /\ UNCHANGED wpc
  /\ UNCHANGED <<slots, readPos, writePos, writeLock, wval, wop,
                 readLock, rval, rop, taken>>

-----------------------------------------------------------------------------
WriterStep(w) ==
  \/ LockWriteSide(w) \/ CheckFull(w) \/ PushWait(w)
  \/ StoreSlot(w) \/ AdvanceWrite(w) \/ WakeReader(w)

ReaderStep(r) ==
  \/ LockReadSide(r) \/ CheckEmpty(r) \/ PopWait(r) \/ PopTimeout(r)
  \/ LoadSlot(r) \/ AdvanceRead(r) \/ WakeWriter(r)

Next ==
  \/ \E w \in Writers :
       \/ \E v \in Value, op \in PushOps : StartPush(w, v, op)
       \/ WriterStep(w)
  \/ \E r \in Readers :
       \/ \E op \in PopOps : StartPop(r, op)
       \/ ReaderStep(r)

Spec == Init /\ [][Next]_vars

(***************************************************************************)
(* Threads are scheduled by the kernel, so a thread that can take its next *)
(* step takes it.  Readers are the loops of AdNetTask.h and                *)
(* AdNetBaseLoop: they call pop again for ever.  Nobody has to push.       *)
(***************************************************************************)
Fairness ==
  /\ \A w \in Writers : WF_vars(WriterStep(w))
  /\ \A r \in Readers :
       WF_vars(ReaderStep(r) \/ \E op \in PopOps : StartPop(r, op))

FairSpec == Spec /\ Fairness

-----------------------------------------------------------------------------
(* Every variable has its type. *)
TypeOK ==
  /\ slots \in [Slot -> Value \cup {NoValue}]
  /\ readPos \in Slot
  /\ writePos \in Slot
  /\ writeLock \in Writers \cup {NoThread}
  /\ readLock \in Readers \cup {NoThread}
  /\ wpc \in [Writers -> WriterPC]
  /\ wval \in [Writers -> Value \cup {NoValue}]
  /\ wop \in [Writers -> {"block", "try"}]
  /\ rpc \in [Readers -> ReaderPC]
  /\ rval \in [Readers -> Value \cup {NoValue}]
  /\ rop \in [Readers -> {"block", "try"}]
  /\ taken \in Value \cup {NoValue}

\* threads past the entry of their side and before its unlock
InWrite(w) == wpc[w] \in {"check", "wait", "store", "advance"}
InRead(r) == rpc[r] \in {"check", "wait", "load", "advance"}

(* A thread between lock and unlock is the one the mutex belongs to, so    *)
(* two pushers, or two poppers, are never inside __push or __pop together. *)
LocksHeld ==
  /\ \A w \in Writers : WriteLock /\ InWrite(w) => writeLock = w
  /\ \A r \in Readers : ReadLock /\ InRead(r) => readLock = r

(* The unlocked test stays true until it is used: whatever the other side  *)
(* does after a push saw room, the slot it stores into is outside the      *)
(* queue, and once stored it still holds the element when the position     *)
(* moves over it.                                                          *)
StoreIsOutsideQueue ==
  \A w \in Writers :
    /\ wpc[w] # "idle" => wval[w] \in Value
    /\ wpc[w] \in {"store", "advance"} => ~Full
    /\ wpc[w] = "advance" => slots[writePos] = wval[w]

(* After a pop saw an element, nothing replaces it before readPos passes.  *)
LoadIsHead ==
  \A r \in Readers :
    /\ rpc[r] \in {"load", "advance"} => ~Empty
    /\ rpc[r] = "advance" => rval[r] = slots[readPos]

\* the k-th queued element's slot, k from 0
SlotOf(k) == (readPos + k) % N

(* Every slot between the positions holds a real element. *)
QueuedAreElements == \A k \in 0 .. N - 1 : k < Size => slots[SlotOf(k)] \in Value

RingInv ==
  TypeOK /\ LocksHeld /\ StoreIsOutsideQueue /\ LoadIsHead /\ QueuedAreElements

(* The ring is a first in, first out queue that holds N - 1 elements: no   *)
(* push overwrites an element not yet popped, no pop returns an old one.   *)
Queue == INSTANCE BoundedQueue WITH
  Capacity <- N - 1,
  queue <- [k \in 1 .. Size |-> slots[SlotOf(k - 1)]]

QueueSpec == Queue!Spec

(* An element in the ring is popped: with pop(1000), as the worker calls   *)
(* it, a lost signal costs a second and not the request.                   *)
NonEmptyIsDrained == \A p \in Slot : (readPos = p /\ ~Empty) ~> (readPos # p)

(* push() blocked on a full ring is not forgotten: as long as elements are *)
(* taken, no thread stays the only sleeper for ever, although every signal *)
(* sent between its test and its wait is lost.                             *)
SoleSleeperIsWoken ==
  []<>(\E r \in Readers : rpc[r] = "wake")
    => \A w \in Writers : []<>({x \in Writers : wpc[x] = "asleep"} # {w})
=============================================================================
