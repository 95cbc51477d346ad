--------------------------- MODULE DVQueueProofs ---------------------------
(***************************************************************************)
(* Proofs about DVQueue, for every capacity and any number of frames.      *)
(*                                                                         *)
(* The inductive invariant adds two facts to TypeOK and RingConsistent:    *)
(* the slot the consumer holds is the one just behind the head, which the  *)
(* tail can only reach through the spare slot; and a frame stored after    *)
(* the close leaves the producer where it meets m_end before it can store  *)
(* another.                                                                *)
(***************************************************************************)
EXTENDS DVQueue, TLAPS

HeldBehindHead ==
  held # NoSlot => /\ head = IF held = Capacity THEN 0 ELSE held + 1
                   /\ slots[held] = got

LateMeansOver == late => end /\ ppc \in {"idle", "test"}

IInv == TypeOK /\ RingConsistent /\ HeldBehindHead /\ LateMeansOver

USE CapacityAssumption, MaxFramesAssumption

(* The steps that touch neither the ring nor the frames the consumer got.  *)
QuietStep ==
  \/ PutCall \/ PutTest \/ PutFull \/ PutWake
  \/ (\E t \in BOOLEAN : GetCall(t)) \/ ConsumerQuit
  \/ GetEmpty \/ GetEndOfStream \/ GetBlock \/ GetWake \/ GetTimeout
  \/ \E c \in Closers : CloseFlag(c) \/ CloserStep(c)

LEMMA NextSplit == [Next]_vars => QuietStep \/ PutStore \/ GetTake \/ UNCHANGED vars
  BY Zenon DEF Next, QuietStep, ProducerStep, ConsumerStep, ConsumerLoop

(* The ring successor, without the remainder: (i + 1) % QueueSize wraps    *)
(* only at the last slot.                                                  *)
LEMMA AdvanceValue ==
  ASSUME NEW i \in Slots
  PROVE  Advance(i) = IF i = Capacity THEN 0 ELSE i + 1
<1>1. CASE i = Capacity
  BY <1>1 DEF Advance, QueueSize, Slots
<1>2. CASE i # Capacity
  <2>1. i + 1 \in 0 .. QueueSize - 1
    BY <1>2 DEF Slots, QueueSize
  <2>2. (i + 1) % QueueSize = i + 1
    BY <2>1 DEF QueueSize
  <2> QED BY <2>2, <1>2 DEF Advance
<1> QED BY <1>1, <1>2

(* Distances from the head name slots, each distance another slot.         *)
LEMMA SlotAtInjective ==
  ASSUME head \in Slots, NEW d \in 0 .. Capacity, NEW e \in 0 .. Capacity
  PROVE  /\ SlotAt(d) \in Slots
         /\ SlotAt(d) = SlotAt(e) => d = e
  BY DEF SlotAt, Slots, QueueSize

LEMMA QuietRing ==
  ASSUME TypeOK, QuietStep
  PROVE  UNCHANGED <<ring, enq, got, held, late>>
<1>1. CASE PutCall \/ PutTest \/ PutFull \/ PutWake
  BY <1>1 DEF PutCall, PutTest, PutFull, PutWake
<1>2. CASE (\E t \in BOOLEAN : GetCall(t)) \/ ConsumerQuit
  BY <1>2 DEF GetCall, ConsumerQuit
<1>3. CASE GetEmpty \/ GetEndOfStream \/ GetBlock \/ GetWake \/ GetTimeout
  BY <1>3 DEF GetEmpty, GetEndOfStream, GetBlock, GetWake, GetTimeout
<1>4. CASE \E c \in Closers : CloseFlag(c) \/ CloserStep(c)
  BY <1>4 DEF CloseFlag, CloserStep, CloseSignalGet, CloseSignalPut
<1> QED BY <1>1, <1>2, <1>3, <1>4 DEF QuietStep

LEMMA QuietTypes ==
  ASSUME TypeOK, QuietStep
  PROVE  TypeOK'
<1> USE DEF TypeOK, ring, events, ProducerAt, ConsumerAt, CloserAt
<1>1. CASE PutCall \/ PutTest \/ PutFull \/ PutWake
  BY <1>1 DEF PutCall, PutTest, PutFull, PutWake
<1>2. CASE (\E t \in BOOLEAN : GetCall(t)) \/ ConsumerQuit
  BY <1>2 DEF GetCall, ConsumerQuit
<1>3. CASE GetEmpty \/ GetEndOfStream \/ GetBlock \/ GetWake \/ GetTimeout
  BY <1>3 DEF GetEmpty, GetEndOfStream, GetBlock, GetWake, GetTimeout
<1>4. CASE \E c \in Closers : CloseFlag(c) \/ CloserStep(c)
  BY <1>4 DEF CloseFlag, CloserStep, CloseSignalGet, CloseSignalPut
<1> QED BY <1>1, <1>2, <1>3, <1>4 DEF QuietStep

(* Storing a frame at the tail keeps the invariant: the tail is none of    *)
(* the occupied slots and not the held one.                                *)
LEMMA StoreKeeps ==
  ASSUME IInv, PutStore
  PROVE  IInv'
<1> USE DEF IInv, TypeOK, PutStore, ring, events, ProducerAt, HasRoom
<1>1. /\ load < Capacity
      /\ tail = SlotAt(load)
      /\ load' = load + 1
      /\ head' = head
  BY DEF RingConsistent, QueueSize
<1>2. TypeOK'
  <2>1. tail' \in Slots
    BY AdvanceValue DEF Slots, QueueSize
  <2> QED BY <1>1, <2>1
<1>3. RingConsistent'
  <2>1. tail' = SlotAt(load')
    BY <1>1, AdvanceValue DEF SlotAt, Slots, QueueSize
  <2>2. enq' = got' + load'
    BY <1>1 DEF RingConsistent
  <2>3. ASSUME NEW d \in 0 .. Capacity, d < load'
        PROVE  slots'[SlotAt(d)] = got' + d + 1
    <3>1. CASE d = load
      BY <1>1, <3>1 DEF RingConsistent
    <3>2. CASE d < load
      BY <1>1, <3>2, SlotAtInjective DEF RingConsistent
    <3> QED BY <1>1, <2>3, <3>1, <3>2
  <2>4. \A d \in 0 .. Capacity : SlotAt(d)' = SlotAt(d)
    BY <1>1 DEF SlotAt
  <2> QED BY <1>1, <2>1, <2>2, <2>3, <2>4 DEF RingConsistent, SlotAt
<1>4. HeldBehindHead'
  <2>1. ASSUME held # NoSlot
        PROVE  held # tail
    BY <1>1, <2>1 DEF HeldBehindHead, SlotAt, Slots, QueueSize
  <2> QED BY <1>1, <2>1 DEF HeldBehindHead
<1>5. LateMeansOver'
  BY DEF LateMeansOver
<1> QED BY <1>2, <1>3, <1>4, <1>5

(* Taking the frame at the head keeps it: every other occupied slot comes  *)
(* one place nearer, and the slot taken is now just behind the head.       *)
LEMMA TakeKeeps ==
  ASSUME IInv, GetTake
  PROVE  IInv'
<1> USE DEF IInv, TypeOK, GetTake, ring, events, ConsumerAt
<1>1. head' = IF head = Capacity THEN 0 ELSE head + 1
  BY AdvanceValue
<1>2. /\ load > 0
      /\ got' = got + 1
  <2>1. slots[SlotAt(0)] = got + 0 + 1
    BY DEF RingConsistent
  <2>2. SlotAt(0) = head
    BY DEF SlotAt, Slots, QueueSize
  <2> QED BY <2>1, <2>2
<1>3. TypeOK'
  BY <1>1, <1>2 DEF Slots, QueueSize
<1>4. \A d \in 0 .. Capacity - 1 : SlotAt(d)' = SlotAt(d + 1)
  BY <1>1 DEF SlotAt, Slots, QueueSize
<1>5. RingConsistent'
  <2>1. tail' = SlotAt(load)'
    BY <1>1, <1>2 DEF RingConsistent, SlotAt, Slots, QueueSize
  <2>2. enq' = got' + load'
    BY <1>2 DEF RingConsistent
  <2>3. ASSUME NEW d \in 0 .. Capacity, d < load'
        PROVE  slots'[SlotAt(d)'] = got' + d + 1
    <3>1. d \in 0 .. Capacity - 1 /\ d + 1 \in 0 .. Capacity /\ d + 1 < load
      BY <2>3
    <3>2. SlotAt(d)' = SlotAt(d + 1)
      BY <1>4, <3>1
    <3>3. slots[SlotAt(d + 1)] = got + (d + 1) + 1
      BY <3>1 DEF RingConsistent
    <3> QED BY <1>2, <3>2, <3>3
  <2> QED BY <2>1, <2>2, <2>3 DEF RingConsistent, SlotAt
<1>6. HeldBehindHead'
  BY <1>1 DEF HeldBehindHead
<1>7. LateMeansOver'
  BY DEF LateMeansOver
<1> QED BY <1>3, <1>5, <1>6, <1>7

LEMMA QuietKeeps ==
  ASSUME IInv, QuietStep
  PROVE  IInv'
<1>1. TypeOK'
  BY QuietTypes DEF IInv
<1>2. UNCHANGED <<ring, enq, got, held, late>>
  BY QuietRing DEF IInv
<1>3. RingConsistent' /\ HeldBehindHead'
  BY <1>2 DEF IInv, RingConsistent, HeldBehindHead, SlotAt, ring
<1>4. LateMeansOver'
  <2>1. CASE PutCall \/ PutTest \/ PutFull \/ PutWake
    BY <2>1 DEF IInv, LateMeansOver, PutCall, PutTest, PutFull, PutWake, ProducerAt
  <2>2. CASE (\E t \in BOOLEAN : GetCall(t)) \/ ConsumerQuit
    BY <2>2 DEF IInv, LateMeansOver, GetCall, ConsumerQuit
  <2>3. CASE GetEmpty \/ GetEndOfStream \/ GetBlock \/ GetWake \/ GetTimeout
    BY <2>3 DEF IInv, LateMeansOver, GetEmpty, GetEndOfStream, GetBlock, GetWake, GetTimeout
  <2>4. CASE \E c \in Closers : CloseFlag(c) \/ CloserStep(c)
    <3>1. UNCHANGED <<ppc, late>> /\ (end' = TRUE \/ end' = end)
      BY <2>4 DEF CloseFlag, CloserStep, CloseSignalGet, CloseSignalPut
    <3> QED BY <3>1 DEF IInv, LateMeansOver
  <2> QED BY <2>1, <2>2, <2>3, <2>4 DEF QuietStep
<1> QED BY <1>1, <1>3, <1>4 DEF IInv

LEMMA InitKeeps == Init => IInv
<1> SUFFICES ASSUME Init PROVE IInv
  OBVIOUS
<1> USE DEF Init
<1>1. TypeOK
  <2>1. slots \in [Slots -> Nat]
    OBVIOUS
  <2>2. closing \in [Closers -> {"open", "flagged", "halfway", "done"}]
    OBVIOUS
  <2>3. 0 \in Slots /\ 0 \in 0 .. Capacity
    BY DEF Slots, QueueSize
  <2> QED BY <2>1, <2>2, <2>3 DEF TypeOK
<1>2. RingConsistent
  BY DEF RingConsistent, SlotAt, QueueSize
<1>3. HeldBehindHead /\ LateMeansOver
  BY DEF HeldBehindHead, LateMeansOver
<1> QED BY <1>1, <1>2, <1>3 DEF IInv

LEMMA NextKeeps == IInv /\ [Next]_vars => IInv'
<1> SUFFICES ASSUME IInv, [Next]_vars PROVE IInv'
  OBVIOUS
<1>1. CASE QuietStep
  BY <1>1, QuietKeeps
<1>2. CASE PutStore
  BY <1>2, StoreKeeps
<1>3. CASE GetTake
  BY <1>3, TakeKeeps
<1>4. CASE UNCHANGED vars
  BY <1>4 DEF IInv, TypeOK, RingConsistent, HeldBehindHead, LateMeansOver, SlotAt,
              vars, ring, events
<1> QED BY <1>1, <1>2, <1>3, <1>4, NextSplit

(* The inductive invariant holds in every reachable state.                 *)
THEOREM Invariance == Spec => []IInv
<1>1. Init => IInv
  BY InitKeeps
<1>2. IInv /\ [Next]_vars => IInv'
  BY NextKeeps
<1> QED BY <1>1, <1>2, PTL DEF Spec

(* Every variable keeps its type, whatever the capacity of the ring.       *)
THEOREM TypeCorrect == Spec => []TypeOK
<1>1. IInv => TypeOK
  BY DEF IInv
<1> QED BY <1>1, Invariance, PTL

(* The ring never loses, repeats or reorders an accepted frame: m_head,    *)
(* m_tail and m_load always delimit the frames not yet taken, in order.    *)
THEOREM RingCorrect == Spec => []RingConsistent
<1>1. IInv => RingConsistent
  BY DEF IInv
<1> QED BY <1>1, Invariance, PTL

(* The pointer Get returns stays valid until the next successful Get.      *)
THEOREM HeldFrameSafe == Spec => []HeldFrameIntact
<1>1. IInv => HeldFrameIntact
  BY DEF IInv, HeldBehindHead, HeldFrameIntact
<1> QED BY <1>1, Invariance, PTL

----------------------------------------------------------------------------
(* Nobody sleeps through what it waits for. The consumer that found the    *)
(* ring empty has a signal as soon as there is a frame, the producer that  *)
(* found it full as soon as there is room; and who did not see m_end has a *)
(* signal, or a closer is still on its way to give it.                     *)
ConsumerWoken ==
  /\ cpc \in {"ended", "wait"} /\ load > 0 => evGet
  /\ cpc = "wait" /\ end => evGet \/ \E c \in Closers : closing[c] = "flagged"

ProducerWoken ==
  /\ ppc = "wait" /\ HasRoom => evPut
  /\ ppc \in {"lock", "wait"} /\ end =>
       evPut \/ \E c \in Closers : closing[c] \in {"flagged", "halfway"}

NoSleeper == ConsumerWoken /\ ProducerWoken

(* The steps of the producer.                                              *)
LEMMA ProducerWakes ==
  ASSUME IInv, NoSleeper, PutCall \/ PutTest \/ PutStore \/ PutFull \/ PutWake
  PROVE  NoSleeper'
<1>1. UNCHANGED <<cpc, closing, end>> /\ ppc' \in {"idle", "test", "lock", "wait"}
  BY DEF PutCall, PutTest, PutStore, PutFull, PutWake, ProducerAt
<1>2. (load' = load /\ evGet' = evGet) \/ evGet' = TRUE
  BY DEF PutCall, PutTest, PutStore, PutFull, PutWake, ring, events
<1>3. ConsumerWoken'
  BY <1>1, <1>2 DEF NoSleeper, ConsumerWoken
<1>4. ProducerWoken'
  <2>1. CASE PutCall \/ PutStore \/ PutWake
    BY <2>1 DEF PutCall, PutStore, PutWake, ProducerAt, ProducerWoken
  <2>2. CASE PutTest
    <3>1. UNCHANGED <<end, load>> /\ ppc' # "wait" /\ (ppc' = "lock" => ~end)
      BY <2>2 DEF PutTest, ProducerAt, ring
    <3> QED BY <3>1 DEF ProducerWoken
  <2>3. CASE PutFull
    <3>1. UNCHANGED <<end, load, evPut, closing>> /\ ppc = "lock" /\ ~HasRoom
      BY <2>3 DEF PutFull, ProducerAt, ring, events
    <3> QED BY <3>1 DEF NoSleeper, ProducerWoken, HasRoom
  <2> QED BY <2>1, <2>2, <2>3
<1> QED BY <1>3, <1>4 DEF NoSleeper

(* The steps of the consumer.                                              *)
LEMMA ConsumerWakes ==
  ASSUME IInv, NoSleeper,
         \/ (\E t \in BOOLEAN : GetCall(t)) \/ ConsumerQuit \/ GetTake \/ GetEmpty
         \/ GetEndOfStream \/ GetBlock \/ GetWake \/ GetTimeout
  PROVE  NoSleeper'
<1>1. UNCHANGED <<ppc, closing, end>>
  BY DEF GetCall, ConsumerQuit, GetTake, GetEmpty, GetEndOfStream, GetBlock, GetWake, GetTimeout
<1>2. (load' = load /\ evPut' = evPut) \/ evPut' = TRUE
  BY DEF GetCall, ConsumerQuit, GetTake, GetEmpty, GetEndOfStream, GetBlock, GetWake, GetTimeout,
         ring, events
<1>3. ProducerWoken'
  BY <1>1, <1>2 DEF NoSleeper, ProducerWoken, HasRoom
<1>4. ConsumerWoken'
  <2>1. CASE (\E t \in BOOLEAN : GetCall(t)) \/ ConsumerQuit \/ GetTake \/ GetEndOfStream
             \/ GetWake \/ GetTimeout
    <3>1. cpc' \notin {"ended", "wait"}
      BY <2>1 DEF GetCall, ConsumerQuit, GetTake, GetEndOfStream, GetWake, GetTimeout, ConsumerAt
    <3> QED BY <3>1 DEF ConsumerWoken
  <2>2. CASE GetEmpty
    <3>1. cpc' = "ended" /\ ~(load' > 0)
      BY <2>2 DEF GetEmpty, ConsumerAt, ring
    <3> QED BY <3>1 DEF ConsumerWoken
  <2>3. CASE GetBlock
    <3>1. cpc = "ended" /\ ~end /\ UNCHANGED <<end, load, evGet>>
      BY <2>3 DEF GetBlock, ConsumerAt, ring, events
    <3> QED BY <3>1 DEF NoSleeper, ConsumerWoken
  <2> QED BY <2>1, <2>2, <2>3
<1> QED BY <1>3, <1>4 DEF NoSleeper

(* The steps of a closer.                                                  *)
LEMMA CloserWakes ==
  ASSUME IInv, NoSleeper, NEW c \in Closers, CloseFlag(c) \/ CloserStep(c)
  PROVE  NoSleeper'
<1>1. /\ UNCHANGED <<ppc, cpc, load>> /\ (evGet => evGet') /\ (evPut => evPut')
      /\ \A d \in Closers : d # c => closing'[d] = closing[d]
  BY DEF CloseFlag, CloserStep, CloseSignalGet, CloseSignalPut, CloserAt, ring, events,
         IInv, TypeOK
<1>2. CASE CloseFlag(c)
  <2>1. closing'[c] = "flagged"
    BY <1>2 DEF CloseFlag, CloserAt, IInv, TypeOK
  <2> QED BY <1>1, <2>1 DEF NoSleeper, ConsumerWoken, ProducerWoken, HasRoom
<1>3. CASE CloseSignalGet(c)
  <2>1. closing'[c] = "halfway" /\ evGet' = TRUE /\ end' = end
    BY <1>3 DEF CloseSignalGet, CloserAt, IInv, TypeOK
  <2>2. ConsumerWoken'
    BY <2>1 DEF ConsumerWoken
  <2>3. ProducerWoken'
    BY <1>1, <2>1 DEF NoSleeper, ProducerWoken, HasRoom
  <2> QED BY <2>2, <2>3 DEF NoSleeper
<1>4. CASE CloseSignalPut(c)
  <2>1. closing[c] = "halfway" /\ evPut' = TRUE /\ end' = end
    BY <1>4 DEF CloseSignalPut, CloserAt
  <2>2. ProducerWoken'
    BY <2>1 DEF ProducerWoken
  <2>3. ConsumerWoken'
    BY <1>1, <2>1 DEF NoSleeper, ConsumerWoken
  <2> QED BY <2>2, <2>3 DEF NoSleeper
<1> QED BY <1>2, <1>3, <1>4 DEF CloserStep

(* No wake-up is lost between the two auto-reset events, m_end, which is   *)
(* read without the lock, and the three statements of Put(NULL), wherever  *)
(* each thread is between its test and its wait. With the fairness of the  *)
(* threads this is why FramesDelivered and CallsReturn hold.               *)
THEOREM WakeupsKept == Spec => []NoSleeper
<1>1. Init => NoSleeper
  BY DEF Init, NoSleeper, ConsumerWoken, ProducerWoken
<1>2. IInv /\ NoSleeper /\ [Next]_vars => NoSleeper'
  <2> SUFFICES ASSUME IInv, NoSleeper, [Next]_vars PROVE NoSleeper'
    OBVIOUS
  <2>1. CASE PutCall \/ ProducerStep
    BY <2>1, ProducerWakes DEF ProducerStep
  <2>2. CASE ConsumerLoop \/ ConsumerStep
    BY <2>2, ConsumerWakes DEF ConsumerLoop, ConsumerStep
  <2>3. CASE \E c \in Closers : CloseFlag(c) \/ CloserStep(c)
    BY <2>3, CloserWakes
  <2>4. CASE UNCHANGED vars
    BY <2>4 DEF vars, ring, events, NoSleeper, ConsumerWoken, ProducerWoken, HasRoom
  <2> QED BY <2>1, <2>2, <2>3, <2>4 DEF Next
<1> QED BY <1>1, <1>2, Invariance, PTL DEF Spec

----------------------------------------------------------------------------
(* The frames in the ring, oldest first: what chan stands for in Channel.  *)
InRing == [i \in 1 .. load |-> slots[SlotAt(i - 1)]]

InRingCounts == InRing = [i \in 1 .. load |-> got + i]

(* Sequences of consecutive frame numbers: what Append and Tail do to them.*)
LEMMA CountAppend ==
  ASSUME NEW n \in Nat, NEW g \in Nat
  PROVE  /\ Len([i \in 1 .. n |-> g + i]) = n
         /\ Append([i \in 1 .. n |-> g + i], g + n + 1) = [i \in 1 .. n + 1 |-> g + i]
<1> DEFINE s == [i \in 1 .. n |-> g + i]
<1>1. s \in Seq(Nat) /\ Len(s) = n
  OBVIOUS
<1>2. Append(s, g + n + 1) = [i \in 1 .. n + 1 |-> g + i]
  BY <1>1
<1> QED BY <1>1, <1>2

LEMMA CountTail ==
  ASSUME NEW n \in Nat, n > 0, NEW g \in Nat
  PROVE  /\ [i \in 1 .. n |-> g + i] # <<>>
         /\ Head([i \in 1 .. n |-> g + i]) = g + 1
         /\ Tail([i \in 1 .. n |-> g + i]) = [i \in 1 .. n - 1 |-> (g + 1) + i]
<1> DEFINE s == [i \in 1 .. n |-> g + i]
<1>1. s \in Seq(Nat) /\ Len(s) = n
  OBVIOUS
<1>2. s # <<>> /\ Head(s) = g + 1
  BY <1>1
<1>3. Tail(s) = [i \in 1 .. n - 1 |-> (g + 1) + i]
  BY <1>1
<1> QED BY <1>2, <1>3

LEMMA InRingValue == IInv => InRingCounts
<1> SUFFICES ASSUME IInv PROVE InRing = [i \in 1 .. load |-> got + i]
  BY DEF InRingCounts
<1> USE DEF IInv, TypeOK
<1>1. ASSUME NEW i \in 1 .. load
      PROVE  slots[SlotAt(i - 1)] = got + i
  <2>1. i - 1 \in 0 .. Capacity /\ i - 1 < load
    OBVIOUS
  <2>2. slots[SlotAt(i - 1)] = got + (i - 1) + 1
    BY <2>1 DEF RingConsistent
  <2> QED BY <2>2
<1> QED BY <1>1 DEF InRing

LEMMA InRingValueNext == IInv' => InRingCounts'
  BY InRingValue, PTL

LEMMA StoreIsSend ==
  ASSUME IInv, IInv', PutStore
  PROVE  Channel!Send
<1>1. /\ load < Capacity /\ load' = load + 1 /\ load \in Nat
      /\ enq = got + load /\ enq' = enq + 1 /\ got' = got
      /\ got \in Nat
  BY DEF IInv, TypeOK, RingConsistent, PutStore, HasRoom, QueueSize
<1>2. InRing' = [i \in 1 .. load' |-> got' + i]
  BY InRingValueNext DEF InRingCounts
<1>3. Len(InRing) = load /\ InRing' = Append(InRing, enq + 1)
  BY <1>1, <1>2, InRingValue, CountAppend DEF InRingCounts
<1>4. ~late
  BY DEF IInv, LateMeansOver, PutStore, ProducerAt
<1>5. late' = end /\ UNCHANGED <<got, end>>
  BY DEF PutStore
<1> QED BY <1>1, <1>3, <1>4, <1>5 DEF Channel!Send, InRing

LEMMA TakeIsReceive ==
  ASSUME IInv, IInv', GetTake
  PROVE  Channel!Receive
<1>1. /\ load > 0 /\ load' = load - 1 /\ load \in Nat
      /\ got' = got + 1 /\ got \in Nat
  <2>1. enq = got + load /\ enq' = got' + load' /\ enq' = enq
    BY DEF IInv, RingConsistent, GetTake
  <2> QED BY <2>1 DEF IInv, TypeOK, GetTake
<1>2. InRing' = [i \in 1 .. load' |-> got' + i]
  BY InRingValueNext DEF InRingCounts
<1>3. InRing # <<>> /\ Head(InRing) = got' /\ InRing' = Tail(InRing)
  <2>1. InRing = [i \in 1 .. load |-> got + i]
    BY InRingValue DEF InRingCounts
  <2>2. InRing # <<>> /\ Head(InRing) = got + 1
    BY <1>1, <2>1, CountTail
  <2>3. Tail(InRing) = [i \in 1 .. load - 1 |-> (got + 1) + i]
    BY <1>1, <2>1, CountTail
  <2> QED BY <1>1, <1>2, <2>2, <2>3
<1>4. UNCHANGED <<enq, end, late>>
  BY DEF GetTake
<1> QED BY <1>3, <1>4 DEF Channel!Receive, InRing

LEMMA QuietIsCloseOrStutter ==
  ASSUME IInv, QuietStep
  PROVE  Channel!Close \/ UNCHANGED Channel!chVars
<1>1. UNCHANGED <<ring, enq, got, late>>
  BY QuietRing DEF IInv
<1>2. UNCHANGED InRing
  BY <1>1 DEF InRing, SlotAt, ring
<1>3. end' = TRUE \/ end' = end
  <2>1. CASE PutCall \/ PutTest \/ PutFull \/ PutWake
    BY <2>1 DEF PutCall, PutTest, PutFull, PutWake
  <2>2. CASE (\E t \in BOOLEAN : GetCall(t)) \/ ConsumerQuit
    BY <2>2 DEF GetCall, ConsumerQuit
  <2>3. CASE GetEmpty \/ GetEndOfStream \/ GetBlock \/ GetWake \/ GetTimeout
    BY <2>3 DEF GetEmpty, GetEndOfStream, GetBlock, GetWake, GetTimeout
  <2>4. CASE \E c \in Closers : CloseFlag(c) \/ CloserStep(c)
    BY <2>4 DEF CloseFlag, CloserStep, CloseSignalGet, CloseSignalPut
  <2> QED BY <2>1, <2>2, <2>3, <2>4 DEF QuietStep
<1> QED BY <1>1, <1>2, <1>3 DEF Channel!Close, Channel!chVars, InRing

(* CDVQueue implements the bounded channel: no accepted frame is lost,     *)
(* repeated or reordered, the capacity is never exceeded, and at most one  *)
(* frame is accepted after the close.                                      *)
THEOREM Refinement == Spec => ImplementsChannel
<1>1. Init => Channel!Init
  <2> SUFFICES ASSUME Init PROVE Channel!Init
    OBVIOUS
  <2>1. InRing = <<>>
    BY DEF Init, InRing
  <2> QED BY <2>1 DEF Init, Channel!Init, InRing
<1>2. IInv /\ IInv' /\ [Next]_vars => [Channel!Next]_(Channel!chVars)
  <2> SUFFICES ASSUME IInv, IInv', [Next]_vars
               PROVE  [Channel!Next]_(Channel!chVars)
    OBVIOUS
  <2>1. CASE QuietStep
    BY <2>1, QuietIsCloseOrStutter DEF Channel!Next
  <2>2. CASE PutStore
    BY <2>2, StoreIsSend DEF Channel!Next
  <2>3. CASE GetTake
    BY <2>3, TakeIsReceive DEF Channel!Next
  <2>4. CASE UNCHANGED vars
    BY <2>4 DEF vars, ring, events, Channel!chVars, SlotAt
  <2> QED BY <2>1, <2>2, <2>3, <2>4, NextSplit
<1> QED BY <1>1, <1>2, Invariance, PTL DEF Spec, ImplementsChannel, Channel!Spec
=============================================================================
