------------------------------ MODULE DVQueue ------------------------------
(***************************************************************************)
(* CDVQueue (DShow.h, DShow.cpp): the ring of DV frames between the thread *)
(* that produces frames (the DirectShow streaming thread) and the worker   *)
(* thread that consumes them (CapturingThread or RecordingThread).         *)
(*                                                                         *)
(* A critical section of m_cs is one step. Everything the code does        *)
(* outside m_cs is a step of its own, because another thread can run       *)
(* there: the test of m_end, the wait for an event, and each of the three  *)
(* statements of Put(NULL), which takes no lock at all.                    *)
(*                                                                         *)
(* m_evPut and m_evGet are CEvents made by the default constructor, hence  *)
(* auto-reset: a successful wait clears the event it waited for.           *)
(*                                                                         *)
(* A frame is its number in the order of acceptance: the payload, the      *)
(* duration and the clamped length travel with it and nothing depends on   *)
(* them.                                                                   *)
(***************************************************************************)
EXTENDS Integers, Sequences

CONSTANTS
  Capacity,   \* the queueSize argument of the constructor
  MaxFrames   \* bound: how many frames the producer offers

ASSUME CapacityAssumption == Capacity \in Nat \ {0}
ASSUME MaxFramesAssumption == MaxFrames \in Nat

VARIABLES
  slots,     \* frame stored in each ring slot, 0 when never written
  head,      \* m_head
  tail,      \* m_tail
  load,      \* m_load
  end,       \* m_end
  evPut,     \* m_evPut is signaled
  evGet,     \* m_evGet is signaled
  ppc,       \* where the producer is in Put
  cpc,       \* where the consumer is in Get or GetWithTimeout
  timed,     \* the consumer's call has a timeout
  closing,   \* how far each closer is in Put(NULL)
  enq,       \* number of frames stored so far
  got,       \* the frame the last successful Get returned, 0 before it
  held,      \* the slot the consumer's data pointer refers to
  late       \* a frame was stored after m_end was set

ring == <<slots, head, tail, load>>
events == <<evPut, evGet>>
vars == <<ring, events, end, ppc, cpc, timed, closing, enq, got, held, late>>

QueueSize == Capacity + 1      \* m_queueSize: one slot more than the capacity
Slots == 0 .. QueueSize - 1
NoSlot == -1

(* Who calls Put(NULL): the source at its end of stream, and CDV::Destroy. *)
Closers == {"source", "destroy"}

ProducerAt(from, to) == ppc = from /\ ppc' = to
ConsumerAt(from, to) == cpc = from /\ cpc' = to
CloserAt(c, from, to) == closing[c] = from /\ closing' = [closing EXCEPT ![c] = to]

Init ==
  /\ slots = [s \in Slots |-> 0]
  /\ head = 0 /\ tail = 0 /\ load = 0
  /\ end = FALSE
  /\ evPut = FALSE /\ evGet = FALSE
  /\ ppc = "idle" /\ cpc = "idle" /\ timed = FALSE
  /\ closing = [c \in Closers |-> "open"]
  /\ enq = 0 /\ got = 0 /\ held = NoSlot /\ late = FALSE

(* The mutants named ...Mutant are bugs this code could have had; each     *)
(* breaks a property below when it replaces the definition after it.       *)
UnwrappedAdvanceMutant(i) == i + 1
ShortRingAdvanceMutant(i) == (i + 1) % Capacity
Advance(i) == (i + 1) % QueueSize

NoSpareSlotMutant == load < QueueSize
HasRoom == load < QueueSize - 1

----------------------------------------------------------------------------
(* The producer: Put(duration, data, len) with data # NULL.                *)

PutCall ==
  /\ enq < MaxFrames
  /\ ProducerAt("idle", "test")
  /\ UNCHANGED <<ring, events, end, cpc, timed, closing, enq, got, held, late>>

PutTestMutant ==
  /\ ProducerAt("test", "lock")
  /\ UNCHANGED <<ring, events, end, cpc, timed, closing, enq, got, held, late>>

(* while(!m_end), read without the lock.                                   *)
PutTest ==
  /\ ProducerAt("test", IF end THEN "idle" ELSE "lock")
  /\ UNCHANGED <<ring, events, end, cpc, timed, closing, enq, got, held, late>>

(* Room in the ring: store the frame, wake the consumer and return.        *)
PutStore ==
  /\ ProducerAt("lock", "idle")
  /\ HasRoom
  /\ slots' = [slots EXCEPT ![tail] = enq + 1]
  /\ tail' = Advance(tail)
  /\ load' = load + 1
  /\ evGet' = TRUE
  /\ enq' = enq + 1
  /\ late' = end
  /\ UNCHANGED <<head, evPut, end, cpc, timed, closing, got, held>>

PutFull ==
  /\ ProducerAt("lock", "wait")
  /\ ~HasRoom
  /\ UNCHANGED <<ring, events, end, cpc, timed, closing, enq, got, held, late>>

PutWake ==
  /\ ProducerAt("wait", "test")
  /\ evPut
  /\ evPut' = FALSE
  /\ UNCHANGED <<ring, evGet, end, cpc, timed, closing, enq, got, held, late>>

----------------------------------------------------------------------------
(* The consumer: Get, or GetWithTimeout when timed.                        *)

GetCall(withTimeout) ==
  /\ ConsumerAt("idle", "lock")
  /\ timed' = withTimeout
  /\ UNCHANGED <<ring, events, end, ppc, closing, enq, got, held, late>>

(* A frame is there: return a pointer into its slot and free the slot.     *)
GetTake ==
  /\ ConsumerAt("lock", "idle")
  /\ load > 0
  /\ got' = slots[head]
  /\ held' = head
  /\ head' = Advance(head)
  /\ load' = load - 1
  /\ evPut' = TRUE
  /\ UNCHANGED <<slots, tail, evGet, end, ppc, timed, closing, enq, late>>

GetEmpty ==
  /\ ConsumerAt("lock", "ended")
  /\ ~(load > 0)
  /\ UNCHANGED <<ring, events, end, ppc, timed, closing, enq, got, held, late>>

(* if (m_end) return false: tested after m_cs was released.                *)
GetEndOfStream ==
  /\ ConsumerAt("ended", "idle")
  /\ end
  /\ UNCHANGED <<ring, events, end, ppc, timed, closing, enq, got, held, late>>

ResetBeforeWaitMutant ==
  /\ ConsumerAt("ended", "wait")
  /\ ~end
  /\ evGet' = FALSE
  /\ UNCHANGED <<ring, evPut, end, ppc, timed, closing, enq, got, held, late>>

GetBlock ==
  /\ ConsumerAt("ended", "wait")
  /\ ~end
  /\ UNCHANGED <<ring, events, end, ppc, timed, closing, enq, got, held, late>>

GetWake ==
  /\ ConsumerAt("wait", "lock")
  /\ evGet
  /\ evGet' = FALSE
  /\ UNCHANGED <<ring, evPut, end, ppc, timed, closing, enq, got, held, late>>

(* WAIT_TIMEOUT: only GetWithTimeout, and only while not signaled.         *)
GetTimeout ==
  /\ ConsumerAt("wait", "idle")
  /\ timed
  /\ ~evGet
  /\ UNCHANGED <<ring, events, end, ppc, timed, closing, enq, got, held, late>>

(* The worker's loop ends once Destroy has begun: it stores Idle in        *)
(* m_state before it calls Put(NULL).                                      *)
ConsumerQuit ==
  /\ ConsumerAt("idle", "stopped")
  /\ closing["destroy"] # "open"
  /\ UNCHANGED <<ring, events, end, ppc, timed, closing, enq, got, held, late>>

----------------------------------------------------------------------------
(* A closer: Put(-1, NULL, 0), three statements without the lock.          *)

CloseFlag(c) ==
  /\ CloserAt(c, "open", "flagged")
  /\ end' = TRUE
  /\ UNCHANGED <<ring, events, ppc, cpc, timed, enq, got, held, late>>

CloseSignalGet(c) ==
  /\ CloserAt(c, "flagged", "halfway")
  /\ evGet' = TRUE
  /\ UNCHANGED <<ring, evPut, end, ppc, cpc, timed, enq, got, held, late>>

SilentSignalPutMutant(c) ==
  /\ CloserAt(c, "halfway", "done")
  /\ UNCHANGED <<ring, events, end, ppc, cpc, timed, enq, got, held, late>>

CloseSignalPut(c) ==
  /\ CloserAt(c, "halfway", "done")
  /\ evPut' = TRUE
  /\ UNCHANGED <<ring, evGet, end, ppc, cpc, timed, enq, got, held, late>>

----------------------------------------------------------------------------
ProducerStep == PutTest \/ PutStore \/ PutFull \/ PutWake
ConsumerStep ==
  GetTake \/ GetEmpty \/ GetEndOfStream \/ GetBlock \/ GetWake \/ GetTimeout
ConsumerLoop == (\E t \in BOOLEAN : GetCall(t)) \/ ConsumerQuit
CloserStep(c) == CloseSignalGet(c) \/ CloseSignalPut(c)

Next ==
  \/ PutCall \/ ProducerStep
  \/ ConsumerLoop \/ ConsumerStep
  \/ \E c \in Closers : CloseFlag(c) \/ CloserStep(c)

(* A thread inside a call is scheduled until the call returns, and the     *)
(* worker keeps calling Get until it stops. Nothing forces a frame to      *)
(* arrive or anyone to close.                                              *)
Fairness ==
  /\ WF_vars(ProducerStep)
  /\ WF_vars(ConsumerStep)
  /\ WF_vars(ConsumerLoop)
  /\ \A c \in Closers : WF_vars(CloserStep(c))

Spec == Init /\ [][Next]_vars /\ Fairness

----------------------------------------------------------------------------
(* The slot that lies d places after the head of the ring.                 *)
SlotAt(d) == IF head + d < QueueSize THEN head + d ELSE head + d - QueueSize

TypeOK ==
  /\ slots \in [Slots -> Nat]
  /\ head \in Slots /\ tail \in Slots /\ load \in 0 .. Capacity
  /\ end \in BOOLEAN /\ evPut \in BOOLEAN /\ evGet \in BOOLEAN
  /\ timed \in BOOLEAN /\ late \in BOOLEAN
  /\ ppc \in {"idle", "test", "lock", "wait"}
  /\ cpc \in {"idle", "lock", "ended", "wait", "stopped"}
  /\ closing \in [Closers -> {"open", "flagged", "halfway", "done"}]
  /\ enq \in Nat /\ got \in Nat
  /\ held \in Slots \cup {NoSlot}

(* The three ring indices agree, and the occupied slots hold exactly the   *)
(* frames accepted and not yet taken, in the order of Put (the bookkeeping *)
(* m_head, m_tail and m_load share between Put and Get).                   *)
RingConsistent ==
  /\ tail = SlotAt(load)
  /\ enq = got + load
  /\ \A d \in 0 .. Capacity : d < load => slots[SlotAt(d)] = got + d + 1

(* The frame the consumer still reads through the pointer Get returned is  *)
(* not overwritten by the Puts that run meanwhile: the spare slot of the   *)
(* ring protects it until the next successful Get, even after a Get that   *)
(* returned false (RecordingThread goes on using the last frame then).     *)
HeldFrameIntact == held # NoSlot => slots[held] = got

(* A Put in progress returns: a producer blocked on a full ring is woken   *)
(* by the next Get, or by Put(NULL) when the worker has stopped reading.   *)
(* CDV::Destroy relies on it: stopping the source waits for its last Put.  *)
PutReturns == (ppc # "idle") ~> (ppc = "idle")

(* Every frame Put accepts is eventually returned by a Get as long as the  *)
(* worker keeps reading: no wake-up is lost between the two events.        *)
FramesDelivered ==
  \A f \in 1 .. MaxFrames : (enq >= f) ~> (got >= f \/ cpc = "stopped")

(* Once end of stream is announced, a consumer that waits without a        *)
(* timeout returns too, although no frame will wake it.                    *)
GetReturnsAtEnd == end ~> (cpc \in {"idle", "stopped"})

(* No call is left waiting, on either side of the ring.                    *)
CallsReturn == PutReturns /\ GetReturnsAtEnd

(* The ring implements the abstract channel.                               *)
Channel == INSTANCE FrameChannel WITH
  chan <- [i \in 1 .. load |-> slots[SlotAt(i - 1)]],
  sent <- enq, last <- got, closed <- end

ImplementsChannel == Channel!Spec

(* What the comment above CDVQueue::Get says of its result: false means    *)
(* that m_end is set and the ring is empty.                                *)
FalseMeansDrained == [][GetEndOfStream => load = 0]_vars
=============================================================================
