---------------------------- MODULE MemAllocator ----------------------------
(***************************************************************************)
(* CMemAllocator over CBaseAllocator: the pool of sample buffers between a *)
(* COutputGraph and the filter below it. Each action is one pass through   *)
(* the critical section of the allocator, or the wait between two passes.  *)
(* The modules of the outputs take these actions as parts of their steps.  *)
(*                                                                         *)
(* A buffer is a CMediaSample; its memory stays allocated until the        *)
(* allocator is deleted, so Free and a second Alloc change nothing here.   *)
(* The free list is a set: which free buffer is handed out is left open.   *)
(***************************************************************************)
EXTENDS Naturals, FiniteSets

CONSTANTS
  Buffers,   \* the cBuffers samples the two pins agreed on
  Getters    \* the threads that call GetBuffer

ASSUME BuffersAssumption == IsFiniteSet(Buffers) /\ Buffers # {}
ASSUME GettersAssumption == IsFiniteSet(Getters)

VARIABLES
  committed,      \* m_bCommitted
  decommitting,   \* m_bDecommitInProgress
  free,           \* m_lFree
  waiting,        \* m_lWaiting
  sem,            \* the count of m_hSem
  ref,            \* m_cRef of every sample
  parked          \* the threads between SetWaiting and the end of their wait

allocVars == <<committed, decommitting, free, waiting, sem, ref, parked>>

AllocInit(runs) ==
  /\ committed = runs
  /\ decommitting = FALSE
  /\ free = Buffers
  /\ waiting = 0
  /\ sem = 0
  /\ ref = [b \in Buffers |-> 0]
  /\ parked = {}

----------------------------------------------------------------------------
(* CBaseAllocator::GetBuffer: one turn of its loop for each of these.      *)

GetBuffer(t, b) ==
  /\ t \notin parked
  /\ committed
  /\ b \in free
  /\ free' = free \ {b}
  /\ ref' = [ref EXCEPT ![b] = 1]
  /\ UNCHANGED <<committed, decommitting, waiting, sem, parked>>

GetBufferWaits(t) ==
  /\ t \notin parked
  /\ committed
  /\ free = {}
  /\ waiting' = waiting + 1
  /\ parked' = parked \cup {t}
  /\ UNCHANGED <<committed, decommitting, free, sem, ref>>

GetBufferFails(t) ==
  /\ t \notin parked
  /\ ~committed
  /\ UNCHANGED allocVars

(* The woken thread takes itself off m_lWaiting once more.                 *)
CountedTwiceMutant(t) ==
  /\ t \in parked
  /\ sem > 0
  /\ sem' = sem - 1
  /\ waiting' = waiting - 1
  /\ parked' = parked \ {t}
  /\ UNCHANGED <<committed, decommitting, free, ref>>

GetBufferWoken(t) ==
  /\ t \in parked
  /\ sem > 0
  /\ sem' = sem - 1
  /\ parked' = parked \ {t}
  /\ UNCHANGED <<committed, decommitting, free, waiting, ref>>

(* NotifySample: every thread that waits is let go at once.                *)
NotifySample ==
  /\ sem' = sem + waiting
  /\ waiting' = 0

----------------------------------------------------------------------------
AddRef(b) ==
  /\ ref' = [ref EXCEPT ![b] = @ + 1]
  /\ UNCHANGED <<committed, decommitting, free, waiting, sem, parked>>

(* CBaseAllocator::ReleaseBuffer: back on the free list.                   *)
ReleaseBuffer(b) ==
  /\ free' = free \cup {b}
  /\ NotifySample
  /\ decommitting' = (decommitting /\ free' # Buffers)

(* CMediaSample::Release: the last reference gives the buffer back.        *)
Release(b) ==
  /\ ref[b] > 0
  /\ ref' = [ref EXCEPT ![b] = @ - 1]
  /\ \/ ref[b] > 1 /\ UNCHANGED <<decommitting, free, waiting, sem>>
     \/ ref[b] = 1 /\ ReleaseBuffer(b)
  /\ UNCHANGED <<committed, parked>>

Commit ==
  /\ ~committed
  /\ committed' = TRUE
  /\ decommitting' = FALSE
  /\ UNCHANGED <<free, waiting, sem, ref, parked>>

Decommit ==
  /\ committed \/ decommitting
  /\ committed' = FALSE
  /\ decommitting' = (free # Buffers)
  /\ NotifySample
  /\ UNCHANGED <<free, ref, parked>>

----------------------------------------------------------------------------
AllocTypeOK ==
  /\ committed \in BOOLEAN
  /\ decommitting \in BOOLEAN
  /\ free \subseteq Buffers
  /\ waiting \in Nat
  /\ sem \in Nat
  /\ ref \in [Buffers -> Nat]
  /\ parked \subseteq Getters

(* What the comment in amfilter.h (1412-1416) promises whenever the lock   *)
(* is free: nobody is counted as waiting while there is a free buffer, and *)
(* every thread about to wait is either counted or has a signal to take.   *)
WaitersCounted ==
  /\ free # {} => waiting = 0
  /\ waiting + sem = Cardinality(parked)

(* A buffer is on the free list exactly when nobody holds a reference, and *)
(* a Decommit stays pending exactly as long as a buffer is out.            *)
PoolConsistent ==
  /\ \A b \in Buffers : b \in free <=> ref[b] = 0
  /\ decommitting => ~committed /\ free # Buffers
  /\ ~committed => waiting = 0
=============================================================================
