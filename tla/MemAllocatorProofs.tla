------------------------- MODULE MemAllocatorProofs -------------------------
(***************************************************************************)
(* Lemmas about MemAllocator, for any number of buffers and of threads:    *)
(* every action of the pool keeps its types, counts its waiters, and keeps *)
(* the free list true to the reference counts. The modules that use the    *)
(* pool cite one lemma for each of their steps.                            *)
(***************************************************************************)
EXTENDS MemAllocator, FiniteSetTheorems, TLAPS

PoolInv == AllocTypeOK /\ WaitersCounted /\ PoolConsistent

(* What the users of the pool need to know of its references.              *)
Untouched == UNCHANGED <<free, ref>>

LEMMA ParkedFinite ==
  ASSUME AllocTypeOK
  PROVE  IsFiniteSet(parked)
  BY GettersAssumption, FS_Subset DEF AllocTypeOK

LEMMA PoolStarts ==
  ASSUME NEW runs \in BOOLEAN, AllocInit(runs)
  PROVE  PoolInv
<1> USE DEF AllocInit
<1>1. AllocTypeOK
  BY DEF AllocTypeOK
<1>2. WaitersCounted
  BY FS_EmptySet DEF WaitersCounted
<1>3. PoolConsistent
  BY DEF PoolConsistent
<1> QED BY <1>1, <1>2, <1>3 DEF PoolInv

LEMMA PoolStays ==
  ASSUME PoolInv, UNCHANGED allocVars
  PROVE  PoolInv' /\ Untouched
<1> USE DEF allocVars
<1>1. AllocTypeOK'
  BY DEF PoolInv, AllocTypeOK
<1>2. WaitersCounted'
  BY DEF PoolInv, WaitersCounted
<1>3. PoolConsistent'
  BY DEF PoolInv, PoolConsistent
<1> QED BY <1>1, <1>2, <1>3 DEF PoolInv, Untouched

(* A thread gets a buffer nobody holds.                                    *)
LEMMA GetBufferKeeps ==
  ASSUME PoolInv, NEW t, NEW b, GetBuffer(t, b)
  PROVE  PoolInv' /\ b \in Buffers /\ ref[b] = 0 /\ ref' = [ref EXCEPT ![b] = 1]
<1> USE DEF GetBuffer
<1>1. b \in Buffers /\ ref[b] = 0
  BY DEF PoolInv, AllocTypeOK, PoolConsistent
<1>2. AllocTypeOK'
  BY DEF PoolInv, AllocTypeOK
<1>3. WaitersCounted'
  BY DEF PoolInv, WaitersCounted
<1>4. PoolConsistent'
  BY <1>1 DEF PoolInv, AllocTypeOK, PoolConsistent
<1> QED BY <1>1, <1>2, <1>3, <1>4 DEF PoolInv

(* The last waiter counted is a thread on its way into the wait.           *)
LEMMA GetBufferWaitsKeeps ==
  ASSUME PoolInv, NEW t \in Getters, GetBufferWaits(t)
  PROVE  PoolInv' /\ Untouched
<1> USE DEF GetBufferWaits
<1>1. AllocTypeOK'
  BY DEF PoolInv, AllocTypeOK
<1>2. WaitersCounted'
  <2>1. Cardinality(parked \cup {t}) = Cardinality(parked) + 1
    BY ParkedFinite, FS_AddElement DEF PoolInv
  <2>2. Cardinality(parked) \in Nat /\ waiting \in Nat /\ sem \in Nat
    BY ParkedFinite, FS_CardinalityType DEF PoolInv, AllocTypeOK
  <2> QED BY <2>1, <2>2 DEF PoolInv, WaitersCounted
<1>3. PoolConsistent'
  BY DEF PoolInv, PoolConsistent
<1> QED BY <1>1, <1>2, <1>3 DEF PoolInv, Untouched

LEMMA GetBufferWokenKeeps ==
  ASSUME PoolInv, NEW t, GetBufferWoken(t)
  PROVE  PoolInv' /\ Untouched
<1> USE DEF GetBufferWoken
<1>1. AllocTypeOK'
  BY DEF PoolInv, AllocTypeOK
<1>2. WaitersCounted'
  <2>1. Cardinality(parked \ {t}) = Cardinality(parked) - 1
    BY ParkedFinite, FS_RemoveElement DEF PoolInv
  <2>2. Cardinality(parked) \in Nat /\ waiting \in Nat /\ sem \in Nat
    BY ParkedFinite, FS_CardinalityType DEF PoolInv, AllocTypeOK
  <2> QED BY <2>1, <2>2 DEF PoolInv, WaitersCounted
<1>3. PoolConsistent'
  BY DEF PoolInv, PoolConsistent
<1> QED BY <1>1, <1>2, <1>3 DEF PoolInv, Untouched

(* Everybody who waits is let go.                                          *)
LEMMA NotifyKeepsCount ==
  ASSUME PoolInv, NotifySample, parked' = parked
  PROVE  WaitersCounted' /\ waiting' \in Nat /\ sem' \in Nat /\ waiting' = 0
<1>1. waiting \in Nat /\ sem \in Nat
  BY DEF PoolInv, AllocTypeOK
<1> QED BY <1>1 DEF NotifySample, PoolInv, WaitersCounted

(* Only a holder of the buffer may add a reference.                        *)
LEMMA AddRefKeeps ==
  ASSUME PoolInv, NEW b \in Buffers, ref[b] > 0, AddRef(b)
  PROVE  PoolInv' /\ ref' = [ref EXCEPT ![b] = @ + 1]
<1> USE DEF AddRef
<1>1. AllocTypeOK'
  BY DEF PoolInv, AllocTypeOK
<1>2. WaitersCounted'
  BY DEF PoolInv, WaitersCounted
<1>3. PoolConsistent'
  BY DEF PoolInv, AllocTypeOK, PoolConsistent
<1> QED BY <1>1, <1>2, <1>3 DEF PoolInv

LEMMA ReleaseKeeps ==
  ASSUME PoolInv, NEW b \in Buffers, Release(b)
  PROVE  PoolInv' /\ ref[b] > 0 /\ ref' = [ref EXCEPT ![b] = @ - 1]
<1> USE DEF Release
<1>1. ref \in [Buffers -> Nat] /\ free \subseteq Buffers
  BY DEF PoolInv, AllocTypeOK
<1>2. ref' \in [Buffers -> Nat]
  BY <1>1
<1>3. CASE ref[b] > 1 /\ UNCHANGED <<decommitting, free, waiting, sem>>
  <2>1. AllocTypeOK'
    BY <1>2, <1>3 DEF PoolInv, AllocTypeOK
  <2>2. WaitersCounted'
    BY <1>3 DEF PoolInv, WaitersCounted
  <2>3. PoolConsistent'
    BY <1>1, <1>3 DEF PoolInv, PoolConsistent
  <2> QED BY <2>1, <2>2, <2>3 DEF PoolInv
<1>4. CASE ref[b] = 1 /\ ReleaseBuffer(b)
  <2> USE <1>4 DEF ReleaseBuffer
  <2>1. WaitersCounted' /\ waiting' \in Nat /\ sem' \in Nat /\ waiting' = 0
    BY NotifyKeepsCount
  <2>2. decommitting' \in BOOLEAN
    OBVIOUS
  <2>3. AllocTypeOK'
    BY <1>1, <1>2, <2>1, <2>2 DEF PoolInv, AllocTypeOK
  <2>4. PoolConsistent'
    <3>1. decommitting' => ~committed' /\ free' # Buffers
      BY DEF PoolInv, PoolConsistent
    <3>2. \A c \in Buffers : c \in free' <=> ref'[c] = 0
      BY <1>1 DEF PoolInv, PoolConsistent
    <3> QED BY <2>1, <3>1, <3>2 DEF PoolConsistent
  <2> QED BY <2>1, <2>3, <2>4 DEF PoolInv
<1> QED BY <1>3, <1>4

LEMMA CommitKeeps ==
  ASSUME PoolInv, Commit
  PROVE  PoolInv' /\ Untouched
<1> USE DEF Commit
<1>1. AllocTypeOK'
  BY DEF PoolInv, AllocTypeOK
<1>2. WaitersCounted'
  BY DEF PoolInv, WaitersCounted
<1>3. PoolConsistent'
  BY DEF PoolInv, PoolConsistent
<1> QED BY <1>1, <1>2, <1>3 DEF PoolInv, Untouched

LEMMA DecommitKeeps ==
  ASSUME PoolInv, Decommit
  PROVE  PoolInv' /\ Untouched
<1> USE DEF Decommit
<1>1. WaitersCounted' /\ waiting' \in Nat /\ sem' \in Nat /\ waiting' = 0
  BY NotifyKeepsCount
<1>2. decommitting' \in BOOLEAN
  OBVIOUS
<1>3. AllocTypeOK'
  BY <1>1, <1>2 DEF PoolInv, AllocTypeOK
<1>4. PoolConsistent'
  BY <1>1 DEF PoolInv, PoolConsistent
<1> QED BY <1>1, <1>3, <1>4 DEF PoolInv, Untouched
=============================================================================
