--------------------------- MODULE DVOutputProofs ---------------------------
(***************************************************************************)
(* Proofs about DVOutput, for any number of buffers and of frames: the     *)
(* pool and the queue in front of the DV device lose no buffer and no      *)
(* signal, and the device gets the frames of the recording as SampleStream *)
(* promises.                                                               *)
(***************************************************************************)
EXTENDS DVOutput, MemAllocatorProofs, SequenceTheorems

USE DVOutputAssumption

(* Where the application has a buffer, where the thread of the queue has a *)
(* sample, and from where on no frame is sent.                             *)
Filling == {"fill", "deliver", "release"}
Carrying == {"send", "receive", "release"}
Closing == {"complete", "delete", "join", "closed"}

Samples == Buffers \cup {EOS_PACKET}

OwnTypes ==
  /\ apc \in {"stopped", "idle", "get"} \cup Filling \cup Closing
  /\ tpc \in {"none", "collect", "wait", "eos", "ended"} \cup Carrying
  /\ list \in Seq(Samples)
  /\ lWaiting \in Nat /\ qsem \in Nat
  /\ terminate \in BOOLEAN /\ hrOK \in BOOLEAN /\ stalled \in BOOLEAN
  /\ content \in [Buffers -> Nat]
  /\ sent \in Nat /\ got \in Nat /\ ended \in BOOLEAN

(* Who holds a buffer. The one that is being filled has no other holder.   *)
PlacesInv ==
  /\ hold \in IF apc \in Filling THEN Buffers ELSE {NoBuffer}
  /\ batch \in IF tpc \in Carrying THEN Buffers ELSE {NoBuffer}
  /\ kept \subseteq Buffers
  /\ apc \in {"fill", "deliver"} => ~InList(hold) /\ batch # hold /\ hold \notin kept
  /\ \A b \in Buffers :
       ref[b] = One(hold = b) + One(InList(b)) + One(batch = b) + One(b \in kept)

(* No sample is in the list twice, and EOS_PACKET is its end.              *)
ListInv ==
  /\ \A i, j \in 1 .. Len(list) : list[i] = list[j] => i = j
  /\ \A i \in 1 .. Len(list) : list[i] = EOS_PACKET => i = Len(list)
  /\ InList(EOS_PACKET) \/ tpc = "eos" \/ ended => apc \in Closing
  /\ tpc = "eos" \/ ended => list = <<>>
  /\ apc = "stopped" => tpc = "none"

WakeInv ==
  /\ lWaiting + qsem = One(tpc = "wait")
  /\ lWaiting > 0 => list = <<>> /\ ~terminate

(* The frames under way, from the one after the last the device took: the  *)
(* sample of the thread, then the list. Once m_hr has failed only a sample *)
(* already inside Receive can still be taken.                              *)
Pending == One(tpc \in {"send", "receive"})

StreamInv ==
  /\ apc = "deliver" => content[hold] = sent + 1
  /\ tpc = "receive" \/ (tpc = "send" /\ hrOK) => content[batch] = got + 1 /\ got < sent
  /\ hrOK => /\ \A i \in 1 .. Len(list) :
                  list[i] \in Buffers => content[list[i]] = got + Pending + i
             /\ sent + One(InList(EOS_PACKET)) = got + Pending + Len(list)
  /\ ended => got = sent /\ tpc \notin {"send", "receive", "eos"}
  /\ terminate => ~hrOK

CoreInv == PoolInv /\ OwnTypes /\ PlacesInv /\ ListInv /\ WakeInv /\ StreamInv

(* A sample the device keeps is not on its way to it a second time.        *)
KeptInv ==
  /\ tpc \in {"send", "receive"} => ~InList(batch)
  /\ \A b \in kept : ~InList(b) /\ (batch = b => tpc = "release")

IInv == CoreInv /\ KeptInv

----------------------------------------------------------------------------
(* What entering the list and leaving it do to the list.                   *)
LEMMA Appended ==
  ASSUME OwnTypes, NEW s \in Samples, list' = Append(list, s)
  PROVE  /\ list' \in Seq(Samples)
         /\ Len(list) \in Nat /\ Len(list') = Len(list) + 1
         /\ \A i \in 1 .. Len(list) : list'[i] = list[i]
         /\ list'[Len(list) + 1] = s
         /\ \A x : InList(x)' <=> InList(x) \/ x = s
<1>1. /\ list' \in Seq(Samples)
      /\ Len(list) \in Nat /\ Len(list') = Len(list) + 1
      /\ \A i \in 1 .. Len(list) : list'[i] = list[i]
      /\ list'[Len(list) + 1] = s
  BY DEF OwnTypes
<1>2. ASSUME NEW x PROVE InList(x)' <=> InList(x) \/ x = s
  <2>1. 1 .. Len(list') = 1 .. Len(list) \cup {Len(list) + 1}
    BY <1>1
  <2> QED BY <1>1, <2>1 DEF InList
<1> QED BY <1>1, <1>2

LEMMA HeadTaken ==
  ASSUME OwnTypes, ListInv, list # <<>>, list' = Tail(list)
  PROVE  /\ list' \in Seq(Samples)
         /\ Len(list) \in Nat /\ Len(list) > 0 /\ Len(list') = Len(list) - 1
         /\ \A i \in 1 .. Len(list') : list'[i] = list[i + 1] /\ i + 1 \in 1 .. Len(list)
         /\ Head(list) = list[1] /\ Head(list) \in Samples /\ InList(Head(list))
         /\ \A x : InList(x)' <=> InList(x) /\ x # Head(list)
<1>1. /\ list' \in Seq(Samples)
      /\ Len(list) \in Nat /\ Len(list) > 0 /\ Len(list') = Len(list) - 1
      /\ \A i \in 1 .. Len(list') : list'[i] = list[i + 1]
      /\ Head(list) = list[1] /\ Head(list) \in Samples
  BY HeadTailProperties DEF OwnTypes
<1>2. \A i \in 1 .. Len(list') : i + 1 \in 1 .. Len(list)
  BY <1>1
<1>3. 1 \in 1 .. Len(list)
  BY <1>1
<1>4. ASSUME NEW x PROVE InList(x)' <=> InList(x) /\ x # Head(list)
  <2>1. ASSUME InList(x)' PROVE InList(x) /\ x # Head(list)
    <3>1. PICK i \in 1 .. Len(list') : list'[i] = x
      BY <2>1 DEF InList
    <3>2. i + 1 \in 1 .. Len(list) /\ list[i + 1] = x /\ i + 1 # 1
      BY <1>1, <1>2, <3>1
    <3> QED BY <1>1, <1>3, <3>2 DEF InList, ListInv
  <2>2. ASSUME InList(x), x # Head(list) PROVE InList(x)'
    <3>1. PICK i \in 1 .. Len(list) : list[i] = x
      BY <2>2 DEF InList
    <3>2. i # 1
      BY <1>1, <2>2, <3>1
    <3>3. i - 1 \in 1 .. Len(list') /\ list'[i - 1] = x
      BY <1>1, <3>1, <3>2
    <3> QED BY <3>3 DEF InList
  <2> QED BY <2>1, <2>2
<1> QED BY <1>1, <1>2, <1>3, <1>4 DEF InList

LEMMA StartsWell == Init => CoreInv
<1> SUFFICES ASSUME Init PROVE CoreInv
  OBVIOUS
<1> USE DEF Init, Filling, Carrying, Closing
<1>1. PoolInv
  BY PoolStarts
<1>2. list \in Seq(Samples) /\ Len(list) = 0
  BY EmptySeq
<1>3. OwnTypes
  BY <1>2 DEF OwnTypes
<1>4. \A x : ~InList(x)
  BY <1>2 DEF InList
<1>5. PlacesInv
  BY <1>4 DEF PlacesInv, One, AllocInit
<1>6. ListInv
  BY <1>2, <1>4 DEF ListInv
<1>7. WakeInv /\ StreamInv
  BY <1>2, <1>4 DEF WakeInv, StreamInv, One, Pending
<1> QED BY <1>1, <1>3, <1>5, <1>6, <1>7 DEF CoreInv

----------------------------------------------------------------------------
(* The steps that move no sample.                                          *)
QuietStep ==
  \/ HandleFrame \/ PointerFails \/ WaitForCompletion \/ DeleteQueue
  \/ ThreadPrepares \/ ThreadWoken \/ ThreadSends \/ ThreadEnds
  \/ DeviceRefuses \/ DeviceStalls
  \/ UNCHANGED vars

LEMMA NextSplit ==
  [Next]_vars =>
    \/ QuietStep
    \/ Active \/ Inactive
    \/ GetDeliveryBuffer \/ CopyMemory \/ Deliver \/ HandleFrameReturns
    \/ DeliverEndOfStream
    \/ ThreadTakes \/ DeviceTakes \/ ThreadReleases \/ FreeSamples
    \/ \E b \in Buffers : DeviceReleases(b)
  BY Zenon DEF Next, FrameStep, CloseStep, ThreadLoop, DeviceReceives, QuietStep

LEMMA QuietKeeps ==
  ASSUME CoreInv, QuietStep
  PROVE  CoreInv'
<1> USE DEF AppStep, ThreadStep, Filling, Carrying, Closing
<1>1. /\ UNCHANGED allocVars /\ UNCHANGED <<hold, list, batch, kept, content, sent, got>>
      /\ hrOK' => hrOK
  BY DEF QuietStep, HandleFrame, PointerFails, WaitForCompletion, DeleteQueue, ThreadPrepares,
         ThreadWoken, ThreadSends, ThreadEnds, DeviceRefuses, DeviceStalls, vars, queue, stream
<1>2. PoolInv' /\ ref' = ref
  BY <1>1, PoolStays DEF CoreInv, Untouched
<1>3. CASE HandleFrame \/ PointerFails \/ WaitForCompletion \/ DeleteQueue
  <2>1. UNCHANGED <<tpc, stalled, ended>> /\ terminate' \in BOOLEAN /\ hrOK' \in BOOLEAN
    BY <1>3 DEF HandleFrame, PointerFails, WaitForCompletion, DeleteQueue, queue, stream,
                CoreInv, OwnTypes
  <2>2. /\ apc' \in {"get", "release", "delete", "join"}
        /\ apc \in Filling <=> apc' \in Filling
        /\ apc \in Closing <=> apc' \in Closing
    BY <1>3 DEF HandleFrame, PointerFails, WaitForCompletion, DeleteQueue
  <2>3. WakeInv' /\ lWaiting' \in Nat /\ qsem' \in Nat /\ (terminate' => ~hrOK')
    BY <1>3, <1>1 DEF HandleFrame, PointerFails, WaitForCompletion, DeleteQueue, queue,
                NotifyThread, CoreInv, OwnTypes, WakeInv, One, StreamInv
  <2>4. OwnTypes'
    BY <1>1, <2>1, <2>2, <2>3 DEF CoreInv, OwnTypes
  <2>5. PlacesInv'
    BY <1>1, <1>2, <2>1, <2>2 DEF CoreInv, PlacesInv, One, InList
  <2>6. ListInv'
    BY <1>1, <2>1, <2>2 DEF CoreInv, ListInv, InList
  <2>7. StreamInv'
    BY <1>1, <2>1, <2>2, <2>3 DEF CoreInv, StreamInv, Pending, One, InList
  <2> QED BY <1>2, <2>3, <2>4, <2>5, <2>6, <2>7 DEF CoreInv
<1>4. CASE ThreadPrepares \/ ThreadWoken \/ ThreadSends \/ ThreadEnds
  <2>1. UNCHANGED <<apc, terminate, hrOK, stalled>>
    BY <1>4 DEF ThreadPrepares, ThreadWoken, ThreadSends, ThreadEnds, queue
  <2>2. WakeInv' /\ lWaiting' \in Nat /\ qsem' \in Nat
    <3> USE DEF CoreInv, OwnTypes, WakeInv, One
    <3>1. CASE ThreadPrepares
      BY <3>1, <1>1 DEF ThreadPrepares
    <3>2. CASE ThreadWoken
      BY <3>2, <1>1 DEF ThreadWoken
    <3>3. CASE ThreadSends \/ ThreadEnds
      <4>1. UNCHANGED <<lWaiting, qsem, terminate>> /\ tpc # "wait" /\ tpc' # "wait"
        BY <3>3 DEF ThreadSends, ThreadEnds, queue
      <4> QED BY <4>1, <1>1
    <3> QED BY <1>4, <3>1, <3>2, <3>3
  <2>3. /\ tpc \in {"collect", "wait", "send", "eos"}
        /\ tpc' \in {"collect", "wait"} \cup {"receive", "release"}
        /\ tpc \in Carrying <=> tpc' \in Carrying
        /\ tpc' = "receive" => hrOK /\ tpc = "send"
        /\ hrOK => Pending' = Pending
    BY <1>4, <2>1 DEF ThreadPrepares, ThreadWoken, ThreadSends, ThreadEnds, Pending, One
  <2>4. OwnTypes'
    <3>1. ended' \in BOOLEAN
      BY <1>4 DEF ThreadPrepares, ThreadWoken, ThreadSends, ThreadEnds, stream, CoreInv, OwnTypes
    <3> QED BY <1>1, <2>1, <2>2, <2>3, <3>1 DEF CoreInv, OwnTypes
  <2>5. PlacesInv'
    BY <1>1, <1>2, <2>1, <2>3 DEF CoreInv, PlacesInv, One, InList
  <2>6. ended' => \/ ended /\ tpc' \notin {"receive", "release"}
                  \/ /\ apc \in Closing /\ list = <<>> /\ got = sent /\ tpc' = "collect"
    <3>1. CASE ended' = ended
      BY <3>1, <2>3, <1>4 DEF CoreInv, StreamInv, ThreadPrepares, ThreadWoken, ThreadSends, ThreadEnds
    <3>2. CASE ThreadEnds
      <4>1. list = <<>> /\ Len(list) = 0 /\ ~InList(EOS_PACKET) /\ Pending = 0 /\ apc \in Closing
        BY <3>2 DEF ThreadEnds, CoreInv, ListInv, InList, Pending, One
      <4> QED BY <3>2, <4>1 DEF ThreadEnds, CoreInv, StreamInv, OwnTypes, One
    <3> QED BY <1>4, <3>1, <3>2 DEF ThreadPrepares, ThreadWoken, ThreadSends, stream
  <2>7. ListInv'
    BY <1>1, <2>1, <2>3, <2>6 DEF CoreInv, ListInv, InList
  <2>8. StreamInv'
    BY <1>1, <2>1, <2>3, <2>6 DEF CoreInv, StreamInv, InList
  <2> QED BY <1>2, <2>2, <2>4, <2>5, <2>7, <2>8 DEF CoreInv
<1>5. CASE DeviceRefuses
  <2>1. /\ UNCHANGED <<apc, lWaiting, qsem, terminate, stalled, ended>> /\ hrOK' = FALSE
        /\ tpc = "receive" /\ tpc' = "release"
    BY <1>5 DEF DeviceRefuses, stream
  <2>2. OwnTypes' /\ WakeInv' /\ ListInv'
    BY <1>1, <2>1 DEF CoreInv, OwnTypes, WakeInv, ListInv, One, InList
  <2>3. PlacesInv'
    BY <1>1, <1>2, <2>1 DEF CoreInv, PlacesInv, One, InList
  <2>4. StreamInv'
    BY <1>1, <2>1 DEF CoreInv, StreamInv
  <2> QED BY <1>2, <2>2, <2>3, <2>4 DEF CoreInv
<1>6. CASE DeviceStalls \/ UNCHANGED vars
  <2>1. UNCHANGED <<apc, tpc, lWaiting, qsem, terminate, hrOK, ended>> /\ stalled' \in BOOLEAN
    BY <1>6 DEF DeviceStalls, vars, queue, stream, CoreInv, OwnTypes
  <2>2. OwnTypes' /\ WakeInv' /\ ListInv'
    BY <1>1, <2>1 DEF CoreInv, OwnTypes, WakeInv, ListInv, One, InList
  <2>3. PlacesInv'
    BY <1>1, <1>2, <2>1 DEF CoreInv, PlacesInv, One, InList
  <2>4. StreamInv'
    BY <1>1, <2>1 DEF CoreInv, StreamInv, Pending, One, InList
  <2> QED BY <1>2, <2>2, <2>3, <2>4 DEF CoreInv
<1> QED BY <1>3, <1>4, <1>5, <1>6 DEF QuietStep

LEMMA GraphKeeps ==
  ASSUME CoreInv, Active \/ Inactive
  PROVE  CoreInv'
<1> USE DEF AppStep, ThreadStep, Filling, Carrying, Closing
<1>1. UNCHANGED <<hold, queue, batch, kept, stalled, content, stream>>
  BY DEF Active, Inactive
<1>2. PoolInv' /\ ref' = ref
  BY CommitKeeps, DecommitKeeps DEF Active, Inactive, CoreInv, Untouched
<1>3. /\ apc' \in {"idle", "closed"} /\ apc \notin Filling
      /\ apc \in Closing <=> apc' \in Closing
      /\ tpc \in {"none", "ended"} /\ tpc' \in {"collect", "ended"}
  BY DEF Active, Inactive, CoreInv, ListInv
<1>4. OwnTypes' /\ WakeInv' /\ ListInv'
  BY <1>1, <1>3 DEF CoreInv, OwnTypes, WakeInv, ListInv, One, InList, queue, stream
<1>5. PlacesInv'
  BY <1>1, <1>2, <1>3 DEF CoreInv, PlacesInv, One, InList, queue
<1>6. StreamInv'
  BY <1>1, <1>3 DEF CoreInv, StreamInv, Pending, One, InList, queue, stream
<1> QED BY <1>2, <1>4, <1>5, <1>6 DEF CoreInv

----------------------------------------------------------------------------
(* The recording worker fills a buffer nobody else holds.                  *)
LEMMA GetDeliveryBufferKeeps ==
  ASSUME CoreInv, GetDeliveryBuffer
  PROVE  CoreInv'
<1> USE DEF Filling, Carrying, Closing
<1>1. /\ UNCHANGED <<queue, tpc, batch, kept, stalled, content, stream>>
      /\ apc = "get" /\ hold = NoBuffer
  BY DEF GetDeliveryBuffer, CoreInv, PlacesInv
<1>2. CASE \E b \in Buffers : GetBuffer(App, b) /\ hold' = b /\ apc' = "fill"
  <2>1. PICK b \in Buffers : GetBuffer(App, b) /\ hold' = b /\ apc' = "fill"
    BY <1>2
  <2>2. PoolInv' /\ ref[b] = 0 /\ ref' = [ref EXCEPT ![b] = 1]
    BY <2>1, GetBufferKeeps DEF CoreInv
  <2>3. ~InList(b) /\ batch # b /\ b \notin kept
    BY <2>2 DEF CoreInv, PlacesInv, One
  <2>4. PlacesInv'
    BY <1>1, <2>1, <2>2, <2>3 DEF CoreInv, PoolInv, AllocTypeOK, PlacesInv, One, InList, queue
  <2>5. OwnTypes' /\ WakeInv' /\ ListInv'
    BY <1>1, <2>1 DEF CoreInv, OwnTypes, WakeInv, ListInv, One, InList, queue, stream
  <2>6. StreamInv'
    BY <1>1, <2>1 DEF CoreInv, StreamInv, Pending, One, InList, queue, stream
  <2> QED BY <2>2, <2>4, <2>5, <2>6 DEF CoreInv
<1>3. CASE (GetBufferWaits(App) \/ GetBufferWoken(App)) /\ UNCHANGED <<apc, hold>>
  <2>1. PoolInv' /\ ref' = ref
    BY <1>3, GetBufferWaitsKeeps, GetBufferWokenKeeps DEF CoreInv, Untouched
  <2>2. OwnTypes' /\ WakeInv' /\ ListInv'
    BY <1>1, <1>3 DEF CoreInv, OwnTypes, WakeInv, ListInv, One, InList, queue, stream
  <2>3. PlacesInv'
    BY <1>1, <1>3, <2>1 DEF CoreInv, PlacesInv, One, InList, queue
  <2>4. StreamInv'
    BY <1>1, <1>3 DEF CoreInv, StreamInv, Pending, One, InList, queue, stream
  <2> QED BY <2>1, <2>2, <2>3, <2>4 DEF CoreInv
<1> QED BY <1>2, <1>3 DEF GetDeliveryBuffer

LEMMA CopyMemoryKeeps ==
  ASSUME CoreInv, CopyMemory
  PROVE  CoreInv'
<1> USE DEF AppStep, Filling, Carrying, Closing
<1>1. /\ UNCHANGED <<allocVars, hold, queue, tpc, batch, kept, stalled, stream>>
      /\ apc = "fill" /\ apc' = "deliver" /\ hold \in Buffers
      /\ content' = [content EXCEPT ![hold] = sent + 1]
  BY DEF CopyMemory, CoreInv, PlacesInv
<1>2. PoolInv' /\ ref' = ref
  BY <1>1, PoolStays DEF CoreInv, Untouched
<1>3. OwnTypes' /\ WakeInv' /\ ListInv'
  BY <1>1 DEF CoreInv, OwnTypes, WakeInv, ListInv, One, InList, queue, stream
<1>4. PlacesInv'
  BY <1>1, <1>2 DEF CoreInv, PlacesInv, One, InList, queue
<1>5. StreamInv'
  <2>1. \A i \in 1 .. Len(list) :
           list[i] \in Buffers => content'[list[i]] = content[list[i]]
    BY <1>1 DEF CoreInv, PlacesInv, InList, OwnTypes
  <2>2. tpc \in Carrying => content'[batch] = content[batch]
    BY <1>1 DEF CoreInv, PlacesInv, OwnTypes
  <2>3. content'[hold] = sent + 1
    BY <1>1 DEF CoreInv, OwnTypes
  <2> QED BY <1>1, <2>1, <2>2, <2>3 DEF CoreInv, StreamInv, Pending, One, InList, queue, stream
<1> QED BY <1>2, <1>3, <1>4, <1>5 DEF CoreInv

(* The frames under way are in different buffers, none of them the one     *)
(* that holds the next frame.                                              *)
LEMMA RoomToSend ==
  ASSUME CoreInv, apc = "deliver", hrOK
  PROVE  sent < got + Cardinality(Buffers)
<1> DEFINE Others == Buffers \ {hold}
           Frames == (got + 1) .. sent
<1>1. hold \in Buffers /\ ~ended /\ ~InList(EOS_PACKET) /\ Len(list) \in Nat
  BY DEF CoreInv, PlacesInv, ListInv, OwnTypes, Filling, Closing
<1>2. Frames \subseteq {content[b] : b \in Others}
  <2> SUFFICES ASSUME NEW f \in Frames
               PROVE  \E b \in Others : content[b] = f
    OBVIOUS
  <2>1. sent = got + Pending + Len(list) /\ Pending \in {0, 1}
    BY <1>1 DEF CoreInv, StreamInv, OwnTypes, One, Pending
  <2>2. CASE f <= got + Pending
    <3>1. f = got + 1 /\ tpc \in {"send", "receive"}
      BY <2>2 DEF Pending, One, CoreInv, OwnTypes
    <3>2. batch \in Others /\ content[batch] = f
      BY <3>1 DEF CoreInv, PlacesInv, StreamInv, Carrying
    <3> QED BY <3>2
  <2>3. CASE f > got + Pending
    <3> DEFINE i == f - (got + Pending)
    <3>1. i \in 1 .. Len(list) /\ f = got + Pending + i
      BY <2>1, <2>3 DEF CoreInv, OwnTypes
    <3>2. list[i] \in Buffers
      BY <3>1, <1>1 DEF CoreInv, OwnTypes, InList, Samples
    <3>3. list[i] # hold
      BY <3>1 DEF CoreInv, PlacesInv, InList
    <3>4. content[list[i]] = f
      BY <3>1, <3>2 DEF CoreInv, StreamInv
    <3> QED BY <3>2, <3>3, <3>4
  <2> QED BY <2>1, <2>2, <2>3 DEF CoreInv, OwnTypes
<1>3. /\ IsFiniteSet(Others) /\ Cardinality(Others) = Cardinality(Buffers) - 1
      /\ Cardinality(Buffers) \in Nat
  BY <1>1, BuffersAssumption, FS_RemoveElement, FS_CardinalityType
<1>4. /\ IsFiniteSet({content[b] : b \in Others})
      /\ Cardinality({content[b] : b \in Others}) <= Cardinality(Others)
      /\ Cardinality({content[b] : b \in Others}) \in Nat
  <2> DEFINE Used == {content[b] : b \in Others}
             InBuffer == [b \in Others |-> content[b]]
  <2>1. InBuffer \in [Others -> Used] /\ \A f \in Used : \E b \in Others : InBuffer[b] = f
    OBVIOUS
  <2>2. InBuffer \in Surjection(Others, Used)
    BY <2>1 DEF Surjection
  <2> HIDE DEF Used, InBuffer
  <2>3. /\ IsFiniteSet(Used) /\ Cardinality(Used) <= Cardinality(Others)
        /\ Cardinality(Used) \in Nat
    BY <2>2, <1>3, FS_Surjection, FS_CardinalityType
  <2> QED BY <2>3 DEF Used
<1>5. Cardinality(Frames) <= Cardinality({content[b] : b \in Others})
  BY <1>2, <1>4, FS_Subset
<1>6. Cardinality(Frames) = IF got + 1 > sent THEN 0 ELSE sent - got
  BY FS_Interval DEF CoreInv, OwnTypes
<1>7. Cardinality(Frames) \in Nat
  BY <1>6 DEF CoreInv, OwnTypes
<1>8. Cardinality(Others) >= 0
  BY <1>3, FS_CardinalityType
<1> QED BY <1>3, <1>4, <1>5, <1>6, <1>7, <1>8 DEF CoreInv, OwnTypes

----------------------------------------------------------------------------
(* What QueueSample keeps, whether s is a sample or EOS_PACKET.            *)
LEMMA QueueSampleKeeps ==
  ASSUME CoreInv, NEW s \in Samples, QueueSample(s), tpc' = tpc, terminate' = terminate,
         ~InList(s)
  PROVE  /\ list' \in Seq(Samples) /\ lWaiting' \in Nat /\ qsem' \in Nat
         /\ WakeInv'
         /\ \A x : InList(x)' <=> InList(x) \/ x = s
         /\ Len(list) \in Nat /\ Len(list') = Len(list) + 1
         /\ \A i \in 1 .. Len(list) : list'[i] = list[i]
         /\ list'[Len(list) + 1] = s
         /\ \A i, j \in 1 .. Len(list') : list'[i] = list'[j] => i = j
<1> USE DEF QueueSample
<1>1. /\ list' \in Seq(Samples)
      /\ \A x : InList(x)' <=> InList(x) \/ x = s
      /\ Len(list) \in Nat /\ Len(list') = Len(list) + 1
      /\ \A i \in 1 .. Len(list) : list'[i] = list[i]
      /\ list'[Len(list) + 1] = s
  BY Appended DEF CoreInv
<1>2. lWaiting' \in Nat /\ qsem' \in Nat /\ WakeInv'
  BY DEF NotifyThread, CoreInv, OwnTypes, WakeInv, One
<1>3. \A i \in 1 .. Len(list) : list'[i] # s
  BY <1>1 DEF InList
<1>4. \A i, j \in 1 .. Len(list') : list'[i] = list'[j] => i = j
  BY <1>1, <1>3 DEF CoreInv, ListInv
<1> QED BY <1>1, <1>2, <1>4

LEMMA DeliverKeeps ==
  ASSUME CoreInv, Deliver
  PROVE  CoreInv'
<1> USE DEF AppStep, Filling, Carrying, Closing
<1>1. /\ UNCHANGED <<hold, terminate, hrOK, tpc, batch, kept, stalled, content, got, ended>>
      /\ apc = "deliver" /\ apc' = "release" /\ hold \in Buffers
      /\ ~InList(hold) /\ batch # hold /\ hold \notin kept
      /\ ~InList(EOS_PACKET) /\ ~ended /\ tpc # "eos"
  BY DEF Deliver, CoreInv, PlacesInv, ListInv
<1>2. CASE AddRef(hold) /\ QueueSample(hold) /\ sent' = sent + 1
  <2>1. ref[hold] = 1
    BY <1>1 DEF CoreInv, PlacesInv, One
  <2>2. PoolInv' /\ ref' = [ref EXCEPT ![hold] = @ + 1]
    BY <1>1, <1>2, <2>1, AddRefKeeps DEF CoreInv
  <2>3. /\ list' \in Seq(Samples) /\ lWaiting' \in Nat /\ qsem' \in Nat
        /\ WakeInv'
        /\ \A x : InList(x)' <=> InList(x) \/ x = hold
        /\ Len(list) \in Nat /\ Len(list') = Len(list) + 1
        /\ \A i \in 1 .. Len(list) : list'[i] = list[i]
        /\ list'[Len(list) + 1] = hold
        /\ \A i, j \in 1 .. Len(list') : list'[i] = list'[j] => i = j
    BY <1>1, <1>2, QueueSampleKeeps DEF Samples
  <2>4. OwnTypes'
    BY <1>1, <1>2, <2>3 DEF CoreInv, OwnTypes
  <2>5. PlacesInv'
    <3>1. \A b \in Buffers :
            ref'[b] = One(hold = b) + One(InList(b) \/ b = hold) + One(batch = b) + One(b \in kept)
      BY <1>1, <2>1, <2>2 DEF CoreInv, PoolInv, AllocTypeOK, PlacesInv, One
    <3>2. \A b \in Buffers : One(InList(b))' = One(InList(b) \/ b = hold)
      BY <2>3 DEF One
    <3>3. /\ hold' \in IF apc' \in Filling THEN Buffers ELSE {NoBuffer}
          /\ batch' \in IF tpc' \in Carrying THEN Buffers ELSE {NoBuffer}
          /\ kept' \subseteq Buffers
          /\ apc' \notin {"fill", "deliver"}
      BY <1>1 DEF CoreInv, PlacesInv
    <3>4. \A b \in Buffers :
            ref'[b] = One(hold' = b) + One(InList(b))' + One(batch' = b) + One(b \in kept')
      BY <1>1, <3>1, <3>2
    <3> QED BY <3>3, <3>4 DEF PlacesInv, One
  <2>6. ListInv'
    <3>1. ~InList(EOS_PACKET)'
      BY <1>1, <2>3
    <3> QED BY <1>1, <2>3, <3>1 DEF ListInv, InList
  <2>7. StreamInv'
    <3>1. /\ \A i \in 1 .. Len(list) :
               list[i] \in Buffers => content[list[i]] = got + Pending + i
          /\ sent = got + Pending + Len(list)
          /\ content[hold] = sent + 1
      BY <1>1, <1>2 DEF QueueSample, CoreInv, StreamInv, One, OwnTypes, Pending
    <3>2. Pending' = Pending /\ Pending \in Nat
      BY <1>1 DEF Pending, One
    <3>3. \A i \in 1 .. Len(list') :
             list'[i] \in Buffers => content[list'[i]] = got + Pending + i
      <4>1. sent + 1 = got + Pending + (Len(list) + 1)
        BY <2>3, <3>1, <3>2 DEF CoreInv, OwnTypes
      <4>2. content[list'[Len(list) + 1]] = got + Pending + (Len(list) + 1)
        BY <2>3, <3>1, <4>1
      <4>3. \A i \in 1 .. Len(list') : i \in 1 .. Len(list) \/ i = Len(list) + 1
        BY <2>3
      <4> QED BY <2>3, <3>1, <4>2, <4>3
    <3>4. sent' + One(InList(EOS_PACKET)') = got + Pending + Len(list')
      BY <1>1, <1>2, <2>3, <3>1, <3>2 DEF CoreInv, OwnTypes, One
    <3>5. /\ tpc = "receive" \/ (tpc = "send" /\ hrOK) =>
               content[batch] = got + 1 /\ got < sent'
          /\ terminate => ~hrOK
      BY <1>2 DEF CoreInv, OwnTypes, StreamInv
    <3> QED BY <1>1, <3>2, <3>3, <3>4, <3>5 DEF StreamInv, One
  <2> QED BY <2>2, <2>3, <2>4, <2>5, <2>6, <2>7 DEF CoreInv
<1>3. CASE Discards /\ UNCHANGED <<allocVars, sent>>
  <2>1. UNCHANGED <<list, lWaiting, qsem>>
    BY <1>3 DEF Discards
  <2>2. PoolInv' /\ ref' = ref
    BY <1>3, PoolStays DEF CoreInv, Untouched
  <2>3. OwnTypes' /\ WakeInv' /\ ListInv'
    BY <1>1, <1>3, <2>1 DEF CoreInv, OwnTypes, WakeInv, ListInv, One, InList
  <2>4. PlacesInv'
    BY <1>1, <2>1, <2>2 DEF CoreInv, PlacesInv, One, InList
  <2>5. StreamInv'
    BY <1>1, <1>3, <2>1 DEF CoreInv, StreamInv, Pending, One, InList
  <2> QED BY <2>2, <2>3, <2>4, <2>5 DEF CoreInv
<1> QED BY <1>2, <1>3 DEF Deliver

LEMMA HandleFrameReturnsKeeps ==
  ASSUME CoreInv, HandleFrameReturns
  PROVE  CoreInv'
<1> USE DEF AppStep, Filling, Carrying, Closing
<1>1. /\ UNCHANGED <<queue, tpc, batch, kept, stalled, content, stream>>
      /\ apc = "release" /\ apc' = "idle" /\ hold \in Buffers /\ hold' = NoBuffer
  BY DEF HandleFrameReturns, CoreInv, PlacesInv
<1>2. PoolInv' /\ ref[hold] > 0 /\ ref' = [ref EXCEPT ![hold] = @ - 1]
  BY <1>1, ReleaseKeeps DEF HandleFrameReturns, CoreInv
<1>3. OwnTypes' /\ WakeInv' /\ ListInv'
  BY <1>1 DEF CoreInv, OwnTypes, WakeInv, ListInv, One, InList, queue, stream
<1>4. PlacesInv'
  BY <1>1, <1>2 DEF CoreInv, PoolInv, AllocTypeOK, PlacesInv, One, InList, queue
<1>5. StreamInv'
  BY <1>1 DEF CoreInv, StreamInv, Pending, One, InList, queue, stream
<1> QED BY <1>2, <1>3, <1>4, <1>5 DEF CoreInv

LEMMA EndOfStreamKeeps ==
  ASSUME CoreInv, DeliverEndOfStream
  PROVE  CoreInv'
<1> USE DEF AppStep, Filling, Carrying, Closing
<1>1. /\ UNCHANGED <<hold, terminate, hrOK, tpc, batch, kept, stalled, content, stream>>
      /\ apc = "idle" /\ apc' = "complete"
      /\ ~InList(EOS_PACKET) /\ ~ended /\ tpc # "eos"
  BY DEF DeliverEndOfStream, CoreInv, ListInv
<1>2. PoolInv' /\ ref' = ref
  BY PoolStays DEF DeliverEndOfStream, CoreInv, Untouched
<1>3. CASE QueueSample(EOS_PACKET)
  <2>1. /\ list' \in Seq(Samples) /\ lWaiting' \in Nat /\ qsem' \in Nat
        /\ WakeInv'
        /\ \A x : InList(x)' <=> InList(x) \/ x = EOS_PACKET
        /\ Len(list) \in Nat /\ Len(list') = Len(list) + 1
        /\ \A i \in 1 .. Len(list) : list'[i] = list[i]
        /\ list'[Len(list) + 1] = EOS_PACKET
        /\ \A i, j \in 1 .. Len(list') : list'[i] = list'[j] => i = j
    BY <1>1, <1>3, QueueSampleKeeps DEF Samples
  <2>2. OwnTypes'
    BY <1>1, <2>1 DEF CoreInv, OwnTypes, stream
  <2>3. PlacesInv'
    <3>1. \A b \in Buffers : One(InList(b))' = One(InList(b))
      BY <2>1 DEF One
    <3>2. \A b \in Buffers :
            ref'[b] = One(hold' = b) + One(InList(b))' + One(batch' = b) + One(b \in kept')
      BY <1>1, <1>2, <3>1 DEF CoreInv, PlacesInv
    <3>3. /\ hold' \in IF apc' \in Filling THEN Buffers ELSE {NoBuffer}
          /\ batch' \in IF tpc' \in Carrying THEN Buffers ELSE {NoBuffer}
          /\ kept' \subseteq Buffers
          /\ apc' \notin {"fill", "deliver"}
      BY <1>1 DEF CoreInv, PlacesInv
    <3> QED BY <3>2, <3>3 DEF PlacesInv, One
  <2>4. ListInv'
    <3>1. \A i \in 1 .. Len(list) : list[i] # EOS_PACKET
      BY <1>1 DEF InList
    <3>2. ~ended' /\ tpc' # "eos" /\ apc' \in Closing /\ apc' # "stopped"
      BY <1>1 DEF stream
    <3> QED BY <2>1, <3>1, <3>2 DEF ListInv
  <2>5. StreamInv'
    <3>1. /\ \A i \in 1 .. Len(list) :
               list[i] \in Buffers => content[list[i]] = got + Pending + i
          /\ sent = got + Pending + Len(list)
      BY <1>1, <1>3 DEF QueueSample, CoreInv, StreamInv, One, OwnTypes, Pending
    <3>2. Pending' = Pending /\ Pending \in Nat
      BY <1>1 DEF Pending, One
    <3>3. \A i \in 1 .. Len(list') :
             list'[i] \in Buffers => content[list'[i]] = got + Pending + i
      BY <2>1, <3>1
    <3>4. sent + One(InList(EOS_PACKET)') = got + Pending + Len(list')
      BY <2>1, <3>1, <3>2 DEF CoreInv, OwnTypes, One
    <3>5. /\ tpc = "receive" \/ (tpc = "send" /\ hrOK) =>
               content[batch] = got + 1 /\ got < sent
          /\ terminate => ~hrOK
      BY DEF CoreInv, StreamInv
    <3> QED BY <1>1, <3>2, <3>3, <3>4, <3>5 DEF StreamInv, One, stream
  <2> QED BY <1>2, <2>1, <2>2, <2>3, <2>4, <2>5 DEF CoreInv
<1>4. CASE Discards
  <2>1. UNCHANGED <<list, lWaiting, qsem>>
    BY <1>4 DEF Discards
  <2>2. OwnTypes' /\ WakeInv' /\ ListInv'
    BY <1>1, <2>1 DEF CoreInv, OwnTypes, WakeInv, ListInv, One, InList, stream
  <2>3. PlacesInv'
    BY <1>1, <1>2, <2>1 DEF CoreInv, PlacesInv, One, InList
  <2>4. StreamInv'
    BY <1>1, <2>1 DEF CoreInv, StreamInv, Pending, One, InList, stream
  <2> QED BY <1>2, <2>2, <2>3, <2>4 DEF CoreInv
<1> QED BY <1>3, <1>4 DEF DeliverEndOfStream

----------------------------------------------------------------------------
(* The thread of the queue takes the oldest sample, or the end.            *)
LEMMA ThreadTakesKeeps ==
  ASSUME CoreInv, ThreadTakes
  PROVE  CoreInv'
<1> USE DEF ThreadStep, Filling, Carrying, Closing
<1>1. /\ UNCHANGED <<allocVars, apc, hold, lWaiting, qsem, terminate, hrOK, kept, stalled,
                     content, stream>>
      /\ tpc = "collect" /\ batch = NoBuffer
      /\ ~ended
  BY DEF ThreadTakes, CoreInv, PlacesInv, ListInv
<1>2. PoolInv' /\ ref' = ref
  BY <1>1, PoolStays DEF CoreInv, Untouched
<1>3. /\ list' \in Seq(Samples)
      /\ Len(list) \in Nat /\ Len(list) > 0 /\ Len(list') = Len(list) - 1
      /\ \A i \in 1 .. Len(list') : list'[i] = list[i + 1] /\ i + 1 \in 1 .. Len(list)
      /\ Head(list) = list[1] /\ Head(list) \in Samples /\ InList(Head(list))
      /\ \A x : InList(x)' <=> InList(x) /\ x # Head(list)
  BY HeadTaken DEF ThreadTakes, CoreInv
<1>4. WakeInv'
  BY <1>1 DEF ThreadTakes, CoreInv, OwnTypes, WakeInv, One
<1>5. /\ \A i, j \in 1 .. Len(list') : list'[i] = list'[j] => i = j
      /\ \A i \in 1 .. Len(list') : list'[i] = EOS_PACKET => i = Len(list')
      /\ InList(EOS_PACKET) => apc \in Closing
      /\ apc # "stopped"
  BY <1>1, <1>3 DEF CoreInv, ListInv
<1>6. CASE Head(list) \in Buffers /\ tpc' = "send" /\ batch' = Head(list)
  <2>1. OwnTypes'
    BY <1>1, <1>3, <1>6 DEF CoreInv, OwnTypes, stream
  <2>2. ListInv'
    BY <1>1, <1>3, <1>5, <1>6 DEF ListInv, stream
  <2>3. PlacesInv'
    <3>1. \A b \in Buffers : One(InList(b))' + One(batch' = b) = One(InList(b)) + One(batch = b)
      BY <1>1, <1>3, <1>6 DEF One
    <3>2. \A b \in Buffers :
            ref'[b] = One(hold' = b) + One(InList(b))' + One(batch' = b) + One(b \in kept')
      <4> TAKE b \in Buffers
      <4>1. ref[b] = One(hold = b) + (One(InList(b)) + One(batch = b)) + One(b \in kept)
        BY DEF CoreInv, PlacesInv, One
      <4>2. ref'[b] = One(hold' = b) + (One(InList(b))' + One(batch' = b)) + One(b \in kept')
        BY <1>1, <1>2, <3>1, <4>1
      <4> QED BY <4>2 DEF One
    <3>3. apc' \in {"fill", "deliver"} => ~InList(hold)' /\ batch' # hold' /\ hold' \notin kept'
      BY <1>1, <1>3, <1>6 DEF CoreInv, PlacesInv
    <3>4. /\ hold' \in IF apc' \in Filling THEN Buffers ELSE {NoBuffer}
          /\ batch' \in IF tpc' \in Carrying THEN Buffers ELSE {NoBuffer}
          /\ kept' \subseteq Buffers
      BY <1>1, <1>6 DEF CoreInv, PlacesInv
    <3>5. apc' \in {"fill", "deliver"} => ~(InList(hold))'
      BY <1>1, <1>3, <3>3 DEF InList
    <3> QED BY <3>2, <3>3, <3>4, <3>5 DEF PlacesInv, One
  <2>4. StreamInv'
    <3>1. Pending = 0 /\ Pending' = 1
      BY <1>1, <1>6 DEF Pending, One
    <3>2. hrOK => content[Head(list)] = got + 1
      BY <1>3, <1>6, <3>1 DEF CoreInv, StreamInv, OwnTypes
    <3>3. hrOK => \A i \in 1 .. Len(list') :
                    list'[i] \in Buffers => content[list'[i]] = got + 1 + i
      <4>1. \A i \in 1 .. Len(list') : got + 0 + (i + 1) = got + 1 + i
        BY DEF CoreInv, OwnTypes
      <4> QED BY <1>3, <3>1, <4>1 DEF CoreInv, StreamInv
    <3>4. One(InList(EOS_PACKET))' = One(InList(EOS_PACKET))
      BY <1>3, <1>6 DEF One
    <3>5. hrOK => sent + One(InList(EOS_PACKET))' = got + 1 + Len(list')
      BY <1>3, <3>1, <3>4 DEF CoreInv, StreamInv, OwnTypes
    <3>6. hrOK => got < sent
      <4>1. InList(EOS_PACKET) => Len(list) > 1
        BY <1>3, <1>6 DEF InList
      <4> QED BY <1>3, <3>1, <4>1 DEF CoreInv, StreamInv, OwnTypes, One
    <3>7. /\ apc' = "deliver" => content'[hold'] = sent' + 1
          /\ terminate' => ~hrOK' /\ ~ended'
      BY <1>1 DEF CoreInv, StreamInv, stream
    <3> QED BY <1>1, <1>6, <3>1, <3>2, <3>3, <3>5, <3>6, <3>7 DEF StreamInv, stream, One
  <2> QED BY <1>2, <1>4, <2>1, <2>2, <2>3, <2>4 DEF CoreInv
<1>7. CASE Head(list) = EOS_PACKET /\ tpc' = "eos" /\ batch' = batch
  <2>1. OwnTypes'
    BY <1>1, <1>3, <1>7 DEF CoreInv, OwnTypes, stream
  <2>2. Len(list) = 1 /\ Len(list') = 0 /\ list' = <<>>
    BY <1>3, <1>7 DEF CoreInv, ListInv
  <2>3. ListInv'
    BY <1>1, <1>3, <1>5, <1>7, <2>2 DEF ListInv, stream
  <2>4. PlacesInv'
    <3>1. \A b \in Buffers : One(InList(b))' = One(InList(b))
      BY <1>3, <1>7 DEF One
    <3>2. \A b \in Buffers :
            ref'[b] = One(hold' = b) + One(InList(b))' + One(batch' = b) + One(b \in kept')
      BY <1>1, <1>2, <1>7, <3>1 DEF CoreInv, PlacesInv
    <3>3. apc' \in {"fill", "deliver"} => ~(InList(hold))' /\ batch' # hold' /\ hold' \notin kept'
      BY <1>1, <1>7, <2>2 DEF CoreInv, PlacesInv, InList
    <3>4. /\ hold' \in IF apc' \in Filling THEN Buffers ELSE {NoBuffer}
          /\ batch' \in IF tpc' \in Carrying THEN Buffers ELSE {NoBuffer}
          /\ kept' \subseteq Buffers
      BY <1>1, <1>7 DEF CoreInv, PlacesInv
    <3> QED BY <3>2, <3>3, <3>4 DEF PlacesInv, One
  <2>5. StreamInv'
    <3>1. Pending = 0 /\ Pending' = 0
      BY <1>1, <1>7 DEF Pending, One
    <3>2. One(InList(EOS_PACKET)) = 1 /\ One(InList(EOS_PACKET))' = 0
      BY <1>3, <1>7 DEF One
    <3>3. hrOK => sent + 0 = got + 0 + 0
      BY <2>2, <3>1, <3>2 DEF CoreInv, StreamInv, OwnTypes
    <3>4. /\ apc' = "deliver" => content'[hold'] = sent' + 1
          /\ terminate' => ~hrOK' /\ ~ended'
      BY <1>1 DEF CoreInv, StreamInv, stream
    <3> QED BY <1>1, <1>7, <2>2, <3>1, <3>2, <3>3, <3>4 DEF StreamInv, stream, One
  <2> QED BY <1>2, <1>4, <2>1, <2>3, <2>4, <2>5 DEF CoreInv
<1> QED BY <1>6, <1>7 DEF ThreadTakes

LEMMA DeviceTakesKeeps ==
  ASSUME IInv, DeviceTakes
  PROVE  CoreInv' /\ ~ended /\ got < sent /\ got' = got + 1
<1> USE DEF ThreadStep, Filling, Carrying, Closing
<1>1. /\ UNCHANGED <<apc, hold, queue, batch, stalled, content, sent, ended>>
      /\ tpc = "receive" /\ tpc' = "release" /\ batch \in Buffers
      /\ got' = got + 1 /\ got < sent /\ ~ended
  BY DEF DeviceTakes, IInv, CoreInv, PlacesInv, StreamInv
<1>2. ref[batch] > 0 /\ batch \notin kept /\ (apc \in {"fill", "deliver"} => batch # hold)
  BY <1>1 DEF IInv, CoreInv, PlacesInv, KeptInv, One
<1>3. PoolInv' /\ PlacesInv'
  <2>1. CASE AddRef(batch) /\ kept' = kept \cup {batch}
    <3>1. PoolInv' /\ ref' = [ref EXCEPT ![batch] = @ + 1]
      BY <1>1, <1>2, <2>1, AddRefKeeps DEF IInv, CoreInv
    <3>2. \A b \in Buffers :
            /\ ref'[b] = ref[b] + One(b = batch)
            /\ One(b \in kept') = One(b \in kept) + One(b = batch)
      BY <1>1, <1>2, <2>1, <3>1 DEF IInv, CoreInv, PoolInv, AllocTypeOK, One
    <3>3. \A b \in Buffers :
            ref'[b] = One(hold = b) + One(InList(b)) + One(batch = b) + One(b \in kept')
      BY <3>2 DEF IInv, CoreInv, PlacesInv, One
    <3>4. /\ hold \in IF apc \in Filling THEN Buffers ELSE {NoBuffer}
          /\ kept' \subseteq Buffers
          /\ apc \in {"fill", "deliver"} => ~InList(hold) /\ hold \notin kept'
      BY <1>1, <1>2, <2>1 DEF IInv, CoreInv, PlacesInv
    <3> QED BY <1>1, <1>2, <3>1, <3>3, <3>4 DEF PlacesInv, One, InList, queue
  <2>2. CASE UNCHANGED <<allocVars, kept>>
    <3>1. PoolInv' /\ ref' = ref
      BY <2>2, PoolStays DEF IInv, CoreInv, Untouched
    <3> QED BY <1>1, <2>2, <3>1 DEF IInv, CoreInv, PlacesInv, One, InList, queue
  <2> QED BY <2>1, <2>2 DEF DeviceTakes
<1>4. OwnTypes' /\ WakeInv' /\ ListInv'
  BY <1>1 DEF IInv, CoreInv, OwnTypes, WakeInv, ListInv, One, InList, queue
<1>5. StreamInv'
  <2>1. Pending = 1 /\ Pending' = 0
    BY <1>1 DEF Pending, One
  <2>2. hrOK => /\ \A i \in 1 .. Len(list) :
                     list[i] \in Buffers => content[list[i]] = got' + 0 + i
                /\ sent + One(InList(EOS_PACKET)) = got' + 0 + Len(list)
    BY <1>1, <2>1 DEF IInv, CoreInv, StreamInv, OwnTypes
  <2>3. (apc = "deliver" => content[hold] = sent + 1) /\ (terminate => ~hrOK)
    BY DEF IInv, CoreInv, StreamInv
  <2> QED BY <1>1, <2>1, <2>2, <2>3 DEF StreamInv, One, InList, queue
<1> QED BY <1>1, <1>3, <1>4, <1>5 DEF CoreInv

LEMMA ThreadReleasesKeeps ==
  ASSUME CoreInv, ThreadReleases
  PROVE  CoreInv'
<1> USE DEF ThreadStep, Filling, Carrying, Closing
<1>1. /\ UNCHANGED <<apc, hold, queue, kept, stalled, content, stream>>
      /\ tpc = "release" /\ tpc' = "collect" /\ batch \in Buffers /\ batch' = NoBuffer
  BY DEF ThreadReleases, CoreInv, PlacesInv
<1>2. PoolInv' /\ ref[batch] > 0 /\ ref' = [ref EXCEPT ![batch] = @ - 1]
  BY <1>1, ReleaseKeeps DEF ThreadReleases, CoreInv
<1>3. OwnTypes' /\ WakeInv' /\ ListInv'
  BY <1>1 DEF CoreInv, OwnTypes, WakeInv, ListInv, One, InList, queue, stream
<1>4. PlacesInv'
  BY <1>1, <1>2 DEF CoreInv, PoolInv, AllocTypeOK, PlacesInv, One, InList, queue
<1>5. StreamInv'
  BY <1>1 DEF CoreInv, StreamInv, Pending, One, InList, queue, stream
<1> QED BY <1>2, <1>3, <1>4, <1>5 DEF CoreInv

(* On termination the list is emptied, every sample back to the pool.      *)
LEMMA FreeSamplesKeeps ==
  ASSUME CoreInv, FreeSamples
  PROVE  CoreInv'
<1> USE DEF ThreadStep, Filling, Carrying, Closing
<1>1. /\ UNCHANGED <<apc, hold, lWaiting, qsem, terminate, hrOK, batch, kept, stalled,
                     content, stream>>
      /\ tpc = "collect" /\ tpc' \in {"collect", "ended"} /\ batch = NoBuffer
      /\ terminate /\ ~hrOK
  BY DEF FreeSamples, CoreInv, PlacesInv, StreamInv
<1>2. StreamInv'
  BY <1>1 DEF CoreInv, StreamInv, stream
<1>3. CASE list = <<>> /\ tpc' = "ended" /\ UNCHANGED <<allocVars, list>>
  <2>1. PoolInv' /\ ref' = ref
    BY <1>3, PoolStays DEF CoreInv, Untouched
  <2>2. OwnTypes' /\ WakeInv' /\ ListInv'
    BY <1>1, <1>3 DEF CoreInv, OwnTypes, WakeInv, ListInv, One, InList, stream
  <2>3. PlacesInv'
    BY <1>1, <1>3, <2>1 DEF CoreInv, PlacesInv, One, InList
  <2> QED BY <1>2, <2>1, <2>2, <2>3 DEF CoreInv
<1>4. CASE /\ list # <<>> /\ tpc' = "collect" /\ list' = Tail(list)
           /\ \/ Head(list) \in Buffers /\ Release(Head(list))
              \/ Head(list) = EOS_PACKET /\ UNCHANGED allocVars
  <2>1. /\ list' \in Seq(Samples)
        /\ Len(list) \in Nat /\ Len(list) > 0 /\ Len(list') = Len(list) - 1
        /\ \A i \in 1 .. Len(list') : list'[i] = list[i + 1] /\ i + 1 \in 1 .. Len(list)
        /\ Head(list) = list[1] /\ Head(list) \in Samples /\ InList(Head(list))
        /\ \A x : InList(x)' <=> InList(x) /\ x # Head(list)
    BY <1>4, HeadTaken DEF CoreInv
  <2>2. OwnTypes'
    BY <1>1, <2>1 DEF CoreInv, OwnTypes, stream
  <2>3. WakeInv'
    BY <1>1, <1>4 DEF CoreInv, OwnTypes, WakeInv, One
  <2>4. ListInv'
    <3>1. /\ \A i, j \in 1 .. Len(list') : list'[i] = list'[j] => i = j
          /\ \A i \in 1 .. Len(list') : list'[i] = EOS_PACKET => i = Len(list')
          /\ InList(EOS_PACKET) => apc \in Closing
          /\ apc # "stopped"
      BY <1>1, <2>1 DEF CoreInv, ListInv
    <3>2. ~ended
      BY <1>4 DEF CoreInv, ListInv
    <3> QED BY <1>1, <1>4, <2>1, <3>1, <3>2 DEF ListInv, stream
  <2>5. /\ PoolInv'
        /\ \A b \in Buffers : ref'[b] + One(InList(b)) = ref[b] + One(InList(b))'
    <3>1. CASE Head(list) \in Buffers /\ Release(Head(list))
      <4>1. /\ PoolInv' /\ ref[Head(list)] > 0
            /\ ref' = [ref EXCEPT ![Head(list)] = @ - 1]
        BY <3>1, ReleaseKeeps DEF CoreInv
      <4>2. ASSUME NEW b \in Buffers
            PROVE  ref'[b] + One(InList(b)) = ref[b] + One(InList(b))'
        <5>1. CASE b = Head(list)
          BY <4>1, <5>1, <2>1 DEF One, CoreInv, PoolInv, AllocTypeOK
        <5>2. CASE b # Head(list)
          BY <4>1, <5>2, <2>1 DEF One, CoreInv, PoolInv, AllocTypeOK
        <5> QED BY <5>1, <5>2
      <4> QED BY <4>1, <4>2
    <3>2. CASE Head(list) = EOS_PACKET /\ UNCHANGED allocVars
      <4>1. PoolInv' /\ ref' = ref
        BY <3>2, PoolStays DEF CoreInv, Untouched
      <4>2. \A b \in Buffers : One(InList(b))' = One(InList(b))
        BY <2>1, <3>2 DEF One
      <4> QED BY <4>1, <4>2
    <3> QED BY <1>4, <3>1, <3>2
  <2>6. PlacesInv'
    <3>1. \A b \in Buffers :
            ref'[b] = One(hold' = b) + One(InList(b))' + One(batch' = b) + One(b \in kept')
      <4> TAKE b \in Buffers
      <4>1. ref[b] = One(hold = b) + One(InList(b)) + One(batch = b) + One(b \in kept)
        BY DEF CoreInv, PlacesInv
      <4>2. /\ ref'[b] \in Nat /\ ref[b] \in Nat
            /\ One(InList(b)) \in Nat /\ One(InList(b))' \in Nat
            /\ One(hold = b) \in Nat /\ One(batch = b) \in Nat /\ One(b \in kept) \in Nat
        BY <2>5 DEF CoreInv, PoolInv, AllocTypeOK, One
      <4>3. ref'[b] = One(hold = b) + One(InList(b))' + One(batch = b) + One(b \in kept)
        BY <2>5, <4>1, <4>2
      <4> QED BY <1>1, <4>3
    <3>2. apc' \in {"fill", "deliver"} => ~InList(hold) /\ batch # hold /\ hold \notin kept
      BY <1>1 DEF CoreInv, PlacesInv
    <3>3. ~InList(hold) => ~(InList(hold))'
      BY <1>1, <2>1 DEF InList
    <3>4. /\ hold' \in IF apc' \in Filling THEN Buffers ELSE {NoBuffer}
          /\ batch' \in IF tpc' \in Carrying THEN Buffers ELSE {NoBuffer}
          /\ kept' \subseteq Buffers
      BY <1>1, <1>4 DEF CoreInv, PlacesInv
    <3> QED BY <1>1, <3>1, <3>2, <3>3, <3>4 DEF PlacesInv, One
  <2> QED BY <1>2, <2>2, <2>3, <2>4, <2>5, <2>6 DEF CoreInv
<1> QED BY <1>1, <1>3, <1>4 DEF FreeSamples

LEMMA DeviceReleasesKeeps ==
  ASSUME CoreInv, NEW b \in Buffers, DeviceReleases(b)
  PROVE  CoreInv'
<1> USE DEF Filling, Carrying, Closing
<1>1. /\ UNCHANGED <<apc, hold, queue, tpc, batch, stalled, content, stream>>
      /\ b \in kept /\ kept' = kept \ {b}
  BY DEF DeviceReleases
<1>2. PoolInv' /\ ref[b] > 0 /\ ref' = [ref EXCEPT ![b] = @ - 1]
  BY ReleaseKeeps DEF DeviceReleases, CoreInv
<1>3. OwnTypes' /\ WakeInv' /\ ListInv'
  BY <1>1 DEF CoreInv, OwnTypes, WakeInv, ListInv, One, InList, queue, stream
<1>4. PlacesInv'
  <2>1. \A c \in Buffers :
          /\ ref'[c] + One(c = b) = ref[c]
          /\ One(c \in kept') + One(c = b) = One(c \in kept)
    BY <1>1, <1>2 DEF CoreInv, PoolInv, AllocTypeOK, One
  <2>2. \A c \in Buffers : ref[c] \in Nat /\ ref'[c] \in Nat
    BY <1>2 DEF CoreInv, PoolInv, AllocTypeOK
  <2>3. \A c \in Buffers :
          ref'[c] = One(hold = c) + One(InList(c)) + One(batch = c) + One(c \in kept')
    BY <2>1, <2>2 DEF CoreInv, PlacesInv, One
  <2>4. /\ hold \in IF apc \in Filling THEN Buffers ELSE {NoBuffer}
        /\ batch \in IF tpc \in Carrying THEN Buffers ELSE {NoBuffer}
        /\ kept' \subseteq Buffers
        /\ apc \in {"fill", "deliver"} => ~InList(hold) /\ batch # hold /\ hold \notin kept'
    BY <1>1 DEF CoreInv, PlacesInv
  <2> QED BY <1>1, <2>3, <2>4 DEF PlacesInv, One, InList, queue
<1>5. StreamInv'
  BY <1>1 DEF CoreInv, StreamInv, Pending, One, InList, queue, stream
<1> QED BY <1>2, <1>3, <1>4, <1>5 DEF CoreInv

(* A kept sample enters the list or the hands of the thread only after the *)
(* device has let it go, for a buffer is filled only without references.   *)
LEMMA KeptKeeps ==
  ASSUME IInv, [Next]_vars
  PROVE  KeptInv'
<1> USE DEF AppStep, ThreadStep, Carrying
<1>1. CASE QuietStep \/ Active \/ Inactive \/ GetDeliveryBuffer \/ CopyMemory
           \/ HandleFrameReturns
  <2>1. /\ UNCHANGED <<list, batch, kept>>
        /\ tpc' \in {"send", "receive"} => tpc \in {"send", "receive"}
        /\ batch \in Buffers /\ tpc = "release" => tpc' = "release"
    <3>1. CASE HandleFrame \/ PointerFails \/ WaitForCompletion \/ DeleteQueue
      BY <3>1 DEF HandleFrame, PointerFails, WaitForCompletion, DeleteQueue, queue
    <3>2. CASE ThreadPrepares \/ ThreadWoken \/ ThreadSends \/ ThreadEnds
      BY <3>2 DEF ThreadPrepares, ThreadWoken, ThreadSends, ThreadEnds, queue
    <3>3. CASE DeviceRefuses \/ DeviceStalls \/ UNCHANGED vars
      BY <3>3 DEF DeviceRefuses, DeviceStalls, vars, queue
    <3>4. CASE Active \/ Inactive \/ GetDeliveryBuffer \/ CopyMemory \/ HandleFrameReturns
      BY <3>4 DEF Active, Inactive, GetDeliveryBuffer, CopyMemory, HandleFrameReturns, queue,
                  IInv, CoreInv, ListInv
    <3> QED BY <1>1, <3>1, <3>2, <3>3, <3>4 DEF QuietStep
  <2> QED BY <2>1 DEF IInv, KeptInv, CoreInv, PlacesInv, InList
<1>2. CASE Deliver \/ DeliverEndOfStream
  <2>1. UNCHANGED <<tpc, batch, kept>>
    BY <1>2 DEF Deliver, DeliverEndOfStream
  <2>2. PICK s \in Samples : \/ list' = list
                             \/ /\ list' = Append(list, s) /\ s \notin kept
                                /\ tpc \in Carrying => s # batch
    <3>1. CASE Deliver
      <4>1. hold \in Samples /\ hold \notin kept /\ hold # batch
        BY <3>1 DEF Deliver, IInv, CoreInv, PlacesInv, Filling, Samples
      <4> QED BY <3>1, <4>1 DEF Deliver, QueueSample, Discards
    <3>2. CASE DeliverEndOfStream
      <4>1. EOS_PACKET \in Samples /\ EOS_PACKET \notin kept
        BY DEF IInv, CoreInv, PlacesInv, Samples
      <4>2. tpc \in Carrying => EOS_PACKET # batch
        BY DEF IInv, CoreInv, PlacesInv
      <4> QED BY <3>2, <4>1, <4>2 DEF DeliverEndOfStream, QueueSample, Discards
    <3> QED BY <1>2, <3>1, <3>2
  <2>3. \A x : InList(x)' <=> InList(x) \/ (list' # list /\ x = s)
    <3>1. CASE list' = list
      BY <3>1 DEF InList
    <3>2. CASE list' = Append(list, s)
      <4>1. Len(list') = Len(list) + 1 /\ Len(list) \in Nat
        BY <3>2, Appended DEF IInv, CoreInv
      <4>2. list' # list
        BY <4>1
      <4> QED BY <3>2, <4>2, Appended DEF IInv, CoreInv
    <3> QED BY <2>2, <3>1, <3>2
  <2> QED BY <2>1, <2>2, <2>3 DEF IInv, KeptInv
<1>3. CASE ThreadTakes \/ FreeSamples
  <2>1. UNCHANGED kept /\ tpc = "collect" /\ tpc' # "receive" /\ batch = NoBuffer
    BY <1>3 DEF ThreadTakes, FreeSamples, IInv, CoreInv, PlacesInv
  <2>2. \/ UNCHANGED <<list, batch>> /\ tpc' = "ended"
        \/ /\ list # <<>> /\ list' = Tail(list)
           /\ \/ tpc' = "send" /\ batch' = Head(list)
              \/ tpc' # "send" /\ batch' = batch
    BY <1>3 DEF ThreadTakes, FreeSamples
  <2>3. CASE UNCHANGED <<list, batch>> /\ tpc' = "ended"
    BY <2>1, <2>3 DEF IInv, KeptInv, InList
  <2>4. CASE list # <<>> /\ list' = Tail(list)
    <3>1. /\ InList(Head(list))
          /\ \A x : InList(x)' <=> InList(x) /\ x # Head(list)
      BY <2>4, HeadTaken DEF IInv, CoreInv
    <3>2. tpc' = "send" => ~InList(batch)'
      <4> SUFFICES ASSUME tpc' = "send", InList(batch)' PROVE FALSE
        OBVIOUS
      <4>1. batch' = Head(list)
        BY <2>2, <2>4
      <4>2. PICK i \in 1 .. Len(list') : list'[i] = Head(list)
        BY <4>1 DEF InList
      <4>3. (InList(Head(list)))' <=> \E j \in 1 .. Len(list') : list'[j] = Head(list)'
        BY DEF InList
      <4>4. ASSUME NEW h, h = Head(list) PROVE ~InList(h)'
        BY <3>1, <4>4
      <4> QED BY <4>2, <4>4 DEF InList
    <3>3. \A b \in kept : ~InList(b)' /\ (batch' = b => FALSE)
      <4>1. \A b \in kept : ~InList(b) /\ b # NoBuffer
        BY DEF IInv, KeptInv, CoreInv, PlacesInv
      <4> QED BY <2>1, <2>2, <2>4, <3>1, <4>1
    <3> QED BY <2>1, <3>2, <3>3 DEF KeptInv
  <2> QED BY <2>2, <2>3, <2>4
<1>4. CASE DeviceTakes
  <2>1. UNCHANGED <<batch, list>> /\ tpc = "receive" /\ tpc' = "release"
        /\ kept' \subseteq kept \cup {batch}
    BY <1>4 DEF DeviceTakes, queue
  <2> QED BY <2>1 DEF IInv, KeptInv, InList
<1>5. CASE ThreadReleases \/ \E b \in Buffers : DeviceReleases(b)
  <2>1. /\ UNCHANGED list /\ kept' \subseteq kept
        /\ \/ UNCHANGED <<batch, tpc>>
           \/ batch' = NoBuffer /\ tpc' = "collect"
    BY <1>5 DEF ThreadReleases, DeviceReleases, queue
  <2> QED BY <2>1 DEF IInv, KeptInv, CoreInv, PlacesInv, InList
<1> QED BY NextSplit, <1>1, <1>2, <1>3, <1>4, <1>5

----------------------------------------------------------------------------
(* The conjunction of all the parts holds in every reachable state.        *)
THEOREM Invariance == Spec => []IInv
<1>1. Init => IInv
  <2>1. Init => KeptInv
    BY DEF Init, KeptInv
  <2> QED BY <2>1, StartsWell DEF IInv
<1>2. IInv /\ [Next]_vars => IInv'
  <2> SUFFICES ASSUME IInv, [Next]_vars PROVE IInv'
    OBVIOUS
  <2>1. CoreInv
    BY DEF IInv
  <2>2. CoreInv'
    BY <2>1, NextSplit, QuietKeeps, GraphKeeps, GetDeliveryBufferKeeps, CopyMemoryKeeps,
       DeliverKeeps, HandleFrameReturnsKeeps, EndOfStreamKeeps, ThreadTakesKeeps,
       DeviceTakesKeeps, ThreadReleasesKeeps, FreeSamplesKeeps, DeviceReleasesKeeps
  <2> QED BY <2>2, KeptKeeps DEF IInv
<1> QED BY <1>1, <1>2, PTL DEF Spec

(* Every variable of the output keeps its type, for any number of buffers. *)
THEOREM TypeCorrect == Spec => []TypeOK
<1>1. IInv => TypeOK
  BY DEF IInv, CoreInv, PoolInv, OwnTypes, PlacesInv, TypeOK, Samples, Filling, Carrying,
         Closing
<1> QED BY <1>1, Invariance, PTL

(* Every AddRef has its Release: the count of a sample is the number of    *)
(* its holders, and the pool has exactly the samples nobody holds.         *)
THEOREM Accounted == Spec => []BuffersAccounted
<1>1. IInv => BuffersAccounted
  BY DEF IInv, CoreInv, PoolInv, PlacesInv, BuffersAccounted
<1> QED BY <1>1, Invariance, PTL

(* Neither the thread of COutputQueue nor the recording worker waits       *)
(* without a signal while there is work or a free buffer for it.           *)
THEOREM WakeupsKept == Spec => []NoLostWakeup
<1>1. IInv => NoLostWakeup
  BY DEF IInv, CoreInv, PoolInv, WakeInv, NoLostWakeup
<1> QED BY <1>1, Invariance, PTL

----------------------------------------------------------------------------
(* A step of the output is one of the stream, or changes nothing of it.    *)
LEMMA StepImplements ==
  ASSUME IInv, [Next]_vars
  PROVE  [Stream!Next]_(Stream!streamVars)
<1> USE DEF Stream!Next, Stream!Send, Stream!Take, Stream!End, Stream!streamVars
<1>1. CASE Deliver
  <2>1. apc = "deliver" /\ ~ended /\ UNCHANGED <<got, ended>>
    BY <1>1 DEF Deliver, AppStep, IInv, CoreInv, ListInv, Closing
  <2>2. CASE hrOK /\ sent' = sent + 1
    BY <2>1, <2>2, RoomToSend DEF IInv
  <2> QED BY <1>1, <2>1, <2>2 DEF Deliver, QueueSample
<1>2. CASE DeviceTakes
  BY <1>2, DeviceTakesKeeps DEF DeviceTakes
<1>3. CASE ThreadEnds
  <2>1. /\ UNCHANGED <<sent, got>> /\ ended' = (ended \/ hrOK)
        /\ tpc = "eos" /\ list = <<>> /\ ended \in BOOLEAN /\ hrOK \in BOOLEAN
    BY <1>3 DEF ThreadEnds, ThreadStep, IInv, CoreInv, ListInv, OwnTypes
  <2>2. hrOK => got = sent
    <3>1. Len(list) = 0 /\ ~InList(EOS_PACKET) /\ Pending = 0
      BY <2>1 DEF InList, Pending, One
    <3> QED BY <3>1 DEF IInv, CoreInv, StreamInv, OwnTypes, One
  <2> QED BY <2>1, <2>2
<1>4. CASE UNCHANGED <<sent, got, ended>>
  BY <1>4
<1>5. \/ Deliver \/ DeviceTakes \/ ThreadEnds \/ UNCHANGED <<sent, got, ended>>
  <2>1. CASE QuietStep
    BY <2>1 DEF QuietStep, HandleFrame, PointerFails, WaitForCompletion, DeleteQueue,
         ThreadPrepares, ThreadWoken, ThreadSends, DeviceRefuses, DeviceStalls, vars, stream
  <2>2. CASE Active \/ Inactive \/ GetDeliveryBuffer \/ CopyMemory \/ HandleFrameReturns
             \/ DeliverEndOfStream \/ ThreadTakes \/ ThreadReleases \/ FreeSamples
             \/ \E b \in Buffers : DeviceReleases(b)
    BY <2>2 DEF Active, Inactive, GetDeliveryBuffer, CopyMemory, HandleFrameReturns,
         DeliverEndOfStream, ThreadTakes, ThreadReleases, FreeSamples, DeviceReleases, stream
  <2> QED BY <2>1, <2>2, NextSplit
<1> QED BY <1>1, <1>2, <1>3, <1>4, <1>5

(* The device gets the frames the worker sent in order, none left out or   *)
(* repeated, no more of them are under way than there are buffers, and the *)
(* end of stream comes after the last.                                     *)
THEOREM Refinement == Spec => ImplementsStream
<1>1. Init => Stream!Init
  BY DEF Init, Stream!Init
<1>2. IInv /\ [Next]_vars => [Stream!Next]_(Stream!streamVars)
  BY StepImplements
<1> QED BY <1>1, <1>2, Invariance, PTL DEF Spec, ImplementsStream, Stream!Spec
=============================================================================
