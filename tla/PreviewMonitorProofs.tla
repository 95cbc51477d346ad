------------------------ MODULE PreviewMonitorProofs ------------------------
(***************************************************************************)
(* Proofs about PreviewMonitor, for any number of buffers: the preview     *)
(* exchanges its buffer without a lock, and yet shows only complete frames *)
(* and loses no signal.                                                    *)
(***************************************************************************)
EXTENDS PreviewMonitor, MemAllocatorProofs

USE PreviewAssumption

(* MonitoringThread has a buffer, and a reference to it.                   *)
Holding == mpc \in {"expose", "wait", "deliver", "release"}

OwnTypes ==
  /\ mpc \in {"get", "retry", "expose", "wait", "deliver", "release", "ended"}
  /\ hpc \in {"idle", "copy", "clear", "signal"}
  /\ upc \in {"showing", "signal", "join", "closed"}
  /\ pSample \in Buffers \cup {NoSample}
  /\ sample \in Buffers \cup {NoSample}
  /\ ev \in BOOLEAN /\ lost \in BOOLEAN
  /\ content \in [Buffers -> {"stale", "partial", "filled"}]
  /\ kept \subseteq Buffers

(* Who may touch the buffer: on show it is HandleFrame, from m_sample      *)
(* cleared to m_ev nobody, then MonitoringThread. A signal means a filled  *)
(* buffer as long as there is a window.                                    *)
ExchangeInv ==
  /\ Holding => pSample \in Buffers
  /\ mpc = "ended" => ~window
  /\ sample # NoSample => sample = pSample /\ mpc \in {"wait", "ended"}
  /\ hpc # "idle" => window /\ mpc = "wait" /\ ~ev
  /\ hpc \in {"copy", "clear"} => sample = pSample
  /\ hpc = "signal" => sample = NoSample
  /\ hpc \in {"clear", "signal"} => content[pSample] = "filled"
  /\ ev /\ window => mpc = "wait" /\ sample = NoSample /\ content[pSample] = "filled"

(* The references of a buffer are MonitoringThread and the renderer, which *)
(* does not have the buffer while it is being exchanged.                   *)
References(b) ==
  (IF Holding /\ pSample = b THEN 1 ELSE 0) + (IF b \in kept THEN 1 ELSE 0)

ReferenceInv ==
  /\ \A b \in Buffers : ref[b] = References(b)
  /\ mpc \in {"expose", "wait", "deliver"} => pSample \notin kept

IInv == PoolInv /\ OwnTypes /\ ExchangeInv /\ ReferenceInv /\ ShownIsFilled /\ HandOverKept

(* The steps that do not touch the pool.                                   *)
HandlerStepping ==
  FrameArrives \/ PointerFails \/ FrameCopied \/ SampleCleared \/ FrameSignaled
QuietStep ==
  \/ HandlerStepping \/ SleepAndRetry \/ Expose
  \/ ClearWindow \/ SignalThread \/ JoinThread

LEMMA NextSplit ==
  [Next]_vars =>
    \/ QuietStep \/ UNCHANGED vars
    \/ GetDeliveryBuffer \/ Signaled \/ Deliver \/ ReleaseSample
    \/ \E b \in Buffers : RendererReleases(b)
    \/ GraphRuns \/ GraphStops
  BY Zenon DEF Next, HandlerWorks, MonitorLoop, Destructor, QuietStep, HandlerStepping

LEMMA StartsWell == Init => IInv
<1> SUFFICES ASSUME Init PROVE IInv
  OBVIOUS
<1>1. PoolInv
  BY PoolStarts DEF Init
<1>2. OwnTypes
  BY DEF Init, OwnTypes
<1>3. ExchangeInv /\ ShownIsFilled
  BY DEF Init, ExchangeInv, ShownIsFilled, Holding
<1>4. ReferenceInv
  BY DEF Init, AllocInit, ReferenceInv, References, Holding
<1>5. HandOverKept
  BY <1>1 DEF Init, HandOverKept, PoolInv
<1> QED BY <1>1, <1>2, <1>3, <1>4, <1>5 DEF IInv

LEMMA QuietKeeps ==
  ASSUME IInv, QuietStep
  PROVE  IInv'
<1> USE DEF MonitorStep, HandlerStep, Holding, window
<1>1. UNCHANGED allocVars /\ UNCHANGED <<pSample, kept>>
  BY DEF QuietStep, HandlerStepping, FrameArrives, PointerFails, FrameCopied, SampleCleared,
         FrameSignaled, SleepAndRetry, Expose, ClearWindow, SignalThread, JoinThread
<1>2. PoolInv' /\ WaitersCounted' /\ ref' = ref
  BY <1>1, PoolStays DEF IInv, PoolInv, Untouched
<1>3. OwnTypes'
  <2>1. CASE HandlerStepping
    BY <2>1, <1>1 DEF HandlerStepping, FrameArrives, PointerFails, FrameCopied,
                      SampleCleared, FrameSignaled, IInv, OwnTypes
  <2>2. CASE SleepAndRetry \/ Expose
    BY <2>2, <1>1 DEF SleepAndRetry, Expose, IInv, OwnTypes
  <2>3. CASE ClearWindow \/ SignalThread \/ JoinThread
    BY <2>3, <1>1 DEF ClearWindow, SignalThread, JoinThread, IInv, OwnTypes
  <2> QED BY <2>1, <2>2, <2>3 DEF QuietStep
<1>4. ExchangeInv'
  <2> USE DEF IInv, OwnTypes, ExchangeInv
  <2>1. CASE HandlerStepping
    BY <2>1, <1>1 DEF HandlerStepping, FrameArrives, PointerFails, FrameCopied,
                      SampleCleared, FrameSignaled
  <2>2. CASE SleepAndRetry \/ Expose
    BY <2>2, <1>1 DEF SleepAndRetry, Expose
  <2>3. CASE ClearWindow \/ SignalThread \/ JoinThread
    BY <2>3, <1>1 DEF ClearWindow, SignalThread, JoinThread
  <2> QED BY <2>1, <2>2, <2>3 DEF QuietStep
<1>5. ReferenceInv'
  <2>1. UNCHANGED Holding /\ (mpc' \in {"expose", "wait", "deliver"} =>
                              mpc \in {"expose", "wait", "deliver"})
    BY DEF QuietStep, HandlerStepping, FrameArrives, PointerFails, FrameCopied,
           SampleCleared, FrameSignaled, SleepAndRetry, Expose, ClearWindow, SignalThread,
           JoinThread
  <2> QED BY <1>1, <1>2, <2>1 DEF IInv, ReferenceInv, References
<1>6. ShownIsFilled'
  <2> USE DEF IInv, OwnTypes, ExchangeInv, ReferenceInv, ShownIsFilled
  <2>1. CASE HandlerStepping
    BY <2>1, <1>1 DEF HandlerStepping, FrameArrives, PointerFails, FrameCopied,
                      SampleCleared, FrameSignaled
  <2>2. CASE SleepAndRetry \/ Expose
    BY <2>2, <1>1 DEF SleepAndRetry, Expose
  <2>3. CASE ClearWindow \/ SignalThread \/ JoinThread
    BY <2>3, <1>1 DEF ClearWindow, SignalThread, JoinThread
  <2> QED BY <2>1, <2>2, <2>3 DEF QuietStep
<1>7. HandOverKept'
  <2> USE <1>2 DEF IInv, OwnTypes, ExchangeInv, HandOverKept
  <2>1. CASE HandlerStepping
    BY <2>1, <1>1 DEF HandlerStepping, FrameArrives, PointerFails, FrameCopied,
                      SampleCleared, FrameSignaled
  <2>2. CASE SleepAndRetry \/ Expose
    BY <2>2, <1>1 DEF SleepAndRetry, Expose
  <2>3. CASE ClearWindow \/ SignalThread \/ JoinThread
    BY <2>3, <1>1 DEF ClearWindow, SignalThread, JoinThread
  <2> QED BY <2>1, <2>2, <2>3 DEF QuietStep
<1> QED BY <1>2, <1>3, <1>4, <1>5, <1>6, <1>7 DEF IInv

(* The buffer MonitoringThread gets has no other holder.                   *)
LEMMA GetDeliveryBufferKeeps ==
  ASSUME IInv, GetDeliveryBuffer
  PROVE  IInv'
<1> USE DEF MonitorStep, Holding, window
<1>1. UNCHANGED <<sample, ev, hpc, lost, upc, kept>> /\ mpc = "get"
  BY DEF GetDeliveryBuffer
<1>2. CASE \E b \in Buffers : /\ GetBuffer(Monitoring, b)
                              /\ MonitorStep("get", "expose")
                              /\ pSample' = b
                              /\ content' = [content EXCEPT ![b] = "stale"]
  <2>1. PICK b \in Buffers : /\ GetBuffer(Monitoring, b)
                             /\ MonitorStep("get", "expose")
                             /\ pSample' = b
                             /\ content' = [content EXCEPT ![b] = "stale"]
    BY <1>2
  <2>2. PoolInv' /\ ref[b] = 0 /\ ref' = [ref EXCEPT ![b] = 1]
    BY <2>1, GetBufferKeeps DEF IInv
  <2>3. b \notin kept
    BY <2>2 DEF IInv, ReferenceInv, References
  <2>4. OwnTypes'
    BY <1>1, <2>1 DEF IInv, OwnTypes
  <2>5. ExchangeInv'
    BY <1>1, <2>1 DEF IInv, OwnTypes, ExchangeInv
  <2>6. ReferenceInv'
    BY <1>1, <2>1, <2>2, <2>3 DEF IInv, PoolInv, AllocTypeOK, ReferenceInv, References
  <2>7. ShownIsFilled'
    BY <1>1, <2>1, <2>3 DEF IInv, OwnTypes, ExchangeInv, ShownIsFilled
  <2>8. HandOverKept'
    BY <2>1, <2>2 DEF PoolInv, HandOverKept
  <2> QED BY <2>2, <2>4, <2>5, <2>6, <2>7, <2>8 DEF IInv
<1>3. CASE /\ PoolInv' /\ Untouched
           /\ mpc' \in {"get", "retry"}
           /\ UNCHANGED <<pSample, content>>
  <2>1. OwnTypes' /\ ExchangeInv' /\ ReferenceInv'
    BY <1>1, <1>3 DEF IInv, OwnTypes, ExchangeInv, ReferenceInv, References, Untouched
  <2>2. ShownIsFilled' /\ HandOverKept'
    BY <1>1, <1>3 DEF IInv, ExchangeInv, ShownIsFilled, HandOverKept, PoolInv
  <2> QED BY <1>3, <2>1, <2>2 DEF IInv
<1>4. Monitoring \in Getters
  OBVIOUS
<1>5. \/ GetBufferWaits(Monitoring) \/ GetBufferWoken(Monitoring)
      \/ GetBufferFails(Monitoring)
      => PoolInv' /\ Untouched
  BY <1>4, GetBufferWaitsKeeps, GetBufferWokenKeeps, PoolStays DEF GetBufferFails, IInv
<1> QED BY <1>2, <1>3, <1>5 DEF GetDeliveryBuffer

(* A filled buffer is taken for delivery; without a window it is given up. *)
LEMMA SignaledKeeps ==
  ASSUME IInv, Signaled
  PROVE  IInv'
<1> USE DEF MonitorStep, Holding, window
<1>1. /\ UNCHANGED <<pSample, sample, hpc, content, lost, upc, kept>> /\ ev' = FALSE /\ ev
      /\ mpc = "wait" /\ mpc' \in {"deliver", "ended"}
      /\ mpc' = "deliver" <=> window
      /\ pSample \in Buffers /\ pSample \notin kept
  BY DEF Signaled, IInv, ExchangeInv, ReferenceInv
<1>2. CASE window
  <2>1. PoolInv' /\ Untouched /\ mpc' = "deliver"
    BY <1>1, <1>2, PoolStays DEF Signaled, IInv
  <2>2. ReferenceInv'
    BY <1>1, <2>1 DEF IInv, ReferenceInv, References, Untouched
  <2>3. OwnTypes' /\ ExchangeInv'
    BY <1>1, <1>2, <2>1 DEF IInv, OwnTypes, ExchangeInv
  <2>4. ShownIsFilled' /\ HandOverKept'
    BY <1>1, <1>2, <2>1 DEF IInv, PoolInv, ExchangeInv, ShownIsFilled, HandOverKept
  <2> QED BY <2>1, <2>2, <2>3, <2>4 DEF IInv
<1>3. CASE ~window
  <2>1. /\ PoolInv' /\ ref[pSample] > 0 /\ ref' = [ref EXCEPT ![pSample] = @ - 1]
        /\ mpc' = "ended"
    BY <1>1, <1>3, ReleaseKeeps DEF Signaled, IInv
  <2>2. ReferenceInv'
    BY <1>1, <2>1 DEF IInv, PoolInv, AllocTypeOK, ReferenceInv, References
  <2>3. OwnTypes' /\ ExchangeInv'
    BY <1>1, <1>3, <2>1 DEF IInv, OwnTypes, ExchangeInv
  <2>4. ShownIsFilled' /\ HandOverKept'
    BY <1>1, <1>3, <2>1 DEF IInv, PoolInv, ExchangeInv, ShownIsFilled, HandOverKept
  <2> QED BY <2>1, <2>2, <2>3, <2>4 DEF IInv
<1> QED BY <1>2, <1>3

LEMMA DeliverKeeps ==
  ASSUME IInv, Deliver
  PROVE  IInv'
<1> USE DEF MonitorStep, Holding, window
<1>1. /\ UNCHANGED <<pSample, sample, ev, hpc, content, lost, upc>>
      /\ mpc = "deliver" /\ mpc' = "release"
      /\ pSample \in Buffers /\ pSample \notin kept /\ ref[pSample] = 1
      /\ content[pSample] = "filled"
  BY DEF Deliver, IInv, ExchangeInv, ReferenceInv, References, ShownIsFilled
<1>2. /\ PoolInv' /\ ReferenceInv'
      /\ kept' \in {kept, kept \cup {pSample}}
  <2>1. CASE AddRef(pSample) /\ kept' = kept \cup {pSample}
    <3>1. PoolInv' /\ ref' = [ref EXCEPT ![pSample] = @ + 1]
      BY <1>1, <2>1, AddRefKeeps DEF IInv
    <3> QED BY <1>1, <2>1, <3>1 DEF IInv, PoolInv, AllocTypeOK, ReferenceInv, References
  <2>2. CASE UNCHANGED <<allocVars, kept>>
    BY <1>1, <2>2, PoolStays DEF IInv, ReferenceInv, References, Untouched
  <2> QED BY <2>1, <2>2 DEF Deliver
<1>3. OwnTypes' /\ ExchangeInv'
  BY <1>1, <1>2 DEF IInv, OwnTypes, ExchangeInv
<1>4. ShownIsFilled' /\ HandOverKept'
  BY <1>1, <1>2 DEF IInv, PoolInv, ExchangeInv, ShownIsFilled, HandOverKept
<1> QED BY <1>2, <1>3, <1>4 DEF IInv

LEMMA ReleaseSampleKeeps ==
  ASSUME IInv, ReleaseSample
  PROVE  IInv'
<1> USE DEF MonitorStep, Holding, window
<1>1. /\ UNCHANGED <<sample, ev, hpc, content, lost, upc, kept>>
      /\ mpc = "release" /\ mpc' = "get" /\ pSample' = NoSample
      /\ pSample \in Buffers
  BY DEF ReleaseSample, IInv, ExchangeInv
<1>2. PoolInv' /\ ref[pSample] > 0 /\ ref' = [ref EXCEPT ![pSample] = @ - 1]
  BY <1>1, ReleaseKeeps DEF ReleaseSample, IInv
<1>3. ReferenceInv'
  BY <1>1, <1>2 DEF IInv, PoolInv, AllocTypeOK, ReferenceInv, References
<1>4. OwnTypes' /\ ExchangeInv'
  BY <1>1 DEF IInv, OwnTypes, ExchangeInv
<1>5. ShownIsFilled' /\ HandOverKept'
  BY <1>1, <1>2 DEF IInv, PoolInv, ExchangeInv, ShownIsFilled, HandOverKept
<1> QED BY <1>2, <1>3, <1>4, <1>5 DEF IInv

LEMMA RendererKeeps ==
  ASSUME IInv, NEW b \in Buffers, RendererReleases(b)
  PROVE  IInv'
<1> USE DEF Holding, window
<1>1. /\ UNCHANGED <<mpc, pSample, sample, ev, hpc, content, lost, upc>>
      /\ b \in kept /\ kept' = kept \ {b}
  BY DEF RendererReleases
<1>2. PoolInv' /\ ref[b] > 0 /\ ref' = [ref EXCEPT ![b] = @ - 1]
  BY ReleaseKeeps DEF RendererReleases, IInv
<1>3. ReferenceInv'
  BY <1>1, <1>2 DEF IInv, PoolInv, AllocTypeOK, ReferenceInv, References
<1>4. OwnTypes' /\ ExchangeInv'
  BY <1>1 DEF IInv, OwnTypes, ExchangeInv
<1>5. ShownIsFilled' /\ HandOverKept'
  BY <1>1, <1>2 DEF IInv, PoolInv, ShownIsFilled, HandOverKept
<1> QED BY <1>2, <1>3, <1>4, <1>5 DEF IInv

LEMMA GraphKeeps ==
  ASSUME IInv, GraphRuns \/ GraphStops \/ UNCHANGED vars
  PROVE  IInv'
<1> USE DEF Holding, window
<1>1. UNCHANGED <<mpc, pSample, sample, ev, hpc, content, lost, upc, kept>>
  BY DEF GraphRuns, GraphStops, vars
<1>2. PoolInv' /\ Untouched
  BY CommitKeeps, DecommitKeeps, PoolStays DEF GraphRuns, GraphStops, vars, IInv
<1>3. OwnTypes' /\ ExchangeInv' /\ ReferenceInv'
  BY <1>1, <1>2 DEF IInv, OwnTypes, ExchangeInv, ReferenceInv, References, Untouched
<1>4. ShownIsFilled' /\ HandOverKept'
  BY <1>1, <1>2 DEF IInv, PoolInv, ShownIsFilled, HandOverKept
<1> QED BY <1>2, <1>3, <1>4 DEF IInv

----------------------------------------------------------------------------
(* The conjunction of all the parts holds in every reachable state.        *)
THEOREM Invariance == Spec => []IInv
<1>1. Init => IInv
  BY StartsWell
<1>2. IInv /\ [Next]_vars => IInv'
  BY NextSplit, QuietKeeps, GetDeliveryBufferKeeps, SignaledKeeps, DeliverKeeps,
     ReleaseSampleKeeps, RendererKeeps, GraphKeeps
<1> QED BY <1>1, <1>2, PTL DEF Spec

(* Every variable of the preview and of its pool keeps its type.           *)
THEOREM TypeCorrect == Spec => []TypeOK
<1>1. IInv => TypeOK
  BY DEF IInv, PoolInv, OwnTypes, TypeOK
<1> QED BY <1>1, Invariance, PTL

(* CMonitor delivers only buffers that HandleFrame has filled completely,  *)
(* and HandleFrame writes only the buffer MonitoringThread waits with,     *)
(* although m_sample is exchanged without a lock.                          *)
THEOREM ShownFilled == Spec => []ShownIsFilled
<1>1. IInv => ShownIsFilled
  BY DEF IInv
<1> QED BY <1>1, Invariance, PTL

(* MonitoringThread never waits for a signal nobody will give, except      *)
(* after a failed GetPointer, nor for a buffer while one is free.          *)
THEOREM HandOver == Spec => []HandOverKept
<1>1. IInv => HandOverKept
  BY DEF IInv
<1> QED BY <1>1, Invariance, PTL

(* The samples of the renderer's pool are free exactly when neither        *)
(* MonitoringThread nor the renderer refers to them.                       *)
THEOREM PoolCorrect == Spec => [](PoolConsistent /\ \A b \in Buffers : ref[b] = References(b))
<1>1. IInv => PoolConsistent /\ \A b \in Buffers : ref[b] = References(b)
  BY DEF IInv, PoolInv, ReferenceInv
<1> QED BY <1>1, Invariance, PTL
=============================================================================
