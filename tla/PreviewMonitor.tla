--------------------------- MODULE PreviewMonitor ---------------------------
(***************************************************************************)
(* CMonitor: the preview. MonitoringThread takes an empty buffer from the  *)
(* pool of the renderer (MemAllocator), shows it in m_sample, and waits.   *)
(* The thread that brings the frames (the capturing or the recording       *)
(* worker) fills it in HandleFrame, clears m_sample and signals m_ev, and  *)
(* MonitoringThread delivers the sample. There is no lock. The dialog      *)
(* deletes the monitor after the worker has ended (PipelineOutlivesThreads *)
(* of CaptureSession and RecordSession).                                   *)
(*                                                                         *)
(* External: the renderer, which keeps a delivered sample for a while, and *)
(* the filter graph, which stops and runs again when the display changes   *)
(* or stops for good on an error. Sleep is a step that may take any time.  *)
(***************************************************************************)
EXTENDS MemAllocator

CONSTANTS
  Monitoring,   \* MonitoringThread, the only thread that calls GetBuffer
  NoSample

ASSUME PreviewAssumption ==
  /\ Getters = {Monitoring}
  /\ NoSample \notin Buffers

VARIABLES
  mpc,       \* where MonitoringThread is
  pSample,   \* its local pointer
  sample,    \* m_sample
  ev,        \* m_ev, an auto-reset event
  hpc,       \* where HandleFrame is
  content,   \* what is in each buffer: "stale", "partial" or "filled"
  lost,      \* GetPointer has failed
  upc,       \* where the dialog is: "showing" until the destructor begins
  kept       \* the samples the renderer holds

window == upc = "showing"   \* m_VW is not NULL

vars == <<allocVars, mpc, pSample, sample, ev, hpc, content, lost, upc, kept>>

Init ==
  /\ AllocInit(TRUE)      \* the constructor runs the graph before the thread
  /\ mpc = "get" /\ pSample = NoSample
  /\ sample = NoSample /\ ev = FALSE
  /\ hpc = "idle" /\ lost = FALSE
  /\ content = [b \in Buffers |-> "stale"]
  /\ upc = "showing"
  /\ kept = {}

MonitorStep(from, to) == mpc = from /\ mpc' = to
HandlerStep(from, to) == hpc = from /\ hpc' = to

----------------------------------------------------------------------------
(* CMonitor::HandleFrame with a frame.                                     *)

(* GetPointer on the buffer MonitoringThread shows; a frame that finds     *)
(* none is dropped, which changes nothing.                                 *)
FrameArrives ==
  /\ window
  /\ sample # NoSample
  /\ HandlerStep("idle", "copy")
  /\ content' = [content EXCEPT ![sample] = "partial"]
  /\ UNCHANGED <<allocVars, mpc, pSample, sample, ev, lost, upc, kept>>

(* GetPointer fails: the buffer is dropped and nobody is told.             *)
PointerFails ==
  /\ window
  /\ sample # NoSample
  /\ HandlerStep("idle", "idle")
  /\ sample' = NoSample
  /\ lost' = TRUE
  /\ UNCHANGED <<allocVars, mpc, pSample, ev, content, upc, kept>>

FrameCopied ==
  /\ HandlerStep("copy", "clear")
  /\ content' = [content EXCEPT ![sample] = "filled"]
  /\ UNCHANGED <<allocVars, mpc, pSample, sample, ev, lost, upc, kept>>

(* The event is set first and the pointer cleared after it.                *)
SignalFirstMutant ==
  /\ HandlerStep("clear", "signal")
  /\ ev' = TRUE
  /\ UNCHANGED <<allocVars, mpc, pSample, sample, content, lost, upc, kept>>

ClearLastMutant ==
  /\ HandlerStep("signal", "idle")
  /\ sample' = NoSample
  /\ UNCHANGED <<allocVars, mpc, pSample, ev, content, lost, upc, kept>>

SampleCleared ==
  /\ HandlerStep("clear", "signal")
  /\ sample' = NoSample
  /\ UNCHANGED <<allocVars, mpc, pSample, ev, content, lost, upc, kept>>

FrameSignaled ==
  /\ HandlerStep("signal", "idle")
  /\ ev' = TRUE
  /\ UNCHANGED <<allocVars, mpc, pSample, sample, content, lost, upc, kept>>

----------------------------------------------------------------------------
(* CMonitor::MonitoringThread.                                             *)

GetDeliveryBuffer ==
  /\ \/ \E b \in Buffers :
          /\ GetBuffer(Monitoring, b)
          /\ MonitorStep("get", "expose")
          /\ pSample' = b
          /\ content' = [content EXCEPT ![b] = "stale"]
     \/ /\ \/ GetBufferWaits(Monitoring) \/ GetBufferWoken(Monitoring)
        /\ MonitorStep("get", "get")
        /\ UNCHANGED <<pSample, content>>
     \/ /\ GetBufferFails(Monitoring)
        /\ MonitorStep("get", "retry")
        /\ UNCHANGED <<pSample, content>>
  /\ UNCHANGED <<sample, ev, hpc, lost, upc, kept>>

SleepAndRetry ==
  /\ MonitorStep("retry", "get")
  /\ UNCHANGED <<allocVars, pSample, sample, ev, hpc, content, lost, upc, kept>>

(* The buffer is shown after the sleep that holds the frame rate down.     *)
Expose ==
  /\ MonitorStep("expose", "wait")
  /\ sample' = pSample
  /\ UNCHANGED <<allocVars, pSample, ev, hpc, content, lost, upc, kept>>

(* The test of m_VW is missing.                                            *)
NoWindowTestMutant ==
  /\ ev
  /\ ev' = FALSE
  /\ MonitorStep("wait", "deliver")
  /\ UNCHANGED <<allocVars, pSample, sample, hpc, content, lost, upc, kept>>

(* The wait for m_ev, and the test of m_VW after it.                       *)
Signaled ==
  /\ ev
  /\ ev' = FALSE
  /\ \/ window /\ MonitorStep("wait", "deliver") /\ UNCHANGED allocVars
     \/ ~window /\ MonitorStep("wait", "ended") /\ Release(pSample)
  /\ UNCHANGED <<pSample, sample, hpc, content, lost, upc, kept>>

(* The renderer takes the sample, and may keep it after the call.          *)
Deliver ==
  /\ MonitorStep("deliver", "release")
  /\ \/ AddRef(pSample) /\ kept' = kept \cup {pSample}
     \/ UNCHANGED <<allocVars, kept>>
  /\ UNCHANGED <<pSample, sample, ev, hpc, content, lost, upc>>

(* The sample is delivered and never released.                             *)
LeakMutant ==
  /\ MonitorStep("release", "get")
  /\ pSample' = NoSample
  /\ UNCHANGED <<allocVars, sample, ev, hpc, content, lost, upc, kept>>

ReleaseSample ==
  /\ MonitorStep("release", "get")
  /\ Release(pSample)
  /\ pSample' = NoSample
  /\ UNCHANGED <<sample, ev, hpc, content, lost, upc, kept>>

----------------------------------------------------------------------------
(* CMonitor::~CMonitor.                                                    *)

ClearWindow ==
  /\ upc = "showing" /\ upc' = "signal"
  /\ hpc = "idle"
  /\ UNCHANGED <<allocVars, mpc, pSample, sample, ev, hpc, content, lost, kept>>

SignalThread ==
  /\ upc = "signal" /\ upc' = "join"
  /\ ev' = TRUE
  /\ UNCHANGED <<allocVars, mpc, pSample, sample, hpc, content, lost, kept>>

JoinThread ==
  /\ upc = "join" /\ upc' = "closed"
  /\ mpc = "ended"
  /\ UNCHANGED <<allocVars, mpc, pSample, sample, ev, hpc, content, lost, kept>>

----------------------------------------------------------------------------
(* The renderer and the filter graph.                                      *)

RendererReleases(b) ==
  /\ b \in kept
  /\ kept' = kept \ {b}
  /\ Release(b)
  /\ UNCHANGED <<mpc, pSample, sample, ev, hpc, content, lost, upc>>

GraphRuns ==
  /\ Commit
  /\ UNCHANGED <<mpc, pSample, sample, ev, hpc, content, lost, upc, kept>>

GraphStops ==
  /\ committed
  /\ Decommit
  /\ UNCHANGED <<mpc, pSample, sample, ev, hpc, content, lost, upc, kept>>

----------------------------------------------------------------------------
HandlerWorks == FrameCopied \/ SampleCleared \/ FrameSignaled
MonitorLoop ==
  \/ GetDeliveryBuffer \/ SleepAndRetry \/ Expose \/ Signaled
  \/ Deliver \/ ReleaseSample
Destructor == SignalThread \/ JoinThread

Next ==
  \/ FrameArrives \/ PointerFails \/ HandlerWorks
  \/ MonitorLoop
  \/ ClearWindow \/ Destructor
  \/ \E b \in Buffers : RendererReleases(b)
  \/ GraphRuns \/ GraphStops

(* The threads of the program are scheduled and the renderer lets every    *)
(* sample go. Nothing makes a frame arrive, the graph run or the user      *)
(* leave.                                                                  *)
Fairness ==
  /\ WF_vars(HandlerWorks)
  /\ WF_vars(MonitorLoop)
  /\ WF_vars(Destructor)
  /\ \A b \in Buffers : WF_vars(RendererReleases(b))

Spec == Init /\ [][Next]_vars /\ Fairness

----------------------------------------------------------------------------
TypeOK ==
  /\ AllocTypeOK
  /\ mpc \in {"get", "retry", "expose", "wait", "deliver", "release", "ended"}
  /\ hpc \in {"idle", "copy", "clear", "signal"}
  /\ upc \in {"showing", "signal", "join", "closed"}
  /\ pSample \in Buffers \cup {NoSample}
  /\ sample \in Buffers \cup {NoSample}
  /\ ev \in BOOLEAN /\ lost \in BOOLEAN
  /\ content \in [Buffers -> {"stale", "partial", "filled"}]
  /\ kept \subseteq Buffers

(* What the renderer has was filled completely and is not written again    *)
(* while it is shown, although the two threads exchange the buffer without *)
(* a lock: HandleFrame writes only the buffer MonitoringThread waits with. *)
ShownIsFilled ==
  /\ mpc \in {"deliver", "release"} => content[pSample] = "filled"
  /\ \A b \in kept : content[b] = "filled"
  /\ hpc \in {"copy", "clear"} => mpc = "wait" /\ sample = pSample

(* MonitoringThread never waits for a signal that nobody will give: the    *)
(* buffer is on show, or HandleFrame is about to signal, or has. The one   *)
(* exception is a failed GetPointer, which drops the buffer silently. Nor  *)
(* does it wait for a buffer while the pool has one.                       *)
HandOverKept ==
  /\ mpc = "wait" => sample = pSample \/ hpc = "signal" \/ ev \/ lost
  /\ WaitersCounted

(* After a sample is delivered the next buffer is put on show, whatever    *)
(* the renderer keeps meanwhile, unless the graph stops or the user        *)
(* leaves.                                                                 *)
PreviewGoesOn ==
  mpc = "deliver" ~> ((mpc = "wait" /\ sample = pSample) \/ ~committed \/ ~window)

(* The destructor comes back, even when a GetPointer has failed. It needs  *)
(* the graph to run: while GetDeliveryBuffer fails the thread goes on      *)
(* trying and does not look at m_VW.                                       *)
CloseReturns == <>[]committed => (upc = "signal" ~> upc = "closed")
=============================================================================
