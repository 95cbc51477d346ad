------------------------------ MODULE DVOutput ------------------------------
(***************************************************************************)
(* CDVOutput: how a frame the recording worker hands to                    *)
(* COutputGraph::HandleFrame reaches the DV device. The worker copies it   *)
(* into a buffer of the pool (MemAllocator) and gives it to a COutputQueue *)
(* whose own thread passes it on, so that a slow device does not hold up   *)
(* the worker until all buffers are under way.                             *)
(*                                                                         *)
(* The application side is one sequence of steps: the worker's frames, and *)
(* after the worker has ended (RecordSession, PipelineOutlivesThreads) the *)
(* destructor on the thread of the dialog. The queue is built with a       *)
(* thread, a batch of one sample and no exact batches, so the parts of     *)
(* COutputQueue for direct calls, larger batches, flushing, resets and new *)
(* segments, which nothing here calls, are left out, and so are the time   *)
(* stamps and an exception out of GetDeliveryBuffer. The device is         *)
(* external: it takes or refuses a sample, keeps it for a while, and may   *)
(* stall for good.                                                         *)
(***************************************************************************)
EXTENDS MemAllocator, Sequences

CONSTANTS
  App,         \* the application thread, the only one that calls GetBuffer
  MaxFrames,   \* bound: frames accepted in a behaviour
  EOS_PACKET, NoBuffer

ASSUME DVOutputAssumption ==
  /\ Getters = {App}
  /\ MaxFrames \in Nat
  /\ EOS_PACKET \notin Buffers /\ NoBuffer \notin Buffers

VARIABLES
  apc,        \* where the application is
  hold,       \* the buffer HandleFrame fills, NoBuffer outside it
  list,       \* m_List: samples and EOS_PACKET
  lWaiting,   \* COutputQueue::m_lWaiting
  qsem,       \* the count of its m_hSem
  terminate,  \* m_bTerminate
  hrOK,       \* m_hr = S_OK
  tpc,        \* where the thread of the queue is
  batch,      \* m_ppSamples[0] while lNumberToSend is 1
  kept,       \* the samples the device holds a reference to
  stalled,    \* the device does nothing any more
  content,    \* the frame in each buffer
  sent, got, ended   \* the stream as SampleStream sees it

queue == <<list, lWaiting, qsem, terminate, hrOK>>
stream == <<sent, got, ended>>
vars == <<allocVars, apc, hold, queue, tpc, batch, kept, stalled, content, stream>>

Init ==
  /\ AllocInit(FALSE)
  /\ apc = "stopped" /\ hold = NoBuffer
  /\ list = <<>> /\ lWaiting = 0 /\ qsem = 0
  /\ terminate = FALSE /\ hrOK = TRUE
  /\ tpc = "none" /\ batch = NoBuffer
  /\ kept = {} /\ stalled = FALSE
  /\ content = [b \in Buffers |-> 0]
  /\ sent = 0 /\ got = 0 /\ ended = FALSE

AppStep(from, to) == apc = from /\ apc' = to
ThreadStep(from, to) == tpc = from /\ tpc' = to

----------------------------------------------------------------------------
(* Active, when the constructor runs the graph: the queue and its thread,  *)
(* then the buffers.                                                       *)
Active ==
  /\ AppStep("stopped", "idle")
  /\ tpc' = "collect"
  /\ Commit
  /\ UNCHANGED <<hold, queue, batch, kept, stalled, content, stream>>

(* COutputGraph::HandleFrame. The worker sends again a frame it holds      *)
(* while paused; each call is a frame of its own here.                     *)
HandleFrame ==
  /\ AppStep("idle", "get")
  /\ sent < MaxFrames
  /\ UNCHANGED <<allocVars, hold, queue, tpc, batch, kept, stalled, content, stream>>

GetDeliveryBuffer ==
  /\ apc = "get"
  /\ \/ \E b \in Buffers :
          /\ GetBuffer(App, b)
          /\ hold' = b /\ apc' = "fill"
     \/ GetBufferWaits(App) /\ UNCHANGED <<apc, hold>>
     \/ GetBufferWoken(App) /\ UNCHANGED <<apc, hold>>
  /\ UNCHANGED <<queue, tpc, batch, kept, stalled, content, stream>>

CopyMemory ==
  /\ AppStep("fill", "deliver")
  /\ content' = [content EXCEPT ![hold] = sent + 1]
  /\ UNCHANGED <<allocVars, hold, queue, tpc, batch, kept, stalled, stream>>

(* GetPointer fails: the frame is given up.                                *)
PointerFails ==
  /\ AppStep("fill", "release")
  /\ UNCHANGED <<allocVars, hold, queue, tpc, batch, kept, stalled, content, stream>>

(* COutputQueue::NotifyThread, with the critical section held.             *)
LateNotifyMutant ==
  /\ qsem' = qsem + lWaiting
  /\ lWaiting' = lWaiting

NotifyThread ==
  /\ qsem' = qsem + lWaiting
  /\ lWaiting' = 0

(* A sample or EOS_PACKET enters the queue, or is dropped: m_hr stays set   *)
(* once the device has refused a sample.                                   *)
QueueSample(s) ==
  /\ hrOK
  /\ list' = Append(list, s)
  /\ NotifyThread

Discards ==
  /\ ~hrOK
  /\ UNCHANGED <<list, lWaiting, qsem>>

(* Deliver without the AddRef the queue takes over.                        *)
NoAddRefMutant ==
  /\ AppStep("deliver", "release")
  /\ \/ QueueSample(hold) /\ sent' = sent + 1
     \/ Discards /\ UNCHANGED sent
  /\ UNCHANGED <<allocVars, hold, terminate, hrOK, tpc, batch, kept, stalled, content,
                 got, ended>>

(* COutputPin::Deliver: the queue gets a reference of its own.             *)
Deliver ==
  /\ AppStep("deliver", "release")
  /\ \/ AddRef(hold) /\ QueueSample(hold) /\ sent' = sent + 1
     \/ Discards /\ UNCHANGED <<allocVars, sent>>
  /\ UNCHANGED <<hold, terminate, hrOK, tpc, batch, kept, stalled, content, got, ended>>

HandleFrameReturns ==
  /\ AppStep("release", "idle")
  /\ Release(hold)
  /\ hold' = NoBuffer
  /\ UNCHANGED <<queue, tpc, batch, kept, stalled, content, stream>>

----------------------------------------------------------------------------
(* The destructor announces the end straight to the pin.                   *)
EosOvertakesMutant ==
  /\ AppStep("idle", "complete")
  /\ ended' = hrOK
  /\ UNCHANGED <<allocVars, hold, queue, tpc, batch, kept, stalled, content, sent, got>>

(* ~CDVOutput: DeliverEndOfStream, which is COutputQueue::EOS.             *)
DeliverEndOfStream ==
  /\ AppStep("idle", "complete")
  /\ QueueSample(EOS_PACKET) \/ Discards
  /\ UNCHANGED <<allocVars, hold, terminate, hrOK, tpc, batch, kept, stalled,
                 content, stream>>

(* WaitForCompletion returns on EC_COMPLETE or after five seconds: at any  *)
(* time.                                                                   *)
WaitForCompletion ==
  /\ AppStep("complete", "delete")
  /\ UNCHANGED <<allocVars, hold, queue, tpc, batch, kept, stalled, content, stream>>

(* Stopping the graph makes the pin inactive: ~COutputQueue, then the      *)
(* buffers.                                                                *)
DeleteQueue ==
  /\ AppStep("delete", "join")
  /\ terminate' = TRUE
  /\ hrOK' = FALSE
  /\ NotifyThread
  /\ UNCHANGED <<allocVars, hold, list, tpc, batch, kept, stalled, content, stream>>

Inactive ==
  /\ AppStep("join", "closed")
  /\ tpc = "ended"
  /\ Decommit
  /\ UNCHANGED <<hold, queue, tpc, batch, kept, stalled, content, stream>>

----------------------------------------------------------------------------
(* COutputQueue::ThreadProc. The first step of each turn runs in the       *)
(* critical section, up to the break that leaves it.                       *)

ThreadTakes ==
  /\ ~terminate
  /\ list # <<>>
  /\ \/ /\ Head(list) \in Buffers
        /\ ThreadStep("collect", "send")
        /\ batch' = Head(list)
     \/ /\ Head(list) = EOS_PACKET
        /\ ThreadStep("collect", "eos")
        /\ UNCHANGED batch
  /\ list' = Tail(list)
  /\ UNCHANGED <<allocVars, apc, hold, lWaiting, qsem, terminate, hrOK, kept, stalled,
                 content, stream>>

ThreadPrepares ==
  /\ ~terminate
  /\ list = <<>>
  /\ ThreadStep("collect", "wait")
  /\ lWaiting' = lWaiting + 1
  /\ UNCHANGED <<allocVars, apc, hold, list, qsem, terminate, hrOK, batch, kept,
                 stalled, content, stream>>

ThreadWoken ==
  /\ ThreadStep("wait", "collect")
  /\ qsem > 0
  /\ qsem' = qsem - 1
  /\ UNCHANGED <<allocVars, apc, hold, list, lWaiting, terminate, hrOK, batch, kept,
                 stalled, content, stream>>

(* m_hr is read without the critical section.                              *)
ThreadSends ==
  /\ ThreadStep("send", IF hrOK THEN "receive" ELSE "release")
  /\ UNCHANGED <<allocVars, apc, hold, queue, batch, kept, stalled, content, stream>>

(* The device takes the sample, and may keep it after the call.            *)
DeviceTakes ==
  /\ ~stalled
  /\ ThreadStep("receive", "release")
  /\ got' = content[batch]
  /\ \/ AddRef(batch) /\ kept' = kept \cup {batch}
     \/ UNCHANGED <<allocVars, kept>>
  /\ UNCHANGED <<apc, hold, queue, batch, stalled, content, sent, ended>>

(* A failed Receive whose result is not remembered.                        *)
ForgottenResultMutant ==
  /\ ~stalled
  /\ ThreadStep("receive", "release")
  /\ UNCHANGED <<allocVars, apc, hold, queue, batch, kept, stalled, content, stream>>

(* The device refuses the sample and m_hr remembers it.                    *)
DeviceRefuses ==
  /\ ~stalled
  /\ ThreadStep("receive", "release")
  /\ hrOK' = FALSE
  /\ UNCHANGED <<allocVars, apc, hold, list, lWaiting, qsem, terminate, batch, kept,
                 stalled, content, stream>>

ThreadReleases ==
  /\ ThreadStep("release", "collect")
  /\ Release(batch)
  /\ batch' = NoBuffer
  /\ UNCHANGED <<apc, hold, queue, kept, stalled, content, stream>>

ThreadEnds ==
  /\ ThreadStep("eos", "collect")
  /\ ended' = (ended \/ hrOK)
  /\ UNCHANGED <<allocVars, apc, hold, queue, batch, kept, stalled, content, sent, got>>

(* FreeSamples on termination, one sample at a time.                       *)
FreeSamples ==
  /\ terminate
  /\ \/ /\ list = <<>>
        /\ ThreadStep("collect", "ended")
        /\ UNCHANGED <<allocVars, list>>
     \/ /\ list # <<>>
        /\ ThreadStep("collect", "collect")
        /\ list' = Tail(list)
        /\ \/ Head(list) \in Buffers /\ Release(Head(list))
           \/ Head(list) = EOS_PACKET /\ UNCHANGED allocVars
  /\ UNCHANGED <<apc, hold, lWaiting, qsem, terminate, hrOK, batch, kept, stalled,
                 content, stream>>

----------------------------------------------------------------------------
(* The device on its own: it lets a transmitted sample go, or stalls (a    *)
(* cable pulled out, a driver that hangs).                                 *)
DeviceReleases(b) ==
  /\ ~stalled
  /\ b \in kept
  /\ kept' = kept \ {b}
  /\ Release(b)
  /\ UNCHANGED <<apc, hold, queue, tpc, batch, stalled, content, stream>>

DeviceStalls ==
  /\ ~stalled
  /\ stalled' = TRUE
  /\ UNCHANGED <<allocVars, apc, hold, queue, tpc, batch, kept, content, stream>>

----------------------------------------------------------------------------
FrameStep ==
  \/ GetDeliveryBuffer \/ CopyMemory \/ PointerFails
  \/ Deliver \/ HandleFrameReturns
CloseStep == WaitForCompletion \/ DeleteQueue \/ Inactive
ThreadLoop ==
  \/ ThreadTakes \/ ThreadPrepares \/ ThreadWoken \/ ThreadSends
  \/ ThreadReleases \/ ThreadEnds \/ FreeSamples
DeviceReceives == DeviceTakes \/ DeviceRefuses

Next ==
  \/ Active \/ HandleFrame \/ FrameStep
  \/ DeliverEndOfStream \/ CloseStep
  \/ ThreadLoop \/ DeviceReceives
  \/ \E b \in Buffers : DeviceReleases(b)
  \/ DeviceStalls

(* Threads inside the program are scheduled; a device that has not stalled *)
(* answers and lets samples go. Nothing makes the worker send a frame or   *)
(* the user leave.                                                         *)
Fairness ==
  /\ WF_vars(FrameStep)
  /\ WF_vars(CloseStep)
  /\ WF_vars(ThreadLoop)
  /\ WF_vars(DeviceReceives)
  /\ \A b \in Buffers : WF_vars(DeviceReleases(b))

Spec == Init /\ [][Next]_vars /\ Fairness

----------------------------------------------------------------------------
TypeOK ==
  /\ AllocTypeOK
  /\ apc \in {"stopped", "idle", "get", "fill", "deliver", "release", "complete",
              "delete", "join", "closed"}
  /\ hold \in Buffers \cup {NoBuffer}
  /\ list \in Seq(Buffers \cup {EOS_PACKET})
  /\ lWaiting \in Nat /\ qsem \in Nat
  /\ terminate \in BOOLEAN /\ hrOK \in BOOLEAN
  /\ tpc \in {"none", "collect", "wait", "send", "receive", "release", "eos", "ended"}
  /\ batch \in Buffers \cup {NoBuffer}
  /\ kept \subseteq Buffers
  /\ stalled \in BOOLEAN
  /\ content \in [Buffers -> Nat]
  /\ sent \in Nat /\ got \in Nat /\ ended \in BOOLEAN

(* Each reference count is the number of places that hold the sample: the  *)
(* worker, the list of the queue, the thread of the queue, the device.     *)
(* One too few and a buffer is filled again while the device reads it; one *)
(* too many and the pool runs dry.                                         *)
One(condition) == IF condition THEN 1 ELSE 0
InList(b) == \E i \in 1 .. Len(list) : list[i] = b

BuffersAccounted ==
  /\ \A b \in Buffers :
       ref[b] = One(hold = b) + One(InList(b)) + One(batch = b) + One(b \in kept)
  /\ PoolConsistent

(* Neither the thread of the queue nor the worker sleeps through its       *)
(* signal: a thread on its way into the wait is counted until it has a     *)
(* signal to take, and never while there is work for it.                   *)
NoLostWakeup ==
  /\ lWaiting + qsem = One(tpc = "wait")
  /\ lWaiting > 0 => list = <<>> /\ ~terminate
  /\ WaitersCounted

(* The device gets what the worker sent: in order, without a gap, without  *)
(* a repetition, and the end of stream after the last frame.               *)
Stream == INSTANCE SampleStream WITH Capacity <- Cardinality(Buffers)
ImplementsStream == Stream!Spec

(* A frame the queue accepted reaches the device unless the device refused *)
(* a sample or stalled, or the graph was torn down after five seconds.     *)
FramesTaken ==
  \A f \in 1 .. MaxFrames : sent >= f ~> (got >= f \/ ~hrOK \/ stalled)

(* The destructor of CDVOutput comes back: its waits are for the thread of *)
(* the queue, which stops at the next sample. Only a device that stalls    *)
(* inside Receive keeps it.                                                *)
CloseReturns == apc = "complete" ~> (apc = "closed" \/ stalled)

(* Only the device holds the recording up, with frames and at its end.     *)
OutputGoesOn == FramesTaken /\ CloseReturns
=============================================================================
