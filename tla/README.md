# WinDV: specification and proofs

WinDV copies digital video (DV) between a camcorder and AVI files under Windows.
This directory holds TLA+ models of its capture and recording engine, of the
dialog above it and of its command-line tools, the configurations that check them
with TLC, and proofs checked by TLAPS. Everything is translated from the C++
source; paths are relative to the repository, and a bare line number refers to
`src/DShow.cpp`.

Contents: [1 the system](#1-the-system) · [2 the modules](#2-the-modules) ·
[3 the runs](#3-the-runs) · [4 fairness](#4-fairness) · [5 the proofs](#5-the-proofs) ·
[6 disagreements found](#6-disagreements-found) · [7 not modelled](#7-not-modelled) ·
[8 plan](#8-plan)

## 1 The system

    capture:  camcorder -> CDVInput -> CDV::HandleFrame -> CDVQueue -> CapturingThread -> CAVIWriter
    record:   CAVIReader -> CAVIJoiner -> CDVQueue -> RecordingThread -> CDVOutput
                          -> allocator -> COutputQueue -> camcorder
    both:     the frames also go to CMonitor (preview); CDVToolsDlg drives CDV from the UI thread
    no window: WinDV check, hash and verify work through files and end with an exit code

Six kinds of thread meet around the class `CDV`: the UI thread (Build, Start,
Stop, Destroy), the DirectShow streaming thread of the source, the worker
(`CapturingThread` or `RecordingThread`), the thread of the joiner and the thread
of the output queue when recording, and the thread of the preview. They share
`m_state`, a plain variable that no lock protects, the frame queue, two counters,
and pools of sample buffers.

| Component | State | Operations | What is hard | What makes it correct |
|---|---|---|---|---|
| `CDVQueue` (1639-1777) | ring, `m_head`, `m_tail`, `m_load`, `m_end`, two auto-reset events | `Put`, `Put(NULL)`, `Get`, `GetWithTimeout` | `m_end` is tested and set outside the lock; the consumer reads a slot without it; a signal between test and wait | frames in order, none lost or repeated; the slot being read is not overwritten; nobody sleeps for ever |
| `CDV`, capture (2065-2199, 2302-2506) | `m_state`, `m_counter`, `m_captureTime`, the writer, the locals of the worker | Build, Start, Stop, Destroy, HandleFrame, the worker's loop | test-then-assign of `m_state` on two threads; splits, pauses, decimation and time limit share counters; five ways out of the loop | files bounded, in order, without holes and without scene cuts; closed at the end; nothing deleted under a thread; Destroy returns |
| `CDV`, recording (2219-2265, 2532-2564) | `m_state`, `m_counter`, the frame in hand | the same, with `RecordingThread` | the frame in hand is sent again while paused; end of the source against Stop and Destroy | every frame taped; Finished only after the tape; the recording ends |
| `CAVIJoiner` (931-1097) | file list, `m_current`, `m_reader`, `m_ev`, `m_stopping` | constructor, Run, Stop, HandleFrame, JoinerThread | replacing the reader races with Stop and with the end of the file | all frames of all files in order; end announced last; no reader deleted in a callback |
| `COutputGraph`, `CDVOutput` (596-884), `baseclasses/outputq.cpp` | the queue's list, semaphore and `m_hr`; the worker's and the queue's buffers | HandleFrame, Deliver, ThreadProc, end of stream, destructor | four owners of one sample; two waits outside their locks; a device that refuses or stalls | every frame delivered once and in order; no buffer lost or reused early; only the device can hold the program up |
| sample allocator (`baseclasses/amfilter.cpp`) | free list, waiting count, semaphore, reference counts | GetBuffer, Release, Commit, Decommit | waiting is counted inside the lock, the wait is outside | no waiter without a count or a signal; a buffer is free exactly when nobody refers to it |
| `CMonitor` (1459-1616) | `m_sample`, `m_ev`, `m_VW` | HandleFrame, MonitoringThread, destructor | a sample handed over without a lock; a thread that retries without looking for the end | a sample is shown only when filled; no signal lost; the destructor returns |
| `CAVIWriter`, `GetCaptureFilename` (209-287, 1352-1435) | the file, its temporary name, `m_dvtime` | open, write, rename at the end | the name is chosen twice, against files already there; a crash in between | no file overwritten; numbers follow the order of capture |
| `CDVToolsDlg`, command line | tab, toggle buttons, timer, `-exit`, nested dialogs, registry | `OnInitDialog`, buttons, timer, close | two tabs share one `CDV`; building may throw half way; a nested message loop runs the timer | a pipeline is always watched; the deck follows; a run with `-exit` ends |
| duration parser (`DVToolsDlg.cpp` 524-580) | none | `[[HH:]MI:]SS[.ss]` | the meaning of a field is known only after the next | the limit is what the text says |
| `AVICheck.cpp`, `sha256.c`, check, hash, verify | position in the file, block buffer, bit count, exit code | walk, update, final, raise the code | padding, truncated files, block and word boundaries, many files per call | verdict and digest match the file; the exit code tells |
| `CDVControl` | none | one call per transport command | the deck is told only when control is enabled | see the dialog |
| `CDVInput`, `CInputGraph` | DirectShow graph | build, run, stop, one call per frame | inside DirectShow | entry points of the streaming threads |
| `DV.cpp`, `DVError.cpp` | none | recording time, error count of a frame | BCD, two-digit years | the value or -1 |
| settings, device list, file drop, tab | dialog data | MFC data exchange | none | none stated |
| rest of `baseclasses/` | vendored | DirectShow base classes | not this program's | none stated |

`PROJECT.json` lists every part with its status, and under `hazards` every place
where something can go wrong that a test would hardly reach, with the property
that watches it.

## 2 The modules

    FrameChannel          what the frame queue promises: a bounded FIFO with a one-way close
      <- DVQueue          the ring with its lock and events; implements FrameChannel
      <- CaptureSession   UI thread, streaming thread and worker of a capture
      <- AVIJoiner        JoinerThread and the streaming threads of the readers
           <- RecordSession   UI thread and worker of a recording
    MemAllocator          the pool of sample buffers
      <- PreviewMonitor   MonitoringThread, the worker, the destructor, the renderer
      <- DVOutput         worker, thread of the COutputQueue, device; implements SampleStream
    SampleStream          what the output promises the worker
    Duration <- Dialog    the command line and the main dialog
    AVICheck, Sha256 <- Tools    WinDV check, hash and verify
    CaptureFiles          the names of captures on the disk
    Program               Dialog, Tools and CaptureFiles
    DVQueueProofs, CaptureSessionProofs, RecordSessionProofs,
    MemAllocatorProofs, DVOutputProofs, PreviewMonitorProofs,
    ToolsProofs, ProgramProofs    theorems, each about the module it is named after
    MCDVQueue, MCCaptureSession, MCRecordSession, MCDVOutput, MCPreviewMonitor, MCProgram

**DVQueue.** A critical section of `m_cs` is a step; what the code does outside
the lock (the tests of `m_end`, the waits, the three statements of `Put(NULL)`)
is a step each. `ppc`, `cpc` and `closing` are the places in `Put`, `Get` and
`Put(NULL)`. Two callers can close: the source and `CDV::Destroy`. The events
are auto-reset, since `CEvent` is default-constructed (`DShow.h:580`,
`docs/threading.md:200` and `site/docs/02_Architecture/Threading_Model.md:188` call
them manual-reset; the constructor decides).

**FrameChannel.** `Send`, `Receive`, `Close`. A Put that passed the test of
`m_end` before the close still stores its frame, so one late frame is allowed.
The two sessions use the *abstract* channel. That keeps them small enough to
check with three and more threads, and `DVQueueProofs!Refinement` justifies it:
every behaviour of the ring is one of the channel.

**CaptureSession.** A step ends where the code reads or writes `m_state` or can
wait; `upc`, `spc`, `wpc` are the three program counters. Destroy is six steps
(set Idle, close the queue, stop the input, wait for the frame under way, join,
delete), because each of them races with the worker. `WriteFrame` is the whole
body from the split to the count (2385-2414), since nothing in it looks at
`m_state`. A frame is its number on the tape; `stamp` holds what
`GetDVRecordingTime` returns for it, -1 for none. A file is the frames written
to it and the writer's `m_dvtime`. Every frame lasts one unit, so `m_time` and
`m_counter`, always reset together, are one number.

**AVIJoiner** has actions for both threads and for the calls of its owner;
**RecordSession** decides when its UI thread makes those calls. `origin` records
for each frame the queue accepted which file and position it came from.
Sessions are not counted: Destroy brings the model back to its initial state.
In both sessions `BuildFail` leaves what was built, as the exception path does,
and `Run` can throw with the graph already on its way: `CHECK_HR`
(`DShow.cpp:23`) throws for every result but `S_OK`, and a graph that is still
changing to running gives `S_FALSE`. The device or reader then delivers frames
without a worker until the next Destroy (`BuildFail` of a capture with `running`,
the third case of `JoinerRun` in a recording).

**MemAllocator** has one action per pass through the lock of `CBaseAllocator`.
A thread in `parked` has counted itself in `m_lWaiting` and has not returned from
the wait; `sem` is the count of the semaphore. The free list is a set, so every
order of handing buffers out is covered. It has no specification of its own: the
two outputs take its actions as parts of their steps.

**DVOutput.** `apc` is the one application thread (the worker while it lives,
the destructor after it), `tpc` the thread of the `COutputQueue`. Each step is a
critical section or a wait of the queue or of the allocator. The queue is built
with a thread, a batch of one sample and no exact batches (`COutputPin::Active`),
so only that part of `COutputQueue` is modelled. The device may take a sample,
keep it after the call, refuse it (`m_hr` stays set), or stall for ever.
`sent`, `got` and `ended` are the stream the device sees, and the refinement
mapping to **SampleStream** is the identity on them.

**PreviewMonitor.** Each access to `m_sample`, `m_ev` and `m_VW` is a step,
because there is no lock. The graph stops and runs again (the display changes),
the renderer keeps samples, `GetPointer` may fail (`lost` remembers that).

**CaptureFiles.** A name is the mark of a temporary file, the stamp and the
number *with its width*; `disk` maps the names in use to the captures they hold.
`CaptureFilename` is `GetCaptureFilename`: the widest numbers decide, and the new
one is the highest plus one, padded to that width. The format may change while a
file is open, since `StartCapturing` does not wait for the writer; a writer keeps
the format it was made with.

**Dialog.** One action is one message on the UI thread. `modals` are the dialogs
above the main one; a timer message is handled under any of them, a command only
without. `InitVideo` is the program's way back to a known state after any
failure, so most actions have it as a second outcome. `deck` is what the
camcorder was told last. `loose` remembers that the user switched deck control
while a pipeline was there, after which deck and state may differ.

**Duration** has the parser with its gotos as a case distinction over three runs
of digits (`ParseDuration`), and what the usage text describes, written without
looking at the parser: the form of a text (`IsDuration`, with a digit in every
field there is) and the duration as a sum of digits times weights (`DurationOf`).
`Punctuated` is the form without the demand for digits; the parser takes that
much (§6). The powers of ten and the sum are recursive functions, so that the
proofs can unfold them.

**AVICheck** walks one chunk per step. A file is its chunks with their offsets,
the size its RIFF header states and the bytes that are there. **Sha256** is the
buffering, counting and padding; a digest is the sequence of blocks that the
compression function was given. **Tools** runs both over the arguments of a
call, and lets the user change the files between two calls. `bad` remembers
that an argument was not in order, by the bytes and not by the digests, and
`unread` that a read failed before the end of a file. The patterns of `check` are
arguments that name one file, nothing, or directories only (which are passed over
without a word); a pattern that names several files is several arguments.

**Program** puts these three side by side. They share no state, so a behaviour
stays with one of them (`use`); the disjunction keeps them in one run without
multiplying their states.

An operator named `...Mutant` is a bug the code could have had. No specification
uses it; each property is known to fail when the definition after the mutant is
replaced by it, which shows that the property depends on that piece of code.

## 3 The runs

| Run | Bounds | Shows |
|---|---|---|
| `dvqueue` | ring of 3 slots, 5 frames | `TypeOK`, `RingConsistent`, `HeldFrameIntact`, `ImplementsChannel`, `FramesDelivered`, `CallsReturn` |
| `dvqueue_eos` | the same | violation: `FalseMeansDrained` |
| `capture` | queue of 1, files of 2 frames, decimation 1 and 2, threshold 2, five tapes of 3 or 4 frames, time limit 0 or 2, 2 sessions | `TypeOK`, `FileLengthBounded`, `FilesInTapeOrder`, `FileContiguous`, `NoSceneCutInFile`, `FileDatedByFirstFrame`, `FilesClosedAtExit`, `PipelineOutlivesThreads`, `DestroyReturnsIfIdle` |
| `capture_destroy`, `capture_log`, `capture_date` | 1 session, no decimation | violations: `DestroyReturns`, `CapturedIsLogged`, `FileDatedByFirstStamp` |
| `record` | queue of 1, four lists of up to 3 files with 0 to 2 frames, `m_counter` up to 4 at a Start | `TypeOK`, `FilesJoined`, `FinishedAfterTape`, `PipelineOutlivesThreads`, `RecordingEnds`, `DestroyReturnsIfIdle` |
| `record_finished`, `record_paused` | the same | violations: `FinishedUntilDestroy`, `PausedSendsNothing` |
| `output` | 2 buffers, 4 frames | `TypeOK`, `BuffersAccounted`, `NoLostWakeup`, `ImplementsStream`, `OutputGoesOn` |
| `preview` | 2 buffers; frames, stops and runs of the graph unbounded | `TypeOK`, `ShownIsFilled`, `HandOverKept`, `PreviewGoesOn`, `CloseReturns` |
| `program` | `files`: radix 2, numbers of up to 3 digits, digits 0 and 1 asked for, 2 seconds, 4 files; `dialog`: texts of up to 5 characters; `hashes`: blocks of 4 bytes, length words of 1 byte, reads of 16 bytes, files of 1, 2 and 33 bytes, 2 names, 2 arguments; `check`: 37 layouts of chunks, each with three sizes in the RIFF header, whole, cut off at up to eight places, or with bytes behind, index batches of 2 | `TypeOK`, `CapturesKept`, `NumberedInOrder`, `PipelineWatched`, `ExitRunEnds`, `LimitsAsWritten`, `DigestOfBytes`, `ExitCodeTells`, `CheckTells` |

Why these bounds are enough to be interesting:

- *Queue.* Five frames through three slots wrap head and tail, and the ring is
  full and empty with either one; a producer and a consumer sleep at the same
  time as both closers are inside `Put(NULL)`. The proofs remove the bound.
- *Capture.* A queue of one frame makes the device wait on the worker, which is
  the case that matters for Destroy. Files of two frames make a four-frame tape
  split by length; the tapes have frames without a time at the start, in the
  middle and across a cut, and cuts forward and back, so that a length split, a
  scene split and a pause meet in one run. Two sessions are the least that can
  show a file, a frame or a counter of one leak into the next.
- *Record.* Files without a frame stand first, in the middle, last and alone,
  since they make the end of file come before anything was queued. `MaxCounter`
  only bounds how often Start is pressed; sessions are unbounded.
- *Output and preview.* With two buffers one can be with each of two owners, and
  with both out the next `GetBuffer` has to wait. Four frames use each buffer
  twice, so a buffer that comes back too early meets its next content. No number
  of frames bounds the preview: its state does not grow.
- *Files.* With binary numbers the third file of a name needs a second digit, so
  the width changes within four files, and a change of the digits asked for falls
  in between. Two seconds give a name a neighbour with
  another stamp.
- *Durations.* Five characters hold three fields and a fraction, one digit each,
  and every place a colon or a point could be wrong; one digit value is enough
  since the value of a digit enters linearly.
- *Hash.* 33 bytes with blocks of 4 and a length of 2 pass every residue of the
  block length several times, and 256 bits make the low word of the count carry.
- *Check.* Sizes are the real ones; odd chunks come in the middle. The cuts fall
  in the RIFF header, in a chunk header, in the `avih` header, in the index (on
  and off a batch) and behind the file.

`CHECK_DEADLOCK FALSE` appears for `dvqueue`, `output` and `preview`, where
everything stops once the queue is closed, the output torn down or the preview
destroyed, and for the violation run of the queue. The sessions, the dialog, the
tools and the files always allow another step and are checked for deadlock.

What the less obvious properties mean:

- `HeldFrameIntact`: `Get` returns a pointer into the ring and releases the lock.
  The spare slot (`m_queueSize` is one more than the capacity) protects it until
  the next successful `Get`, also after a `Get` that returned false.
- `CallsReturn` (`dvqueue`): a `Put` returns once the queue is closed or the
  consumer goes on, and a `Get` without a timeout returns once the end is
  announced.
- `FileContiguous`: between two frames of one file lie only frames skipped by
  decimation. It breaks if a pause does not end the file.
- `NoSceneCutInFile`: two valid times that follow one another within a file
  differ by no more than the threshold, also with frames without a time, skipped
  frames or a pause between them.
- `FilesInTapeOrder`: no frame is in two files, and files follow the tape, over
  sessions too. It breaks if a timed-out `Get` is taken for a frame.
- `FileDatedByFirstFrame`: a file opened by a frame with a valid time keeps that
  time. A file opened by a frame without one should get the time of the first
  that has one; that is `FileDatedByFirstStamp`, which is false (§6).
- `RecordingEnds`: a recording ends unless its worker is gone. It can be: the
  worker leaves at once if the first `Get` finds the end of the stream, and the
  state stays RecordPaused (2540). The property leaves that case out.
- `DestroyReturnsIfIdle`: Destroy returns *unless* the worker overwrites Idle.
  The unconditional form is what the documentation says, and it is false (§6).
- `FinishedAfterTape`: when the dialog is told Finished, all files were joined and
  every frame but those still in the queue was sent. The queue can hold one then:
  that is the defect of `dvqueue_eos` seen from the recording worker.
- `FilesJoined` is two statements, `JoinedInOrder` and `EndAfterAllFiles`. Both
  hold until Destroy begins, which may throw away what is still on its way.
- `BuffersAccounted`: every reference count is the number of places that hold the
  sample, and a buffer is on the free list exactly when there are none. One
  `AddRef` too few in `COutputPin::Deliver` breaks it.
- `NoLostWakeup`: a thread between counting itself and its wait is still counted
  or has a signal to take, and is never counted while there is work; for the
  queue and for the allocator.
- `ImplementsStream`: the device gets the frames in order, none twice and none
  left out, at most as many under way as there are buffers, and the end of stream
  only after the last.
- `OutputGoesOn` is `FramesTaken` and `CloseReturns`: a frame the queue accepted
  is delivered, and the destructor returns, unless the device refuses or stalls.
- `ShownIsFilled`: the renderer never has a buffer that is not completely filled
  or that the worker still writes. `HandOverKept`: `MonitoringThread` waits only
  while someone will signal it, with the one exception of a failed `GetPointer`.
- `CloseReturns` (`preview`): the destructor returns *if the graph runs from some
  moment on*. Without that `MonitoringThread` tries for ever to get a buffer and
  does not look at `m_VW` (1590); the property states the condition under which
  the code is right.
- `PipelineWatched`: while there is a pipeline, its tab is shown, the timer that
  shows its state and closes the program runs, and the deck does what the state
  says.
- `ExitRunEnds`: a run started with `-exit` and an end ends the program, other
  dialogs open or not, unless the user pauses it or starts over. "Ends" means
  that `EndDialog` was called: a dialog above the main one has to be closed
  before it takes effect (§6).
- `CapturesKept`: every capture is on the disk under one name until the user
  deletes it, after crashes, deletions and refused renames. `NumberedInOrder`
  compares numbers of one width only; across widths the order by text is not the
  order of capture.
- `DigestOfBytes`: after any number of bytes the blocks are those of the message
  padded as FIPS 180-4 says, defined independently of the buffering.
- `LimitsAsWritten`: a duration as the usage text describes it starts a capture
  without a message, a text with other characters or with colons and points out
  of place is answered with the usage text, and the time limit is what the text
  says. Texts between the two, with a field without a digit, are taken although
  the usage text does not describe them (§6); of these the property only says
  that the field counts as 0.
- `ExitCodeTells`: an argument that was not in order makes the exit code differ
  from 0 and no later one takes that back, and the code differs from 0 only if
  something was wrong. A read error ends the loop like the end of the file, so
  it need not show, against the documentation (§6); for `verify` it shows when
  the bytes read are not those of the sidecar.
- `CheckTells`: what passes has the start of a header, of a movi list and of an
  index, so a capture cut off before its index fails; and what is intact passes,
  whether or not chunks are odd, unknown chunks lie between, or the size in the
  RIFF header was never completed. Intact means that everything is there, no
  frame is defective and header and index agree. A file cut off *inside* its index
  is between the two, and can pass (§6).

## 4 Fairness

Every thread that can take a step inside a call eventually takes it (`WF` on the
steps of each thread): Windows schedules runnable threads, and a signaled wait
returns. Nothing is assumed of the user or of the camcorder (frames may stop
coming), or of the timeout of `GetWithTimeout`, which the settings can disable:
`GetTimeout` is excluded from fairness in the sessions. In `DVQueue` the
consumer calls `Get` again until it stops, as the loop of the worker does. In
recording the readers are fair: a file has an end and its graph delivers it.

In `output` a device that has not stalled answers `Receive` and lets samples go;
stalling needs no reason, and the properties name it. `WaitForCompletion` ends
after five seconds at the latest. In `preview` the renderer lets every sample go,
and the graph owes nothing. In `program` timer messages are handled as long as
the timer runs (a modal dialog dispatches them as well), a capture with a limit
reaches it, and a recording reaches its end.

No strong fairness is used.

## 5 The proofs

TLC shows a property for a queue of one frame; a theorem shows it for every value
of the constants. Each component has a module of proofs that ends in theorems
about its specification. All but a few go the same way: an inductive invariant
`IInv` in named parts, one lemma for each part and group of actions (every action
keeps it), `Invariance == Spec => []IInv`, and the properties as consequences.
TLC checked each `IInv` on the run of its component before it was proved.

| Module | Theorems | For every |
|---|---|---|
| `DVQueueProofs` | `TypeCorrect`, `RingCorrect`, `HeldFrameSafe`, `WakeupsKept`, `Refinement` (of `FrameChannel`) | capacity, number of frames |
| `CaptureSessionProofs` | `TypeCorrect`, `PipelineSafe`, `CaptureHasWorker`, `DestroyNotBlocked`, `ClosedAtExit`, `LengthBounded`, `TapeOrder`, `Contiguous`, `NoSceneCut`, `DatedByFirstFrame` | capacity, settings, tapes, sessions |
| `RecordSessionProofs` | `TypeCorrect`, `PipelineSafe`, `AtRestWithoutWorker`, `DestroyNotBlocked`, `SourceNeverStalls`, `JoinedCompletely`, `FinishedMeansTaped` | capacity, lists of files, sessions |
| `MemAllocatorProofs` | lemmas for the two below | number of buffers and of threads |
| `DVOutputProofs` | `TypeCorrect`, `Accounted`, `WakeupsKept`, `Refinement` (of `SampleStream`) | number of buffers and of frames |
| `PreviewMonitorProofs` | `TypeCorrect`, `ShownFilled`, `HandOver`, `PoolCorrect` | number of buffers |
| `ToolsProofs` | `DigestIsPadded`, `DigestsTellApart` | size of block, length and message |
| `ProgramProofs` | `TypeCorrect`, `KeepsCaptures`, `NumbersInOrder` and the same for `Program`, `Watched`, `DurationsAsWritten`, `LimitsKept`, `DigestsOfFiles`, `CodesTell`, `ChecksTell` | radix, width, files, arguments, texts of any length, chunks |

The constants are only assumed to be what the code makes them: capacities,
factors and batch sizes positive, lists of files not empty, tapes sequences of
integers, pools finite and not empty, a block longer than twice the length word,
chunks behind the RIFF header, texts sequences of digits, colons, points and other
characters, no more files than the widest number can count. The assumptions stand in the module that declares
the constants, and TLC evaluates them in every run.

**The queue.** `RingConsistent` is not inductive with the types alone.
`HeldBehindHead`: the slot the consumer holds is the one just behind the head.
Storing needs `load < Capacity`, so the tail is at most `Capacity - 1` places
after the head and the slot behind the head is the spare one; this gives
`HeldFrameIntact`. `LateMeansOver`: after a frame was stored behind a close, the
producer is out of `Put` or about to see `m_end`. This allows the channel's guard
`~late`, hence `Refinement`, which maps `chan` to the occupied slots in order.
`NoSleeper` is about the two auto-reset events: a consumer between its test and
its wait has a signal if there is a frame, a producer if there is room, and who
has not seen `m_end` has one or a closer that still owes it. That is the part of
`FramesDelivered` and `CallsReturn` which does not depend on fairness; TLC checks
the two properties themselves.

**The capture session** is proved in layers, each from those before.

- `PipelineInv` says how far Destroy has got and who can therefore still be at
  work: after the input is stopped no frame arrives, after the drain none is
  under way, after the join there is no worker. It gives
  `PipelineOutlivesThreads`. `FilesClosedAtExit` is inductive as it stands.
- `TypeInv`, `QueueInv`: the queue holds the frames that follow the last one
  received, in order, and the frame in the worker's hand is not newer than that.
- `FilesInv`: every frame written has been received, the frame being processed is
  newer than all of them, frames of an earlier file precede those of a later one,
  and `nFrames` is the length of the open file. It needs `PipelineInv`: Destroy
  resets `last`, which is harmless only because the worker is gone.
- `SpacingInv`: while the worker writes and is not at a pause, the frame after the
  last one received is the `fileCounter`-th after the one the open file began
  with, and what that file holds is every `everyNth` of those. A pause resets
  `fileCounter` in the same step that closes the file; that is what
  `FileContiguous` rests on.
- `TimesInv`, `CutInv`: `oldDVTime` is the last valid time among the frames seen
  since the open file began, hence there is no jump between two of its frames,
  nor among those that decimation left out after the last.
- `DateInv`: the time of a file is that of its first frame, unless that is 0. The
  backfill (2405) changes only a time of 0, so a valid time stays, which is
  `FileDatedByFirstFrame`; and -1, which is what a frame without a time has, stays
  as well (§6).
- `RestInv`: while Destroy or BuildCapturing is under way `m_state` is Idle or
  Finished, and a test in Start or Stop that succeeded has a worker. It gives
  `CaptureHasWorker`, what the dialog relies on: Capturing and CapturePaused are
  never seen without a worker that was started and not yet waited for. More is
  false, as TLC shows (§6): the worker can have left its loop, and Finished can
  outlive it.
- `ClosedInv`: once Destroy has closed the queue it stays closed until it is
  deleted. With `PipelineInv` it gives `DestroyNotBlocked`: the frame under way and
  the worker, for which Destroy waits, do not wait themselves.

**The recording session.** `LifeInv` plays the part of `PipelineInv` for three
threads: JoinerThread ends first, then the reader, then the worker. `ReadInv`:
a reader is replaced only by one for a file of the list. `QueueInv`: the queue
holds what follows the last frame taken. `JoinInv` holds until Destroy begins and
has two parts: `Signaling`, that `m_ev` is given only at the end of the open file
and JoinerThread moves only then, and `Joined`, that the frames accepted are
those of the files before `m_current` and of the current one up to its place.
`TapeInv`: the worker asks for a frame only when the one it has is on the tape,
so Finished, which it assigns when `Get` returns false, comes after everything
but the frames still in the queue. Since it then tests `m_state` again instead of
leaving, Finished does not outlive it, which with the counterpart of `RestInv`
gives `AtRestWithoutWorker`: without a worker `m_state` is Idle.
`DestroyNotBlocked` needs `ToldInv`: Stop can meet JoinerThread while it replaces
the reader, and the thread then waits once more; the signal must still be there,
unless it was taken by a thread that has yet to look at `m_stopping`, which is set
before. `SourceNeverStalls` says that a worker which waits for a frame is owed a
step: JoinerThread is on its way or has its signal, or the reader has a frame, or
the end of its file, to hand on. `PlayInv`: as long as JoinerThread waits the
reader runs, and between two calls it is not at the end of its file without having
said so. These are the parts of `DestroyReturnsIfIdle` and `RecordingEnds` that need
no fairness.

**The pool, the output, the preview.** `MemAllocatorProofs` has a lemma for each
action of the allocator: types, waiters counted, the free list true to the
reference counts (`PoolInv`). Both outputs cite them for their steps.
In `DVOutputProofs` `PlacesInv` says that a reference is the application's, the
queue's, its thread's or the device's and nothing else; `ListInv` what the list of
the queue may hold; `WakeInv` that who waits is counted or signaled; `StreamInv`
that as long as `m_hr` is good the frames from `got + 1` to `sent` are those in
the hands of the queue and its thread, in order. The refinement is the identity
on `sent`, `got` and `ended`, and follows from `StreamInv` and the number of
buffers. `KeptInv`: a sample the device keeps is not on its way to it again.
In `PreviewMonitorProofs` `ExchangeInv` goes through the places of the worker and
of MonitoringThread and says for each pair who owns `m_sample` and whether `m_ev`
is set; there is no lock to argue from. `ReferenceInv` counts the references.

**The tools.** `Collected(m)` says what the context holds after the bytes `m`:
the full blocks, the bytes of the next one, and the bits of the full blocks in
two words. `Carry` shows that the two words together are the number of bits
modulo the range of both, `DigestIsPadded` that `sha256_final` turns that into
the padded message, with or without another block. `DigestsTellApart` shows that
padding loses nothing: the low word of the length gives the length modulo a
block, and the place of the last byte that is not padding the rest. `SidecarInv`
(a sidecar has the digest of the bytes that were hashed) and `CodeInv` (the code is
0 just as long as nothing was out of order) then give `ExitCodeTells`: verify compares digests, the property speaks of bytes.
`WalkInv` says that what the walk noted is in the file. `PassedInv` is about
intact files: the walk is at the end of the last chunk it noted, and `NoneSkipped`
shows that the least chunk behind that point must begin there. Both together are
`CheckTells`.

**The program.** A new number is wider than those in use or higher than those of
its width (`NextNumberFacts`), so a name is never in use; `NamesInv`, `WriterInv`
and `CountInv` keep numbers below the count of files. `PipelineWatched` needs the
types of the deck's variables and `RestInv`: before the window is there nothing
runs, and a deck without control stands still. `TypesInv` adds what the types
need: bytes in the context of a digest, a limit that is a number, and `BoundsInv`,
that a number fits the width it is written in.

`DurationsAsWritten` says of every text, of any length, that a duration in the form
of the usage text is taken and read as the sum of its digits by their places, and
that the parser takes and reads in the same way just the texts that are
`Punctuated`, which are more. The parser goes field by field, the sum place by place.
`FieldSum` shows that a run of digits adds its number times its unit (second,
minute or hour, by the colons behind it), `FractionSum` the same for the ticks
behind the point, and `ColonTerm` that a colon adds nothing. `RestIsRead` says when
what stands behind the fields is read: the end, or a point and digits to the end.
One, two and three fields are put together from these (`ReadsOneField` to
`ReadsThreeFields`), and what the parser refuses has a third colon, a colon behind
the point, or another character (`NotRead`). With `OnlyStarts` (while the dialog
starts with a capture no other message of it is handled) and `UseInv` this gives
`LimitsKept`.

*Induction.* The library's theorems on induction take an operator as a parameter,
which the provers cannot instantiate. Where a fact about numbers needs it, the
proof takes the least counterexample (`LeastOf`, from `WFMin`). The same argument
gives `Recursion`: for a base and a *function* that leads from one value to the
next there is a function on all numbers that follows it (`PartsExist`,
`PartsAgree`). `Power256`, `RadixPower` and `PowerOfTen` are shown to be what their
definitions say with it, and with `RunRecursion` the functions along a run of
digits and the sum of `DurationOf`.

Only model-checked: everything under fairness (`FramesDelivered`, `CallsReturn`,
`DestroyReturnsIfIdle`, `RecordingEnds`, `OutputGoesOn`, `PreviewGoesOn`,
`CloseReturns`, `ExitRunEnds`), which the prover does not cover. Every other
property of a passing run is stated by a theorem.

## 6 Disagreements found

Each is a run that TLC ends with a counterexample; `PROJECT.json` quotes the line
that promises the opposite.

1. `dvqueue_eos`: `Get` tests the ring under the lock and `m_end` after it (1738).
   It can return false with a frame in the ring; the last frame of a tape is then
   not recorded.
2. `capture_destroy`: the worker assigns Finished (2346, 2415) after Destroy
   assigned Idle. The loop never sees Idle, `Get` returns at once because the
   queue is closed, and Destroy waits for ever.
3. `capture_log`: a frame that arrives while not capturing resets `m_counter`
   (2444); integrity check, hash and log after the loop depend on it (2458).
4. `capture_date`: a frame without a recording time reads -1, the backfill tests
   for 0 (2405), so it never happens.
5. `record_finished`: `StopRecording` tests for Recording and assigns
   RecordPaused later (2253); a Finished in between is lost.
6. `record_paused`: while paused the worker sends the frame in hand again and
   again and takes none from the queue; the comment (2522) says the opposite.

Seen while modelling, without a run. In the sessions:

- The comment at 2300 says a timed stop ends the loop; it only assigns Finished,
  and the deck keeps playing.
- `StartCapturing` writes `m_captureFilename` without `m_cs` (2193), although
  `DShow.h:686` says it is protected by it.
- Log, check and hash use the name the user typed, while `CAVIWriter` adds date,
  number and extension.
- `m_counter` counts decimated frames too, although `DShow.h` speaks of frames
  written.
- The time limit is forgotten by a pause: `OnCapture` starts again without one.
- A pause or a Destroy at the moment the worker finds the signal lost (2340-2345).
  `StopCapturing` can overwrite Finished with CapturePaused after the worker left
  its loop: the dialog then starts a capture that writes nothing. And the worker
  can assign Finished after Destroy assigned Idle and leave: Destroy returns with
  `m_state` Finished.
- `m_everyNth` is read unchecked from the registry (`DVToolsDlg.cpp:496`); 0
  divides by zero at 2400. The model assumes the range the dialog enforces.

In the output, the preview and the names of files:

- `MonitoringThread` retries a failing `GetDeliveryBuffer` without looking at
  `m_VW` (1590), and a failed `GetPointer` drops the sample without a signal, so
  that the preview stays dark until it is closed (1551).
- A number that outgrows its digits is one character wider and then sorts, as
  text, before some of the numbers in use (273).
- A temporary file that an earlier session left is not overwritten, as the comment
  at 1341 has it: `GetCaptureFilename` chooses another name.

In the dialog and the tools:

- With a dialog open above the main one, a run with `-exit` ends the main dialog
  only when the user closes the other.
- The comment at `DVToolsDlg.cpp:558` weights the digits of the fraction from
  100000; the code begins with 1000000 (563), which is a tenth of a second in the
  unit of the limit.
- The parser takes durations with empty fields, "", ":", "1:" and "." among them,
  and reads the field as 0; the usage text `[[HH:]MI:]SS[.ss]` (`WinDV.rc:362`) and
  `project-overview.md:535-537` do not leave out the seconds.
- A duration of 0 means no limit, so `-exit` never closes such a capture.
- `OnDvctrl` in the middle of a run leaves the deck running.
- The worst exit code does not always win: `check` replaces 2 by 1 when a later
  file fails (`DVToolsDlg.cpp:680`). It never becomes 0 again, which is what
  `ExitCodeTells` states.
- `hash` exits with 0 when the sidecar cannot be written.
- A read error while hashing ends the loop like the end of the file (1803),
  although the comment (1786-1787) promises FALSE for it. `hash` then writes the
  digest of a part as that of the file and exits with 0, although
  `site/docs/04_User_Guide/Command_Line.md:100-101` promises another code if a file
  could not be read; a later `verify` reports the whole file as changed.
- A pattern of `check` that names only directories leaves the exit code at 0
  without a line of output (`DVToolsDlg.cpp:671`).
- A file cut off inside its index can pass `check`: only the entries that are
  there, in whole batches, are looked at, and the number of frames comes from the
  header (`AVICheck.cpp:181-185`, `231-237`).
- A number of frames in the header that differs from the index does not fail a file,
  although `AVICheck.cpp:9` lists it among what is validated; the sentence about it
  is only shown for a file that fails anyway.

## 7 Not modelled

- *Within the sessions:* statistics of dropped and damaged frames, disk-space
  warning, messages to the dialog. They do not feed back into the state modelled.
- *Between the dialog and the sessions:* `Dialog` has a summary of `m_state` in
  place of the two sessions; in particular Destroy leaves Idle, which for a
  capture is not always so (§6). `CaptureHasWorker` and `AtRestWithoutWorker` are
  what is proved about this seam.
- *DirectShow:* graphs are external. A stopped graph makes no further callback,
  and stopping returns when the callback under way has. `AVIJoiner` takes a call
  of `Run` as one step. `CInputGraph` and `CDVInput` only forward: their two
  callbacks are the entry points of the streaming threads in `CaptureSession` and
  `AVIJoiner`, and the rest builds a graph by COM calls whose order no other
  thread sees.
- *DV.cpp and DVError.cpp:* functions of one frame without state; a unit test
  reaches every branch. `CaptureSession` uses the result of the first (-1 for no
  time); no decision uses the second.
- *Compression function of SHA-256:* arithmetic that test vectors settle.
- *Capture log, texts, layout, settings that are stored and passed on, device
  list, file drop, tab control:* formatting and MFC data exchange on one thread.
- *Expanding and sorting the list of files to play:* text and directory calls.
- *The other base classes:* about 38,000 of the repository's 45,500 lines of code
  are the vendored DirectShow base classes, of which WinDV instantiates few:
  renderers, windows, clocks, transforms, property pages and schedulers are
  compiled and never run. What runs and has a protocol of its own is modelled
  (`MemAllocator`, the `COutputQueue` in `DVOutput`); the rest of the pins and
  filters is COM bookkeeping below the entry points modelled here. A model of the
  unused part would say nothing about WinDV.
- *Memory model:* `m_state` is read and written atomically, as an aligned 32-bit
  variable is on the targets; stale reads appear as steps that come between a
  test and what depends on it. The unlocked `CString` of 2193 is not modelled.
- *Ends of the program:* an exception in JoinerThread, lack of memory. A crash is
  modelled where something is persisted, in `CaptureFiles`.
- *Widths:* the 32-bit overflow of long numbers in durations and file names.

## 8 Plan

Done: the queue, both sessions, the output with its queue and allocator, the
preview, the files, the dialog and the tools, each with its properties. Every
safety invariant and action property that a passing run checks is a theorem, both
refinements are proved, and only what rests on fairness is left to TLC alone. What
is modelled is meant to stay. Left, most important first:

1. `RecordSession` and `CaptureSession` against an abstract session (frames taken,
   a prefix of them stored, closed once), to state in one module what the dialog
   relies on; `CaptureHasWorker` and `AtRestWithoutWorker` are its first parts.
2. The safety core of `CloseReturns` and `ExitRunEnds`, as `NoSleeper`,
   `NoLostWakeup`, `HandOverKept`, `DestroyNotBlocked` and `SourceNeverStalls` are
   those of the other liveness properties.
