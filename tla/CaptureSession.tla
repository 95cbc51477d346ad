--------------------------- MODULE CaptureSession ---------------------------
(***************************************************************************)
(* A capture session of class CDV (DShow.cpp): three threads that share    *)
(* m_state and the frame queue without a common lock.                      *)
(*                                                                         *)
(*   - the UI thread runs BuildCapturing, StartCapturing, StopCapturing    *)
(*     and Destroy;                                                        *)
(*   - the DirectShow streaming thread runs CDV::HandleFrame for every     *)
(*     frame of the device;                                                *)
(*   - the worker runs CapturingThread, which writes the AVI files.        *)
(*                                                                         *)
(* A step ends where the code reads or writes m_state, or can wait, since  *)
(* m_state is a plain variable and every test of it can be out of date     *)
(* when the thread acts on it. The queue is the abstract channel that      *)
(* DVQueue is proved to implement.                                         *)
(*                                                                         *)
(* Left out: the preview, the messages posted to the dialog, the dropped   *)
(* and error statistics, the transport commands sent to the camcorder.     *)
(* Every frame lasts one unit of time, so that m_time and m_counter, which *)
(* are always reset together, are one number.                              *)
(***************************************************************************)
EXTENDS Integers, Sequences

CONSTANTS
  Capacity,      \* capacity of the queue
  MaxSessions,   \* bound: calls of BuildCapturing that succeed
  MaxAVIFrames,  \* m_maxAVIFrames
  Decimations,   \* values of m_everyNth
  Threshold,     \* m_discontinuityTreshold, 0 when disabled
  Tapes,         \* bound: the tapes the device can play, for each of their
                 \* frames what GetDVRecordingTime returns, -1 for no time
  CaptureTimes   \* captureTime arguments, 0 for no limit

ASSUME CapacityAssumption == Capacity \in Nat \ {0}
ASSUME SettingsAssumption ==
  /\ MaxAVIFrames \in Nat \ {0} /\ Decimations \subseteq Nat \ {0}
  /\ Threshold \in Nat
ASSUME InputsAssumption ==
  /\ Tapes \subseteq Seq(Int) /\ CaptureTimes \subseteq Nat
  /\ MaxSessions \in Nat

VARIABLES
  everyNth,     \* m_everyNth, a setting the model never changes
  state,        \* m_state
  upc,          \* where the UI thread is
  rebuild,      \* the UI thread runs Destroy on behalf of BuildCapturing
  spc,          \* where the streaming thread is in HandleFrame
  running,      \* the capture graph is running
  built,        \* the queue and the input exist
  wpc,          \* where the worker is
  chan, sent, last, closed, late,   \* the queue: see FrameChannel
  stamp,        \* the recording time of each frame delivered so far
  counter,      \* m_counter, and m_time
  captureTime,  \* m_captureTime
  dvTime, oldDVTime, delta,         \* locals of CapturingThread
  nFrames, fileCounter,             \* locals nFrames and counter of CapturingThread
  writing,      \* m_aviWriter # NULL: the last of files is open
  files,        \* every AVI file made: its frames and the writer's m_dvtime
  sessions,     \* how many times BuildCapturing got that far
  firstFile,    \* how many files earlier sessions made
  logged        \* the session was checked, hashed and logged

channel == <<chan, sent, last, closed, late>>
stream == <<spc, running, stamp>>
build == <<built, sessions, firstFile, everyNth>>
ui == <<upc, rebuild, build>>
times == <<dvTime, oldDVTime, delta>>
output == <<nFrames, fileCounter, writing, files>>
vars == <<state, ui, stream, wpc, channel, counter, captureTime, times, output, logged>>

Ch == INSTANCE FrameChannel

UIAt(from, to) == upc = from /\ upc' = to
WorkerAt(from, to) == wpc = from /\ wpc' = to
Alive == wpc \notin {"none", "exited"}

(* The first call of Destroy, before anything is built: the constructor    *)
(* leaves m_state uninitialised and the dialog calls Destroy at once.      *)
Init ==
  /\ everyNth \in Decimations
  /\ state = "Idle"
  /\ upc = "ready" /\ rebuild = FALSE
  /\ spc = "idle" /\ running = FALSE /\ built = FALSE
  /\ wpc = "none"
  /\ Ch!Init
  /\ stamp = <<>>
  /\ counter = -1 /\ captureTime = 0
  /\ dvTime = 0 /\ oldDVTime = 0 /\ delta = 0
  /\ nFrames = 0 /\ fileCounter = 0 /\ writing = FALSE /\ files = <<>>
  /\ sessions = 0 /\ firstFile = 0 /\ logged = FALSE

----------------------------------------------------------------------------
(* The UI thread: Destroy, also as the first statement of BuildCapturing.  *)

Destroy(forBuild) ==
  /\ UIAt("ready", "close")
  /\ rebuild' = forBuild
  /\ state' = "Idle"
  /\ UNCHANGED <<build, stream, wpc, channel, counter, captureTime,
                 times, output, logged>>

DestroySilentMutant ==
  /\ UIAt("close", "stop")
  /\ UNCHANGED <<state, rebuild, build, stream, wpc, channel, counter,
                 captureTime, times, output, logged>>

(* if (m_queue) m_queue->Put(-1, NULL, 0)                                  *)
DestroyClose ==
  /\ UIAt("close", "stop")
  /\ IF built THEN Ch!Close ELSE UNCHANGED channel
  /\ UNCHANGED <<state, rebuild, build, stream, wpc, counter,
                 captureTime, times, output, logged>>

(* m_dvInput->Stop(): the graph delivers no further frame, and Stop comes  *)
(* back when the one being delivered has been handled.                     *)
DestroyStop ==
  /\ UIAt("stop", "drain")
  /\ running' = FALSE
  /\ UNCHANGED <<state, rebuild, build, spc, stamp, wpc, channel, counter,
                 captureTime, times, output, logged>>

DestroyDrain ==
  /\ UIAt("drain", "join")
  /\ spc = "idle"
  /\ UNCHANGED <<state, rebuild, build, stream, wpc, channel, counter,
                 captureTime, times, output, logged>>

(* WaitForSingleObject(m_thread, INFINITE)                                 *)
DestroyJoinMutant ==
  /\ UIAt("join", "free")
  /\ wpc' = IF wpc = "exited" THEN "none" ELSE wpc
  /\ UNCHANGED <<state, rebuild, build, stream, channel, counter,
                 captureTime, times, output, logged>>

DestroyJoin ==
  /\ UIAt("join", "free")
  /\ ~Alive
  /\ wpc' = "none"
  /\ UNCHANGED <<state, rebuild, build, stream, channel, counter,
                 captureTime, times, output, logged>>

(* The pipeline is deleted, the open file with it, and the counters reset. *)
DestroyFree ==
  /\ UIAt("free", IF rebuild THEN "build" ELSE "ready")
  /\ rebuild' = FALSE
  /\ built' = FALSE
  /\ chan' = <<>> /\ closed' = FALSE /\ late' = FALSE /\ last' = 0
  /\ writing' = FALSE
  /\ counter' = -1
  /\ captureTime' = 0
  /\ UNCHANGED <<state, sessions, firstFile, everyNth, stream, wpc, sent, times, nFrames,
                 fileCounter, files, logged>>

----------------------------------------------------------------------------
(* The UI thread: the rest of BuildCapturing.                              *)

(* A constructor or Run throws, before or after the queue was made. Run    *)
(* throws also for a graph that is on its way to running. The dialog shows *)
(* the error, and what was built stays until the next Destroy.             *)
BuildFail ==
  /\ UIAt("build", "ready")
  /\ built' \in BOOLEAN /\ running' \in BOOLEAN /\ (running' => built')
  /\ UNCHANGED <<state, rebuild, sessions, firstFile, everyNth, spc, stamp, wpc, channel,
                 counter, captureTime, times, output, logged>>

(* A fresh queue, and m_dvInput->Run: frames can arrive from here on.      *)
BuildRun ==
  /\ UIAt("build", "launch")
  /\ built' = TRUE
  /\ running' = TRUE
  /\ sessions' = sessions + 1
  /\ firstFile' = Len(files)
  /\ logged' = FALSE
  /\ UNCHANGED <<state, rebuild, everyNth, spc, stamp, wpc, channel, counter,
                 captureTime, times, output>>

(* m_state = CapturePaused, then the worker is created and resumed.        *)
BuildLaunch ==
  /\ UIAt("launch", "ready")
  /\ state' = "CapturePaused"
  /\ wpc' = "start"
  /\ UNCHANGED <<rebuild, build, stream, channel, counter,
                 captureTime, times, output, logged>>

----------------------------------------------------------------------------
(* The UI thread: StartCapturing and StopCapturing test m_state first and  *)
(* assign it later.                                                        *)

StartTest ==
  /\ UIAt("ready", "start")
  /\ state = "CapturePaused"
  /\ UNCHANGED <<state, rebuild, build, stream, wpc, channel, counter,
                 captureTime, times, output, logged>>

StartState(limit) ==
  /\ UIAt("start", "ready")
  /\ captureTime' = limit
  /\ state' = "Capturing"
  /\ UNCHANGED <<rebuild, build, stream, wpc, channel, counter, times, output, logged>>

StopTest ==
  /\ UIAt("ready", "pause")
  /\ state = "Capturing"
  /\ UNCHANGED <<state, rebuild, build, stream, wpc, channel, counter,
                 captureTime, times, output, logged>>

StopState ==
  /\ UIAt("pause", "ready")
  /\ state' = "CapturePaused"
  /\ UNCHANGED <<rebuild, build, stream, wpc, channel, counter, captureTime,
                 times, output, logged>>

----------------------------------------------------------------------------
(* The streaming thread: one frame into the queue, or none after the close.*)

FrameArrives(tape) ==
  /\ running /\ spc = "idle"
  /\ Len(stamp) < Len(tape) /\ stamp = SubSeq(tape, 1, Len(stamp))
  /\ spc' = "put"
  /\ stamp' = SubSeq(tape, 1, Len(stamp) + 1)
  /\ UNCHANGED <<state, ui, running, wpc, channel, counter, captureTime, times, output,
                 logged>>

FrameQueued ==
  /\ spc = "put" /\ spc' = "idle"
  /\ Ch!Send
  /\ UNCHANGED <<state, ui, running, stamp, wpc, counter, captureTime, times, output,
                 logged>>

FrameDropped ==
  /\ spc = "put" /\ spc' = "idle"
  /\ closed
  /\ stamp' = SubSeq(stamp, 1, Len(stamp) - 1)
  /\ UNCHANGED <<state, ui, running, wpc, channel, counter, captureTime, times, output,
                 logged>>

(* CInputPin::EndOfStream: the device is gone, and the queue is told so.   *)
InputEnds ==
  /\ running /\ spc = "idle" /\ ~closed
  /\ Ch!Close
  /\ UNCHANGED <<state, ui, stream, wpc, counter, captureTime, times, output, logged>>

----------------------------------------------------------------------------
(* The worker: CapturingThread.                                            *)

ThreadStart ==
  /\ WorkerAt("start", "top")
  /\ counter' = 0
  /\ UNCHANGED <<state, ui, stream, channel, captureTime, times, output, logged>>

(* while (m_state)                                                         *)
LoopTest ==
  /\ WorkerAt("top", IF state = "Idle" THEN "leave" ELSE "get")
  /\ UNCHANGED <<state, ui, stream, channel, counter, captureTime, times, output, logged>>

Distance(a, b) == IF a > b THEN a - b ELSE b - a

(* Take a frame and read its recording time; delta is how far that is from *)
(* the last valid one.                                                     *)
GetFrame ==
  /\ WorkerAt("get", "test")
  /\ Ch!Receive
  /\ LET new == stamp[Head(chan)]
         valid == new # dvTime /\ new > 0
     IN /\ dvTime' = new
        /\ oldDVTime' = IF valid THEN new ELSE oldDVTime
        /\ delta' = IF valid /\ oldDVTime > 0 THEN Distance(new, oldDVTime) ELSE 0
  /\ UNCHANGED <<state, ui, stream, counter, captureTime, output, logged>>

GetNothing ==
  /\ WorkerAt("get", "empty")
  /\ chan = <<>>
  /\ UNCHANGED <<state, ui, stream, channel, counter, captureTime, times, output, logged>>

(* End of stream leaves the loop running: m_end makes the test of the lost *)
(* signal fail. Otherwise wait; the timeout may be disabled.               *)
GetEnd ==
  /\ WorkerAt("empty", IF closed THEN "top" ELSE "wait")
  /\ UNCHANGED <<state, ui, stream, channel, counter, captureTime, times, output, logged>>

GetWake ==
  /\ WorkerAt("wait", "get")
  /\ chan # <<>> \/ closed
  /\ UNCHANGED <<state, ui, stream, channel, counter, captureTime, times, output, logged>>

TimeoutAsFrameMutant ==
  /\ WorkerAt("wait", "test")
  /\ chan = <<>> /\ last > 0
  /\ UNCHANGED <<state, ui, stream, channel, counter, captureTime, times, output, logged>>

GetTimeout ==
  /\ WorkerAt("wait", "timedOut")
  /\ chan = <<>>
  /\ UNCHANGED <<state, ui, stream, channel, counter, captureTime, times, output, logged>>

(* !m_queue->m_end, read before m_state                                    *)
LostTestEnd ==
  /\ WorkerAt("timedOut", IF closed THEN "top" ELSE "lostTest")
  /\ UNCHANGED <<state, ui, stream, channel, counter, captureTime, times, output, logged>>

LostTestState ==
  /\ WorkerAt("lostTest", IF state = "Capturing" THEN "lost" ELSE "top")
  /\ UNCHANGED <<state, ui, stream, channel, counter, captureTime, times, output, logged>>

SignalLost ==
  /\ WorkerAt("lost", "leave")
  /\ state' = "Finished"
  /\ UNCHANGED <<ui, stream, channel, counter, captureTime, times, output, logged>>

TestCapturing ==
  /\ WorkerAt("test", IF state = "Capturing" THEN "write" ELSE "pause")
  /\ UNCHANGED <<state, ui, stream, channel, counter, captureTime, times, output, logged>>

SplitOnNewSceneOnlyMutant == Threshold > 0 /\ delta > Threshold
SplitOnLengthOnlyMutant == nFrames >= MaxAVIFrames
SplitNeeded == nFrames >= MaxAVIFrames \/ (Threshold > 0 /\ delta > Threshold)

OverwriteStampMutant(stampOfFile) == dvTime

(* m_dvtime is filled in later only where it is 0, which is not how a      *)
(* frame without a recording time reads.                                   *)
Backfilled(stampOfFile) ==
  IF dvTime # 0 /\ stampOfFile = 0 THEN dvTime ELSE stampOfFile

(* Split, open, decimate, write, backfill and count: no test of m_state.   *)
WriteFrame ==
  LET reopen == ~writing \/ SplitNeeded
      count == IF reopen THEN 0 ELSE fileCounter
      length == IF reopen THEN 0 ELSE nFrames
      old == IF reopen THEN [frames |-> <<>>, dvtime |-> dvTime] ELSE files[Len(files)]
      kept == count % everyNth = 0
      new == [frames |-> IF kept THEN Append(old.frames, last) ELSE old.frames,
              dvtime |-> Backfilled(old.dvtime)]
      timeUp == captureTime # 0 /\ counter + 1 >= captureTime
  IN /\ WorkerAt("write", IF timeUp THEN "finish" ELSE "top")
     /\ files' = IF reopen THEN Append(files, new) ELSE [files EXCEPT ![Len(files)] = new]
     /\ writing' = TRUE
     /\ nFrames' = IF kept THEN length + 1 ELSE length
     /\ fileCounter' = count + 1
     /\ counter' = counter + 1
     /\ captureTime' = IF timeUp THEN 0 ELSE captureTime
     /\ UNCHANGED <<state, ui, stream, channel, times, logged>>

TimedFinish ==
  /\ WorkerAt("finish", "top")
  /\ state' = "Finished"
  /\ UNCHANGED <<ui, stream, channel, counter, captureTime, times, output, logged>>

(* Paused or finished: close the open file, and restart the counters       *)
(* unless the capture has finished.                                        *)
PauseKeepsFileMutant ==
  /\ WorkerAt("pause", "top")
  /\ counter' = IF state # "Finished" THEN 0 ELSE counter
  /\ UNCHANGED <<state, ui, stream, channel, captureTime, times, output, logged>>

Pause ==
  /\ WorkerAt("pause", "top")
  /\ writing' = FALSE
  /\ counter' = IF state # "Finished" THEN 0 ELSE counter
  /\ UNCHANGED <<state, ui, stream, channel, captureTime, times, nFrames, fileCounter,
                 files, logged>>

(* After the loop: close the open file; check, hash and log the capture.   *)
(* The locals of the thread end with it.                                   *)
LeaveKeepsFileMutant ==
  /\ WorkerAt("leave", "exited")
  /\ logged' = (counter > 0)
  /\ dvTime' = 0 /\ oldDVTime' = 0 /\ delta' = 0
  /\ UNCHANGED <<state, ui, stream, channel, counter, captureTime, output>>

Leave ==
  /\ WorkerAt("leave", "exited")
  /\ writing' = FALSE
  /\ logged' = (counter > 0)
  /\ dvTime' = 0 /\ oldDVTime' = 0 /\ delta' = 0
  /\ nFrames' = 0 /\ fileCounter' = 0
  /\ UNCHANGED <<state, ui, stream, channel, counter, captureTime, files>>

----------------------------------------------------------------------------
DestroyStep == DestroyClose \/ DestroyStop \/ DestroyDrain \/ DestroyJoin \/ DestroyFree
BuildStep == BuildFail \/ BuildRun \/ BuildLaunch
StartStep == \E limit \in CaptureTimes : StartState(limit)
UIStep == DestroyStep \/ BuildStep \/ StartStep \/ StopState

(* What the user asks for.                                                 *)
UserCommand ==
  \/ Destroy(FALSE)
  \/ sessions < MaxSessions /\ Destroy(TRUE)
  \/ StartTest \/ StopTest

StreamStep == FrameQueued \/ FrameDropped

WorkerStep ==
  \/ ThreadStart \/ LoopTest
  \/ GetFrame \/ GetNothing \/ GetEnd \/ GetWake
  \/ LostTestEnd \/ LostTestState \/ SignalLost
  \/ TestCapturing \/ WriteFrame \/ TimedFinish
  \/ Pause \/ Leave

Next ==
  \/ UserCommand \/ UIStep
  \/ (\E tape \in Tapes : FrameArrives(tape)) \/ InputEnds \/ StreamStep
  \/ WorkerStep \/ GetTimeout

(* Every thread that can run eventually runs; the user, the camcorder and  *)
(* a timeout that may be disabled owe nothing.                             *)
Fairness == WF_vars(UIStep) /\ WF_vars(StreamStep) /\ WF_vars(WorkerStep)

Spec == Init /\ [][Next]_vars /\ Fairness

----------------------------------------------------------------------------
ThreadTypes ==
  /\ state \in {"Idle", "CapturePaused", "Capturing", "Finished"}
  /\ upc \in {"ready", "close", "stop", "drain", "join", "free", "build", "launch", "start",
              "pause"}
  /\ wpc \in {"none", "start", "top", "get", "empty", "wait", "timedOut",
              "lostTest", "lost", "test", "write", "finish", "pause",
              "leave", "exited"}
  /\ spc \in {"idle", "put"}
  /\ rebuild \in BOOLEAN /\ running \in BOOLEAN /\ built \in BOOLEAN
  /\ sessions \in 0 .. MaxSessions

StreamTypes ==
  /\ sent \in Nat /\ chan \in Seq(1 .. sent) /\ last \in 0 .. sent
  /\ closed \in BOOLEAN /\ late \in BOOLEAN
  /\ stamp \in Seq(Int)

File(n) == [frames : Seq(1 .. n), dvtime : Int]

CaptureTypes ==
  /\ counter \in Nat \cup {-1} /\ captureTime \in CaptureTimes \cup {0}
  /\ dvTime \in Int /\ oldDVTime \in Int /\ delta \in Nat
  /\ nFrames \in 0 .. MaxAVIFrames /\ fileCounter \in Nat
  /\ writing \in BOOLEAN /\ logged \in BOOLEAN
  /\ files \in Seq(File(sent)) /\ firstFile \in 0 .. Len(files)

TypeOK == ThreadTypes /\ StreamTypes /\ CaptureTypes

(* The frames a file spans: from its first to its last, the decimated ones *)
(* included.                                                               *)
Span(f) == IF f.frames = <<>> THEN {} ELSE f.frames[1] .. f.frames[Len(f.frames)]

(* No file is longer than m_maxAVIFrames, however the capture was paused,  *)
(* resumed and split.                                                      *)
FileLengthBounded == \A i \in DOMAIN files : Len(files[i].frames) <= MaxAVIFrames

(* No frame is written twice, and the files follow one another in the      *)
(* order of the tape, across pauses, splits and sessions.                  *)
FilesInTapeOrder ==
  \A i, j \in DOMAIN files : i < j =>
    \A a \in Span(files[i]), b \in Span(files[j]) : a < b

(* A file has no hole: between two frames written to it every frame was    *)
(* read while capturing, so only decimation leaves any out. A pause during *)
(* which frames arrive ends the file.                                      *)
FileContiguous ==
  \A i \in DOMAIN files :
    LET f == files[i].frames
    IN \A k \in 1 .. Len(f) - 1 : f[k + 1] = f[k] + everyNth

(* No file contains a cut of the tape: two successive valid recording      *)
(* times in a file are never further apart than the threshold, even when   *)
(* frames without a recording time or skipped frames lie between them.     *)
NoSceneCutInFile ==
  Threshold > 0 => \A i \in DOMAIN files : \A a, b \in Span(files[i]) :
    /\ a < b /\ stamp[a] > 0 /\ stamp[b] > 0
    /\ \A c \in a + 1 .. b - 1 : stamp[c] <= 0
    => Distance(stamp[a], stamp[b]) <= Threshold

(* A file keeps the date of the frame it was opened with, if that frame    *)
(* has one, whatever later frames, pauses and splits bring. For a file     *)
(* opened by a frame without one see FileDatedByFirstStamp.                *)
FileDatedByFirstFrame ==
  \A i \in DOMAIN files :
    LET first == stamp[files[i].frames[1]]
    IN  first > 0 => files[i].dvtime = first

(* No AVI file stays open once the worker is gone, whichever way its loop  *)
(* ended.                                                                  *)
FilesClosedAtExit == wpc \in {"none", "exited"} => ~writing

(* The queue, the input and the writer are not deleted under a thread that *)
(* still uses them.                                                        *)
PipelineOutlivesThreads == Alive \/ spc = "put" => built

(* Destroy comes back, unless the worker puts m_state back to Finished     *)
(* after Destroy made it Idle.                                             *)
DestroyReturnsIfIdle ==
  (upc \in {"close", "stop", "drain", "join"}) ~> (upc \in {"ready", "build"} \/ state # "Idle")

(* What the comment above CDV::Destroy promises: it sets m_state to Idle   *)
(* so that the thread leaves its loop, and can be called in any state.     *)
DestroyReturns == (upc = "join") ~> (upc # "join")

(* What the comment above CapturingThread says of the backfill: a file     *)
(* whose first frames have no valid time is dated by the first that has.   *)
FileDatedByFirstStamp ==
  \A i \in DOMAIN files : \A a \in Span(files[i]) :
    /\ stamp[a] > 0
    /\ \A b \in Span(files[i]) : b < a => stamp[b] <= 0
    => files[i].dvtime = stamp[a]

(* What the comment in CapturingThread says of its end: the log is written *)
(* if any frames were captured.                                            *)
CapturedIsLogged == wpc = "exited" /\ Len(files) > firstFile => logged
=============================================================================
