--------------------------- MODULE RecordSession ---------------------------
(***************************************************************************)
(* A recording session of class CDV (DShow.cpp): AVI files are played onto *)
(* the tape of the camcorder. The UI thread runs BuildRecording,           *)
(* StartRecording, StopRecording and Destroy; CAVIJoiner and its two       *)
(* threads fill the queue; the worker, RecordingThread, empties it into    *)
(* CDVOutput. The counterpart of CaptureSession, with the same step sizes. *)
(*                                                                         *)
(* Left out: the preview, the messages posted to the dialog, the transport *)
(* commands, m_time, which is reset and advanced with m_counter.           *)
(* CDVOutput::HandleFrame is one step: the device takes every frame.       *)
(***************************************************************************)
EXTENDS Integers, Sequences, FiniteSets

CONSTANTS
  Capacity,    \* capacity of the queue
  MaxCounter,  \* bound: no StartRecording once m_counter is there
  FileLists    \* the lists of files the user can play: a length for each file

ASSUME CapacityAssumption == Capacity \in Nat \ {0}
ASSUME FilesAssumption ==
  MaxCounter \in Nat /\ \A list \in FileLists : list \in Seq(Nat) /\ list # <<>>

VARIABLES
  state,     \* m_state
  upc,       \* where the UI thread is
  rebuild,   \* the UI thread runs Destroy on behalf of BuildRecording
  built,     \* the joiner, the queue and the output exist
  wpc,       \* where the worker is
  counter,   \* m_counter
  taped,     \* the last frame CDVOutput was given, 0 for none
  lengths, jpc, ev, stopping, current, reader, live, rpc, pos, origin,  \* see AVIJoiner
  chan, sent, last, closed, late                                        \* see FrameChannel

Joiner == INSTANCE AVIJoiner
Ch == INSTANCE FrameChannel

joiner == <<lengths, jpc, ev, stopping, current, reader, live, rpc, pos, origin>>
channel == <<chan, sent, last, closed, late>>
source == <<joiner, channel>>
ui == <<upc, rebuild, built>>
worker == <<wpc, counter, taped>>
vars == <<state, ui, worker, source>>

UIAt(from, to) == upc = from /\ upc' = to
WorkerAt(from, to) == wpc = from /\ wpc' = to
Alive == wpc \notin {"none", "exited"}

(* After the first call of Destroy.                                        *)
Init ==
  /\ state = "Idle"
  /\ upc = "ready" /\ rebuild = FALSE /\ built = FALSE
  /\ wpc = "none" /\ counter = -1 /\ taped = 0
  /\ Joiner!Init

----------------------------------------------------------------------------
(* The UI thread: Destroy, also as the first statement of BuildRecording.  *)

Destroy(forBuild) ==
  /\ UIAt("ready", "close")
  /\ rebuild' = forBuild
  /\ state' = "Idle"
  /\ UNCHANGED <<built, worker, source>>

DestroySilentMutant ==
  /\ UIAt("close", "stopFlag")
  /\ UNCHANGED <<state, rebuild, built, worker, source>>

(* if (m_queue) m_queue->Put(-1, NULL, 0)                                  *)
DestroyClose ==
  /\ UIAt("close", "stopFlag")
  /\ IF built THEN Ch!Close ELSE UNCHANGED channel
  /\ UNCHANGED <<state, rebuild, built, worker, joiner>>

(* if (m_aviJoiner) m_aviJoiner->Stop()                                    *)
JoinerStop ==
  /\ \/ UIAt("stopFlag", "stopSignal") /\ Joiner!StopFlag
     \/ UIAt("stopSignal", "stopJoin") /\ Joiner!StopSignal
     \/ UIAt("stopJoin", "stopReader") /\ Joiner!StopJoin
     \/ UIAt("stopReader", "stopDelete") /\ Joiner!StopReader
     \/ UIAt("stopDelete", "join") /\ Joiner!StopDelete
  /\ UNCHANGED <<state, rebuild, built, worker>>

(* WaitForSingleObject(m_thread, INFINITE)                                 *)
DestroyJoin ==
  /\ UIAt("join", "free")
  /\ ~Alive
  /\ wpc' = "none"
  /\ UNCHANGED <<state, rebuild, built, counter, taped, source>>

(* The pipeline is deleted and m_counter reset; what the next session      *)
(* counts starts from nothing.                                             *)
DestroyFree ==
  /\ UIAt("free", IF rebuild THEN "build" ELSE "ready")
  /\ rebuild' = FALSE /\ built' = FALSE
  /\ counter' = -1 /\ taped' = 0
  /\ lengths' = <<>> /\ ev' = FALSE /\ current' = 0 /\ pos' = 0 /\ origin' = <<>>
  /\ chan' = <<>> /\ sent' = 0 /\ last' = 0 /\ closed' = FALSE /\ late' = FALSE
  /\ UNCHANGED <<state, wpc, jpc, stopping, reader, live, rpc>>

----------------------------------------------------------------------------
(* The UI thread: the rest of BuildRecording.                              *)

(* No file matches, a device cannot be opened or the reader does not run:  *)
(* what was built stays until the next Destroy.                            *)
BuildFail ==
  /\ upc \in {"build", "runThread", "runReader"} /\ upc' = "ready"
  /\ UNCHANGED <<state, rebuild, built, worker, source>>

BuildJoiner(filenames) ==
  /\ UIAt("build", "runThread")
  /\ built' = TRUE
  /\ Joiner!Construct(filenames)
  /\ UNCHANGED <<state, rebuild, worker>>

(* m_reader->Run throws also for a graph that is on its way to running.    *)
JoinerRun ==
  /\ \/ UIAt("runThread", "runReader") /\ Joiner!RunThread
     \/ UIAt("runReader", "launch") /\ Joiner!RunReader
     \/ UIAt("runReader", "ready") /\ Joiner!RunReader
  /\ UNCHANGED <<state, rebuild, built, worker>>

BuildLaunch ==
  /\ UIAt("launch", "ready")
  /\ state' = "RecordPaused"
  /\ wpc' = "start"
  /\ UNCHANGED <<rebuild, built, counter, taped, source>>

----------------------------------------------------------------------------
(* The UI thread: StartRecording and StopRecording test m_state first and  *)
(* assign it later.                                                        *)

Test(expected, next) ==
  /\ UIAt("ready", next)
  /\ state = expected
  /\ UNCHANGED <<state, rebuild, built, worker, source>>

Assign(from, new) ==
  /\ UIAt(from, "ready")
  /\ state' = new
  /\ UNCHANGED <<rebuild, built, worker, source>>

StartTest == Test("RecordPaused", "start")
StartState == Assign("start", "Recording")
StopTest == Test("Recording", "pause")
StopState == Assign("pause", "RecordPaused")

----------------------------------------------------------------------------
(* The worker: RecordingThread. Its first Get is the one before the loop.  *)

ThreadStart ==
  /\ WorkerAt("start", "get")
  /\ UNCHANGED <<state, ui, counter, taped, source>>

First == taped = 0

GetFrame ==
  /\ WorkerAt("get", "top")
  /\ Ch!Receive
  /\ counter' = IF First THEN 0 ELSE counter
  /\ UNCHANGED <<state, ui, taped, joiner>>

GetNothing ==
  /\ WorkerAt("get", "empty")
  /\ chan = <<>>
  /\ UNCHANGED <<state, ui, counter, taped, source>>

EmptyIsEndMutant ==
  /\ WorkerAt("empty", IF First THEN "wait" ELSE "endTest")
  /\ UNCHANGED <<state, ui, counter, taped, source>>

GetEnd ==
  /\ WorkerAt("empty", IF ~closed THEN "wait" ELSE IF First THEN "exited" ELSE "endTest")
  /\ UNCHANGED <<state, ui, counter, taped, source>>

GetWake ==
  /\ WorkerAt("wait", "get")
  /\ chan # <<>> \/ closed
  /\ UNCHANGED <<state, ui, counter, taped, source>>

(* while (m_state)                                                         *)
LoopTest ==
  /\ WorkerAt("top", IF state = "Idle" THEN "exited" ELSE "forward")
  /\ UNCHANGED <<state, ui, counter, taped, source>>

(* m_dvOutput->HandleFrame, whatever m_state is.                           *)
Forward ==
  /\ WorkerAt("forward", "test")
  /\ taped' = last
  /\ UNCHANGED <<state, ui, counter, source>>

(* Only a frame sent while recording is counted and followed by the next.  *)
TestRecording ==
  /\ IF state = "Recording"
     THEN WorkerAt("test", "get") /\ counter' = counter + 1
     ELSE WorkerAt("test", "top") /\ UNCHANGED counter
  /\ UNCHANGED <<state, ui, taped, source>>

(* if (m_state) m_state = Finished                                         *)
EndTest ==
  /\ WorkerAt("endTest", IF state = "Idle" THEN "top" ELSE "finish")
  /\ UNCHANGED <<state, ui, counter, taped, source>>

Finish ==
  /\ WorkerAt("finish", "top")
  /\ state' = "Finished"
  /\ UNCHANGED <<ui, counter, taped, source>>

----------------------------------------------------------------------------
UIStep ==
  \/ DestroyClose \/ JoinerStop \/ DestroyJoin \/ DestroyFree
  \/ BuildFail \/ (\E list \in FileLists : BuildJoiner(list)) \/ JoinerRun \/ BuildLaunch
  \/ StartState \/ StopState

(* What the user asks for.                                                 *)
UserCommand ==
  \/ Destroy(TRUE) \/ Destroy(FALSE)
  \/ counter < MaxCounter /\ StartTest
  \/ StopTest

WorkerStep ==
  \/ ThreadStart \/ GetFrame \/ GetNothing \/ GetEnd \/ GetWake
  \/ LoopTest \/ Forward \/ TestRecording \/ EndTest \/ Finish

ReaderStep == Joiner!ReaderStep /\ UNCHANGED <<state, ui, worker>>
JoinerThreadStep == Joiner!ThreadStep /\ UNCHANGED <<state, ui, worker>>

Next == UserCommand \/ UIStep \/ WorkerStep \/ ReaderStep \/ JoinerThreadStep

(* Every thread that can run eventually runs; the user owes nothing.       *)
Fairness ==
  /\ WF_vars(UIStep) /\ WF_vars(WorkerStep)
  /\ WF_vars(ReaderStep) /\ WF_vars(JoinerThreadStep)

Spec == Init /\ [][Next]_vars /\ Fairness

----------------------------------------------------------------------------
Frames == UNION {{f} \X (1 .. lengths[f]) : f \in DOMAIN lengths}
Precedes(a, b) == a[1] < b[1] \/ (a[1] = b[1] /\ a[2] < b[2])
Destroying == upc \in {"close", "stopFlag", "stopSignal", "stopJoin", "stopReader",
                       "stopDelete", "join", "free"}

ThreadTypes ==
  /\ state \in {"Idle", "RecordPaused", "Recording", "Finished"}
  /\ Destroying \/ upc \in {"ready", "build", "runThread", "runReader", "launch", "start",
                            "pause"}
  /\ rebuild \in BOOLEAN /\ built \in BOOLEAN
  /\ wpc \in {"none", "start", "get", "empty", "wait", "top", "forward", "test", "endTest",
              "finish", "exited"}
  /\ counter \in Nat \cup {-1}

JoinerTypes ==
  /\ jpc \in {"none", "wait", "woken", "replace", "drain", "open", "end", "exited"}
  /\ rpc \in {"idle", "call", "put"}
  /\ ev \in BOOLEAN /\ stopping \in BOOLEAN /\ live \in BOOLEAN
  /\ lengths \in FileLists \cup {<<>>}
  /\ current \in 0 .. Len(lengths) /\ reader \in {0, current} /\ pos \in Nat
  /\ reader # 0 => pos <= lengths[reader] + 1

QueueTypes ==
  /\ origin \in Seq(Frames) /\ Len(origin) = sent
  /\ chan \in Seq(1 .. sent) /\ last \in 0 .. sent
  /\ closed \in BOOLEAN /\ late \in BOOLEAN
  /\ taped \in 0 .. last

TypeOK == ThreadTypes /\ JoinerTypes /\ QueueTypes

(* The queue gets the frames of all files in the order of the list, none   *)
(* twice and none left out, across every change of the reader, until       *)
(* Destroy throws away what the queue holds.                               *)
JoinedInOrder ==
  ~Destroying => \A n \in DOMAIN origin :
    {origin[m] : m \in 1 .. n - 1} = {f \in Frames : Precedes(f, origin[n])}

(* End of stream is announced by JoinerThread only when the last frame of  *)
(* the last file is in the queue.                                          *)
EndAfterAllFiles == closed /\ ~Destroying => Len(origin) = Cardinality(Frames)

(* The list of files is played completely and in order.                    *)
FilesJoined == JoinedInOrder /\ EndAfterAllFiles

(* Finished is reported only when all files were joined and every frame    *)
(* the worker did not leave behind in the queue is on the tape.            *)
FinishedAfterTape ==
  state = "Finished" /\ ~Destroying =>
    /\ Len(origin) = Cardinality(Frames)
    /\ taped > 0 /\ taped = sent - Len(chan)

(* No reader is deleted while its streaming thread is in a callback, and   *)
(* neither queue nor output while a thread can still reach them.           *)
PipelineOutlivesThreads ==
  /\ rpc # "idle" => reader # 0
  /\ rpc # "idle" \/ live \/ Alive \/ jpc \notin {"none", "exited"} => built

(* Recording comes to an end by itself: every file is opened and played,   *)
(* unless the worker never saw a frame and is gone.                        *)
RecordingEnds == state = "Recording" ~> (state # "Recording" \/ ~Alive)

(* Destroy comes back, unless the worker makes m_state Finished after      *)
(* Destroy made it Idle.                                                   *)
DestroyReturnsIfIdle == Destroying ~> (~Destroying \/ state # "Idle")

(* What the comment above RecordingThread says: while RecordPaused, frames *)
(* are consumed but not forwarded.                                         *)
PausedSendsNothing == [][taped' > taped => state # "RecordPaused"]_taped

(* What the state machine in DShow.h says: only Destroy leaves Finished.   *)
FinishedUntilDestroy == [][state = "Finished" => state' = "Idle"]_state
=============================================================================
