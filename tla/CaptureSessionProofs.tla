------------------------ MODULE CaptureSessionProofs ------------------------
(***************************************************************************)
(* Proofs about CaptureSession, for every capacity of the queue, every     *)
(* setting, every set of tapes and any number of sessions.                 *)
(*                                                                         *)
(* The invariants are proved one after the other, each from those before   *)
(* it: the life of the pipeline, the types, the queue, the files, and then *)
(* what the worker remembers of the tape for the file that is open: the    *)
(* spacing of its frames, the times, the cuts, the date.                   *)
(***************************************************************************)
EXTENDS CaptureSession, TLAPS

(* How far the UI thread is in taking the pipeline down decides who can    *)
(* still use it: the input first, then the frame under way, then the       *)
(* worker.                                                                 *)
PipelineInv ==
  /\ running \/ spc = "put" \/ Alive \/ upc = "launch" => built
  /\ upc \in {"drain", "join", "free", "build"} => ~running
  /\ upc \in {"join", "free", "build"} => spc # "put"
  /\ upc \in {"free", "build", "launch"} => ~Alive

(* The steps by the variables they leave alone: the user's choices, the    *)
(* building and taking down of the pipeline, the steps of the worker that  *)
(* move it or set m_state and do nothing else.                             *)
ChoiceStep == UserCommand \/ StartStep \/ StopState
TakeDownStep == DestroyClose \/ DestroyStop \/ DestroyDrain \/ DestroyJoin \/ DestroyFree
FrameStep == (\E tape \in Tapes : FrameArrives(tape)) \/ InputEnds \/ StreamStep
ControlStep ==
  \/ LoopTest \/ GetNothing \/ GetEnd \/ GetWake \/ GetTimeout
  \/ LostTestEnd \/ LostTestState \/ SignalLost \/ TestCapturing \/ TimedFinish

LEMMA NextSplit ==
  [Next]_vars =>
    \/ ChoiceStep \/ TakeDownStep \/ BuildStep \/ FrameStep \/ ControlStep
    \/ ThreadStart \/ GetFrame \/ WriteFrame \/ Pause \/ Leave
    \/ UNCHANGED vars
  BY Zenon DEF Next, UIStep, DestroyStep, WorkerStep,
               ChoiceStep, TakeDownStep, FrameStep, ControlStep

LEMMA ChoiceQuiet ==
  ChoiceStep => /\ UNCHANGED <<spc, running, built, wpc, channel, stamp, counter, times,
                               output, sessions, firstFile, logged>>
                /\ upc \in {"ready", "start", "pause"}
                /\ upc' \in {"ready", "start", "pause", "close"}
  BY DEF ChoiceStep, UserCommand, StartStep, Destroy, StartTest, StopTest, StartState, StopState, UIAt,
         build, stream

LEMMA ControlQuiet ==
  ControlStep => /\ UNCHANGED <<upc, rebuild, spc, running, built, channel, stamp, counter,
                                captureTime, times, output, sessions, firstFile, logged>>
                 /\ Alive /\ Alive'
  BY DEF ControlStep, LoopTest, GetNothing, GetEnd, GetWake, GetTimeout, LostTestEnd,
         LostTestState, SignalLost, TestCapturing, TimedFinish, WorkerAt, Alive,
         ui, build, stream

LEMMA PipelineKeeps ==
  ASSUME PipelineInv, [Next]_vars
  PROVE  PipelineInv'
<1> USE DEF PipelineInv
<1>1. CASE ChoiceStep
  BY <1>1, ChoiceQuiet DEF Alive
<1>2. CASE TakeDownStep
  BY <1>2 DEF TakeDownStep, DestroyClose, DestroyStop, DestroyDrain, DestroyJoin,
              DestroyFree, UIAt, build, stream, Alive
<1>3. CASE BuildStep
  BY <1>3 DEF BuildStep, BuildFail, BuildRun, BuildLaunch, UIAt, build, stream, Alive
<1>4. CASE FrameStep
  BY <1>4 DEF FrameStep, StreamStep, FrameArrives, InputEnds, FrameQueued, FrameDropped,
              ui, build, stream, Alive
<1>5. CASE ControlStep
  BY <1>5, ControlQuiet
<1>6. CASE ThreadStart \/ GetFrame \/ WriteFrame \/ Pause \/ Leave
  BY <1>6 DEF ThreadStart, GetFrame, WriteFrame, Pause, Leave, WorkerAt, ui, build,
              stream, Alive
<1>7. CASE UNCHANGED vars
  BY <1>7 DEF vars, ui, build, stream, Alive
<1> QED BY <1>1, <1>2, <1>3, <1>4, <1>5, <1>6, <1>7, NextSplit

LEMMA ClosedKeeps ==
  ASSUME FilesClosedAtExit, [Next]_vars
  PROVE  FilesClosedAtExit'
<1> USE DEF FilesClosedAtExit
<1>1. CASE ChoiceStep
  BY <1>1, ChoiceQuiet DEF output
<1>2. CASE TakeDownStep
  BY <1>2 DEF TakeDownStep, DestroyClose, DestroyStop, DestroyDrain, DestroyJoin,
              DestroyFree, UIAt, output, Alive
<1>3. CASE BuildStep
  BY <1>3 DEF BuildStep, BuildFail, BuildRun, BuildLaunch, UIAt, output
<1>4. CASE FrameStep
  BY <1>4 DEF FrameStep, StreamStep, FrameArrives, InputEnds, FrameQueued, FrameDropped,
              output
<1>5. CASE ControlStep
  BY <1>5, ControlQuiet DEF Alive
<1>6. CASE ThreadStart \/ GetFrame \/ WriteFrame \/ Pause \/ Leave
  BY <1>6 DEF ThreadStart, GetFrame, WriteFrame, Pause, Leave, WorkerAt, output
<1>7. CASE UNCHANGED vars
  BY <1>7 DEF vars, output
<1> QED BY <1>1, <1>2, <1>3, <1>4, <1>5, <1>6, <1>7, NextSplit

----------------------------------------------------------------------------
(* Types.                                                                  *)

(* What TypeOK rests on: the device has delivered the frames the queue has *)
(* accepted and the one on its way; the worker processes no frame before   *)
(* it has one; an open file exists; a session is begun only within the     *)
(* bound.                                                                  *)
SupportInv ==
  /\ Len(stamp) = IF spc = "put" THEN sent + 1 ELSE sent
  /\ wpc \in {"test", "write"} => last > 0
  /\ writing => files # <<>>
  /\ rebuild => upc \in {"close", "stop", "drain", "join", "free"}
  /\ rebuild \/ upc = "build" => sessions < MaxSessions

TypeInv == TypeOK /\ SupportInv

USE CapacityAssumption, SettingsAssumption, InputsAssumption

LEMMA SeqMonotone ==
  ASSUME NEW S, NEW T, S \subseteq T
  PROVE  Seq(S) \subseteq Seq(T)
<1> SUFFICES ASSUME NEW s \in Seq(S) PROVE s \in Seq(T)
  OBVIOUS
<1>1. s \in [1 .. Len(s) -> S] /\ Len(s) \in Nat
  OBVIOUS
<1>2. s \in [1 .. Len(s) -> T]
  BY <1>1
<1> QED BY <1>1, <1>2

(* The frames written stay frames sent when the device sends another.      *)
LEMMA FilesGrow ==
  ASSUME NEW n \in Nat
  PROVE  /\ Seq(1 .. n) \subseteq Seq(1 .. n + 1)
         /\ Seq(File(n)) \subseteq Seq(File(n + 1))
<1>1. Seq(1 .. n) \subseteq Seq(1 .. n + 1)
  <2>1. 1 .. n \subseteq 1 .. n + 1
    OBVIOUS
  <2> QED BY <2>1, SeqMonotone
<1>2. File(n) \subseteq File(n + 1)
  BY <1>1, Zenon DEF File
<1>3. Seq(File(n)) \subseteq Seq(File(n + 1))
  BY <1>2, SeqMonotone
<1> QED BY <1>1, <1>3

LEMMA TypesChoice ==
  ASSUME TypeInv, ChoiceStep
  PROVE  TypeInv'
<1> USE DEF TypeInv, TypeOK
<1>1. UNCHANGED <<spc, running, built, wpc, channel, stamp, counter, times, output,
                  sessions, firstFile, logged>>
  BY ChoiceQuiet
<1>2. StreamTypes'
  BY <1>1 DEF StreamTypes, channel
<1>3. CASE UserCommand
  <2>1. captureTime' = captureTime
    BY <1>3 DEF UserCommand, Destroy, StartTest, StopTest
  <2>2. CaptureTypes'
    BY <1>1, <2>1 DEF CaptureTypes, channel, times, output
  <2>3. ThreadTypes'
    BY <1>1, <1>3 DEF ThreadTypes, UserCommand, Destroy, StartTest, StopTest, UIAt
  <2>4. SupportInv'
    BY <1>1, <1>3 DEF ThreadTypes, SupportInv, UserCommand, Destroy, StartTest, StopTest,
                      UIAt, channel, output
  <2> QED BY <1>2, <2>2, <2>3, <2>4
<1>4. CASE StartStep \/ StopState
  <2>1. captureTime' \in CaptureTimes \cup {0}
    BY <1>4 DEF StartStep, StartState, StopState, CaptureTypes
  <2>2. CaptureTypes'
    BY <1>1, <2>1 DEF CaptureTypes, channel, times, output
  <2>3. ThreadTypes'
    BY <1>1, <1>4 DEF ThreadTypes, StartStep, StartState, StopState, UIAt
  <2>4. SupportInv'
    BY <1>1, <1>4 DEF SupportInv, StartStep, StartState, StopState, UIAt, channel, output
  <2> QED BY <1>2, <2>2, <2>3, <2>4
<1> QED BY <1>3, <1>4 DEF ChoiceStep

LEMMA TypesTakeDown ==
  ASSUME TypeInv, PipelineInv, TakeDownStep
  PROVE  TypeInv'
<1> USE DEF TypeInv, TypeOK, UIAt, build, stream, channel, times, output
<1>1. CASE DestroyClose
  <2> USE <1>1 DEF DestroyClose, Ch!Close
  <2>1. StreamTypes'
    BY DEF StreamTypes
  <2>2. CaptureTypes'
    BY DEF CaptureTypes
  <2>3. ThreadTypes'
    BY DEF ThreadTypes
  <2>4. SupportInv'
    BY DEF SupportInv
  <2> QED BY <2>1, <2>2, <2>3, <2>4
<1>2. CASE DestroyStop \/ DestroyDrain \/ DestroyJoin
  <2> USE <1>2 DEF DestroyStop, DestroyDrain, DestroyJoin
  <2>1. StreamTypes'
    BY DEF StreamTypes
  <2>2. CaptureTypes'
    BY DEF CaptureTypes
  <2>3. ThreadTypes'
    BY DEF ThreadTypes
  <2>4. SupportInv'
    BY DEF SupportInv
  <2> QED BY <2>1, <2>2, <2>3, <2>4
<1>3. CASE DestroyFree
  <2>1. wpc \notin {"test", "write"}
    BY <1>3 DEF DestroyFree, PipelineInv, Alive
  <2>2. StreamTypes'
    <3>1. <<>> \in Seq(1 .. sent)
      OBVIOUS
    <3>2. chan' \in Seq(1 .. sent')
      BY <1>3, <3>1, Zenon DEF DestroyFree
    <3>3. last' \in 0 .. sent'
      BY <1>3 DEF DestroyFree, StreamTypes
    <3> QED BY <1>3, <3>2, <3>3 DEF DestroyFree, StreamTypes
  <2>3. CaptureTypes'
    BY <1>3 DEF DestroyFree, CaptureTypes
  <2>4. ThreadTypes' /\ SupportInv'
    BY <1>3, <2>1 DEF DestroyFree, ThreadTypes, SupportInv
  <2> QED BY <2>2, <2>3, <2>4
<1> QED BY <1>1, <1>2, <1>3 DEF TakeDownStep

LEMMA TypesBuild ==
  ASSUME TypeInv, BuildStep
  PROVE  TypeInv'
<1> USE DEF TypeInv, TypeOK, UIAt, build, stream, channel, times, output
<1>1. StreamTypes'
  BY DEF StreamTypes, BuildStep, BuildFail, BuildRun, BuildLaunch
<1>2. CaptureTypes'
  <2>1. firstFile' \in 0 .. Len(files') /\ UNCHANGED <<files, sent>>
    BY DEF CaptureTypes, BuildStep, BuildFail, BuildRun, BuildLaunch
  <2> QED BY <2>1 DEF CaptureTypes, BuildStep, BuildFail, BuildRun, BuildLaunch
<1>3. ThreadTypes' /\ SupportInv'
  <2>1. CASE BuildFail
    BY <2>1 DEF BuildFail, ThreadTypes, SupportInv
  <2>2. CASE BuildRun
    <3>1. sessions' \in 0 .. MaxSessions /\ ~rebuild
      BY <2>2 DEF BuildRun, ThreadTypes, SupportInv
    <3> QED BY <2>2, <3>1 DEF BuildRun, ThreadTypes, SupportInv
  <2>3. CASE BuildLaunch
    BY <2>3 DEF BuildLaunch, ThreadTypes, SupportInv
  <2> QED BY <2>1, <2>2, <2>3 DEF BuildStep
<1> QED BY <1>1, <1>2, <1>3

LEMMA TypesFrame ==
  ASSUME TypeInv, FrameStep
  PROVE  TypeInv'
<1> USE DEF TypeInv, TypeOK, ui, build, times, output
<1>1. CASE \E tape \in Tapes : FrameArrives(tape)
  <2>1. PICK tape \in Tapes : FrameArrives(tape)
    BY <1>1
  <2>2. tape \in Seq(Int) /\ Len(stamp) + 1 \in 1 .. Len(tape)
    BY <2>1 DEF FrameArrives, StreamTypes
  <2>3. stamp' \in Seq(Int) /\ Len(stamp') = Len(stamp) + 1
    BY <2>1, <2>2 DEF FrameArrives
  <2> USE <2>1 DEF FrameArrives, channel
  <2>4. StreamTypes'
    BY <2>3 DEF StreamTypes
  <2>5. CaptureTypes'
    BY DEF CaptureTypes
  <2>6. ThreadTypes' /\ SupportInv'
    BY <2>3 DEF ThreadTypes, SupportInv
  <2> QED BY <2>4, <2>5, <2>6
<1>2. CASE FrameQueued
  <2> USE <1>2 DEF FrameQueued, Ch!Send
  <2>1. chan' = Append(chan, sent + 1) /\ sent' = sent + 1 /\ sent \in Nat
    BY DEF StreamTypes
  <2>2. StreamTypes'
    BY <2>1, FilesGrow DEF StreamTypes
  <2>3. CaptureTypes'
    BY <2>1, FilesGrow DEF CaptureTypes
  <2>4. ThreadTypes' /\ SupportInv'
    BY <2>1 DEF ThreadTypes, SupportInv
  <2> QED BY <2>2, <2>3, <2>4
<1>3. CASE FrameDropped
  <2> USE <1>3 DEF FrameDropped, channel
  <2>1. Len(stamp) - 1 \in 0 .. Len(stamp) /\ sent = Len(stamp) - 1
    BY DEF StreamTypes, SupportInv
  <2>2. stamp' \in Seq(Int) /\ Len(stamp') = Len(stamp) - 1
    BY <2>1 DEF StreamTypes
  <2>3. StreamTypes'
    BY <2>2 DEF StreamTypes
  <2>4. CaptureTypes'
    BY DEF CaptureTypes
  <2>5. ThreadTypes' /\ SupportInv'
    BY <2>1, <2>2 DEF ThreadTypes, SupportInv
  <2> QED BY <2>3, <2>4, <2>5
<1>4. CASE InputEnds
  BY <1>4 DEF InputEnds, Ch!Close, stream, ThreadTypes, StreamTypes, CaptureTypes,
              SupportInv
<1> QED BY <1>1, <1>2, <1>3, <1>4 DEF FrameStep, StreamStep

(* What WriteFrame does to the files: a new one, or one more frame on the  *)
(* last; decimation may leave the frame out of either.                     *)
Opens(f) ==
  /\ files' = Append(files, f)
  /\ \/ f.frames = <<last>> /\ nFrames' = 1
     \/ f.frames = <<>> /\ nFrames' = 0

Extends(f) ==
  /\ writing /\ nFrames < MaxAVIFrames
  /\ files' = [files EXCEPT ![Len(files)] = f]
  /\ \/ f.frames = Append(files[Len(files)].frames, last) /\ nFrames' = nFrames + 1
     \/ f.frames = files[Len(files)].frames /\ nFrames' = nFrames

LEMMA WriteEffect ==
  ASSUME TypeInv, WriteFrame
  PROVE  /\ \E f \in File(sent) : Opens(f) \/ Extends(f)
         /\ writing' = TRUE /\ sent' = sent /\ wpc = "write" /\ wpc' \in {"top", "finish"}
<1> DEFINE reopen == ~writing \/ SplitNeeded
           count == IF reopen THEN 0 ELSE fileCounter
           length == IF reopen THEN 0 ELSE nFrames
           old == IF reopen THEN [frames |-> <<>>, dvtime |-> dvTime]
                            ELSE files[Len(files)]
           kept == count % everyNth = 0
           new == [frames |-> IF kept THEN Append(old.frames, last) ELSE old.frames,
                   dvtime |-> Backfilled(old.dvtime)]
<1>1. /\ files' = IF reopen THEN Append(files, new)
                  ELSE [files EXCEPT ![Len(files)] = new]
      /\ nFrames' = IF kept THEN length + 1 ELSE length
      /\ writing' = TRUE /\ sent' = sent
      /\ wpc = "write" /\ wpc' \in {"top", "finish"}
  BY DEF WriteFrame, WorkerAt, channel
<1>2. /\ last \in 1 .. sent /\ nFrames \in Nat /\ dvTime \in Int /\ files \in Seq(File(sent))
      /\ writing => files # <<>>
  BY <1>1 DEF TypeInv, TypeOK, StreamTypes, CaptureTypes, SupportInv
<1>3. old \in File(sent)
  <2>1. CASE reopen
    BY <1>2, <2>1 DEF File
  <2>2. CASE ~reopen
    <3>1. Len(files) \in DOMAIN files
      BY <1>2, <2>2
    <3> QED BY <1>2, <2>2, <3>1
  <2> QED BY <2>1, <2>2
<1>4. new \in File(sent)
  <2>1. old.frames \in Seq(1 .. sent) /\ old.dvtime \in Int
    BY <1>3 DEF File
  <2>2. Append(old.frames, last) \in Seq(1 .. sent)
    BY <1>2, <2>1
  <2>3. Backfilled(old.dvtime) \in Int
    BY <1>2, <2>1 DEF Backfilled
  <2>4. new.frames \in Seq(1 .. sent) /\ new.dvtime \in Int
    BY <2>1, <2>2, <2>3
  <2> QED BY <2>1, <2>2, <2>3 DEF File
<1>5. CASE reopen
  <2>1. old.frames = <<>> /\ length = 0
    BY <1>5
  <2>2. Append(<<>>, last) = <<last>>
    OBVIOUS
  <2>3. new.frames = IF kept THEN <<last>> ELSE <<>>
    BY <2>1, <2>2
  <2>4. Opens(new)
    BY <1>1, <1>5, <2>1, <2>3 DEF Opens
  <2> QED BY <1>1, <1>4, <2>4
<1>6. CASE ~reopen
  <2>1. old = files[Len(files)] /\ length = nFrames /\ writing
    BY <1>6
  <2>2. nFrames < MaxAVIFrames
    BY <1>2, <1>6 DEF SplitNeeded
  <2>3. files' = [files EXCEPT ![Len(files)] = new]
    BY <1>1, <1>6
  <2>4. new.frames = IF kept THEN Append(files[Len(files)].frames, last)
                     ELSE files[Len(files)].frames
    BY <2>1
  <2>5. nFrames' = IF kept THEN nFrames + 1 ELSE nFrames
    BY <1>1, <2>1
  <2>6. Extends(new)
    BY <2>1, <2>2, <2>3, <2>4, <2>5 DEF Extends
  <2> QED BY <1>1, <1>4, <2>6
<1> QED BY <1>5, <1>6

LEMMA TypesControl ==
  ASSUME TypeInv, ControlStep
  PROVE  TypeInv'
<1> USE DEF TypeInv, TypeOK
<1>1. UNCHANGED <<upc, rebuild, spc, running, built, channel, stamp, counter,
                  captureTime, times, output, sessions, firstFile, logged>>
  BY ControlQuiet
<1>2. StreamTypes' /\ CaptureTypes'
  BY <1>1 DEF StreamTypes, CaptureTypes, channel, times, output
<1>3. wpc' \in {"get", "empty", "top", "wait", "timedOut", "lostTest", "lost", "leave",
                "write", "pause"} /\ state' \in {state, "Finished"}
  BY DEF ControlStep, LoopTest, GetNothing, GetEnd, GetWake, GetTimeout, LostTestEnd,
         LostTestState, SignalLost, TestCapturing, TimedFinish, WorkerAt
<1>4. wpc' = "write" => wpc = "test"
  BY DEF ControlStep, LoopTest, GetNothing, GetEnd, GetWake, GetTimeout, LostTestEnd,
         LostTestState, SignalLost, TestCapturing, TimedFinish, WorkerAt
<1>5. ThreadTypes'
  BY <1>1, <1>3 DEF ThreadTypes
<1>6. SupportInv'
  BY <1>1, <1>3, <1>4 DEF SupportInv, channel, output
<1> QED BY <1>2, <1>5, <1>6

LEMMA TypesWorker ==
  ASSUME TypeInv, ThreadStart \/ GetFrame \/ WriteFrame \/ Pause \/ Leave
  PROVE  TypeInv'
<1> USE DEF TypeInv, TypeOK, WorkerAt, ui, build, stream
<1>1. CASE ThreadStart \/ Pause \/ Leave
  <2> USE <1>1 DEF ThreadStart, Pause, Leave, channel, times, output
  <2>1. StreamTypes'
    BY DEF StreamTypes
  <2>2. CaptureTypes'
    <3>1. UNCHANGED <<files, sent, firstFile, captureTime>>
      OBVIOUS
    <3>2. counter' \in Nat \cup {-1}
      BY DEF CaptureTypes
    <3>3. writing' \in BOOLEAN /\ logged' \in BOOLEAN
      <4>1. CASE ThreadStart
        BY <4>1 DEF CaptureTypes
      <4>2. CASE Pause
        BY <4>2 DEF CaptureTypes
      <4>3. CASE Leave
        <5>1. writing' = FALSE
          BY <4>3
        <5>2. logged' \in BOOLEAN
          <6>1. logged' = (counter > 0)
            BY <4>3
          <6>2. (counter > 0) \in BOOLEAN
            OBVIOUS
          <6> QED BY ONLY <6>1, <6>2
        <5> QED BY <5>1, <5>2
      <4> QED BY <4>1, <4>2, <4>3
    <3>4. /\ dvTime' \in Int /\ oldDVTime' \in Int /\ delta' \in Nat
          /\ nFrames' \in 0 .. MaxAVIFrames /\ fileCounter' \in Nat
      BY DEF CaptureTypes
    <3> QED BY <3>1, <3>2, <3>3, <3>4 DEF CaptureTypes
  <2>3. ThreadTypes'
    BY DEF ThreadTypes
  <2>4. SupportInv'
    BY DEF SupportInv
  <2> QED BY <2>1, <2>2, <2>3, <2>4
<1>2. CASE GetFrame
  <2> USE <1>2 DEF GetFrame, Ch!Receive, output
  <2>1. /\ Head(chan) \in 1 .. sent /\ Tail(chan) \in Seq(1 .. sent)
        /\ last' = Head(chan) /\ chan' = Tail(chan) /\ sent' = sent
    BY DEF StreamTypes
  <2>2. stamp[Head(chan)] \in Int
    BY <2>1 DEF StreamTypes, SupportInv
  <2>3. StreamTypes'
    BY <2>1 DEF StreamTypes
  <2>4. dvTime' \in Int /\ oldDVTime' \in Int /\ delta' \in Nat
    BY <2>2 DEF CaptureTypes, Distance
  <2>5. CaptureTypes'
    BY <2>1, <2>4 DEF CaptureTypes
  <2>6. ThreadTypes'
    BY DEF ThreadTypes
  <2>7. SupportInv'
    BY <2>1 DEF SupportInv
  <2> QED BY <2>3, <2>5, <2>6, <2>7
<1>3. CASE WriteFrame
  <2> USE <1>3
  <2>1. PICK f \in File(sent) : Opens(f) \/ Extends(f)
    BY WriteEffect
  <2>2. /\ files' \in Seq(File(sent)) /\ files' # <<>> /\ Len(files') >= Len(files)
        /\ nFrames' \in 0 .. MaxAVIFrames
    <3>1. CASE Opens(f)
      BY <3>1 DEF Opens, CaptureTypes
    <3>2. CASE Extends(f)
      <4>1. files # <<>> /\ files \in Seq(File(sent)) /\ Len(files) \in 1 .. Len(files)
        BY <3>2 DEF Extends, SupportInv, CaptureTypes
      <4>2. files' \in Seq(File(sent)) /\ Len(files') = Len(files)
        BY <3>2, <4>1 DEF Extends
      <4>3. nFrames' \in 0 .. MaxAVIFrames
        BY <3>2 DEF Extends, CaptureTypes
      <4> QED BY <4>1, <4>2, <4>3
    <3> QED BY <2>1, <3>1, <3>2
  <2>3. /\ UNCHANGED <<state, ui, stream, channel, times, logged>>
        /\ writing' = TRUE /\ fileCounter' \in Nat
    BY DEF WriteFrame, CaptureTypes
  <2>4. counter' \in Nat /\ captureTime' \in CaptureTimes \cup {0}
    BY DEF WriteFrame, CaptureTypes
  <2>5. StreamTypes'
    BY <2>3 DEF StreamTypes, channel
  <2>6. CaptureTypes'
    BY <2>2, <2>3, <2>4 DEF CaptureTypes, channel, times
  <2>7. ThreadTypes'
    BY WriteEffect, <2>3 DEF ThreadTypes
  <2>8. SupportInv'
    BY WriteEffect, <2>2, <2>3 DEF SupportInv, channel
  <2> QED BY <2>5, <2>6, <2>7, <2>8
<1> QED BY <1>1, <1>2, <1>3

LEMMA TypesKeep ==
  ASSUME TypeInv, PipelineInv, [Next]_vars
  PROVE  TypeInv'
<1>1. CASE UNCHANGED vars
  <2> USE <1>1 DEF vars, ui, build, stream, channel, times, output, TypeInv, TypeOK
  <2>1. ThreadTypes'
    BY DEF ThreadTypes
  <2>2. StreamTypes'
    BY DEF StreamTypes
  <2>3. CaptureTypes'
    BY DEF CaptureTypes
  <2>4. SupportInv'
    BY DEF SupportInv
  <2> QED BY <2>1, <2>2, <2>3, <2>4
<1> QED BY <1>1, NextSplit, TypesChoice, TypesTakeDown, TypesBuild, TypesFrame,
           TypesControl, TypesWorker

----------------------------------------------------------------------------
(* What the queue holds and how far the worker has read.                   *)

Received == sent - Len(chan)

QueueInv ==
  /\ Received \in Nat
  /\ \A k \in 1 .. Len(chan) : chan[k] = Received + k
  /\ last <= Received

Processing == wpc \in {"test", "write"}

LEMMA QueueSteps ==
  ASSUME [Next]_vars
  PROVE  \/ FrameQueued \/ GetFrame \/ DestroyFree
         \/ UNCHANGED <<chan, sent, last>>
<1> USE DEF channel
<1>1. CASE ChoiceStep
  BY <1>1, ChoiceQuiet
<1>2. CASE TakeDownStep
  BY <1>2 DEF TakeDownStep, DestroyClose, DestroyStop, DestroyDrain, DestroyJoin, Ch!Close
<1>3. CASE BuildStep
  BY <1>3 DEF BuildStep, BuildFail, BuildRun, BuildLaunch
<1>4. CASE FrameStep
  BY <1>4 DEF FrameStep, StreamStep, FrameArrives, InputEnds, FrameDropped, Ch!Close
<1>5. CASE ControlStep
  BY <1>5, ControlQuiet
<1>6. CASE ThreadStart \/ WriteFrame \/ Pause \/ Leave
  BY <1>6 DEF ThreadStart, WriteFrame, Pause, Leave
<1>7. CASE UNCHANGED vars
  BY <1>7 DEF vars
<1> QED BY <1>1, <1>2, <1>3, <1>4, <1>5, <1>6, <1>7, NextSplit

LEMMA QueueKeeps ==
  ASSUME TypeInv, QueueInv, [Next]_vars
  PROVE  QueueInv' /\ Received' >= Received
<1> USE DEF QueueInv, Received
<1>1. sent \in Nat /\ chan \in Seq(1 .. sent) /\ last \in 0 .. sent
  BY DEF TypeInv, TypeOK, StreamTypes
<1>2. CASE FrameQueued
  <2>1. chan' = Append(chan, sent + 1) /\ sent' = sent + 1 /\ last' = last
    BY <1>2 DEF FrameQueued, Ch!Send
  <2>2. Len(chan') = Len(chan) + 1 /\ Received' = Received
    BY <1>1, <2>1
  <2>3. \A k \in 1 .. Len(chan') : chan'[k] = Received' + k
    BY <1>1, <2>1, <2>2
  <2> QED BY <2>1, <2>2, <2>3
<1>3. CASE GetFrame
  <2>1. chan # <<>> /\ last' = Head(chan) /\ chan' = Tail(chan) /\ sent' = sent
    BY <1>3 DEF GetFrame, Ch!Receive
  <2>2. Len(chan') = Len(chan) - 1 /\ Received' = Received + 1
    BY <1>1, <2>1
  <2>3. last' = Received'
    BY <1>1, <2>1, <2>2
  <2>4. \A k \in 1 .. Len(chan') : chan'[k] = Received' + k
    BY <1>1, <2>1, <2>2
  <2> QED BY <2>2, <2>3, <2>4
<1>4. CASE DestroyFree
  <2>1. chan' = <<>> /\ last' = 0 /\ sent' = sent
    BY <1>4 DEF DestroyFree, stream
  <2> QED BY <1>1, <2>1
<1>5. CASE UNCHANGED <<chan, sent, last>>
  BY <1>5
<1> QED BY <1>2, <1>3, <1>4, <1>5, QueueSteps

(* The frame taken is newer than every frame taken before.                 *)
LEMMA GetIsNewer ==
  ASSUME TypeInv, QueueInv, GetFrame
  PROVE  last' = Received + 1
<1>1. chan # <<>> /\ last' = Head(chan) /\ chan \in Seq(1 .. sent)
  BY DEF GetFrame, Ch!Receive, TypeInv, TypeOK, StreamTypes
<1> QED BY <1>1 DEF QueueInv

(* The worker processes a frame it just took, or goes on with the same.    *)
LEMMA ProcessingSteps ==
  ASSUME PipelineInv, [Next]_vars, Processing'
  PROVE  GetFrame \/ (Processing /\ last' = last)
<1> USE DEF Processing, channel
<1>1. CASE ChoiceStep
  BY <1>1, ChoiceQuiet
<1>2. CASE TakeDownStep
  BY <1>2 DEF TakeDownStep, DestroyClose, DestroyStop, DestroyDrain, DestroyJoin,
              DestroyFree, UIAt, Ch!Close, PipelineInv, Alive
<1>3. CASE BuildStep
  BY <1>3 DEF BuildStep, BuildFail, BuildRun, BuildLaunch
<1>4. CASE FrameStep
  BY <1>4 DEF FrameStep, StreamStep, FrameArrives, InputEnds, FrameQueued, FrameDropped,
              Ch!Send, Ch!Close
<1>5. CASE ControlStep
  BY <1>5 DEF ControlStep, LoopTest, GetNothing, GetEnd, GetWake, GetTimeout, LostTestEnd,
              LostTestState, SignalLost, TestCapturing, TimedFinish, WorkerAt
<1>6. CASE ThreadStart \/ WriteFrame \/ Pause \/ Leave
  BY <1>6 DEF ThreadStart, WriteFrame, Pause, Leave, WorkerAt
<1>7. CASE UNCHANGED vars
  BY <1>7 DEF vars
<1> QED BY <1>1, <1>2, <1>3, <1>4, <1>5, <1>6, <1>7, NextSplit

----------------------------------------------------------------------------
(* What the files hold.                                                    *)

WrittenUpTo(n) ==
  \A i \in DOMAIN files : \A k \in DOMAIN files[i].frames : files[i].frames[k] <= n

FilesApart ==
  \A i, j \in DOMAIN files : i < j =>
    \A k \in DOMAIN files[i].frames, l \in DOMAIN files[j].frames :
      files[i].frames[k] < files[j].frames[l]

(* Every frame written has been received, the frame being processed is     *)
(* newer than all of them, and nFrames counts the frames of the open file. *)
FilesInv ==
  /\ WrittenUpTo(Received)
  /\ Processing => WrittenUpTo(last - 1)
  /\ FilesApart
  /\ FileLengthBounded
  /\ writing => Len(files[Len(files)].frames) = nFrames

LEMMA FilesStay ==
  ASSUME [Next]_vars, ~WriteFrame
  PROVE  files' = files /\ (writing' = TRUE => writing = TRUE /\ nFrames' = nFrames)
<1> USE DEF output
<1>1. CASE ChoiceStep
  BY <1>1, ChoiceQuiet
<1>2. CASE TakeDownStep
  BY <1>2 DEF TakeDownStep, DestroyClose, DestroyStop, DestroyDrain, DestroyJoin,
              DestroyFree
<1>3. CASE BuildStep
  BY <1>3 DEF BuildStep, BuildFail, BuildRun, BuildLaunch
<1>4. CASE FrameStep
  BY <1>4 DEF FrameStep, StreamStep, FrameArrives, InputEnds, FrameQueued, FrameDropped
<1>5. CASE ControlStep
  BY <1>5, ControlQuiet
<1>6. CASE ThreadStart \/ GetFrame \/ Pause \/ Leave
  BY <1>6 DEF ThreadStart, GetFrame, Pause, Leave
<1>7. CASE UNCHANGED vars
  BY <1>7 DEF vars
<1> QED BY <1>1, <1>2, <1>3, <1>4, <1>5, <1>6, <1>7, NextSplit

LEMMA SeqElement ==
  ASSUME NEW S, NEW s \in Seq(S), NEW k \in DOMAIN s
  PROVE  s[k] \in S
  OBVIOUS

(* Writing the frame being processed keeps the files apart and in order.   *)
LEMMA WriteKeeps ==
  ASSUME TypeInv, QueueInv, FilesInv, WriteFrame
  PROVE  FilesInv'
<1>1. PICK f \in File(sent) : Opens(f) \/ Extends(f)
  BY WriteEffect
<1>2. /\ wpc = "write" /\ wpc' \in {"top", "finish"} /\ writing' = TRUE
      /\ UNCHANGED <<chan, sent, last>>
  BY WriteEffect DEF WriteFrame, channel
<1>3. /\ files \in Seq(File(sent)) /\ last \in 1 .. sent /\ nFrames \in 0 .. MaxAVIFrames
      /\ last <= Received /\ Received \in Nat
      /\ writing => files # <<>>
  BY <1>2 DEF TypeInv, TypeOK, StreamTypes, CaptureTypes, SupportInv, QueueInv
<1>4. WrittenUpTo(last - 1)
  BY <1>2 DEF FilesInv, Processing
<1>5. ASSUME NEW i \in DOMAIN files, NEW k \in DOMAIN files[i].frames
      PROVE  files[i].frames[k] \in Nat /\ files[i].frames[k] <= last - 1
  <2>1. files[i] \in File(sent)
    BY <1>3
  <2>2. files[i].frames \in Seq(1 .. sent)
    BY <2>1 DEF File
  <2>3. files[i].frames[k] \in 1 .. sent
    BY <2>2, SeqElement
  <2> QED BY <1>4, <2>3 DEF WrittenUpTo
<1>6. CASE Opens(f)
  <2>1. files' = Append(files, f) /\ DOMAIN files' = 1 .. Len(files) + 1
    BY <1>3, <1>6 DEF Opens
  <2>2. /\ \A i \in DOMAIN files : files'[i] = files[i]
        /\ files'[Len(files) + 1] = f /\ Len(files') = Len(files) + 1
    BY <1>3, <2>1
  <2>3. /\ \A k \in DOMAIN f.frames : f.frames[k] = last
        /\ Len(f.frames) = nFrames' /\ nFrames' <= MaxAVIFrames
    <3>1. CASE f.frames = <<last>> /\ nFrames' = 1
      BY <3>1
    <3>2. CASE f.frames = <<>> /\ nFrames' = 0
      BY <3>2
    <3> QED BY <1>6, <3>1, <3>2 DEF Opens
  <2>4. FilesApart'
    <3> SUFFICES ASSUME NEW i \in DOMAIN files', NEW j \in DOMAIN files', i < j,
                        NEW k \in DOMAIN files'[i].frames, NEW l \in DOMAIN files'[j].frames
                 PROVE  files'[i].frames[k] < files'[j].frames[l]
      BY DEF FilesApart
    <3>1. i \in DOMAIN files /\ files'[i] = files[i]
      BY <1>3, <2>1, <2>2
    <3>2. CASE j \in DOMAIN files
      BY <2>2, <3>1, <3>2 DEF FilesInv, FilesApart
    <3>3. CASE j = Len(files) + 1
      <4>1. files'[j].frames[l] = last
        BY <2>2, <2>3, <3>3
      <4>2. files[i].frames[k] \in Nat /\ files[i].frames[k] <= last - 1
        BY <1>5, <3>1
      <4> QED BY <1>3, <3>1, <4>1, <4>2
    <3> QED BY <1>3, <2>1, <3>2, <3>3
  <2>5. WrittenUpTo(Received)'
    <3> SUFFICES ASSUME NEW i \in DOMAIN files', NEW k \in DOMAIN files'[i].frames
                 PROVE  files'[i].frames[k] <= Received'
      BY DEF WrittenUpTo
    <3>1. Received' = Received
      BY <1>2 DEF Received
    <3>2. CASE i \in DOMAIN files
      BY <2>2, <3>1, <3>2 DEF FilesInv, WrittenUpTo
    <3>3. CASE i = Len(files) + 1
      BY <1>3, <2>2, <2>3, <3>1, <3>3
    <3> QED BY <1>3, <2>1, <3>2, <3>3
  <2>6. FileLengthBounded'
    <3> SUFFICES ASSUME NEW i \in DOMAIN files'
                 PROVE  Len(files'[i].frames) <= MaxAVIFrames
      BY DEF FileLengthBounded
    <3> QED BY <1>3, <2>1, <2>2, <2>3 DEF FilesInv, FileLengthBounded
  <2>7. Len(files'[Len(files')].frames) = nFrames'
    BY <2>2, <2>3
  <2> QED BY <1>2, <2>4, <2>5, <2>6, <2>7 DEF FilesInv, Processing
<1>7. CASE Extends(f)
  <2> DEFINE m == Len(files)
             g == files[m]
  <2>1. m \in DOMAIN files /\ g \in File(sent) /\ Len(g.frames) = nFrames
    BY <1>3, <1>7 DEF Extends, FilesInv
  <2>2. /\ DOMAIN files' = DOMAIN files /\ Len(files') = m /\ files'[m] = f
        /\ \A i \in DOMAIN files : i # m => files'[i] = files[i]
    BY <1>3, <1>7, <2>1 DEF Extends
  <2>3. g.frames \in Seq(1 .. sent)
    BY <2>1 DEF File
  <2>4. /\ Len(f.frames) = nFrames' /\ nFrames' <= MaxAVIFrames
        /\ \A k \in DOMAIN f.frames :
             (k \in DOMAIN g.frames /\ f.frames[k] = g.frames[k]) \/ f.frames[k] = last
    <3>1. CASE f.frames = Append(g.frames, last) /\ nFrames' = nFrames + 1
      <4>1. nFrames < MaxAVIFrames
        BY <1>7 DEF Extends
      <4>2. /\ Len(f.frames) = nFrames + 1 /\ DOMAIN f.frames = 1 .. nFrames + 1
            /\ \A k \in 1 .. nFrames : f.frames[k] = g.frames[k]
            /\ f.frames[nFrames + 1] = last
        BY <2>1, <2>3, <3>1
      <4>3. DOMAIN g.frames = 1 .. nFrames
        BY <2>1, <2>3
      <4> QED BY <1>3, <3>1, <4>1, <4>2, <4>3
    <3>2. CASE f.frames = g.frames /\ nFrames' = nFrames
      BY <1>3, <2>1, <3>2
    <3> QED BY <1>7, <3>1, <3>2 DEF Extends
  <2>5. FilesApart'
    <3> SUFFICES ASSUME NEW i \in DOMAIN files', NEW j \in DOMAIN files', i < j,
                        NEW k \in DOMAIN files'[i].frames, NEW l \in DOMAIN files'[j].frames
                 PROVE  files'[i].frames[k] < files'[j].frames[l]
      BY DEF FilesApart
    <3>1. i \in DOMAIN files /\ j \in DOMAIN files /\ files'[i] = files[i]
      BY <1>3, <2>1, <2>2
    <3>2. CASE j # m
      BY <2>2, <3>1, <3>2 DEF FilesInv, FilesApart
    <3>3. CASE j = m
      <4>1. files[i].frames[k] \in Nat /\ files[i].frames[k] <= last - 1
        BY <1>5, <3>1
      <4>2. CASE l \in DOMAIN g.frames /\ f.frames[l] = g.frames[l]
        BY <2>2, <3>1, <3>3, <4>2 DEF FilesInv, FilesApart
      <4>3. CASE f.frames[l] = last
        BY <1>3, <2>2, <3>1, <3>3, <4>1, <4>3
      <4> QED BY <2>2, <2>4, <3>3, <4>2, <4>3
    <3> QED BY <3>2, <3>3
  <2>6. WrittenUpTo(Received)'
    <3> SUFFICES ASSUME NEW i \in DOMAIN files', NEW k \in DOMAIN files'[i].frames
                 PROVE  files'[i].frames[k] <= Received'
      BY DEF WrittenUpTo
    <3>1. Received' = Received
      BY <1>2 DEF Received
    <3>2. CASE i # m
      BY <2>2, <3>1, <3>2 DEF FilesInv, WrittenUpTo
    <3>3. CASE i = m
      BY <1>3, <2>1, <2>2, <2>4, <3>1, <3>3 DEF FilesInv, WrittenUpTo
    <3> QED BY <3>2, <3>3
  <2>7. FileLengthBounded'
    <3> SUFFICES ASSUME NEW i \in DOMAIN files'
                 PROVE  Len(files'[i].frames) <= MaxAVIFrames
      BY DEF FileLengthBounded
    <3> QED BY <2>2, <2>4 DEF FilesInv, FileLengthBounded
  <2>8. Len(files'[Len(files')].frames) = nFrames'
    BY <2>2, <2>4
  <2> QED BY <1>2, <2>5, <2>6, <2>7, <2>8 DEF FilesInv, Processing
<1> QED BY <1>1, <1>6, <1>7

LEMMA FilesKeep ==
  ASSUME TypeInv, PipelineInv, QueueInv, FilesInv, [Next]_vars
  PROVE  FilesInv'
<1>1. CASE WriteFrame
  BY <1>1, WriteKeeps
<1>2. CASE ~WriteFrame
  <2>1. files' = files /\ (writing' = TRUE => writing = TRUE /\ nFrames' = nFrames)
    BY <1>2, FilesStay
  <2>2. /\ Received \in Nat /\ Received' \in Nat /\ Received' >= Received
        /\ files \in Seq(File(sent))
    BY QueueKeeps DEF QueueInv, TypeInv, TypeOK, CaptureTypes
  <2>3. ASSUME NEW i \in DOMAIN files, NEW k \in DOMAIN files[i].frames
        PROVE  files[i].frames[k] \in Nat /\ files[i].frames[k] <= Received
    <3>1. files[i] \in File(sent)
      BY <2>2
    <3>2. files[i].frames \in Seq(1 .. sent)
      BY <3>1 DEF File
    <3>3. files[i].frames[k] \in 1 .. sent
      BY <3>2, SeqElement
    <3> QED BY <3>3 DEF FilesInv, WrittenUpTo
  <2>4. WrittenUpTo(Received)'
    BY <2>1, <2>2, <2>3 DEF WrittenUpTo
  <2>5. ASSUME Processing' PROVE WrittenUpTo(last - 1)'
    <3>1. CASE GetFrame
      <4>1. last' = Received + 1
        BY <3>1, GetIsNewer
      <4> QED BY <2>1, <2>2, <2>3, <4>1 DEF WrittenUpTo
    <3>2. CASE Processing /\ last' = last
      BY <2>1, <3>2 DEF FilesInv, WrittenUpTo
    <3> QED BY <2>5, <3>1, <3>2, ProcessingSteps
  <2>6. FilesApart' /\ FileLengthBounded'
    BY <2>1 DEF FilesInv, FilesApart, FileLengthBounded
  <2>7. writing' => Len(files'[Len(files')].frames) = nFrames'
    <3>1. writing' \in BOOLEAN
      BY TypesKeep DEF TypeInv, TypeOK, CaptureTypes
    <3> QED BY <2>1, <3>1 DEF FilesInv
  <2> QED BY <2>4, <2>5, <2>6, <2>7 DEF FilesInv
<1> QED BY <1>1, <1>2

----------------------------------------------------------------------------
(* What the worker has decided for the open file.                          *)

Opening(f) == f.frames[1]
LastKept(f) == f.frames[Len(f.frames)]
OpenFile == files[Len(files)]

(* The open file goes on with the frame the worker takes next, unless the  *)
(* worker has found that the capture is paused.                            *)
Reading == writing /\ wpc # "pause"
NextFrame == Opening(OpenFile) + fileCounter

(* Every frame since the open file was opened counts in fileCounter, kept  *)
(* or not; the last one kept is a multiple of m_everyNth after the first.  *)
OpenSpacing ==
  /\ NextFrame = IF Processing THEN last ELSE Received + 1
  /\ \E q \in Nat : LastKept(OpenFile) = Opening(OpenFile) + q * everyNth
  /\ LastKept(OpenFile) < NextFrame /\ NextFrame <= LastKept(OpenFile) + everyNth

SpacingInv ==
  /\ everyNth \in Nat \ {0}
  /\ \A i \in DOMAIN files : files[i].frames # <<>>
  /\ FileContiguous
  /\ Processing => last = Received
  /\ Reading => OpenSpacing

NoStampIn(s, lo, hi) == \A c \in lo .. hi : s[c] <= 0
Calm(s, lo, hi) ==
  \A a, b \in lo .. hi :
    a < b /\ s[a] > 0 /\ s[b] > 0 /\ NoStampIn(s, a + 1, b - 1)
    => Distance(s[a], s[b]) <= Threshold

(* oldDVTime is the last valid time among the frames of the open file,     *)
(* and delta how far the frame being processed is from it, although a time *)
(* that repeats the one before is not looked at.                           *)
TimesInv ==
  /\ dvTime > 0 => oldDVTime = dvTime
  /\ Processing => dvTime = stamp[last]
  /\ Reading => \A a \in Opening(OpenFile) .. Received :
       stamp[a] > 0 /\ NoStampIn(stamp, a + 1, Received) => oldDVTime = stamp[a]
  /\ Reading /\ Processing => \A a \in Opening(OpenFile) .. last - 1 :
       stamp[a] > 0 /\ NoStampIn(stamp, a + 1, last - 1) /\ stamp[last] > 0
       => delta = Distance(stamp[a], stamp[last])

(* No file holds a cut, and none lies in the frames the open file has      *)
(* seen, those that decimation left out after the last kept included.      *)
CutInv ==
  Threshold > 0 =>
    /\ \A i \in DOMAIN files : Calm(stamp, Opening(files[i]), LastKept(files[i]))
    /\ Reading => Calm(stamp, Opening(OpenFile), NextFrame - 1)

(* The date of a file changes later only where the frame it was opened     *)
(* with has the time 0.                                                    *)
DateInv ==
  \A i \in DOMAIN files :
    LET first == stamp[Opening(files[i])]
    IN  first # 0 => files[i].dvtime = first

----------------------------------------------------------------------------
LEMMA ZeroMod ==
  ASSUME NEW n \in Nat \ {0}
  PROVE  0 % n = 0
  OBVIOUS

(* Between two multiples of n there is none.                               *)
LEMMA NextMultiple ==
  ASSUME NEW n \in Nat \ {0}, NEW q \in Nat, NEW c \in Nat, q * n < c, c <= q * n + n
  PROVE  c % n = 0 <=> c = q * n + n
<1> DEFINE r == c \div n
<1>1. r \in Int /\ n * r = c - (c % n)
  OBVIOUS
<1> HIDE DEF r
<1>2. q * n = n * q /\ n * (q + 1) = q * n + n
  OBVIOUS
<1>3. \A a \in Int, b \in Int : a < b => n * a + n <= n * b
  OBVIOUS
<1>4. ASSUME c % n = 0 PROVE c = q * n + n
  <2>1. n * r = c - 0
    BY <1>1, <1>4
  <2>2. ~(r <= q)
    BY <1>1, <1>2, <1>3, <2>1
  <2>3. ~(q + 1 < r)
    BY <1>1, <1>2, <1>3, <2>1
  <2> QED BY <1>1, <1>2, <2>1, <2>2, <2>3
<1>5. ASSUME c = q * n + n PROVE c % n = 0
  <2>1. c = n * (q + 1) /\ q + 1 \in Int
    BY <1>2, <1>5
  <2>2. (n * (q + 1)) % n = 0
    OBVIOUS
  <2> QED BY <2>1, <2>2
<1> QED BY <1>4, <1>5

(* What a frame was stamped with does not change once it is in the queue.  *)
LEMMA StampStays ==
  ASSUME TypeInv, [Next]_vars
  PROVE  \A k \in 1 .. sent : stamp'[k] = stamp[k]
<1> USE DEF stream
<1>1. stamp \in Seq(Int) /\ sent \in Nat /\ sent <= Len(stamp)
  BY DEF TypeInv, TypeOK, StreamTypes, SupportInv
<1>2. CASE ChoiceStep
  BY <1>2, ChoiceQuiet
<1>3. CASE TakeDownStep
  BY <1>3 DEF TakeDownStep, DestroyClose, DestroyStop, DestroyDrain, DestroyJoin, DestroyFree
<1>4. CASE BuildStep
  BY <1>4 DEF BuildStep, BuildFail, BuildRun, BuildLaunch
<1>5. CASE FrameStep
  <2>1. CASE \E tape \in Tapes : FrameArrives(tape)
    <3>1. PICK tape \in Tapes : FrameArrives(tape)
      BY <2>1
    <3>2. /\ tape \in Seq(Int) /\ Len(stamp) + 1 <= Len(tape)
          /\ stamp = SubSeq(tape, 1, Len(stamp)) /\ stamp' = SubSeq(tape, 1, Len(stamp) + 1)
      BY <1>1, <3>1 DEF FrameArrives
    <3>3. \A k \in 1 .. Len(stamp) : stamp[k] = tape[k] /\ stamp'[k] = tape[k]
      BY <1>1, <3>2
    <3> QED BY <1>1, <3>3
  <2>2. CASE FrameDropped
    <3>1. sent = Len(stamp) - 1 /\ stamp' = SubSeq(stamp, 1, Len(stamp) - 1)
      BY <1>1, <2>2 DEF FrameDropped, TypeInv, SupportInv
    <3> QED BY <1>1, <3>1
  <2>3. CASE FrameQueued \/ InputEnds
    BY <2>3 DEF FrameQueued, InputEnds
  <2> QED BY <1>5, <2>1, <2>2, <2>3 DEF FrameStep, StreamStep
<1>6. CASE ControlStep
  BY <1>6, ControlQuiet
<1>7. CASE ThreadStart \/ GetFrame \/ WriteFrame \/ Pause \/ Leave
  BY <1>7 DEF ThreadStart, GetFrame, WriteFrame, Pause, Leave
<1>8. CASE UNCHANGED vars
  BY <1>8 DEF vars
<1> QED BY <1>2, <1>3, <1>4, <1>5, <1>6, <1>7, <1>8, NextSplit

(* Every step but GetFrame and WriteFrame leaves alone what the worker     *)
(* knows of the open file, or ends the file.                               *)
Kept ==
  /\ UNCHANGED <<files, everyNth>>
  /\ Processing' => Processing /\ last' = last /\ dvTime' = dvTime /\ Received' = Received
  /\ Reading' => /\ Reading /\ Received' = Received /\ Processing' = Processing
                 /\ UNCHANGED <<last, fileCounter, dvTime, oldDVTime, delta>>
  /\ UNCHANGED <<dvTime, oldDVTime>> \/ dvTime' = 0

LEMMA QuietSteps ==
  ASSUME TypeInv, PipelineInv, FilesClosedAtExit, [Next]_vars, ~GetFrame, ~WriteFrame
  PROVE  Kept
<1> USE DEF Kept, Reading, Processing, Received, output, times, build, channel, ui
<1>1. CASE ChoiceStep
  <2>1. UNCHANGED everyNth
    BY <1>1 DEF ChoiceStep, UserCommand, StartStep, Destroy, StartTest, StopTest, StartState,
                StopState
  <2> QED BY <1>1, <2>1, ChoiceQuiet
<1>2. CASE DestroyClose \/ DestroyStop \/ DestroyDrain \/ DestroyJoin
  BY <1>2 DEF DestroyClose, DestroyStop, DestroyDrain, DestroyJoin, UIAt, Ch!Close, Alive
<1>3. CASE DestroyFree
  BY <1>3 DEF DestroyFree, UIAt, PipelineInv, Alive
<1>4. CASE BuildStep
  BY <1>4 DEF BuildStep, BuildFail, BuildRun, BuildLaunch, UIAt, PipelineInv,
              FilesClosedAtExit, Alive
<1>5. CASE FrameStep
  <2>1. sent \in Nat /\ chan \in Seq(1 .. sent)
    BY DEF TypeInv, TypeOK, StreamTypes
  <2>2. CASE FrameQueued
    <3>1. chan' = Append(chan, sent + 1) /\ sent' = sent + 1
      BY <2>2 DEF FrameQueued, Ch!Send
    <3>2. Received' = Received
      BY <2>1, <3>1
    <3> QED BY <2>2, <3>2 DEF FrameQueued, Ch!Send
  <2>3. CASE (\E tape \in Tapes : FrameArrives(tape)) \/ InputEnds \/ FrameDropped
    BY <2>3 DEF FrameArrives, InputEnds, FrameDropped, Ch!Close
  <2> QED BY <1>5, <2>2, <2>3 DEF FrameStep, StreamStep
<1>6. CASE ControlStep
  <2>1. /\ wpc # "pause" /\ (wpc' \in {"test", "write"} => wpc = "test")
        /\ (wpc \in {"test", "write"} => wpc' \in {"write", "pause"})
        /\ UNCHANGED everyNth
    BY <1>6 DEF ControlStep, LoopTest, GetNothing, GetEnd, GetWake, GetTimeout, LostTestEnd,
           LostTestState, SignalLost, TestCapturing, TimedFinish, WorkerAt
  <2> QED BY <1>6, <2>1, ControlQuiet
<1>7. CASE ThreadStart \/ Pause \/ Leave
  BY <1>7 DEF ThreadStart, Pause, Leave, WorkerAt, FilesClosedAtExit
<1>8. CASE UNCHANGED vars
  BY <1>8 DEF vars
<1> QED BY <1>1, <1>2, <1>3, <1>4, <1>5, <1>6, <1>7, <1>8, NextSplit DEF TakeDownStep

LEMMA GetEffect ==
  ASSUME TypeInv, QueueInv, GetFrame
  PROVE  /\ last' = Received + 1 /\ Received' = Received + 1 /\ Received + 1 \in 1 .. sent
         /\ wpc = "get" /\ wpc' = "test"
         /\ UNCHANGED <<sent, stamp, files, writing, fileCounter, everyNth>>
         /\ dvTime' = stamp[last']
         /\ LET valid == dvTime' # dvTime /\ dvTime' > 0
            IN  /\ oldDVTime' = IF valid THEN dvTime' ELSE oldDVTime
                /\ delta' = IF valid /\ oldDVTime > 0 THEN Distance(dvTime', oldDVTime)
                            ELSE 0
<1>1. /\ chan # <<>> /\ last' = Head(chan) /\ chan' = Tail(chan)
      /\ UNCHANGED <<sent, stamp, files, writing, fileCounter, everyNth>>
      /\ wpc = "get" /\ wpc' = "test"
  BY DEF GetFrame, Ch!Receive, WorkerAt, stream, output, ui, build
<1>2. chan \in Seq(1 .. sent) /\ sent \in Nat
  BY DEF TypeInv, TypeOK, StreamTypes
<1>3. last' = Received + 1 /\ Len(chan') = Len(chan) - 1 /\ Received + 1 \in 1 .. sent
  BY <1>1, <1>2, GetIsNewer DEF QueueInv
<1>4. Received' = Received + 1
  BY <1>1, <1>2, <1>3 DEF Received
<1>5. /\ dvTime' = stamp[last']
      /\ LET valid == dvTime' # dvTime /\ dvTime' > 0
         IN  /\ oldDVTime' = IF valid THEN dvTime' ELSE oldDVTime
             /\ delta' = IF valid /\ oldDVTime > 0 THEN Distance(dvTime', oldDVTime) ELSE 0
  BY <1>1 DEF GetFrame
<1> QED BY <1>1, <1>3, <1>4, <1>5

(* What WriteFrame does to the open file: the frame being processed opens  *)
(* a new one, or goes on with it, kept or not.                             *)
NewFile == [frames |-> <<last>>, dvtime |-> dvTime]
ContinuedFile ==
  [frames |-> IF fileCounter % everyNth = 0 THEN Append(OpenFile.frames, last)
              ELSE OpenFile.frames,
   dvtime |-> Backfilled(OpenFile.dvtime)]

Starts == files' = Append(files, NewFile) /\ fileCounter' = 1
Continues ==
  /\ writing /\ ~SplitNeeded /\ files # <<>>
  /\ files' = [files EXCEPT ![Len(files)] = ContinuedFile]
  /\ fileCounter' = fileCounter + 1

LEMMA WriteDetail ==
  ASSUME TypeInv, SpacingInv, WriteFrame
  PROVE  /\ Starts \/ Continues
         /\ wpc = "write" /\ wpc' \in {"top", "finish"} /\ writing' = TRUE
         /\ UNCHANGED <<everyNth, chan, sent, last, stamp, dvTime, oldDVTime, delta>>
         /\ Received' = Received
<1>1. /\ wpc = "write" /\ wpc' \in {"top", "finish"} /\ writing' = TRUE
      /\ UNCHANGED <<everyNth, chan, sent, last, stamp, dvTime, oldDVTime, delta>>
  BY DEF WriteFrame, WorkerAt, ui, build, stream, channel, times
<1>2. Received' = Received
  BY <1>1 DEF Received
<1>3. CASE ~writing \/ SplitNeeded
  <2>1. 0 % everyNth = 0
    BY ZeroMod DEF SpacingInv
  <2>2. Append(<<>>, last) = <<last>>
    OBVIOUS
  <2>3. Backfilled(dvTime) = dvTime
    BY DEF Backfilled
  <2>4. Starts
    BY <1>3, <2>1, <2>2, <2>3 DEF WriteFrame, Starts, NewFile
  <2> QED BY <1>1, <1>2, <2>4
<1>4. CASE ~(~writing \/ SplitNeeded)
  <2>1. writing = TRUE /\ ~SplitNeeded /\ files # <<>>
    BY <1>4 DEF TypeInv, TypeOK, CaptureTypes, SupportInv
  <2>2. Continues
    BY <1>4, <2>1 DEF WriteFrame, Continues, ContinuedFile, OpenFile
  <2> QED BY <1>1, <1>2, <2>2
<1> QED BY <1>3, <1>4

(* The first and the last frame of every file have been received.          *)
LEMMA FrameBounds ==
  ASSUME TypeInv, QueueInv, FilesInv, SpacingInv, NEW i \in DOMAIN files
  PROVE  /\ files[i].frames \in Seq(1 .. sent) /\ files[i].frames # <<>>
         /\ Opening(files[i]) \in 1 .. sent /\ Opening(files[i]) <= Received
         /\ LastKept(files[i]) \in 1 .. sent /\ LastKept(files[i]) <= Received
<1>1. files[i] \in File(sent)
  BY DEF TypeInv, TypeOK, CaptureTypes
<1>2. files[i].frames \in Seq(1 .. sent) /\ files[i].frames # <<>>
  BY <1>1 DEF File, SpacingInv
<1>3. 1 \in DOMAIN files[i].frames /\ Len(files[i].frames) \in DOMAIN files[i].frames
  BY <1>2
<1>4. Opening(files[i]) \in 1 .. sent /\ LastKept(files[i]) \in 1 .. sent
  BY <1>2, <1>3, SeqElement DEF Opening, LastKept
<1>5. Opening(files[i]) <= Received /\ LastKept(files[i]) <= Received
  BY <1>3 DEF FilesInv, WrittenUpTo, Opening, LastKept
<1> QED BY <1>2, <1>4, <1>5

(* While a file is written the worker processes the frame that follows     *)
(* those it has seen.                                                      *)
LEMMA OpenBounds ==
  ASSUME TypeInv, QueueInv, FilesInv, SpacingInv, Continues, wpc = "write"
  PROVE  /\ Len(files) \in DOMAIN files /\ files \in Seq(File(sent))
         /\ Reading /\ Processing /\ OpenSpacing
         /\ last \in 1 .. sent /\ last = NextFrame /\ last = Received
         /\ Opening(OpenFile) \in 1 .. sent /\ LastKept(OpenFile) \in 1 .. sent
         /\ fileCounter \in Nat
<1>1. /\ files \in Seq(File(sent)) /\ files # <<>> /\ fileCounter \in Nat
      /\ last \in 1 .. sent
  BY DEF Continues, TypeInv, TypeOK, StreamTypes, CaptureTypes, SupportInv
<1>2. Len(files) \in DOMAIN files
  BY <1>1
<1>3. Reading /\ Processing /\ OpenSpacing
  BY DEF Continues, Reading, Processing, SpacingInv
<1>4. last = NextFrame /\ last = Received
  BY <1>3 DEF OpenSpacing, SpacingInv
<1>5. Opening(OpenFile) \in 1 .. sent /\ LastKept(OpenFile) \in 1 .. sent
  BY <1>2, FrameBounds DEF OpenFile
<1> QED BY <1>1, <1>2, <1>3, <1>4, <1>5

LEMMA SpacingWrite ==
  ASSUME TypeInv, QueueInv, FilesInv, SpacingInv, WriteFrame
  PROVE  SpacingInv'
<1>1. /\ Starts \/ Continues
      /\ wpc = "write" /\ wpc' \in {"top", "finish"} /\ writing' = TRUE
      /\ UNCHANGED <<everyNth, sent, last>> /\ Received' = Received
  BY WriteDetail
<1>2. /\ files \in Seq(File(sent)) /\ last \in 1 .. sent /\ last = Received
      /\ everyNth \in Nat \ {0}
  BY <1>1 DEF TypeInv, TypeOK, StreamTypes, CaptureTypes, SupportInv, SpacingInv, Processing
<1>3. ~Processing' /\ Reading' = TRUE
  BY <1>1 DEF Processing, Reading
<1>4. CASE Starts
  <2>1. /\ Len(files') = Len(files) + 1 /\ DOMAIN files' = 1 .. Len(files) + 1
        /\ \A i \in DOMAIN files : files'[i] = files[i]
        /\ files'[Len(files')] = NewFile
    BY <1>2, <1>4 DEF Starts
  <2>2. NewFile.frames = <<last>>
    BY DEF NewFile
  <2>3. FileContiguous' /\ \A i \in DOMAIN files' : files'[i].frames # <<>>
    <3> SUFFICES ASSUME NEW i \in DOMAIN files'
                 PROVE  /\ files'[i].frames # <<>>
                        /\ \A k \in 1 .. Len(files'[i].frames) - 1 :
                             files'[i].frames[k + 1] = files'[i].frames[k] + everyNth
      BY <1>1 DEF FileContiguous
    <3>1. CASE i \in DOMAIN files
      BY <2>1, <3>1 DEF SpacingInv, FileContiguous
    <3>2. CASE i = Len(files) + 1
      <4>1. files'[i].frames = <<last>> /\ Len(<<last>>) = 1 /\ <<last>> # <<>>
        BY <2>1, <2>2, <3>2
      <4> QED BY <4>1
    <3> QED BY <1>2, <2>1, <3>1, <3>2
  <2>5. OpenFile' = NewFile /\ Opening(OpenFile)' = last /\ LastKept(OpenFile)' = last
    BY <2>1, <2>2 DEF OpenFile, Opening, LastKept
  <2>6. OpenSpacing'
    <3>1. NextFrame' = last + 1
      BY <1>4, <2>5 DEF NextFrame, Starts
    <3>2. last = last + 0 * everyNth /\ 0 \in Nat
      BY <1>2
    <3> QED BY <1>1, <1>2, <1>3, <2>5, <3>1, <3>2 DEF OpenSpacing
  <2> QED BY <1>1, <1>2, <1>3, <2>3, <2>6 DEF SpacingInv
<1>5. CASE Continues
  <2> DEFINE m == Len(files)
             g == OpenFile.frames
             c == ContinuedFile.frames
             q == CHOOSE n \in Nat : LastKept(OpenFile) = Opening(OpenFile) + n * everyNth
  <2>1. /\ m \in DOMAIN files /\ OpenSpacing /\ last = NextFrame
        /\ Opening(OpenFile) \in 1 .. sent /\ LastKept(OpenFile) \in 1 .. sent
        /\ fileCounter \in Nat
    BY <1>1, <1>5, OpenBounds
  <2>2. /\ DOMAIN files' = DOMAIN files /\ Len(files') = m /\ files'[m] = ContinuedFile
        /\ \A i \in DOMAIN files : i # m => files'[i] = files[i]
    BY <1>2, <1>5, <2>1 DEF Continues
  <2>3. g \in Seq(1 .. sent) /\ g # <<>> /\ g[1] = Opening(OpenFile) /\ g[Len(g)] = LastKept(OpenFile)
    BY <2>1, FrameBounds DEF OpenFile, Opening, LastKept
  <2>4. q \in Nat /\ LastKept(OpenFile) = Opening(OpenFile) + q * everyNth
    BY <2>1 DEF OpenSpacing
  <2> HIDE DEF q
  <2>5. q * everyNth \in Nat /\ q * everyNth < fileCounter /\ fileCounter <= q * everyNth + everyNth
    BY <1>2, <2>1, <2>4 DEF OpenSpacing, NextFrame
  <2>6. fileCounter % everyNth = 0 <=> fileCounter = q * everyNth + everyNth
    BY <1>2, <2>1, <2>4, <2>5, NextMultiple
  <2>7. NextFrame' = Opening(ContinuedFile) + (fileCounter + 1) /\ OpenFile' = ContinuedFile
    BY <1>5, <2>1, <2>2 DEF NextFrame, OpenFile, Continues, Opening
  <2>8. CASE fileCounter % everyNth = 0
    <3>1. c = Append(g, last) /\ last = LastKept(OpenFile) + everyNth
      BY <1>2, <2>1, <2>4, <2>6, <2>8 DEF ContinuedFile, NextFrame
    <3>2. /\ c # <<>> /\ c \in Seq(1 .. sent) /\ Len(c) = Len(g) + 1 /\ c[Len(c)] = last
          /\ \A k \in 1 .. Len(g) : c[k] = g[k]
      BY <1>2, <2>3, <3>1
    <3>3. Opening(ContinuedFile) = Opening(OpenFile) /\ LastKept(ContinuedFile) = last
      BY <2>3, <3>2 DEF Opening, LastKept
    <3>4. \A k \in 1 .. Len(c) - 1 : c[k + 1] = c[k] + everyNth
      <4> SUFFICES ASSUME NEW k \in 1 .. Len(c) - 1 PROVE c[k + 1] = c[k] + everyNth
        OBVIOUS
      <4>1. CASE k = Len(g)
        BY <2>3, <3>1, <3>2, <4>1
      <4>2. CASE k # Len(g)
        <5>1. k \in 1 .. Len(g) - 1 /\ k + 1 \in 1 .. Len(g)
          BY <2>3, <3>2, <4>2
        <5>2. g[k + 1] = g[k] + everyNth
          BY <2>1, <5>1 DEF SpacingInv, FileContiguous, OpenFile
        <5> QED BY <3>2, <5>1, <5>2
      <4> QED BY <4>1, <4>2
    <3>5. FileContiguous' /\ \A i \in DOMAIN files' : files'[i].frames # <<>>
      <4> SUFFICES ASSUME NEW i \in DOMAIN files
                   PROVE  /\ files'[i].frames # <<>>
                          /\ \A k \in 1 .. Len(files'[i].frames) - 1 :
                               files'[i].frames[k + 1] = files'[i].frames[k] + everyNth
        BY <1>1, <2>2 DEF FileContiguous
      <4>1. CASE i = m
        BY <2>2, <3>2, <3>4, <4>1
      <4>2. CASE i # m
        BY <2>2, <4>2 DEF SpacingInv, FileContiguous
      <4> QED BY <4>1, <4>2
    <3>6. OpenSpacing'
      <4>1. NextFrame' = last + 1
        BY <2>1, <2>7, <3>3 DEF NextFrame
      <4>2. q + 1 \in Nat /\ last = Opening(OpenFile) + (q + 1) * everyNth
        BY <1>2, <2>1, <2>4, <3>1
      <4> QED BY <1>1, <1>2, <1>3, <2>7, <3>3, <4>1, <4>2 DEF OpenSpacing
    <3> QED BY <1>1, <1>2, <1>3, <3>5, <3>6 DEF SpacingInv
  <2>9. CASE fileCounter % everyNth # 0
    <3>1. c = g
      BY <2>9 DEF ContinuedFile
    <3>2. Opening(ContinuedFile) = Opening(OpenFile) /\ LastKept(ContinuedFile) = LastKept(OpenFile)
      BY <3>1 DEF Opening, LastKept
    <3>3. FileContiguous' /\ \A i \in DOMAIN files' : files'[i].frames # <<>>
      <4> SUFFICES ASSUME NEW i \in DOMAIN files
                   PROVE  files'[i].frames = files[i].frames
        BY <1>1, <2>2 DEF FileContiguous, SpacingInv
      <4> QED BY <2>2, <3>1 DEF OpenFile
    <3>4. OpenSpacing'
      <4>1. NextFrame' = last + 1
        BY <2>1, <2>7, <3>2 DEF NextFrame
      <4>2. last < LastKept(OpenFile) + everyNth
        BY <1>2, <2>1, <2>4, <2>5, <2>6, <2>9 DEF NextFrame
      <4> QED BY <1>1, <1>2, <1>3, <2>1, <2>4, <2>7, <3>2, <4>1, <4>2 DEF OpenSpacing
    <3> QED BY <1>1, <1>2, <1>3, <3>3, <3>4 DEF SpacingInv
  <2> QED BY <2>8, <2>9
<1> QED BY <1>1, <1>4, <1>5

LEMMA SpacingKeeps ==
  ASSUME TypeInv, PipelineInv, FilesClosedAtExit, QueueInv, FilesInv, SpacingInv, [Next]_vars
  PROVE  SpacingInv'
<1>1. CASE WriteFrame
  BY <1>1, SpacingWrite
<1>2. CASE GetFrame
  <2>1. /\ last' = Received + 1 /\ Received' = Received + 1
        /\ wpc = "get" /\ wpc' = "test" /\ UNCHANGED <<files, writing, fileCounter, everyNth>>
    BY <1>2, GetEffect
  <2>2. FileContiguous'
    BY <2>1 DEF SpacingInv, FileContiguous
  <2>3. Processing' /\ ~Processing /\ Reading' = Reading
    BY <2>1 DEF Processing, Reading
  <2>4. ASSUME Reading' PROVE OpenSpacing'
    <3>1. Reading /\ OpenSpacing /\ NextFrame = Received + 1
      BY <2>3, <2>4 DEF SpacingInv, OpenSpacing
    <3>2. /\ NextFrame' = NextFrame /\ Opening(OpenFile)' = Opening(OpenFile)
          /\ LastKept(OpenFile)' = LastKept(OpenFile)
      BY <2>1 DEF NextFrame, OpenFile, Opening, LastKept
    <3> QED BY <2>1, <2>3, <3>1, <3>2 DEF OpenSpacing
  <2> QED BY <2>1, <2>2, <2>3, <2>4 DEF SpacingInv
<1>3. CASE ~WriteFrame /\ ~GetFrame
  <2>1. Kept
    BY <1>3, QuietSteps
  <2>2. FileContiguous'
    BY <2>1 DEF Kept, SpacingInv, FileContiguous
  <2>3. ASSUME Reading' PROVE OpenSpacing'
    BY <2>1, <2>3 DEF Kept, SpacingInv, OpenSpacing, NextFrame, OpenFile, Opening, LastKept
  <2>4. Processing' => last' = Received'
    BY <2>1 DEF Kept, SpacingInv
  <2> QED BY <2>1, <2>2, <2>3, <2>4 DEF Kept, SpacingInv
<1> QED BY <1>1, <1>2, <1>3

LEMMA StampTypes ==
  ASSUME TypeInv
  PROVE  /\ sent \in Nat /\ \A k \in 1 .. sent : stamp[k] \in Int
         /\ dvTime \in Int /\ oldDVTime \in Int /\ delta \in Nat
  BY DEF TypeInv, TypeOK, StreamTypes, CaptureTypes, SupportInv

LEMMA DistanceFacts ==
  ASSUME NEW x \in Int, NEW y \in Int
  PROVE  Distance(x, y) = Distance(y, x) /\ Distance(x, x) = 0
  BY DEF Distance

(* Where the open file begins and ends after the frame was written.        *)
LEMMA WrittenFile ==
  ASSUME TypeInv, QueueInv, FilesInv, SpacingInv, WriteFrame
  PROVE  /\ \A i \in DOMAIN files' : i # Len(files') => i \in DOMAIN files /\ files'[i] = files[i]
         /\ last \in 1 .. sent
         /\ Starts => /\ OpenFile' = NewFile /\ Opening(OpenFile') = last
                      /\ LastKept(OpenFile') = last /\ NextFrame' = last + 1
         /\ Continues => /\ Len(files) \in DOMAIN files /\ OpenFile' = ContinuedFile
                         /\ Opening(OpenFile') = Opening(OpenFile)
                         /\ LastKept(OpenFile') \in 1 .. last /\ NextFrame' = last + 1
<1>1. /\ Starts \/ Continues
      /\ wpc = "write" /\ UNCHANGED last
  BY WriteDetail
<1>2. files \in Seq(File(sent)) /\ last \in 1 .. sent
  BY <1>1 DEF TypeInv, TypeOK, StreamTypes, CaptureTypes, SupportInv
<1>3. CASE Starts
  <2>1. /\ Len(files') = Len(files) + 1 /\ DOMAIN files' = 1 .. Len(files) + 1
        /\ \A i \in DOMAIN files : files'[i] = files[i]
        /\ files'[Len(files')] = NewFile
    BY <1>2, <1>3 DEF Starts
  <2>2. \A i \in DOMAIN files' : i # Len(files') => i \in DOMAIN files /\ files'[i] = files[i]
    BY <1>2, <2>1
  <2>3. NewFile.frames = <<last>>
    BY DEF NewFile
  <2>4. OpenFile' = NewFile /\ Opening(OpenFile') = last /\ LastKept(OpenFile') = last
    BY <2>1, <2>3 DEF OpenFile, Opening, LastKept
  <2>5. NextFrame' = last + 1
    BY <1>3, <2>4 DEF NextFrame, Starts, Opening
  <2>6. Continues => FALSE
    BY <1>2, <2>1 DEF Continues
  <2> QED BY <1>2, <2>2, <2>4, <2>5, <2>6
<1>4. CASE Continues
  <2>1. /\ Len(files) \in DOMAIN files /\ Opening(OpenFile) \in 1 .. sent
        /\ LastKept(OpenFile) \in 1 .. sent /\ fileCounter \in Nat
        /\ last = NextFrame /\ OpenSpacing
    BY <1>1, <1>4, OpenBounds
  <2>2. /\ DOMAIN files' = DOMAIN files /\ Len(files') = Len(files)
        /\ files'[Len(files)] = ContinuedFile
        /\ \A i \in DOMAIN files : i # Len(files) => files'[i] = files[i]
    BY <1>2, <1>4, <2>1 DEF Continues
  <2>3. OpenFile' = ContinuedFile
    BY <2>2 DEF OpenFile
  <2>4. OpenFile.frames \in Seq(1 .. sent) /\ OpenFile.frames # <<>>
    BY <2>1, FrameBounds DEF OpenFile
  <2>5. Opening(OpenFile') = Opening(OpenFile) /\ LastKept(OpenFile') \in {last, LastKept(OpenFile)}
    <3>1. CASE fileCounter % everyNth = 0
      BY <1>2, <2>3, <2>4, <3>1 DEF ContinuedFile, Opening, LastKept
    <3>2. CASE fileCounter % everyNth # 0
      BY <2>3, <3>2 DEF ContinuedFile, Opening, LastKept
    <3> QED BY <3>1, <3>2
  <2>6. LastKept(OpenFile) < last
    BY <2>1 DEF OpenSpacing
  <2>7. LastKept(OpenFile') \in 1 .. last
    BY <1>2, <2>1, <2>5, <2>6
  <2>8. NextFrame' = Opening(OpenFile') + (fileCounter + 1)
    BY <1>4 DEF NextFrame, Continues, Opening
  <2>9. NextFrame' = last + 1
    BY <2>1, <2>5, <2>8 DEF NextFrame
  <2>10. Starts => FALSE
    BY <1>2, <2>2 DEF Starts
  <2> QED BY <1>2, <2>1, <2>2, <2>3, <2>5, <2>7, <2>9, <2>10
<1> QED BY <1>1, <1>3, <1>4

LEMMA TimesKeep ==
  ASSUME TypeInv, PipelineInv, FilesClosedAtExit, QueueInv, FilesInv, SpacingInv, TimesInv,
         [Next]_vars
  PROVE  TimesInv'
<1>1. CASE WriteFrame
  <2>1. /\ Starts \/ Continues
        /\ wpc = "write" /\ wpc' \in {"top", "finish"}
        /\ UNCHANGED <<sent, last, stamp, dvTime, oldDVTime, delta>> /\ Received' = Received
    BY <1>1, SpacingInv, WriteDetail
  <2>2. ~Processing' /\ Processing /\ last = Received
    BY <2>1 DEF Processing, SpacingInv
  <2>3. ASSUME NEW a \in Opening(OpenFile') .. Received, stamp[a] > 0,
               NoStampIn(stamp, a + 1, Received)
        PROVE  oldDVTime = stamp[a]
    <3>1. CASE Starts
      <4>1. Opening(OpenFile') = last /\ last \in 1 .. sent
        BY <1>1, <3>1, WrittenFile
      <4>2. a = last
        BY <2>2, <2>3, <4>1
      <4> QED BY <2>2, <2>3, <4>2 DEF TimesInv
    <3>2. CASE Continues
      <4>1. Opening(OpenFile') = Opening(OpenFile) /\ Reading
        BY <1>1, <2>1, <3>2, WrittenFile DEF Continues, Reading
      <4> QED BY <2>3, <4>1 DEF TimesInv
    <3> QED BY <2>1, <3>1, <3>2
  <2> QED BY <2>1, <2>2, <2>3 DEF TimesInv, NoStampIn, Opening
<1>2. CASE GetFrame
  <2>1. /\ last' = Received + 1 /\ Received' = Received + 1 /\ Received + 1 \in 1 .. sent
        /\ wpc = "get" /\ wpc' = "test"
        /\ UNCHANGED <<sent, stamp, files, writing>> /\ dvTime' = stamp[last']
    BY <1>2, GetEffect
  <2> DEFINE valid == dvTime' # dvTime /\ dvTime' > 0
  <2>2. /\ oldDVTime' = IF valid THEN dvTime' ELSE oldDVTime
        /\ delta' = IF valid /\ oldDVTime > 0 THEN Distance(dvTime', oldDVTime) ELSE 0
    BY <1>2, GetEffect
  <2>3. /\ dvTime' > 0 => oldDVTime' = dvTime'
        /\ dvTime' <= 0 => oldDVTime' = oldDVTime
    <3>1. CASE valid
      BY <2>1, <2>2, <3>1, StampTypes
    <3>2. CASE ~valid
      BY <2>1, <2>2, <3>2, StampTypes DEF TimesInv
    <3> QED BY <3>1, <3>2
  <2>4. Received \in Nat /\ Opening(OpenFile') = Opening(OpenFile) /\ (Reading' => Reading)
    BY <2>1 DEF QueueInv, OpenFile, Opening, Reading
  <2>5. ASSUME Reading' PROVE Opening(OpenFile) \in 1 .. sent
    <3>1. Len(files) \in DOMAIN files
      BY <2>4, <2>5 DEF Reading, TypeInv, TypeOK, CaptureTypes, SupportInv
    <3> QED BY <3>1, FrameBounds DEF OpenFile
  <2>6. ASSUME Reading', NEW a \in Opening(OpenFile) .. Received + 1, stamp[a] > 0,
               NoStampIn(stamp, a + 1, Received + 1)
        PROVE  oldDVTime' = stamp[a]
    <3>1. CASE a = Received + 1
      BY <2>1, <2>3, <2>6, <3>1
    <3>2. CASE a # Received + 1
      <4>1. a \in Opening(OpenFile) .. Received /\ Received + 1 \in a + 1 .. Received + 1
        BY <2>4, <2>5, <2>6, <3>2
      <4>2. stamp[Received + 1] <= 0 /\ NoStampIn(stamp, a + 1, Received)
        BY <2>4, <2>5, <2>6, <4>1 DEF NoStampIn
      <4>3. oldDVTime = stamp[a]
        BY <2>4, <2>6, <4>1, <4>2 DEF TimesInv
      <4> QED BY <2>1, <2>3, <4>2, <4>3
    <3> QED BY <3>1, <3>2
  <2>7. ASSUME Reading', NEW a \in Opening(OpenFile) .. Received, stamp[a] > 0,
               NoStampIn(stamp, a + 1, Received), stamp[Received + 1] > 0
        PROVE  delta' = Distance(stamp[a], stamp[Received + 1])
    <3>1. oldDVTime = stamp[a] /\ dvTime' = stamp[Received + 1]
      BY <2>1, <2>4, <2>7 DEF TimesInv
    <3>2. stamp[a] \in Int /\ stamp[Received + 1] \in Int
      BY <2>1, <3>1, StampTypes
    <3>3. CASE dvTime' # dvTime
      BY <2>2, <2>7, <3>1, <3>2, <3>3, DistanceFacts
    <3>4. CASE dvTime' = dvTime
      <4>1. oldDVTime = dvTime /\ delta' = 0
        BY <2>2, <2>7, <3>1, <3>4 DEF TimesInv
      <4> QED BY <3>1, <3>2, <3>4, <4>1, DistanceFacts
    <3> QED BY <3>3, <3>4
  <2>8. last' - 1 = Received
    BY <2>1, <2>4
  <2> QED BY <2>1, <2>3, <2>4, <2>6, <2>7, <2>8 DEF TimesInv
<1>3. CASE ~WriteFrame /\ ~GetFrame
  <2>1. Kept
    BY <1>3, QuietSteps
  <2>2. /\ sent \in Nat /\ \A k \in 1 .. sent : stamp'[k] = stamp[k]
        /\ Received \in Nat /\ Received <= sent
    BY StampStays DEF TypeInv, TypeOK, StreamTypes, QueueInv, Received
  <2>3. dvTime' > 0 => oldDVTime' = dvTime'
    BY <2>1 DEF Kept, TimesInv
  <2>4. ASSUME Processing' PROVE dvTime' = stamp'[last']
    <3>1. Processing /\ last' = last /\ dvTime' = dvTime
      BY <2>1, <2>4 DEF Kept
    <3>2. last \in 1 .. sent
      BY <3>1 DEF Processing, TypeInv, TypeOK, StreamTypes, SupportInv
    <3> QED BY <2>2, <3>1, <3>2 DEF TimesInv
  <2>5. ASSUME Reading' 
        PROVE  /\ Reading /\ Received' = Received /\ Processing' = Processing
               /\ UNCHANGED <<last, oldDVTime, delta>>
               /\ Opening(OpenFile') = Opening(OpenFile) /\ Opening(OpenFile) \in 1 .. sent
    <3>1. /\ Reading /\ Received' = Received /\ Processing' = Processing
          /\ UNCHANGED <<last, oldDVTime, delta, files>>
      BY <2>1, <2>5 DEF Kept
    <3>2. Len(files) \in DOMAIN files
      BY <3>1 DEF Reading, TypeInv, TypeOK, CaptureTypes, SupportInv
    <3> QED BY <3>1, <3>2, FrameBounds DEF OpenFile
  <2>6. ASSUME Reading', NEW a \in Opening(OpenFile) .. Received, stamp'[a] > 0,
               NoStampIn(stamp', a + 1, Received)
        PROVE  oldDVTime' = stamp'[a]
    <3>1. a \in 1 .. sent /\ \A c \in a + 1 .. Received : c \in 1 .. sent
      BY <2>2, <2>5, <2>6
    <3>2. NoStampIn(stamp, a + 1, Received)
      BY <2>2, <2>6, <3>1 DEF NoStampIn
    <3> QED BY <2>2, <2>5, <2>6, <3>1, <3>2 DEF TimesInv
  <2>7. ASSUME Reading', Processing', NEW a \in Opening(OpenFile) .. last - 1, stamp'[a] > 0,
               NoStampIn(stamp', a + 1, last - 1), stamp'[last] > 0
        PROVE  delta' = Distance(stamp'[a], stamp'[last])
    <3>1. Processing /\ last = Received
      BY <2>5, <2>7 DEF SpacingInv
    <3>2. a \in 1 .. sent /\ last \in 1 .. sent /\ \A c \in a + 1 .. last - 1 : c \in 1 .. sent
      BY <2>2, <2>5, <2>7, <3>1
    <3>3. NoStampIn(stamp, a + 1, last - 1)
      BY <2>2, <2>7, <3>2 DEF NoStampIn
    <3> QED BY <2>2, <2>5, <2>7, <3>1, <3>2, <3>3 DEF TimesInv
  <2> QED BY <2>3, <2>4, <2>5, <2>6, <2>7 DEF TimesInv
<1> QED BY <1>1, <1>2, <1>3

(* Calm stays, and holds of every part of a calm stretch.                  *)
LEMMA CalmPart ==
  ASSUME NEW s, NEW lo \in Int, NEW hi \in Int, NEW h \in Int, h <= hi, Calm(s, lo, hi)
  PROVE  Calm(s, lo, h)
<1>1. \A a \in lo .. h : a \in lo .. hi
  OBVIOUS
<1> QED BY <1>1 DEF Calm

LEMMA CalmStays ==
  ASSUME TypeInv, [Next]_vars, NEW lo \in Nat \ {0}, NEW hi \in Int, hi <= sent,
         Calm(stamp, lo, hi)
  PROVE  Calm(stamp', lo, hi)
<1>1. sent \in Nat /\ \A k \in 1 .. sent : stamp'[k] = stamp[k]
  BY StampStays, StampTypes
<1> SUFFICES ASSUME NEW a \in lo .. hi, NEW b \in lo .. hi, a < b,
                    stamp'[a] > 0, stamp'[b] > 0, NoStampIn(stamp', a + 1, b - 1)
             PROVE  Distance(stamp'[a], stamp'[b]) <= Threshold
  BY DEF Calm
<1>2. a \in 1 .. sent /\ b \in 1 .. sent /\ \A c \in a + 1 .. b - 1 : c \in 1 .. sent
  BY <1>1
<1>3. NoStampIn(stamp, a + 1, b - 1)
  BY <1>1, <1>2 DEF NoStampIn
<1> QED BY <1>1, <1>2, <1>3 DEF Calm

LEMMA CutKeeps ==
  ASSUME TypeInv, PipelineInv, FilesClosedAtExit, QueueInv, FilesInv, SpacingInv, TimesInv,
         CutInv, [Next]_vars
  PROVE  CutInv'
<1> SUFFICES ASSUME Threshold > 0
             PROVE  /\ \A i \in DOMAIN files' : Calm(stamp', Opening(files'[i]), LastKept(files'[i]))
                    /\ Reading' => Calm(stamp', Opening(OpenFile'), NextFrame' - 1)
  BY DEF CutInv, Opening, LastKept
<1>1. \A i \in DOMAIN files : Calm(stamp', Opening(files[i]), LastKept(files[i]))
  <2> SUFFICES ASSUME NEW i \in DOMAIN files
               PROVE  Calm(stamp', Opening(files[i]), LastKept(files[i]))
    OBVIOUS
  <2>1. Opening(files[i]) \in 1 .. sent /\ LastKept(files[i]) \in 1 .. sent /\ sent \in Nat
    BY FrameBounds, StampTypes
  <2>2. Calm(stamp, Opening(files[i]), LastKept(files[i]))
    BY DEF CutInv
  <2> QED BY <2>1, <2>2, CalmStays
<1>2. CASE WriteFrame
  <2>1. /\ Starts \/ Continues
        /\ wpc = "write" /\ UNCHANGED <<sent, last, stamp>>
    BY <1>2, WriteDetail
  <2>2. /\ \A i \in DOMAIN files' : i # Len(files') => i \in DOMAIN files /\ files'[i] = files[i]
        /\ last \in 1 .. sent /\ sent \in Nat
    BY <1>2, WrittenFile, StampTypes
  <2>3. /\ Calm(stamp, Opening(OpenFile'), last) /\ NextFrame' - 1 = last
        /\ Calm(stamp, Opening(OpenFile'), LastKept(OpenFile'))
    <3>1. CASE Starts
      <4>1. Opening(OpenFile') = last /\ LastKept(OpenFile') = last /\ NextFrame' = last + 1
        BY <1>2, <3>1, WrittenFile
      <4>2. Calm(stamp, last, last)
        BY <2>2 DEF Calm
      <4> QED BY <2>2, <4>1, <4>2
    <3>2. CASE Continues
      <4>1. /\ Opening(OpenFile') = Opening(OpenFile) /\ LastKept(OpenFile') \in 1 .. last
            /\ NextFrame' = last + 1
        BY <1>2, <3>2, WrittenFile
      <4>2. /\ Reading /\ Processing /\ last = NextFrame /\ Opening(OpenFile) \in 1 .. sent
        BY <2>1, <3>2, OpenBounds
      <4>3. Calm(stamp, Opening(OpenFile), last - 1)
        BY <4>2 DEF CutInv
      <4>4. delta <= Threshold
        BY <3>2, StampTypes DEF Continues, SplitNeeded
      <4>5. Calm(stamp, Opening(OpenFile), last)
        <5> SUFFICES ASSUME NEW a \in Opening(OpenFile) .. last, NEW b \in Opening(OpenFile) .. last,
                            a < b, stamp[a] > 0, stamp[b] > 0, NoStampIn(stamp, a + 1, b - 1)
                     PROVE  Distance(stamp[a], stamp[b]) <= Threshold
          BY DEF Calm
        <5>1. CASE b = last
          <6>1. a \in Opening(OpenFile) .. last - 1
            BY <2>2, <4>2, <5>1
          <6>2. delta = Distance(stamp[a], stamp[last])
            BY <4>2, <5>1, <6>1 DEF TimesInv
          <6> QED BY <4>4, <5>1, <6>2
        <5>2. CASE b # last
          <6>1. a \in Opening(OpenFile) .. last - 1 /\ b \in Opening(OpenFile) .. last - 1
            BY <2>2, <4>2, <5>2
          <6> QED BY <4>3, <6>1 DEF Calm
        <5> QED BY <5>1, <5>2
      <4>6. Calm(stamp, Opening(OpenFile), LastKept(OpenFile'))
        BY <2>2, <4>1, <4>2, <4>5, CalmPart
      <4> QED BY <2>2, <4>1, <4>5, <4>6
    <3> QED BY <2>1, <3>1, <3>2
  <2>4. \A i \in DOMAIN files' : Calm(stamp', Opening(files'[i]), LastKept(files'[i]))
    <3> SUFFICES ASSUME NEW i \in DOMAIN files'
                 PROVE  Calm(stamp', Opening(files'[i]), LastKept(files'[i]))
      OBVIOUS
    <3>1. CASE i = Len(files')
      BY <2>1, <2>3, <3>1 DEF OpenFile
    <3>2. CASE i # Len(files')
      BY <1>1, <2>2, <3>2
    <3> QED BY <3>1, <3>2
  <2> QED BY <2>1, <2>3, <2>4
<1>3. CASE ~WriteFrame
  <2>1. /\ files' = files
        /\ Reading' => Reading /\ NextFrame' = NextFrame
    <3>1. CASE GetFrame
      BY <3>1, GetEffect DEF Reading, NextFrame, OpenFile, Opening
    <3>2. CASE ~GetFrame
      BY <1>3, <3>2, QuietSteps DEF Kept, NextFrame, OpenFile, Opening
    <3> QED BY <3>1, <3>2
  <2>2. ASSUME Reading' PROVE Calm(stamp', Opening(OpenFile'), NextFrame' - 1)
    <3>1. Reading /\ NextFrame' = NextFrame /\ OpenFile' = OpenFile
      BY <2>1, <2>2 DEF OpenFile
    <3>2. Len(files) \in DOMAIN files
      BY <3>1 DEF Reading, TypeInv, TypeOK, CaptureTypes, SupportInv
    <3>3. Opening(OpenFile) \in 1 .. sent
      BY <3>2, FrameBounds DEF OpenFile
    <3>4. NextFrame - 1 \in Int /\ NextFrame - 1 <= sent
      <4>1. /\ NextFrame = IF Processing THEN last ELSE Received + 1
            /\ last \in 0 .. sent /\ Received \in Nat /\ sent \in Nat /\ Len(chan) \in Nat
        BY <3>1 DEF SpacingInv, OpenSpacing, TypeInv, TypeOK, StreamTypes, QueueInv
      <4> QED BY <4>1 DEF Received
    <3>5. Calm(stamp, Opening(OpenFile), NextFrame - 1)
      BY <3>1 DEF CutInv
    <3> QED BY <3>1, <3>3, <3>4, <3>5, CalmStays
  <2> QED BY <1>1, <2>1, <2>2
<1> QED BY <1>2, <1>3

LEMMA DateKeeps ==
  ASSUME TypeInv, PipelineInv, FilesClosedAtExit, QueueInv, FilesInv, SpacingInv, TimesInv,
         DateInv, [Next]_vars
  PROVE  DateInv'
<1> SUFFICES ASSUME NEW i \in DOMAIN files', stamp'[Opening(files'[i])] # 0
             PROVE  files'[i].dvtime = stamp'[Opening(files'[i])]
  BY DEF DateInv, Opening
<1>1. ASSUME i \in DOMAIN files, files'[i] = files[i]
      PROVE  files'[i].dvtime = stamp'[Opening(files'[i])]
  <2>1. stamp'[Opening(files[i])] = stamp[Opening(files[i])]
    BY <1>1, FrameBounds, StampStays
  <2> QED BY <1>1, <2>1 DEF DateInv
<1>2. CASE WriteFrame
  <2>1. /\ Starts \/ Continues
        /\ wpc = "write" /\ UNCHANGED stamp
    BY <1>2, WriteDetail
  <2>2. CASE i # Len(files')
    BY <1>1, <1>2, <2>2, WrittenFile
  <2>3. CASE i = Len(files') /\ Starts
    <3>1. files'[i] = NewFile /\ Opening(files'[i]) = last
      BY <1>2, <2>3, WrittenFile DEF OpenFile
    <3>2. dvTime = stamp[last]
      BY <2>1 DEF TimesInv, Processing
    <3> QED BY <2>1, <3>1, <3>2 DEF NewFile
  <2>4. CASE i = Len(files') /\ Continues
    <3>1. /\ files'[i] = ContinuedFile /\ Opening(files'[i]) = Opening(OpenFile)
          /\ Len(files) \in DOMAIN files
      BY <1>2, <2>4, WrittenFile DEF OpenFile
    <3>2. stamp[Opening(OpenFile)] # 0 /\ OpenFile.dvtime = stamp[Opening(OpenFile)]
      BY <2>1, <3>1 DEF DateInv, OpenFile
    <3> QED BY <2>1, <3>1, <3>2 DEF ContinuedFile, Backfilled
  <2> QED BY <2>1, <2>2, <2>3, <2>4
<1>3. CASE ~WriteFrame
  <2>1. files' = files
    BY <1>3, FilesStay
  <2> QED BY <1>1, <2>1
<1> QED BY <1>2, <1>3

----------------------------------------------------------------------------
(* The invariant, and what follows from it.                                *)

IInv ==
  /\ PipelineInv /\ FilesClosedAtExit /\ TypeInv /\ QueueInv /\ FilesInv
  /\ SpacingInv /\ TimesInv /\ CutInv /\ DateInv

LEMMA InitKeeps == Init => IInv
<1> SUFFICES ASSUME Init PROVE IInv
  OBVIOUS
<1> USE DEF Init, Ch!Init
<1>1. PipelineInv /\ FilesClosedAtExit
  BY DEF PipelineInv, FilesClosedAtExit, Alive
<1>2. TypeInv
  <2>1. <<>> \in Seq(1 .. 0) /\ <<>> \in Seq(Int) /\ <<>> \in Seq(File(0))
    OBVIOUS
  <2>2. ThreadTypes
    <3>1. sessions \in 0 .. MaxSessions
      OBVIOUS
    <3>2. rebuild \in BOOLEAN /\ running \in BOOLEAN /\ built \in BOOLEAN
      OBVIOUS
    <3> QED BY <3>1, <3>2 DEF ThreadTypes
  <2>3. StreamTypes
    <3>1. chan \in Seq(1 .. sent) /\ stamp \in Seq(Int)
      BY <2>1
    <3>2. closed \in BOOLEAN /\ late \in BOOLEAN
      OBVIOUS
    <3> QED BY <3>1, <3>2 DEF StreamTypes
  <2>4. CaptureTypes
    <3>1. files \in Seq(File(sent)) /\ firstFile \in 0 .. Len(files)
      BY <2>1
    <3>2. nFrames \in 0 .. MaxAVIFrames
      OBVIOUS
    <3>3. writing \in BOOLEAN /\ logged \in BOOLEAN
      OBVIOUS
    <3> QED BY <3>1, <3>2, <3>3 DEF CaptureTypes
  <2>5. SupportInv
    BY DEF SupportInv
  <2> QED BY <2>2, <2>3, <2>4, <2>5 DEF TypeInv, TypeOK
<1>3. QueueInv
  BY DEF QueueInv, Received
<1>4. FilesInv
  BY DEF FilesInv, WrittenUpTo, Processing, FilesApart, FileLengthBounded
<1>5. SpacingInv
  <2>1. everyNth \in Nat \ {0}
    OBVIOUS
  <2>2. DOMAIN files = {} /\ ~Processing /\ ~Reading
    BY DEF Processing, Reading
  <2> QED BY <2>1, <2>2 DEF SpacingInv, FileContiguous
<1>6. TimesInv /\ CutInv /\ DateInv
  BY DEF TimesInv, CutInv, DateInv, Processing, Reading
<1> QED BY <1>1, <1>2, <1>3, <1>4, <1>5, <1>6 DEF IInv

LEMMA NextKeeps == IInv /\ [Next]_vars => IInv'
  BY PipelineKeeps, ClosedKeeps, TypesKeep, QueueKeeps, FilesKeep, SpacingKeeps, TimesKeep,
     CutKeeps, DateKeeps DEF IInv

(* The conjunction of all the parts holds in every reachable state.        *)
THEOREM Invariance == Spec => []IInv
<1>1. Init => IInv
  BY InitKeeps
<1>2. IInv /\ [Next]_vars => IInv'
  BY NextKeeps
<1> QED BY <1>1, <1>2, PTL DEF Spec

(* Every variable of a session keeps its type, whatever the settings, the  *)
(* tapes and the number of sessions.                                       *)
THEOREM TypeCorrect == Spec => []TypeOK
<1>1. IInv => TypeOK
  BY DEF IInv, TypeInv
<1> QED BY <1>1, Invariance, PTL

(* Destroy never deletes the queue, the input or the writer while the      *)
(* streaming thread or the worker still uses them: the order in which it   *)
(* stops the input, waits for the frame under way and joins the worker.    *)
THEOREM PipelineSafe == Spec => []PipelineOutlivesThreads
<1>1. IInv => PipelineOutlivesThreads
  BY DEF IInv, PipelineInv, PipelineOutlivesThreads
<1> QED BY <1>1, Invariance, PTL

(* Before a session has its worker, and after Destroy waited for it,       *)
(* m_state never says that a capture is on: Destroy makes it Idle first,   *)
(* the dying worker assigns nothing but Finished, and StartCapturing and   *)
(* StopCapturing act only on what BuildCapturing or they themselves left,  *)
(* never on a session that is being taken down.                            *)
RestState == state \in {"Idle", "Finished"}
NoCaptureWithoutWorker == wpc = "none" => RestState
RestInv ==
  /\ NoCaptureWithoutWorker
  /\ upc \in {"close", "stop", "drain", "join", "free", "build", "launch"} => RestState
  /\ upc \in {"start", "pause"} => wpc # "none"

LEMMA RestKeeps ==
  ASSUME RestInv, [Next]_vars
  PROVE  RestInv'
<1> USE DEF RestInv, NoCaptureWithoutWorker, RestState
<1>1. CASE ChoiceStep
  BY <1>1 DEF ChoiceStep, UserCommand, StartStep, Destroy, StartTest, StopTest, StartState,
              StopState, UIAt
<1>2. CASE TakeDownStep
  BY <1>2 DEF TakeDownStep, DestroyClose, DestroyStop, DestroyDrain, DestroyJoin, DestroyFree,
              UIAt
<1>3. CASE BuildStep
  BY <1>3 DEF BuildStep, BuildFail, BuildRun, BuildLaunch, UIAt
<1>4. CASE FrameStep
  BY <1>4 DEF FrameStep, FrameArrives, InputEnds, StreamStep, FrameQueued, FrameDropped, ui
<1>5. CASE ControlStep
  BY <1>5 DEF ControlStep, LoopTest, GetNothing, GetEnd, GetWake, GetTimeout, LostTestEnd,
              LostTestState, SignalLost, TestCapturing, TimedFinish, WorkerAt, ui
<1>6. CASE ThreadStart \/ GetFrame \/ WriteFrame \/ Pause \/ Leave
  BY <1>6 DEF ThreadStart, GetFrame, WriteFrame, Pause, Leave, WorkerAt, ui
<1>7. CASE UNCHANGED vars
  BY <1>7 DEF vars, ui
<1> QED BY NextSplit, <1>1, <1>2, <1>3, <1>4, <1>5, <1>6, <1>7

(* What the dialog relies on when it offers a capture: m_state says that   *)
(* one is paused or runs only when its worker was started and not yet      *)
(* waited for (CapturingThread may have left its loop, though).            *)
THEOREM CaptureHasWorker == Spec => []NoCaptureWithoutWorker
<1>1. Init => RestInv
  BY DEF Init, RestInv, NoCaptureWithoutWorker, RestState
<1>2. RestInv /\ [Next]_vars => RestInv'
  BY RestKeeps
<1>3. RestInv => NoCaptureWithoutWorker
  BY DEF RestInv
<1> QED BY <1>1, <1>2, <1>3, PTL DEF Spec

(* Destroy waits for the frame under way and for the worker. Neither waits *)
(* itself by then: the queue is closed, so that Put and Get come back.     *)
DestroyUnblocked ==
  /\ upc = "drain" /\ spc = "put" => closed
  /\ upc = "join" /\ Alive => closed

ClosedInv == upc \in {"stop", "drain", "join"} /\ built => closed

LEMMA StaysClosed ==
  ASSUME ClosedInv, [Next]_vars
  PROVE  ClosedInv'
<1> USE DEF ClosedInv, ui, build, channel
<1>1. CASE ChoiceStep
  BY <1>1, ChoiceQuiet
<1>2. CASE TakeDownStep
  BY <1>2 DEF TakeDownStep, DestroyClose, DestroyStop, DestroyDrain, DestroyJoin, DestroyFree,
              UIAt, Ch!Close
<1>3. CASE BuildStep
  BY <1>3 DEF BuildStep, BuildFail, BuildRun, BuildLaunch, UIAt
<1>4. CASE FrameStep
  BY <1>4 DEF FrameStep, FrameArrives, InputEnds, StreamStep, FrameQueued, FrameDropped,
              Ch!Send, Ch!Close
<1>5. CASE ControlStep
  BY <1>5, ControlQuiet
<1>6. CASE ThreadStart \/ GetFrame \/ WriteFrame \/ Pause \/ Leave
  BY <1>6 DEF ThreadStart, GetFrame, WriteFrame, Pause, Leave, Ch!Receive
<1>7. CASE UNCHANGED vars
  BY <1>7 DEF vars
<1> QED BY NextSplit, <1>1, <1>2, <1>3, <1>4, <1>5, <1>6, <1>7

(* Nobody Destroy waits for is waiting itself: closing the queue comes     *)
(* before both waits, and nothing opens it again. What is left for         *)
(* DestroyReturnsIfIdle is that threads run and that the worker finds      *)
(* m_state Idle.                                                           *)
THEOREM DestroyNotBlocked == Spec => []DestroyUnblocked
<1>1. Init => ClosedInv
  BY DEF Init, ClosedInv
<1>2. ClosedInv /\ [Next]_vars => ClosedInv'
  BY StaysClosed
<1>3. IInv /\ ClosedInv => DestroyUnblocked
  BY DEF IInv, PipelineInv, ClosedInv, DestroyUnblocked
<1> QED BY <1>1, <1>2, <1>3, Invariance, PTL DEF Spec

(* CapturingThread leaves no AVI file open, whichever way its loop ends.   *)
THEOREM ClosedAtExit == Spec => []FilesClosedAtExit
<1>1. IInv => FilesClosedAtExit
  BY DEF IInv
<1> QED BY <1>1, Invariance, PTL

(* The splitting of CapturingThread keeps every file within m_maxAVIFrames.*)
THEOREM LengthBounded == Spec => []FileLengthBounded
<1>1. IInv => FileLengthBounded
  BY DEF IInv, FilesInv
<1> QED BY <1>1, Invariance, PTL

(* The frames of a later file come later on the tape than those of an      *)
(* earlier one, across splits, pauses and sessions.                        *)
THEOREM TapeOrder == Spec => []FilesInTapeOrder
<1>1. IInv => FilesInTapeOrder
  <2> SUFFICES ASSUME IInv, NEW i \in DOMAIN files, NEW j \in DOMAIN files, i < j,
                      NEW a \in Span(files[i]), NEW b \in Span(files[j])
               PROVE  a < b
    BY DEF FilesInTapeOrder
  <2> DEFINE f == files[i].frames
             g == files[j].frames
  <2>1. f \in Seq(1 .. sent) /\ g \in Seq(1 .. sent)
    <3>1. files[i] \in File(sent) /\ files[j] \in File(sent)
      BY DEF IInv, TypeInv, TypeOK, CaptureTypes
    <3> QED BY <3>1 DEF File
  <2>2. f # <<>> /\ g # <<>> /\ a \in f[1] .. f[Len(f)] /\ b \in g[1] .. g[Len(g)]
    BY DEF Span
  <2>3. Len(f) \in DOMAIN f /\ 1 \in DOMAIN g
    BY <2>1, <2>2
  <2>4. f[Len(f)] < g[1]
    BY <2>3 DEF IInv, FilesInv, FilesApart
  <2>5. f[Len(f)] \in 1 .. sent /\ g[1] \in 1 .. sent
    BY <2>1, <2>3, SeqElement
  <2> QED BY <2>2, <2>4, <2>5
<1> QED BY <1>1, Invariance, PTL

(* A file has no hole: only decimation leaves frames out of it, because a  *)
(* pause the worker sees ends the file before it takes another frame.      *)
THEOREM Contiguous == Spec => []FileContiguous
<1>1. IInv => FileContiguous
  BY DEF IInv, SpacingInv
<1> QED BY <1>1, Invariance, PTL

(* The frames a file spans are those from its first to its last.           *)
LEMMA SpanOfFile ==
  ASSUME IInv, NEW i \in DOMAIN files
  PROVE  /\ Opening(files[i]) \in 1 .. sent /\ LastKept(files[i]) \in 1 .. sent
         /\ Span(files[i]) = Opening(files[i]) .. LastKept(files[i])
<1>1. /\ files[i].frames # <<>>
      /\ Opening(files[i]) \in 1 .. sent /\ LastKept(files[i]) \in 1 .. sent
  BY FrameBounds DEF IInv
<1> QED BY <1>1 DEF Span, Opening, LastKept

(* No file contains a cut of the tape, though the worker skips times that  *)
(* repeat or are missing, and decimation leaves frames out.                *)
THEOREM NoSceneCut == Spec => []NoSceneCutInFile
<1>1. IInv => NoSceneCutInFile
  <2> SUFFICES ASSUME IInv, Threshold > 0, NEW i \in DOMAIN files,
                      NEW a \in Span(files[i]), NEW b \in Span(files[i]),
                      a < b, stamp[a] > 0, stamp[b] > 0,
                      \A c \in a + 1 .. b - 1 : stamp[c] <= 0
               PROVE  Distance(stamp[a], stamp[b]) <= Threshold
    BY DEF NoSceneCutInFile
  <2>1. Calm(stamp, Opening(files[i]), LastKept(files[i]))
    BY DEF IInv, CutInv
  <2> QED BY <2>1, SpanOfFile DEF Calm, NoStampIn
<1> QED BY <1>1, Invariance, PTL

(* A file keeps the date of the frame it was opened with, if that frame    *)
(* has one, whatever later frames, pauses and splits bring: the backfill   *)
(* of CapturingThread overwrites no date.                                  *)
THEOREM DatedByFirstFrame == Spec => []FileDatedByFirstFrame
<1>1. IInv => FileDatedByFirstFrame
  <2> SUFFICES ASSUME IInv, NEW i \in DOMAIN files, stamp[files[i].frames[1]] > 0
               PROVE  files[i].dvtime = stamp[files[i].frames[1]]
    BY DEF FileDatedByFirstFrame
  <2>1. Opening(files[i]) \in 1 .. sent
    BY SpanOfFile
  <2>2. stamp[Opening(files[i])] \in Int
    BY <2>1 DEF IInv, TypeInv, TypeOK, StreamTypes, SupportInv
  <2>3. stamp[Opening(files[i])] # 0
    BY <2>2 DEF Opening
  <2> QED BY <2>3 DEF IInv, DateInv, Opening
<1> QED BY <1>1, Invariance, PTL
=============================================================================
