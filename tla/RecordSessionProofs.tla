------------------------ MODULE RecordSessionProofs ------------------------
(***************************************************************************)
(* Proofs about RecordSession, for every capacity of the queue, every list *)
(* of files and any number of sessions: the pipeline outlives its threads, *)
(* the files are joined completely and in order, and Finished means that   *)
(* they are.                                                               *)
(*                                                                         *)
(* The invariants are proved one after the other, each from those before   *)
(* it: the life of the pipeline, the types, what was joined, what is on    *)
(* the tape.                                                               *)
(***************************************************************************)
EXTENDS RecordSession, FiniteSetTheorems, SequenceTheorems, TLAPS

USE CapacityAssumption, FilesAssumption

(* Who can still run while Destroy and BuildRecording are at a place: the  *)
(* JoinerThread ends first, then the reader, then the worker.              *)
LifeInv ==
  /\ rpc # "idle" \/ live => reader # 0
  /\ jpc \in {"drain", "open"} => ~live
  /\ jpc = "open" => rpc = "idle" /\ reader = 0
  /\ upc \in {"stopReader", "stopDelete", "join", "free", "build", "runThread"} => jpc = "none"
  /\ upc \in {"stopDelete", "join", "free", "build", "runThread", "runReader"} => ~live
  /\ upc \in {"join", "free", "build", "runThread", "runReader"} => rpc = "idle"
  /\ upc \in {"join", "free", "build"} => reader = 0
  /\ upc \in {"free", "build", "runThread", "runReader", "launch"} => ~Alive
  /\ upc \in {"runThread", "runReader"} => reader # 0 /\ ~ev
  /\ upc = "runReader" => jpc = "wait"
  /\ upc \in {"runThread", "runReader", "launch"} => built
  /\ rpc # "idle" \/ live \/ Alive \/ jpc \notin {"none", "exited"} => built
  /\ stopping => upc \in {"stopSignal", "stopJoin", "stopReader", "stopDelete"}

(* What the types rest on: JoinerThread replaces a reader only by one for  *)
(* a file of the list, and the reader has read what it hands on.           *)
ReadInv ==
  /\ jpc \in {"replace", "drain", "open"} => current < Len(lengths)
  /\ rpc # "idle" => pos > 0
  /\ rpc = "put" => pos <= lengths[reader]

(* The queue holds the frames after the last the worker took, in order.    *)
QueueInv ==
  /\ Len(chan) = sent - last
  /\ \A i \in 1 .. Len(chan) : chan[i] = last + i
  /\ upc = "build" => sent = 0 /\ ~closed

(* The frames of the files opened so far that the queue must have.         *)
DonePos == IF rpc = "idle" THEN pos ELSE pos - 1
DoneFrames == {f \in Frames : f[1] < current \/ (f[1] = current /\ f[2] <= DonePos)}

(* m_ev is given only at the end of the open file, and JoinerThread goes   *)
(* on only then; the frames joined are those read so far.                  *)
Signaling ==
  /\ rpc # "idle" => jpc = "wait" /\ ~ev
  /\ jpc = "none" => ~live
  /\ ev => jpc = "wait"
  /\ ev \/ jpc \notin {"none", "wait"} => current # 0 /\ pos = lengths[current] + 1
  /\ jpc \in {"end", "exited"} => current = Len(lengths)
  /\ closed => jpc = "exited"

Joined ==
  /\ \A m, n \in DOMAIN origin : m < n => Precedes(origin[m], origin[n])
  /\ {origin[m] : m \in DOMAIN origin} = DoneFrames

JoinInv == ~Destroying => Signaling /\ Joined

(* The worker asks for a frame only when the one it has is on the tape,    *)
(* and with m_state Finished it never asks again and never leaves.         *)
TapeInv ==
  /\ upc \in {"build", "runThread", "runReader", "launch"} => taped = last
  /\ wpc \in {"start", "get", "empty", "wait", "test", "endTest", "finish"} => taped = last
  /\ wpc \in {"endTest", "finish"} => closed /\ taped > 0
  /\ state = "Finished" => wpc \in {"top", "forward", "test"} /\ closed /\ taped = last /\ taped > 0

IInv == LifeInv /\ TypeOK /\ ReadInv /\ QueueInv /\ JoinInv /\ TapeInv

----------------------------------------------------------------------------
(* The steps by the variables they leave alone.                            *)
ChoiceStep ==
  \/ Destroy(TRUE) \/ Destroy(FALSE) \/ StartTest \/ StopTest \/ StartState \/ StopState
StopStep == Joiner!StopFlag \/ Joiner!StopSignal \/ Joiner!StopJoin
            \/ Joiner!StopReader \/ Joiner!StopDelete
QuietWorker ==
  \/ ThreadStart \/ GetNothing \/ GetEnd \/ GetWake
  \/ LoopTest \/ Forward \/ TestRecording \/ EndTest \/ Finish
ReaderQuiet == Joiner!ReaderCall \/ Joiner!HandleStopped \/ Joiner!HandleData
               \/ Joiner!HandleEnd \/ Joiner!PutNothing
JoinerQuiet == Joiner!Wake \/ Joiner!Woken \/ Joiner!ReplaceStop \/ Joiner!ReplaceDelete
               \/ Joiner!ReplaceOpen

LEMMA NextSplit ==
  [Next]_vars =>
    \/ ChoiceStep
    \/ DestroyClose \/ JoinerStop \/ DestroyJoin \/ DestroyFree
    \/ BuildFail \/ (\E list \in FileLists : BuildJoiner(list)) \/ JoinerRun \/ BuildLaunch
    \/ QuietWorker \/ GetFrame
    \/ (ReaderQuiet \/ Joiner!PutFrame) /\ UNCHANGED <<state, ui, worker>>
    \/ (JoinerQuiet \/ Joiner!AnnounceEnd) /\ UNCHANGED <<state, ui, worker>>
    \/ UNCHANGED vars
  BY Zenon DEF Next, UserCommand, UIStep, WorkerStep, ReaderStep, JoinerThreadStep,
               Joiner!ReaderStep, Joiner!ThreadStep, ChoiceStep, QuietWorker, ReaderQuiet,
               JoinerQuiet

LEMMA ChoiceQuiet ==
  ChoiceStep => /\ UNCHANGED <<built, worker, source>>
                /\ upc \in {"ready", "start", "pause"}
                /\ upc' \in {"ready", "start", "pause", "close"}
                /\ state' \in {"Idle", "Recording", "RecordPaused", state}
                /\ rebuild' \in {TRUE, FALSE, rebuild}
  BY DEF ChoiceStep, Destroy, StartTest, StopTest, StartState, StopState, Test, Assign, UIAt

LEMMA WorkerQuiet ==
  QuietWorker => /\ UNCHANGED <<ui, source>>
                 /\ Alive
  BY DEF QuietWorker, ThreadStart, GetNothing, GetEnd, GetWake, LoopTest, Forward,
         TestRecording, EndTest, Finish, WorkerAt, Alive, source

----------------------------------------------------------------------------
LEMMA LifeKeeps ==
  ASSUME LifeInv, JoinerTypes, [Next]_vars
  PROVE  LifeInv'
<1> USE DEF LifeInv, Alive, ui, worker, source, joiner, channel
<1>1. CASE ChoiceStep
  BY <1>1, ChoiceQuiet
<1>2. CASE DestroyClose
  BY <1>2 DEF DestroyClose, UIAt, Ch!Close
<1>3. CASE JoinerStop
  BY <1>3 DEF JoinerStop, UIAt, Joiner!StopFlag, Joiner!StopSignal, Joiner!StopJoin,
              Joiner!StopReader, Joiner!StopDelete, Joiner!channel
<1>4. CASE DestroyJoin \/ DestroyFree
  BY <1>4 DEF DestroyJoin, DestroyFree, UIAt
<1>5. CASE BuildFail \/ BuildLaunch
  BY <1>5 DEF BuildFail, BuildLaunch, UIAt
<1>6. CASE \E list \in FileLists : BuildJoiner(list)
  BY <1>6 DEF BuildJoiner, UIAt, Joiner!Construct, Joiner!channel
<1>7. CASE JoinerRun
  BY <1>7 DEF JoinerRun, UIAt, Joiner!RunThread, Joiner!RunReader, Joiner!channel
<1>8. CASE QuietWorker
  BY <1>8, WorkerQuiet
<1>9. CASE GetFrame
  BY <1>9 DEF GetFrame, WorkerAt
<1>10. CASE (ReaderQuiet \/ Joiner!PutFrame) /\ UNCHANGED <<state, ui, worker>>
  BY <1>10 DEF ReaderQuiet, Joiner!ReaderCall, Joiner!HandleStopped, Joiner!HandleData,
               Joiner!HandleEnd, Joiner!PutNothing, Joiner!PutFrame
<1>11. CASE (JoinerQuiet \/ Joiner!AnnounceEnd) /\ UNCHANGED <<state, ui, worker>>
  <2> USE DEF Joiner!ThreadAt
  <2>1. CASE Joiner!ReplaceOpen /\ UNCHANGED <<state, ui, worker>>
    <3>1. reader' # 0
      BY <2>1 DEF Joiner!ReplaceOpen, JoinerTypes
    <3> QED BY <2>1, <3>1 DEF Joiner!ReplaceOpen
  <2>2. CASE (Joiner!ReplaceStop \/ Joiner!ReplaceDelete) /\ UNCHANGED <<state, ui, worker>>
    BY <2>2 DEF Joiner!ReplaceStop, Joiner!ReplaceDelete
  <2>3. CASE (Joiner!Wake \/ Joiner!Woken \/ Joiner!AnnounceEnd) /\ UNCHANGED <<state, ui, worker>>
    BY <2>3 DEF Joiner!Wake, Joiner!Woken, Joiner!AnnounceEnd
  <2> QED BY <1>11, <2>1, <2>2, <2>3 DEF JoinerQuiet
<1>12. CASE UNCHANGED vars
  BY <1>12 DEF vars
<1> QED BY NextSplit, <1>1, <1>2, <1>3, <1>4, <1>5, <1>6, <1>7, <1>8, <1>9, <1>10, <1>11, <1>12

----------------------------------------------------------------------------
(* Types.                                                                  *)

LEMMA ThreadTypesKeep ==
  ASSUME ThreadTypes, [Next]_vars
  PROVE  ThreadTypes'
<1> USE DEF ThreadTypes, Destroying, ui, worker
<1>1. CASE ChoiceStep
  BY <1>1, ChoiceQuiet
<1>2. CASE DestroyClose \/ JoinerStop
  BY <1>2 DEF DestroyClose, JoinerStop, UIAt
<1>3. CASE DestroyJoin \/ DestroyFree
  BY <1>3 DEF DestroyJoin, DestroyFree, UIAt
<1>4. CASE BuildFail \/ JoinerRun \/ BuildLaunch \/ \E list \in FileLists : BuildJoiner(list)
  BY <1>4 DEF BuildFail, JoinerRun, BuildLaunch, BuildJoiner, UIAt
<1>5. CASE QuietWorker \/ GetFrame
  <2>1. UNCHANGED ui
    BY <1>5, WorkerQuiet DEF GetFrame
  <2>2. CASE ThreadStart \/ GetFrame \/ GetNothing \/ GetEnd \/ GetWake
    BY <2>1, <2>2 DEF ThreadStart, GetFrame, GetNothing, GetEnd, GetWake, WorkerAt
  <2>3. CASE LoopTest \/ Forward \/ EndTest \/ Finish
    BY <2>1, <2>3 DEF LoopTest, Forward, EndTest, Finish, WorkerAt
  <2>4. CASE TestRecording
    BY <2>1, <2>4 DEF TestRecording, WorkerAt
  <2> QED BY <1>5, <2>2, <2>3, <2>4 DEF QuietWorker
<1>6. CASE UNCHANGED <<state, ui, worker>>
  BY <1>6
<1>7. CASE UNCHANGED vars
  BY <1>7 DEF vars
<1> QED BY NextSplit, <1>1, <1>2, <1>3, <1>4, <1>5, <1>6, <1>7

(* The steps that leave AVIJoiner, or the queue and the worker, alone.     *)
LEMMA JoinerQuietSteps ==
  \/ ChoiceStep \/ DestroyClose \/ DestroyJoin \/ BuildFail \/ BuildLaunch
  \/ QuietWorker \/ GetFrame \/ UNCHANGED vars
  => UNCHANGED joiner
  BY ChoiceQuiet, WorkerQuiet
     DEF DestroyClose, DestroyJoin, BuildFail, BuildLaunch, GetFrame, vars, source

LEMMA OpenFile ==
  ASSUME JoinerTypes
  PROVE  /\ lengths \in Seq(Nat) /\ Len(lengths) \in Nat /\ current \in Nat
         /\ reader # 0 => reader = current
         /\ current # 0 => current \in DOMAIN lengths /\ lengths[current] \in Nat
<1>1. <<>> \in Seq(Nat)
  OBVIOUS
<1>2. lengths \in Seq(Nat)
  BY <1>1, FilesAssumption, Zenon DEF JoinerTypes
<1> QED BY <1>2 DEF JoinerTypes

LEMMA JoinerTypesKeep ==
  ASSUME LifeInv, JoinerTypes, ReadInv, [Next]_vars
  PROVE  JoinerTypes' /\ ReadInv'
<1> USE DEF JoinerTypes, ReadInv, Joiner!channel
<1>1. CASE UNCHANGED joiner
  BY <1>1 DEF joiner
<1>2. CASE JoinerStop
  <2>1. CASE StopStep /\ ~Joiner!StopDelete
    BY <2>1 DEF StopStep, Joiner!StopFlag, Joiner!StopSignal, Joiner!StopJoin,
                Joiner!StopReader
  <2>2. CASE Joiner!StopDelete
    BY <2>2 DEF Joiner!StopDelete
  <2> QED BY <1>2, <2>1, <2>2 DEF JoinerStop, StopStep
<1>3. CASE DestroyFree
  <2>1. Len(<<>>) = 0 /\ reader = 0 /\ rpc = "idle" /\ jpc = "none"
    BY <1>3 DEF DestroyFree, UIAt, LifeInv
  <2>2. UNCHANGED <<jpc, stopping, reader, live, rpc>>
    BY <1>3 DEF DestroyFree
  <2>3. lengths' = <<>> /\ ev' = FALSE /\ current' = 0 /\ pos' = 0
    BY <1>3 DEF DestroyFree
  <2>4. current' \in 0 .. Len(lengths')
    BY <2>1, <2>3
  <2>5. JoinerTypes'
    BY <2>1, <2>2, <2>3, <2>4
  <2> QED BY <2>1, <2>2, <2>5
<1>4. CASE \E list \in FileLists : BuildJoiner(list)
  <2>1. PICK list \in FileLists : BuildJoiner(list)
    BY <1>4
  <2>2. list \in Seq(Nat) /\ list # <<>>
    BY FilesAssumption
  <2>3. 1 \in 0 .. Len(list) /\ list[1] \in Nat
    BY <2>2
  <2>4. rpc = "idle" /\ jpc = "none" /\ UNCHANGED <<rpc, jpc, live>>
    BY <2>1 DEF BuildJoiner, UIAt, Joiner!Construct, LifeInv
  <2>5. /\ lengths' = list /\ current' = 1 /\ reader' = 1 /\ pos' = 0
        /\ ev' = FALSE /\ stopping' = FALSE
    BY <2>1 DEF BuildJoiner, Joiner!Construct
  <2>6. current' \in 0 .. Len(lengths') /\ lengths'[reader'] \in Nat
    BY <2>3, <2>5
  <2>7. pos' <= lengths'[reader'] + 1
    BY <2>5, <2>6
  <2>8. JoinerTypes'
    BY <2>4, <2>5, <2>6, <2>7
  <2> QED BY <2>4, <2>8
<1>5. CASE JoinerRun
  BY <1>5 DEF JoinerRun, Joiner!RunThread, Joiner!RunReader
<1>6. CASE (ReaderQuiet \/ Joiner!PutFrame) /\ UNCHANGED <<state, ui, worker>>
  <2> USE OpenFile DEF LifeInv
  <2>1. CASE Joiner!ReaderCall
    BY <2>1 DEF Joiner!ReaderCall, Joiner!AtEnd
  <2>2. CASE Joiner!HandleData
    BY <2>2 DEF Joiner!HandleData, Joiner!AtEnd
  <2>3. CASE Joiner!HandleEnd
    BY <2>3 DEF Joiner!HandleEnd
  <2>4. CASE Joiner!HandleStopped \/ Joiner!PutNothing \/ Joiner!PutFrame
    BY <2>4 DEF Joiner!HandleStopped, Joiner!PutNothing, Joiner!PutFrame
  <2> QED BY <1>6, <2>1, <2>2, <2>3, <2>4 DEF ReaderQuiet
<1>7. CASE (JoinerQuiet \/ Joiner!AnnounceEnd) /\ UNCHANGED <<state, ui, worker>>
  <2> USE DEF Joiner!ThreadAt, LifeInv
  <2>1. CASE Joiner!Wake \/ Joiner!ReplaceStop \/ Joiner!AnnounceEnd
    BY <2>1 DEF Joiner!Wake, Joiner!ReplaceStop, Joiner!AnnounceEnd
  <2>2. CASE Joiner!Woken
    BY <2>2 DEF Joiner!Woken, Joiner!MoreFiles
  <2>3. CASE Joiner!ReplaceDelete
    BY <2>3 DEF Joiner!ReplaceDelete
  <2>4. CASE Joiner!ReplaceOpen
    <3>1. lengths \in Seq(Nat) /\ current + 1 \in 1 .. Len(lengths)
      BY <2>4, FilesAssumption DEF Joiner!ReplaceOpen
    <3>2. lengths[current + 1] \in Nat
      BY <3>1
    <3> QED BY <2>4, <3>1, <3>2 DEF Joiner!ReplaceOpen
  <2> QED BY <1>7, <2>1, <2>2, <2>3, <2>4 DEF JoinerQuiet
<1> QED BY NextSplit, JoinerQuietSteps, <1>1, <1>2, <1>3, <1>4, <1>5, <1>6, <1>7

LEMMA FramesMembers ==
  ASSUME JoinerTypes
  PROVE  \A x : x \in Frames <=> /\ x = <<x[1], x[2]>>
                                 /\ x[1] \in DOMAIN lengths /\ x[2] \in 1 .. lengths[x[1]]
<1>1. ASSUME NEW x \in Frames
      PROVE  /\ x = <<x[1], x[2]>>
             /\ x[1] \in DOMAIN lengths /\ x[2] \in 1 .. lengths[x[1]]
  <2>1. PICK f \in DOMAIN lengths : x \in {f} \X (1 .. lengths[f])
    BY DEF Frames
  <2> QED BY <2>1
<1>2. ASSUME NEW x, x = <<x[1], x[2]>>,
             x[1] \in DOMAIN lengths, x[2] \in 1 .. lengths[x[1]]
      PROVE  x \in Frames
  <2>1. x \in {x[1]} \X (1 .. lengths[x[1]])
    BY <1>2
  <2> QED BY <1>2, <2>1 DEF Frames
<1> QED BY <1>1, <1>2

(* The steps that leave the queue, and the list of files, alone.           *)
LEMMA QueueQuietSteps ==
  \/ ChoiceStep \/ JoinerStop \/ DestroyJoin \/ BuildFail \/ JoinerRun \/ BuildLaunch
  \/ QuietWorker \/ ReaderQuiet \/ JoinerQuiet \/ UNCHANGED vars
  => UNCHANGED <<lengths, origin, channel>>
<1> USE DEF Joiner!channel, channel
<1>1. ChoiceStep \/ QuietWorker \/ UNCHANGED vars => UNCHANGED <<lengths, origin, channel>>
  BY ChoiceQuiet, WorkerQuiet DEF source, joiner, vars
<1>2. JoinerStop \/ JoinerRun => UNCHANGED <<lengths, origin, channel>>
  BY DEF JoinerStop, JoinerRun, Joiner!StopFlag, Joiner!StopSignal, Joiner!StopJoin,
         Joiner!StopReader, Joiner!StopDelete, Joiner!RunThread, Joiner!RunReader
<1>3. DestroyJoin \/ BuildFail \/ BuildLaunch => UNCHANGED <<lengths, origin, channel>>
  BY DEF DestroyJoin, BuildFail, BuildLaunch, source, joiner
<1>4. ReaderQuiet => UNCHANGED <<lengths, origin, channel>>
  BY DEF ReaderQuiet, Joiner!ReaderCall, Joiner!HandleStopped, Joiner!HandleData,
         Joiner!HandleEnd, Joiner!PutNothing
<1>5. JoinerQuiet => UNCHANGED <<lengths, origin, channel>>
  BY DEF JoinerQuiet, Joiner!Wake, Joiner!Woken, Joiner!ReplaceStop, Joiner!ReplaceDelete,
         Joiner!ReplaceOpen
<1> QED BY <1>1, <1>2, <1>3, <1>4, <1>5

LEMMA QueueKeeps ==
  ASSUME LifeInv, JoinerTypes, ReadInv, QueueTypes, QueueInv, [Next]_vars
  PROVE  QueueTypes' /\ QueueInv'
<1> USE DEF QueueTypes, QueueInv, channel
<1>1. CASE /\ UNCHANGED <<lengths, origin, channel>>
           /\ taped' \in {taped, last} /\ (upc' = "build" => upc = "build")
  <2>1. Frames' = Frames
    BY <1>1 DEF Frames
  <2> QED BY <1>1, <2>1
<1>2. CASE DestroyFree
  <2>1. /\ origin' = <<>> /\ chan' = <<>> /\ sent' = 0 /\ last' = 0 /\ closed' = FALSE
        /\ late' = FALSE /\ taped' = 0
    BY <1>2 DEF DestroyFree
  <2>2. <<>> \in Seq(Frames') /\ <<>> \in Seq(1 .. sent') /\ Len(<<>>) = 0
    OBVIOUS
  <2>3. origin' \in Seq(Frames') /\ Len(origin') = sent' /\ chan' \in Seq(1 .. sent')
    BY <2>1, <2>2
  <2>4. QueueInv'
    BY <2>1, <2>2
  <2>5. last' \in 0 .. sent' /\ taped' \in 0 .. last'
    BY <2>1
  <2> QED BY <2>1, <2>3, <2>4, <2>5
<1>3. CASE \E list \in FileLists : BuildJoiner(list)
  <2>1. UNCHANGED <<origin, chan, sent, last, closed, late, taped>> /\ upc = "build" /\ upc' # "build"
    BY <1>3 DEF BuildJoiner, Joiner!Construct, Joiner!channel, worker, UIAt
  <2>2. <<>> \in Seq(Frames')
    OBVIOUS
  <2>3. origin = <<>>
    BY <2>1
  <2>4. origin' \in Seq(Frames')
    BY <2>1, <2>2, <2>3, Zenon
  <2>5. QueueTypes'
    BY <2>1, <2>4
  <2> QED BY <2>1, <2>5
<1>4. CASE DestroyClose \/ (Joiner!AnnounceEnd /\ UNCHANGED <<state, ui, worker>>)
  <2>1. /\ UNCHANGED <<lengths, origin, taped, chan, sent, last, late>>
        /\ closed' \in {TRUE, closed} /\ upc' # "build"
    BY <1>4 DEF DestroyClose, Ch!Close, Joiner!AnnounceEnd, Joiner!ThreadAt, Joiner!Ch!Close,
                UIAt, joiner, channel, ui, worker, LifeInv
  <2>2. Frames' = Frames
    BY <2>1 DEF Frames
  <2> QED BY <2>1, <2>2
<1>5. CASE Joiner!PutFrame /\ UNCHANGED <<state, ui, worker>>
  <2>1. /\ rpc = "put" /\ Len(chan) < Capacity
        /\ chan' = Append(chan, sent + 1) /\ sent' = sent + 1 /\ late' = closed
        /\ UNCHANGED <<last, closed, lengths>>
        /\ origin' = Append(origin, <<reader, pos>>)
        /\ UNCHANGED <<upc, taped>>
    BY <1>5 DEF Joiner!PutFrame, Joiner!Ch!Send, ui, worker
  <2>2. reader = current /\ current \in DOMAIN lengths /\ pos \in 1 .. lengths[current]
    BY <2>1, OpenFile DEF LifeInv, ReadInv, JoinerTypes
  <2>3. <<reader, pos>> \in Frames /\ Frames' = Frames
    BY <2>1, <2>2, FramesMembers DEF Frames
  <2>4. origin' \in Seq(Frames') /\ Len(origin') = sent'
    BY <2>1, <2>3
  <2>5. chan' \in Seq(1 .. sent')
    <3>1. 1 .. sent \subseteq 1 .. sent'
      BY <2>1
    <3>2. chan \in Seq(1 .. sent')
      BY <3>1, SeqMonotonic
    <3> QED BY <2>1, <3>2
  <2>6. Len(chan') = sent' - last' /\ \A i \in 1 .. Len(chan') : chan'[i] = last' + i
    <3>1. /\ Len(chan) \in Nat /\ Len(chan') = Len(chan) + 1
          /\ \A i \in 1 .. Len(chan) : chan'[i] = chan[i]
          /\ chan'[Len(chan) + 1] = sent + 1
      BY <2>1
    <3>2. last + (Len(chan) + 1) = sent + 1
      BY <3>1
    <3>3. \A i \in 1 .. Len(chan') : i \in 1 .. Len(chan) \/ i = Len(chan) + 1
      BY <3>1
    <3> QED BY <2>1, <3>1, <3>2, <3>3
  <2>7. upc # "build"
    BY <2>1 DEF LifeInv
  <2> QED BY <2>1, <2>4, <2>5, <2>6, <2>7
<1>6. CASE GetFrame
  <2>1. /\ chan # <<>> /\ last' = Head(chan) /\ chan' = Tail(chan)
        /\ UNCHANGED <<sent, closed, late, lengths, origin, taped, upc>>
    BY <1>6 DEF GetFrame, Ch!Receive, joiner, ui
  <2>2. /\ Len(chan) \in Nat /\ Len(chan) > 0 /\ Len(chan') = Len(chan) - 1
        /\ chan' \in Seq(1 .. sent)
        /\ \A i \in 1 .. Len(chan') : chan'[i] = chan[i + 1] /\ i + 1 \in 1 .. Len(chan)
        /\ Head(chan) = chan[1]
    BY <2>1, HeadTailProperties
  <2>3. last' = last + 1 /\ last' \in 0 .. sent
    BY <2>1, <2>2
  <2>4. Len(chan') = sent - last' /\ \A i \in 1 .. Len(chan') : chan'[i] = last' + i
    BY <2>2, <2>3
  <2>5. Frames' = Frames
    BY <2>1 DEF Frames
  <2> QED BY <2>1, <2>2, <2>3, <2>4, <2>5
<1>7. \/ ChoiceStep \/ JoinerStop \/ DestroyJoin \/ BuildFail \/ JoinerRun \/ BuildLaunch
      \/ QuietWorker
      \/ (ReaderQuiet \/ JoinerQuiet) /\ UNCHANGED <<state, ui, worker>>
      \/ UNCHANGED vars
      => taped' \in {taped, last} /\ (upc' = "build" => upc = "build")
  <2>1. ChoiceStep => taped' = taped /\ upc' # "build"
    BY ChoiceQuiet DEF worker
  <2>2. QuietWorker => taped' \in {taped, last} /\ upc' = upc
    BY WorkerQuiet DEF QuietWorker, ThreadStart, GetNothing, GetEnd, GetWake, LoopTest, Forward,
       TestRecording, EndTest, Finish, ui
  <2> QED BY <2>1, <2>2 DEF JoinerStop, DestroyJoin, BuildFail, JoinerRun, BuildLaunch,
                            UIAt, ui, worker, vars
<1> QED BY NextSplit, QueueQuietSteps, <1>1, <1>2, <1>3, <1>4, <1>5, <1>6, <1>7

----------------------------------------------------------------------------
(* What was joined.                                                        *)

LEMMA SameFrames ==
  ASSUME UNCHANGED <<lengths, current>>, DonePos' = DonePos
  PROVE  DoneFrames' = DoneFrames
  BY DEF DoneFrames, Frames

(* The end of a file adds no frame to what was read.                       *)
LEMMA DoneAtEnd ==
  ASSUME JoinerTypes, UNCHANGED lengths, current # 0,
         DonePos \in Nat, DonePos >= lengths[current],
         \/ current' = current /\ DonePos' >= lengths[current] /\ DonePos' \in Nat
         \/ current' = current + 1 /\ DonePos' = 0
  PROVE  DoneFrames' = DoneFrames
<1>1. Frames' = Frames
  BY DEF Frames
<1>2. ASSUME NEW f \in Frames
      PROVE  /\ f[1] < current \/ (f[1] = current /\ f[2] <= DonePos) <=> f[1] <= current
             /\ f[1] < current' \/ (f[1] = current' /\ f[2] <= DonePos') <=> f[1] <= current
  <2>1. f[1] \in DOMAIN lengths /\ f[2] \in 1 .. lengths[f[1]]
    BY FramesMembers
  <2>2. f[1] \in Nat /\ f[2] \in Nat /\ f[2] > 0 /\ current \in Nat /\ lengths[current] \in Nat
    BY <2>1, OpenFile
  <2>3. f[1] = current => f[2] <= DonePos /\ (current' = current => f[2] <= DonePos')
    BY <2>1, <2>2
  <2> QED BY <2>2, <2>3
<1> QED BY <1>1, <1>2 DEF DoneFrames

LEMMA JoinReader ==
  ASSUME LifeInv, JoinerTypes, ReadInv, QueueTypes, JoinInv,
         ReaderQuiet \/ Joiner!PutFrame, UNCHANGED <<state, ui, worker>>
  PROVE  JoinInv'
<1>1. UNCHANGED <<lengths, current, reader, jpc, live, closed, Destroying>>
  BY DEF ReaderQuiet, Joiner!ReaderCall, Joiner!HandleStopped, Joiner!HandleData,
         Joiner!HandleEnd, Joiner!PutNothing, Joiner!PutFrame, Joiner!Ch!Send, Joiner!channel,
         Destroying, ui
<1> SUFFICES ASSUME ~Destroying PROVE Signaling' /\ Joined'
  BY <1>1 DEF JoinInv
<1>2. Signaling /\ Joined /\ ~stopping
  BY DEF JoinInv, LifeInv, Destroying
<1>3. rpc # "idle" \/ live =>
        /\ reader = current /\ current # 0 /\ current \in DOMAIN lengths
        /\ lengths[current] \in Nat /\ pos \in Nat /\ pos <= lengths[current] + 1
  BY OpenFile DEF LifeInv, JoinerTypes
<1>4. CASE Joiner!ReaderCall
  <2>1. rpc = "idle" /\ rpc' = "call" /\ pos' = pos + 1 /\ pos <= lengths[current] /\ live
        /\ UNCHANGED <<ev, origin>>
    BY <1>3, <1>4 DEF Joiner!ReaderCall, Joiner!AtEnd
  <2>2. Signaling'
    BY <1>1, <1>2, <1>3, <2>1 DEF Signaling, JoinerTypes
  <2>3. DonePos' = DonePos
    BY <1>3, <2>1 DEF DonePos
  <2>4. DoneFrames' = DoneFrames
    BY <1>1, <2>3, SameFrames
  <2> QED BY <1>2, <2>1, <2>2, <2>4 DEF Joined, Precedes
<1>5. CASE Joiner!HandleStopped \/ Joiner!PutNothing
  BY <1>2, <1>5 DEF Joiner!HandleStopped, Joiner!PutNothing, Signaling
<1>6. CASE Joiner!HandleData
  <2>1. rpc = "call" /\ rpc' = "put" /\ UNCHANGED <<ev, pos, origin>>
    BY <1>6 DEF Joiner!HandleData
  <2>2. Signaling'
    BY <1>1, <1>2, <2>1 DEF Signaling
  <2>3. DonePos' = DonePos
    BY <2>1 DEF DonePos
  <2>4. DoneFrames' = DoneFrames
    BY <1>1, <2>3, SameFrames
  <2> QED BY <1>2, <2>1, <2>2, <2>4 DEF Joined, Precedes
<1>7. CASE Joiner!HandleEnd
  <2>1. /\ rpc = "call" /\ rpc' = "idle" /\ ev' = TRUE /\ UNCHANGED <<pos, origin>>
        /\ pos = lengths[current] + 1
    BY <1>3, <1>7 DEF Joiner!HandleEnd, Joiner!AtEnd
  <2>2. Signaling'
    BY <1>1, <1>2, <1>3, <2>1 DEF Signaling
  <2>3. /\ DonePos \in Nat /\ DonePos >= lengths[current]
        /\ DonePos' \in Nat /\ DonePos' >= lengths[current]
    BY <1>3, <2>1 DEF DonePos
  <2>4. DoneFrames' = DoneFrames
    BY <1>1, <1>3, <2>1, <2>3, DoneAtEnd
  <2> QED BY <1>2, <2>1, <2>2, <2>4 DEF Joined, Precedes
<1>8. CASE Joiner!PutFrame
  <2>1. /\ rpc = "put" /\ rpc' = "idle" /\ UNCHANGED <<ev, pos>>
        /\ origin' = Append(origin, <<current, pos>>)
        /\ pos \in 1 .. lengths[current]
    BY <1>3, <1>8 DEF Joiner!PutFrame, ReadInv
  <2> DEFINE N == Len(origin) + 1
             x == <<current, pos>>
  <2>2. /\ DOMAIN origin = 1 .. Len(origin) /\ Len(origin) \in Nat
        /\ DOMAIN origin' = DOMAIN origin \cup {N} /\ N \notin DOMAIN origin
        /\ \A m \in DOMAIN origin : origin'[m] = origin[m] /\ m < N
        /\ origin'[N] = x
    BY <2>1 DEF QueueTypes
  <2>3. Signaling'
    BY <1>1, <1>2, <2>1 DEF Signaling
  <2>4. DoneFrames' = DoneFrames \cup {x}
    <3>1. Frames' = Frames
      BY <1>1 DEF Frames
    <3>2. DonePos = pos - 1 /\ DonePos' = pos
      BY <2>1 DEF DonePos
    <3>3. x \in Frames
      BY <1>3, <2>1, FramesMembers
    <3>4. ASSUME NEW f \in Frames
          PROVE  f \in DoneFrames' <=> f \in DoneFrames \/ f = x
      <4>1. f = <<f[1], f[2]>> /\ f[1] \in Nat /\ f[2] \in Nat
        BY FramesMembers, OpenFile
      <4>2. f \in DoneFrames <=> f[1] < current \/ (f[1] = current /\ f[2] <= pos - 1)
        BY <3>2 DEF DoneFrames
      <4>3. f \in DoneFrames' <=> f[1] < current \/ (f[1] = current /\ f[2] <= pos)
        BY <1>1, <3>1, <3>2 DEF DoneFrames
      <4>4. f = x <=> f[1] = current /\ f[2] = pos
        BY <4>1
      <4> QED BY <1>3, <2>1, <4>1, <4>2, <4>3, <4>4
    <3>5. DoneFrames \subseteq Frames /\ DoneFrames' \subseteq Frames
      BY <3>1 DEF DoneFrames
    <3> QED BY <3>3, <3>4, <3>5
  <2>5. {origin'[m] : m \in DOMAIN origin'} = DoneFrames \cup {x}
    <3>1. {origin'[m] : m \in DOMAIN origin'}
            = {origin'[m] : m \in DOMAIN origin} \cup {origin'[N]}
      BY <2>2
    <3>2. {origin'[m] : m \in DOMAIN origin} = {origin[m] : m \in DOMAIN origin}
      BY <2>2
    <3> QED BY <1>2, <2>2, <3>1, <3>2 DEF Joined
  <2>6. \A m \in DOMAIN origin : Precedes(origin[m], x)
    <3>1. ASSUME NEW f \in DoneFrames PROVE Precedes(f, x)
      <4>1. f[1] \in Nat /\ f[2] \in Nat
        BY FramesMembers, OpenFile DEF DoneFrames
      <4> QED BY <1>3, <2>1, <4>1 DEF DoneFrames, DonePos, Precedes
    <3> QED BY <1>2, <3>1 DEF Joined
  <2>7. \A m, n \in DOMAIN origin' : m < n => Precedes(origin'[m], origin'[n])
    <3> SUFFICES ASSUME NEW m \in DOMAIN origin', NEW n \in DOMAIN origin', m < n
                 PROVE  Precedes(origin'[m], origin'[n])
      OBVIOUS
    <3>1. m \in DOMAIN origin
      BY <2>2
    <3>2. CASE n \in DOMAIN origin
      BY <1>2, <2>2, <3>1, <3>2 DEF Joined
    <3>3. CASE n = N
      BY <2>2, <2>6, <3>1, <3>3
    <3> QED BY <2>2, <3>2, <3>3
  <2> QED BY <2>3, <2>4, <2>5, <2>7 DEF Joined, Precedes
<1> QED BY <1>4, <1>5, <1>6, <1>7, <1>8 DEF ReaderQuiet

LEMMA JoinThread ==
  ASSUME LifeInv, JoinerTypes, ReadInv, QueueTypes, JoinInv,
         JoinerQuiet \/ Joiner!AnnounceEnd, UNCHANGED <<state, ui, worker>>
  PROVE  JoinInv'
<1> USE DEF Joiner!ThreadAt, Joiner!channel
<1>1. UNCHANGED <<lengths, rpc, origin, Destroying>>
  BY DEF JoinerQuiet, Joiner!Wake, Joiner!Woken, Joiner!ReplaceStop, Joiner!ReplaceDelete,
         Joiner!ReplaceOpen, Joiner!AnnounceEnd, Destroying, ui
<1> SUFFICES ASSUME ~Destroying PROVE Signaling' /\ Joined'
  BY <1>1 DEF JoinInv
<1>2. Signaling /\ Joined /\ ~stopping
  BY DEF JoinInv, LifeInv, Destroying
<1>3. CASE Joiner!Wake \/ Joiner!Woken \/ Joiner!ReplaceStop \/ Joiner!ReplaceDelete
           \/ Joiner!AnnounceEnd
  <2>1. UNCHANGED <<current, pos>>
    BY <1>3 DEF Joiner!Wake, Joiner!Woken, Joiner!ReplaceStop, Joiner!ReplaceDelete,
                Joiner!AnnounceEnd
  <2>2. Signaling'
    <3>1. CASE Joiner!Wake
      BY <1>1, <1>2, <2>1, <3>1 DEF Joiner!Wake, Signaling
    <3>2. CASE Joiner!Woken
      BY <1>1, <1>2, <2>1, <3>2 DEF Joiner!Woken, Joiner!MoreFiles, Signaling, JoinerTypes
    <3>3. CASE Joiner!ReplaceStop \/ Joiner!ReplaceDelete
      BY <1>1, <1>2, <2>1, <3>3 DEF Joiner!ReplaceStop, Joiner!ReplaceDelete, Signaling
    <3>4. CASE Joiner!AnnounceEnd
      BY <1>1, <1>2, <2>1, <3>4 DEF Joiner!AnnounceEnd, Joiner!Ch!Close, Signaling
    <3> QED BY <1>3, <3>1, <3>2, <3>3, <3>4
  <2>3. DoneFrames' = DoneFrames
    BY <1>1, <2>1, SameFrames DEF DonePos
  <2> QED BY <1>1, <1>2, <2>2, <2>3 DEF Joined, Precedes
<1>4. CASE Joiner!ReplaceOpen
  <2>1. /\ jpc = "open" /\ jpc' = "wait" /\ current' = current + 1 /\ pos' = 0
        /\ UNCHANGED <<ev, closed>>
    BY <1>4 DEF Joiner!ReplaceOpen
  <2>2. rpc = "idle" /\ current # 0 /\ pos = lengths[current] + 1
    BY <1>2, <2>1 DEF Signaling
  <2>3. Signaling'
    BY <1>1, <1>2, <2>1, <2>2 DEF Signaling
  <2>4. DonePos \in Nat /\ DonePos >= lengths[current] /\ DonePos' = 0
    BY <1>1, <2>1, <2>2, OpenFile DEF DonePos, JoinerTypes
  <2>5. DoneFrames' = DoneFrames
    BY <1>1, <2>1, <2>2, <2>4, DoneAtEnd
  <2> QED BY <1>1, <1>2, <2>3, <2>5 DEF Joined, Precedes
<1> QED BY <1>3, <1>4 DEF JoinerQuiet

(* A session that has read nothing.                                        *)
Fresh ==
  /\ JoinerTypes /\ QueueTypes
  /\ sent = 0 /\ ~closed
  /\ jpc = "none" /\ rpc = "idle" /\ ~ev /\ ~live
  /\ current \in {0, 1} /\ pos = 0

LEMMA NothingJoined == Fresh => Signaling /\ Joined
<1> SUFFICES ASSUME Fresh PROVE Signaling /\ Joined
  OBVIOUS
<1> USE DEF Fresh
<1>1. Signaling
  BY DEF Signaling
<1>2. origin = <<>> /\ DOMAIN origin = {}
  BY DEF QueueTypes
<1>3. DoneFrames = {}
  <2> SUFFICES ASSUME NEW f \in DoneFrames PROVE FALSE
    OBVIOUS
  <2>1. f[1] \in DOMAIN lengths /\ f[2] \in 1 .. lengths[f[1]]
    BY FramesMembers DEF DoneFrames
  <2>2. f[1] \in Nat /\ f[1] > 0 /\ f[2] \in Nat /\ f[2] > 0 /\ DonePos = 0
    BY <2>1, OpenFile DEF DonePos
  <2>3. f[1] < current \/ (f[1] = current /\ f[2] <= DonePos)
    BY DEF DoneFrames
  <2> QED BY <2>2, <2>3
<1> QED BY <1>1, <1>2, <1>3 DEF Joined

LEMMA JoinKeeps ==
  ASSUME LifeInv, JoinerTypes, ReadInv, QueueTypes, QueueInv, JoinInv, [Next]_vars,
         LifeInv', JoinerTypes', QueueTypes'
  PROVE  JoinInv'
<1>1. CASE (ReaderQuiet \/ Joiner!PutFrame) /\ UNCHANGED <<state, ui, worker>>
  BY <1>1, JoinReader
<1>2. CASE (JoinerQuiet \/ Joiner!AnnounceEnd) /\ UNCHANGED <<state, ui, worker>>
  BY <1>2, JoinThread
<1>3. CASE DestroyClose \/ JoinerStop \/ DestroyJoin
  BY <1>3 DEF DestroyClose, JoinerStop, DestroyJoin, UIAt, Destroying, JoinInv
<1>4. CASE DestroyFree
  <2>1. /\ sent' = 0 /\ ~ev' /\ ~closed' /\ current' = 0 /\ pos' = 0 /\ lengths' = <<>>
        /\ jpc = "none" /\ rpc = "idle" /\ ~live /\ UNCHANGED <<jpc, rpc, live>>
    BY <1>4 DEF DestroyFree, UIAt, LifeInv
  <2>2. Fresh' => (Signaling /\ Joined)'
    BY NothingJoined, PTL
  <2>3. Fresh'
    BY <2>1 DEF Fresh
  <2> QED BY <2>2, <2>3 DEF JoinInv
<1>5. CASE \E list \in FileLists : BuildJoiner(list)
  <2>1. /\ sent' = 0 /\ ~ev' /\ ~closed' /\ current' = 1 /\ pos' = 0
        /\ jpc = "none" /\ rpc = "idle" /\ ~live /\ UNCHANGED <<jpc, rpc, live>>
    BY <1>5 DEF BuildJoiner, UIAt, Joiner!Construct, Joiner!channel, LifeInv, QueueInv
  <2>2. Fresh' => (Signaling /\ Joined)'
    BY NothingJoined, PTL
  <2>3. Fresh'
    BY <2>1 DEF Fresh
  <2> QED BY <2>2, <2>3 DEF JoinInv
<1>6. CASE JoinerRun
  <2>1. /\ UNCHANGED <<lengths, current, pos, rpc, ev, origin, closed>>
        /\ rpc = "idle" /\ ~ev /\ ~Destroying
        /\ jpc \in {"none", "wait"} /\ jpc' = "wait"
    BY <1>6 DEF JoinerRun, UIAt, Joiner!RunThread, Joiner!RunReader, Joiner!channel, LifeInv,
                Destroying
  <2>2. Signaling'
    BY <2>1 DEF JoinInv, Signaling
  <2>3. DoneFrames' = DoneFrames
    BY <2>1, SameFrames DEF DonePos
  <2> QED BY <2>1, <2>2, <2>3 DEF JoinInv, Joined, Precedes
<1>7. CASE /\ UNCHANGED <<joiner, closed>> /\ (Destroying => Destroying')
  <2>1. DoneFrames' = DoneFrames
    BY <1>7, SameFrames DEF DonePos, joiner
  <2> QED BY <1>7, <2>1 DEF JoinInv, Signaling, Joined, Precedes, joiner
<1>8. ChoiceStep \/ BuildFail \/ BuildLaunch \/ QuietWorker \/ GetFrame \/ UNCHANGED vars
      => UNCHANGED <<joiner, closed>> /\ (Destroying => Destroying')
  <2>1. ChoiceStep => UNCHANGED <<joiner, closed>> /\ (Destroying => Destroying')
    BY ChoiceQuiet DEF Destroying, source, channel
  <2>2. QuietWorker \/ GetFrame => UNCHANGED <<joiner, closed>> /\ (Destroying => Destroying')
    BY WorkerQuiet DEF GetFrame, Ch!Receive, Destroying, source, channel, ui
  <2>3. BuildFail \/ BuildLaunch \/ UNCHANGED vars
        => UNCHANGED <<joiner, closed>> /\ (Destroying => Destroying')
    BY DEF BuildFail, BuildLaunch, UIAt, Destroying, source, channel, ui, vars
  <2> QED BY <2>1, <2>2, <2>3
<1> QED BY NextSplit, <1>1, <1>2, <1>3, <1>4, <1>5, <1>6, <1>7, <1>8

----------------------------------------------------------------------------
(* What is on the tape.                                                    *)

LEMMA TapeKeeps ==
  ASSUME LifeInv, JoinerTypes, QueueTypes, QueueInv, TapeInv, [Next]_vars
  PROVE  TapeInv'
<1> USE DEF TapeInv
<1>1. CASE ChoiceStep
  BY <1>1, ChoiceQuiet DEF source, channel, worker
<1>2. CASE DestroyClose \/ JoinerStop
  <2>1. UNCHANGED <<state, wpc, taped, last>> /\ (closed => closed')
        /\ upc' \notin {"build", "runThread", "runReader", "launch"}
    BY <1>2, QueueQuietSteps DEF DestroyClose, Ch!Close, JoinerStop, UIAt, worker, channel
  <2> QED BY <2>1
<1>3. CASE DestroyJoin \/ DestroyFree
  BY <1>3 DEF DestroyJoin, DestroyFree, UIAt, LifeInv, Alive, source, channel
<1>4. CASE BuildFail \/ BuildLaunch
  BY <1>4 DEF BuildFail, BuildLaunch, UIAt, LifeInv, Alive, source, channel, worker
<1>5. CASE JoinerRun \/ \E list \in FileLists : BuildJoiner(list)
  BY <1>5 DEF JoinerRun, BuildJoiner, UIAt, Joiner!RunThread, Joiner!RunReader,
              Joiner!Construct, Joiner!channel, worker
<1>6. CASE QuietWorker
  <2>1. UNCHANGED <<upc, last, closed>> /\ Alive
    BY <1>6, WorkerQuiet DEF ui, source, channel
  <2>2. upc \notin {"build", "runThread", "runReader", "launch"}
    BY <2>1 DEF LifeInv
  <2>3. CASE ThreadStart \/ GetNothing \/ GetEnd \/ GetWake
    BY <2>1, <2>2, <2>3 DEF ThreadStart, GetNothing, GetEnd, GetWake, WorkerAt, First, QueueTypes
  <2>4. CASE LoopTest \/ EndTest \/ Finish
    BY <2>1, <2>2, <2>4 DEF LoopTest, EndTest, Finish, WorkerAt
  <2>5. CASE TestRecording
    BY <2>1, <2>2, <2>5 DEF TestRecording, WorkerAt
  <2>6. CASE Forward
    BY <2>1, <2>2, <2>6 DEF Forward, WorkerAt, QueueTypes
  <2> QED BY <1>6, <2>3, <2>4, <2>5, <2>6 DEF QuietWorker
<1>7. CASE GetFrame
  BY <1>7 DEF GetFrame, WorkerAt, LifeInv, Alive, ui
<1>8. CASE (ReaderQuiet \/ JoinerQuiet) /\ UNCHANGED <<state, ui, worker>>
  BY <1>8, QueueQuietSteps DEF ui, worker, channel
<1>9. CASE (Joiner!PutFrame \/ Joiner!AnnounceEnd) /\ UNCHANGED <<state, ui, worker>>
  BY <1>9 DEF Joiner!PutFrame, Joiner!AnnounceEnd, Joiner!Ch!Send, Joiner!Ch!Close, ui, worker
<1>10. CASE UNCHANGED vars
  BY <1>10 DEF vars, ui, worker, source, channel
<1> QED BY NextSplit, <1>1, <1>2, <1>3, <1>4, <1>5, <1>6, <1>7, <1>8, <1>9, <1>10

----------------------------------------------------------------------------
LEMMA StartsWell == Init => IInv
<1> SUFFICES ASSUME Init PROVE IInv
  OBVIOUS
<1> USE DEF Init, Joiner!Init, Joiner!Ch!Init
<1>1. LifeInv /\ ThreadTypes
  BY DEF LifeInv, Alive, ThreadTypes
<1>2. /\ <<>> \in Seq(Frames) /\ <<>> \in Seq(1 .. 0) /\ Len(<<>>) = 0
  OBVIOUS
<1>3. JoinerTypes /\ ReadInv
  <2>1. lengths \in FileLists \cup {<<>>} /\ current \in 0 .. Len(lengths)
    BY <1>2
  <2> QED BY <2>1 DEF JoinerTypes, ReadInv
<1>4. QueueTypes
  <2>1. origin \in Seq(Frames) /\ chan \in Seq(1 .. sent) /\ Len(origin) = sent
    BY <1>2, Zenon
  <2>2. last \in 0 .. sent /\ taped \in 0 .. last
    OBVIOUS
  <2> QED BY <2>1, <2>2 DEF QueueTypes
<1>5. QueueInv
  BY <1>2 DEF QueueInv
<1>6. JoinInv
  BY <1>3, <1>4, NothingJoined DEF JoinInv, Fresh
<1>7. TapeInv
  BY DEF TapeInv
<1> QED BY <1>1, <1>3, <1>4, <1>5, <1>6, <1>7 DEF IInv, TypeOK

(* The conjunction of all the parts holds in every reachable state.        *)
THEOREM Invariance == Spec => []IInv
<1>1. Init => IInv
  BY StartsWell
<1>2. IInv /\ [Next]_vars => IInv'
  <2> SUFFICES ASSUME IInv, [Next]_vars PROVE IInv'
    OBVIOUS
  <2>1. LifeInv' /\ ThreadTypes' /\ JoinerTypes' /\ ReadInv' /\ QueueTypes' /\ QueueInv'
    BY LifeKeeps, ThreadTypesKeep, JoinerTypesKeep, QueueKeeps DEF IInv, TypeOK
  <2> QED BY <2>1, JoinKeeps, TapeKeeps DEF IInv, TypeOK
<1> QED BY <1>1, <1>2, PTL DEF Spec

(* Every variable of a recording session keeps its type, whatever files    *)
(* are played.                                                             *)
THEOREM TypeCorrect == Spec => []TypeOK
<1>1. IInv => TypeOK
  BY DEF IInv
<1> QED BY <1>1, Invariance, PTL

(* Destroy and JoinerThread delete a reader, the queue or the output only  *)
(* when no thread can still reach it.                                      *)
THEOREM PipelineSafe == Spec => []PipelineOutlivesThreads
<1>1. IInv => PipelineOutlivesThreads
  BY DEF IInv, LifeInv, PipelineOutlivesThreads
<1> QED BY <1>1, Invariance, PTL

(* The same at rest as for a capture, and more: the worker assigns         *)
(* Finished only before it tests m_state again, so that Finished does not  *)
(* outlive it.                                                             *)
IdleWithoutWorker == wpc = "none" => state = "Idle"
RestInv ==
  /\ wpc = "none" => state \in {"Idle", "Finished"}
  /\ Destroying \/ upc \in {"build", "runThread", "runReader", "launch"}
       => state \in {"Idle", "Finished"}
  /\ upc \in {"start", "pause"} => wpc # "none"

LEMMA RestKeeps ==
  ASSUME RestInv, [Next]_vars
  PROVE  RestInv'
<1> USE DEF RestInv, Destroying, ui, worker
<1>1. CASE ChoiceStep
  BY <1>1 DEF ChoiceStep, Destroy, StartTest, StopTest, StartState, StopState, Test, Assign,
              UIAt
<1>2. CASE DestroyClose \/ JoinerStop \/ DestroyJoin \/ DestroyFree
  BY <1>2 DEF DestroyClose, JoinerStop, DestroyJoin, DestroyFree, UIAt
<1>3. CASE BuildFail \/ (\E list \in FileLists : BuildJoiner(list)) \/ JoinerRun \/ BuildLaunch
  BY <1>3 DEF BuildFail, BuildJoiner, JoinerRun, BuildLaunch, UIAt
<1>4. CASE QuietWorker
  BY <1>4 DEF QuietWorker, ThreadStart, GetNothing, GetEnd, GetWake, LoopTest, Forward,
              TestRecording, EndTest, Finish, WorkerAt
<1>5. CASE GetFrame
  BY <1>5 DEF GetFrame, WorkerAt
<1>6. CASE UNCHANGED <<state, ui, worker>>
  BY <1>6
<1> QED BY NextSplit, <1>1, <1>2, <1>3, <1>4, <1>5, <1>6 DEF vars

(* Without a worker m_state is Idle: when Destroy comes back the session   *)
(* is at rest, and StartRecording finds nothing to start before            *)
(* BuildRecording has made a worker.                                       *)
THEOREM AtRestWithoutWorker == Spec => []IdleWithoutWorker
<1>1. Init => RestInv
  BY DEF Init, RestInv, Destroying
<1>2. RestInv /\ [Next]_vars => RestInv'
  BY RestKeeps
<1>3. IInv /\ RestInv => IdleWithoutWorker
  BY DEF IInv, TapeInv, RestInv, IdleWithoutWorker
<1> QED BY <1>1, <1>2, <1>3, Invariance, PTL DEF Spec

(* Destroy waits for JoinerThread, for the reader and for the worker.      *)
(* None of them waits itself by then: JoinerThread has its signal, and the *)
(* queue is closed, so that Put and Get come back.                         *)
DestroyUnblocked ==
  /\ upc = "stopJoin" /\ jpc = "wait" => ev
  /\ upc \in {"stopJoin", "stopDelete"} /\ rpc = "put" => closed
  /\ upc = "join" /\ Alive => closed

(* JoinerThread may be replacing the reader when it is told to stop, and   *)
(* wait again after that: the signal must still be there, unless it went   *)
(* to a thread that has yet to look at m_stopping.                         *)
ToldInv ==
  /\ upc \in {"stopSignal", "stopJoin", "stopReader", "stopDelete"} => stopping
  /\ upc = "stopJoin" /\ jpc \in {"wait", "replace", "drain", "open"} => ev
  /\ upc \in {"stopFlag", "stopSignal", "stopJoin", "stopReader", "stopDelete", "join"} /\ built
       => closed

LEMMA StaysTold ==
  ASSUME LifeInv, ToldInv, [Next]_vars
  PROVE  ToldInv'
<1> USE DEF ToldInv, ui, source, joiner, channel
<1>1. CASE ChoiceStep
  BY <1>1, ChoiceQuiet
<1>2. CASE DestroyClose \/ DestroyJoin \/ DestroyFree
  BY <1>2 DEF DestroyClose, DestroyJoin, DestroyFree, UIAt, Ch!Close
<1>3. CASE JoinerStop
  BY <1>3 DEF JoinerStop, UIAt, Joiner!StopFlag, Joiner!StopSignal, Joiner!StopJoin,
              Joiner!StopReader, Joiner!StopDelete, Joiner!channel
<1>4. CASE BuildFail \/ BuildLaunch \/ JoinerRun
  BY <1>4 DEF BuildFail, BuildLaunch, JoinerRun, UIAt, Joiner!RunThread, Joiner!RunReader
<1>5. CASE \E list \in FileLists : BuildJoiner(list)
  BY <1>5 DEF BuildJoiner, UIAt
<1>6. CASE QuietWorker
  BY <1>6, WorkerQuiet
<1>7. CASE GetFrame
  BY <1>7 DEF GetFrame, Ch!Receive
<1>8. CASE (ReaderQuiet \/ Joiner!PutFrame) /\ UNCHANGED <<state, ui, worker>>
  BY <1>8 DEF ReaderQuiet, Joiner!ReaderCall, Joiner!HandleStopped, Joiner!HandleData,
              Joiner!HandleEnd, Joiner!PutNothing, Joiner!PutFrame, Joiner!channel, Ch!Send,
              Joiner!Ch!Send
<1>9. CASE (JoinerQuiet \/ Joiner!AnnounceEnd) /\ UNCHANGED <<state, ui, worker>>
  BY <1>9 DEF JoinerQuiet, Joiner!ThreadAt, Joiner!Wake, Joiner!Woken, Joiner!ReplaceStop,
              Joiner!ReplaceDelete, Joiner!ReplaceOpen, Joiner!AnnounceEnd, Joiner!channel,
              Joiner!Ch!Close
<1>10. CASE UNCHANGED vars
  BY <1>10 DEF vars
<1> QED BY NextSplit, <1>1, <1>2, <1>3, <1>4, <1>5, <1>6, <1>7, <1>8, <1>9, <1>10

(* Nobody Destroy waits for is waiting itself, wherever JoinerThread was   *)
(* when Stop came: m_stopping is set before m_ev, and m_ev stays until     *)
(* JoinerThread looks at m_stopping. What is left for DestroyReturnsIfIdle *)
(* is that threads run and that the worker finds m_state Idle.             *)
THEOREM DestroyNotBlocked == Spec => []DestroyUnblocked
<1>1. Init => ToldInv
  BY DEF Init, ToldInv
<1>2. IInv /\ ToldInv /\ [Next]_vars => ToldInv'
  BY StaysTold DEF IInv
<1>3. IInv /\ ToldInv => DestroyUnblocked
  BY DEF IInv, LifeInv, ToldInv, DestroyUnblocked
<1> QED BY <1>1, <1>2, <1>3, Invariance, PTL DEF Spec

(* Once the end of stream is announced the queue got every frame.          *)
LEMMA AllAtEnd ==
  ASSUME IInv, closed, ~Destroying
  PROVE  Len(origin) = Cardinality(Frames)
<1>1. /\ jpc = "exited" /\ current # 0 /\ current = Len(lengths)
      /\ pos = lengths[current] + 1 /\ rpc = "idle"
      /\ {origin[m] : m \in DOMAIN origin} = DoneFrames
      /\ \A m, n \in DOMAIN origin : m < n => Precedes(origin[m], origin[n])
  BY DEF IInv, JoinInv, Signaling, Joined
<1>2. DoneFrames = Frames
  <2> SUFFICES ASSUME NEW f \in Frames PROVE f[1] < current \/ (f[1] = current /\ f[2] <= DonePos)
    BY DEF DoneFrames
  <2>1. f[1] \in 1 .. Len(lengths) /\ f[2] \in 1 .. lengths[f[1]] /\ lengths[current] \in Nat
    BY <1>1, FramesMembers, OpenFile DEF IInv, TypeOK
  <2> QED BY <1>1, <2>1 DEF DonePos
<1> DEFINE n == Len(origin)
<1>3. n \in Nat /\ DOMAIN origin = 1 .. n /\ origin \in [1 .. n -> Frames]
  BY DEF IInv, TypeOK, QueueTypes
<1>4. \A k, m \in 1 .. n : origin[k] = origin[m] => k = m
  <2> SUFFICES ASSUME NEW k \in 1 .. n, NEW m \in 1 .. n, k < m PROVE origin[k] # origin[m]
    BY <1>3
  <2>1. Precedes(origin[k], origin[m])
    BY <1>1, <1>3
  <2>2. origin[k][1] \in Nat /\ origin[k][2] \in Nat
    BY <1>3, FramesMembers, OpenFile DEF IInv, TypeOK
  <2> QED BY <2>1, <2>2 DEF Precedes
<1>5. \A f \in Frames : \E m \in 1 .. n : origin[m] = f
  BY <1>1, <1>2, <1>3
<1>6. origin \in Bijection(1 .. n, Frames)
  BY <1>3, <1>4, <1>5 DEF Bijection, Injection, Surjection, IsInjective
<1>7. ExistsBijection(1 .. n, Frames)
  BY <1>6 DEF ExistsBijection
<1> QED BY <1>3, <1>7, FS_CountingElements

(* The streaming threads, JoinerThread and the queue lose, repeat and      *)
(* reorder no frame of the files, and the end of stream follows the last.  *)
THEOREM JoinedCompletely == Spec => []FilesJoined
<1>1. ASSUME IInv PROVE JoinedInOrder
  <2> SUFFICES ASSUME ~Destroying, NEW n \in DOMAIN origin
               PROVE  {origin[m] : m \in 1 .. n - 1} = {f \in Frames : Precedes(f, origin[n])}
    BY DEF JoinedInOrder
  <2>1. Joined /\ DOMAIN origin = 1 .. Len(origin) /\ Len(origin) \in Nat
    BY <1>1 DEF IInv, TypeOK, QueueTypes, JoinInv
  <2>2. \A m \in DOMAIN origin : origin[m] \in Frames /\ origin[m] \in DoneFrames
    BY <1>1, <2>1 DEF IInv, TypeOK, QueueTypes, Joined
  <2>3. \A f \in Frames : f[1] \in Nat /\ f[2] \in Nat
    BY <1>1, FramesMembers, OpenFile DEF IInv, TypeOK
  <2>4. \A m \in 1 .. n - 1 : origin[m] \in Frames /\ Precedes(origin[m], origin[n])
    <3> TAKE m \in 1 .. n - 1
    <3>1. m \in DOMAIN origin /\ m < n
      BY <2>1
    <3> QED BY <2>1, <2>2, <3>1 DEF Joined
  <2>5. ASSUME NEW f \in Frames, Precedes(f, origin[n])
        PROVE  \E m \in 1 .. n - 1 : origin[m] = f
    <3>1. f \in DoneFrames
      <4>1. origin[n][1] < current \/ (origin[n][1] = current /\ origin[n][2] <= DonePos)
        BY <2>2 DEF DoneFrames
      <4>2. current \in Nat /\ DonePos \in Int
        BY <1>1 DEF IInv, TypeOK, JoinerTypes, DonePos
      <4> QED BY <2>2, <2>3, <2>5, <4>1, <4>2 DEF DoneFrames, Precedes
    <3>2. PICK m \in DOMAIN origin : origin[m] = f
      BY <2>1, <3>1 DEF Joined
    <3>3. ~(n < m) /\ n # m
      BY <2>1, <2>2, <2>3, <2>5, <3>2 DEF Joined, Precedes
    <3> QED BY <2>1, <3>2, <3>3
  <2> QED BY <2>4, <2>5
<1>2. IInv => EndAfterAllFiles
  BY AllAtEnd DEF EndAfterAllFiles
<1>3. IInv => FilesJoined
  BY <1>1, <1>2 DEF FilesJoined
<1> QED BY <1>3, Invariance, PTL

(* m_state becomes Finished only when every file was joined and the last   *)
(* frame taken from the queue is on the tape; and it says so until Destroy.*)
THEOREM FinishedMeansTaped == Spec => []FinishedAfterTape
<1>1. IInv => FinishedAfterTape
  <2> SUFFICES ASSUME IInv, state = "Finished", ~Destroying
               PROVE  /\ Len(origin) = Cardinality(Frames)
                      /\ taped > 0 /\ taped = sent - Len(chan)
    BY DEF FinishedAfterTape
  <2>1. closed /\ taped = last /\ taped > 0
    BY DEF IInv, TapeInv
  <2>2. Len(chan) = sent - last /\ sent \in Nat /\ last \in Nat
    BY DEF IInv, QueueInv, TypeOK, QueueTypes
  <2> QED BY <2>1, <2>2, AllAtEnd
<1> QED BY <1>1, Invariance, PTL

----------------------------------------------------------------------------
(* The worker never waits for a source that has nothing left to do.        *)

(* With the queue empty and open, JoinerThread is on its way, or has its   *)
(* signal, or the reader has a frame or the end of its file to hand on.    *)
SourceOwes ==
  Alive /\ ~Destroying /\ chan = <<>> /\ ~closed =>
    \/ jpc \in {"woken", "replace", "drain", "open", "end"} /\ rpc = "idle"
    \/ jpc = "wait" /\ (ev \/ (rpc # "idle" /\ ~late) \/ (live /\ ~Joiner!AtEnd))

Playing == upc = "launch" \/ (Alive /\ ~Destroying)

(* While JoinerThread waits its reader runs, and between two calls has not *)
(* come to the end of its file without having said so.                     *)
PlayInv ==
  /\ upc \in {"runThread", "runReader"} => pos = 0
  /\ late => closed
  /\ Playing =>
       /\ jpc # "none" /\ (jpc = "exited" => closed)
       /\ jpc = "wait" => live /\ (rpc = "idle" => ev \/ pos <= lengths[reader])

LEMMA PlayReader ==
  ASSUME LifeInv, JoinerTypes, ReadInv, JoinInv, PlayInv,
         ReaderQuiet \/ Joiner!PutFrame, UNCHANGED <<state, ui, worker>>
  PROVE  PlayInv'
<1>1. /\ UNCHANGED <<upc, jpc, live, reader, lengths, closed, stopping>>
      /\ Playing' = Playing /\ Destroying' = Destroying
  BY DEF ReaderQuiet, Joiner!ReaderCall, Joiner!HandleStopped, Joiner!HandleData,
         Joiner!HandleEnd, Joiner!PutNothing, Joiner!PutFrame, Joiner!channel, Joiner!Ch!Send,
         ui, worker, Playing, Alive, Destroying
<1>2. upc \notin {"runThread", "runReader"}
  BY DEF LifeInv, ReaderQuiet, Joiner!ReaderCall, Joiner!HandleStopped, Joiner!HandleData,
         Joiner!HandleEnd, Joiner!PutNothing, Joiner!PutFrame
<1>3. late' => closed'
  BY DEF PlayInv, ReaderQuiet, Joiner!ReaderCall, Joiner!HandleStopped, Joiner!HandleData,
         Joiner!HandleEnd, Joiner!PutNothing, Joiner!PutFrame, Joiner!channel, Joiner!Ch!Send
<1>4. ASSUME Playing, jpc = "wait", rpc' = "idle" PROVE ev' \/ pos' <= lengths'[reader']
  <2>1. ~Destroying /\ ~stopping
    BY <1>4 DEF Playing, Destroying, LifeInv
  <2>2. CASE Joiner!PutFrame \/ Joiner!PutNothing
    BY <2>2, <1>1 DEF Joiner!PutFrame, Joiner!PutNothing, ReadInv
  <2>3. CASE Joiner!HandleEnd
    BY <2>3 DEF Joiner!HandleEnd
  <2> QED BY <1>4, <2>1, <2>2, <2>3 DEF ReaderQuiet, Joiner!ReaderCall, Joiner!HandleStopped,
                                        Joiner!HandleData
<1> QED BY <1>1, <1>2, <1>3, <1>4 DEF PlayInv

LEMMA PlayThread ==
  ASSUME LifeInv, JoinerTypes, ReadInv, JoinInv, PlayInv,
         JoinerQuiet \/ Joiner!AnnounceEnd, UNCHANGED <<state, ui, worker>>
  PROVE  PlayInv'
<1>1. /\ UNCHANGED <<upc, late, rpc, stopping>>
      /\ Playing' = Playing /\ Destroying' = Destroying
  BY DEF JoinerQuiet, Joiner!Wake, Joiner!Woken, Joiner!ReplaceStop, Joiner!ReplaceDelete,
         Joiner!ReplaceOpen, Joiner!AnnounceEnd, Joiner!channel, Joiner!Ch!Close,
         ui, worker, Playing, Alive, Destroying
<1>2. upc \notin {"runThread", "runReader"}
  BY DEF LifeInv, JoinerQuiet, Joiner!ThreadAt, Joiner!Wake, Joiner!Woken, Joiner!ReplaceStop,
         Joiner!ReplaceDelete, Joiner!ReplaceOpen, Joiner!AnnounceEnd
<1>3. closed => closed'
  BY DEF JoinerQuiet, Joiner!Wake, Joiner!Woken, Joiner!ReplaceStop, Joiner!ReplaceDelete,
         Joiner!ReplaceOpen, Joiner!AnnounceEnd, Joiner!channel, Joiner!Ch!Close
<1>4. ASSUME Playing
      PROVE  /\ jpc' # "none" /\ (jpc' = "exited" => closed')
             /\ jpc' = "wait" => live' /\ (rpc' = "idle" => ev' \/ pos' <= lengths'[reader'])
  <2>1. ~stopping
    BY <1>4 DEF Playing, Destroying, LifeInv
  <2>2. CASE Joiner!ReplaceOpen
    <3>1. current + 1 \in DOMAIN lengths /\ lengths \in Seq(Nat)
      BY <2>2 DEF JoinerTypes, ReadInv, Joiner!ReplaceOpen, Joiner!ThreadAt
    <3>2. lengths[current + 1] \in Nat
      BY <3>1
    <3> QED BY <2>2, <3>2 DEF Joiner!ReplaceOpen, Joiner!ThreadAt
  <2> QED BY <2>1, <2>2 DEF JoinerQuiet, Joiner!ThreadAt, Joiner!Wake, Joiner!Woken,
             Joiner!ReplaceStop, Joiner!ReplaceDelete, Joiner!AnnounceEnd, Joiner!Ch!Close
<1> QED BY <1>1, <1>2, <1>3, <1>4 DEF PlayInv

LEMMA PlayKeeps ==
  ASSUME LifeInv, JoinerTypes, ReadInv, JoinInv, PlayInv, [Next]_vars
  PROVE  PlayInv'
<1> USE DEF PlayInv, Playing, Destroying, Alive
<1>1. CASE ChoiceStep
  BY <1>1, ChoiceQuiet DEF worker, source, joiner, channel
<1>2. CASE DestroyClose
  BY <1>2 DEF DestroyClose, UIAt, Ch!Close, channel
<1>3. CASE JoinerStop
  BY <1>3 DEF JoinerStop, UIAt, Joiner!StopFlag, Joiner!StopSignal, Joiner!StopJoin,
              Joiner!StopReader, Joiner!StopDelete, Joiner!channel
<1>4. CASE DestroyJoin \/ DestroyFree
  BY <1>4 DEF DestroyJoin, DestroyFree, UIAt, LifeInv, source, joiner, channel
<1>5. CASE BuildFail \/ BuildLaunch
  BY <1>5 DEF BuildFail, BuildLaunch, UIAt, LifeInv, worker, source, joiner, channel
<1>6. CASE \E list \in FileLists : BuildJoiner(list)
  BY <1>6 DEF BuildJoiner, UIAt, Joiner!Construct, Joiner!channel, LifeInv, worker
<1>7. CASE JoinerRun
  <2>1. reader # 0 /\ upc \in {"runThread", "runReader"} /\ pos = 0 /\ rpc = "idle"
    BY <1>7 DEF JoinerRun, UIAt, LifeInv
  <2>2. reader \in DOMAIN lengths /\ lengths \in Seq(Nat)
    BY <2>1 DEF JoinerTypes
  <2>3. lengths[reader] \in Nat
    BY <2>2
  <2> QED BY <1>7, <2>1, <2>3 DEF JoinerRun, UIAt, Joiner!RunThread, Joiner!RunReader,
                                  Joiner!channel, LifeInv, worker
<1>8. CASE QuietWorker
  BY <1>8, WorkerQuiet DEF ui, source, joiner, channel
<1>9. CASE GetFrame
  BY <1>9 DEF GetFrame, WorkerAt, Ch!Receive, ui, joiner
<1>10. CASE (ReaderQuiet \/ Joiner!PutFrame) /\ UNCHANGED <<state, ui, worker>>
  BY <1>10, PlayReader
<1>11. CASE (JoinerQuiet \/ Joiner!AnnounceEnd) /\ UNCHANGED <<state, ui, worker>>
  BY <1>11, PlayThread
<1>12. CASE UNCHANGED vars
  BY <1>12 DEF vars, ui, worker, source, joiner, channel
<1> QED BY NextSplit, <1>1, <1>2, <1>3, <1>4, <1>5, <1>6, <1>7, <1>8, <1>9, <1>10, <1>11, <1>12

(* A recording cannot come to a standstill with the worker waiting: not    *)
(* while JoinerThread changes the reader, nor with files that have no      *)
(* frame, nor at the end of the last. This is the part of RecordingEnds    *)
(* that needs no fairness.                                                 *)
THEOREM SourceNeverStalls == Spec => []SourceOwes
<1>1. Init => PlayInv
  BY DEF Init, Joiner!Init, Joiner!Ch!Init, PlayInv, Playing, Alive
<1>2. IInv /\ PlayInv /\ [Next]_vars => PlayInv'
  BY PlayKeeps DEF IInv, TypeOK
<1>3. IInv /\ PlayInv => SourceOwes
  <2> SUFFICES ASSUME IInv, PlayInv, Alive, ~Destroying, ~closed PROVE SourceOwes
    BY DEF SourceOwes
  <2>1. Playing /\ Signaling /\ ~late
    BY DEF Playing, PlayInv, IInv, JoinInv
  <2>2. jpc # "wait" => rpc = "idle"
    BY <2>1 DEF Signaling
  <2>3. jpc \in {"wait", "woken", "replace", "drain", "open", "end"}
    BY <2>1 DEF PlayInv, IInv, TypeOK, JoinerTypes
  <2>4. jpc = "wait" /\ rpc = "idle" => ev \/ (live /\ ~Joiner!AtEnd)
    <3>1. ASSUME jpc = "wait", rpc = "idle", ~ev PROVE live /\ ~Joiner!AtEnd
      <4>1. live /\ pos <= lengths[reader]
        BY <2>1, <3>1 DEF PlayInv
      <4>2. reader \in DOMAIN lengths /\ lengths \in Seq(Nat) /\ pos \in Nat
        BY <4>1 DEF IInv, TypeOK, JoinerTypes, LifeInv
      <4> QED BY <4>1, <4>2 DEF Joiner!AtEnd
    <3> QED BY <3>1
  <2> QED BY <2>1, <2>2, <2>3, <2>4 DEF SourceOwes
<1> QED BY <1>1, <1>2, <1>3, Invariance, PTL DEF Spec
=============================================================================
