----------------------------- MODULE AVIJoiner -----------------------------
(***************************************************************************)
(* Class CAVIJoiner (DShow.cpp): plays a list of AVI files one after       *)
(* another into a frame handler, here the frame queue of class CDV.        *)
(*                                                                         *)
(* Three threads meet in it. The streaming thread of the open CAVIReader   *)
(* calls HandleFrame for every frame and once, without data, at the end    *)
(* of the file; that signals m_ev. JoinerThread waits on m_ev, and         *)
(* replaces the reader or announces the end of the last file. The UI       *)
(* thread runs and stops the joiner; when it takes which step is left to   *)
(* the module that uses the joiner.                                        *)
(*                                                                         *)
(* The DirectShow graph of a reader is external: stopping it returns when  *)
(* its streaming thread is in no callback, and no callback follows.        *)
(***************************************************************************)
EXTENDS Naturals, Sequences

CONSTANT Capacity   \* capacity of the handler's queue

VARIABLES
  lengths,   \* m_filenames: how many frames each of the files has
  jpc,       \* where JoinerThread is
  ev,        \* m_ev is signaled
  stopping,  \* m_stopping
  current,   \* m_current: how many files were opened
  reader,    \* the file m_reader plays, 0 when it is NULL
  live,      \* the graph of m_reader is running
  rpc,       \* where the streaming thread is
  pos,       \* frames of the file read so far, one more for its end
  origin,    \* the file and position of every frame the queue accepted
  chan, sent, last, closed, late   \* the queue: see FrameChannel

channel == <<chan, sent, last, closed, late>>
joiner == <<lengths, jpc, ev, stopping, current, reader, live, rpc, pos, origin>>
joinerVars == <<joiner, channel>>

Ch == INSTANCE FrameChannel

Init ==
  /\ lengths = <<>>
  /\ jpc = "none" /\ ev = FALSE /\ stopping = FALSE
  /\ current = 0 /\ reader = 0 /\ live = FALSE
  /\ rpc = "idle" /\ pos = 0 /\ origin = <<>>
  /\ Ch!Init

----------------------------------------------------------------------------
(* Called by the thread that owns the joiner.                              *)

(* The constructor opens the first file; Run starts JoinerThread and then  *)
(* the reader.                                                             *)
Construct(filenames) ==
  /\ lengths' = filenames
  /\ current' = 1 /\ reader' = 1 /\ pos' = 0
  /\ ev' = FALSE /\ stopping' = FALSE
  /\ UNCHANGED <<jpc, live, rpc, origin, channel>>

RunThread ==
  /\ jpc' = "wait"
  /\ UNCHANGED <<lengths, ev, stopping, current, reader, live, rpc, pos,
                 origin, channel>>

RunReader ==
  /\ live' = TRUE
  /\ UNCHANGED <<lengths, jpc, ev, stopping, current, reader, rpc, pos, origin,
                 channel>>

(* Stop: the flag before the signal, then wait for JoinerThread, then stop *)
(* and delete the reader.                                                  *)
StopFlag ==
  /\ stopping' = TRUE
  /\ UNCHANGED <<lengths, jpc, ev, current, reader, live, rpc, pos, origin, channel>>

StopSignal ==
  /\ ev' = (ev \/ jpc # "none")
  /\ UNCHANGED <<lengths, jpc, stopping, current, reader, live, rpc, pos,
                 origin, channel>>

StopJoinMutant ==
  /\ jpc' = IF jpc = "exited" THEN "none" ELSE jpc
  /\ UNCHANGED <<lengths, ev, stopping, current, reader, live, rpc, pos,
                 origin, channel>>

StopJoin ==
  /\ jpc \in {"none", "exited"}
  /\ jpc' = "none"
  /\ UNCHANGED <<lengths, ev, stopping, current, reader, live, rpc, pos,
                 origin, channel>>

StopReader ==
  /\ live' = FALSE
  /\ UNCHANGED <<lengths, jpc, ev, stopping, current, reader, rpc, pos, origin,
                 channel>>

StopDelete ==
  /\ rpc = "idle"
  /\ reader' = 0
  /\ stopping' = FALSE
  /\ UNCHANGED <<lengths, jpc, ev, current, live, rpc, pos, origin, channel>>

----------------------------------------------------------------------------
(* The streaming thread of the reader: CAVIJoiner::HandleFrame.            *)

AtEnd == pos > lengths[reader]

ReaderCall ==
  /\ live /\ rpc = "idle" /\ rpc' = "call"
  /\ ~AtEnd
  /\ pos' = pos + 1
  /\ UNCHANGED <<lengths, jpc, ev, stopping, current, reader, live, origin, channel>>

HandleStopped ==
  /\ rpc = "call" /\ rpc' = "idle"
  /\ stopping
  /\ UNCHANGED <<lengths, jpc, ev, stopping, current, reader, live, pos,
                 origin, channel>>

HandleData ==
  /\ rpc = "call" /\ rpc' = "put"
  /\ ~stopping /\ ~AtEnd
  /\ UNCHANGED <<lengths, jpc, ev, stopping, current, reader, live, pos,
                 origin, channel>>

HandleEndMutant ==
  /\ rpc = "call" /\ rpc' = "idle"
  /\ ~stopping /\ AtEnd
  /\ UNCHANGED <<lengths, jpc, ev, stopping, current, reader, live, pos,
                 origin, channel>>

HandleEnd ==
  /\ rpc = "call" /\ rpc' = "idle"
  /\ ~stopping /\ AtEnd
  /\ ev' = TRUE
  /\ UNCHANGED <<lengths, jpc, stopping, current, reader, live, pos, origin, channel>>

(* m_joinHandler->HandleFrame: CDVQueue::Put.                              *)
PutFrame ==
  /\ rpc = "put" /\ rpc' = "idle"
  /\ Ch!Send
  /\ origin' = Append(origin, <<reader, pos>>)
  /\ UNCHANGED <<lengths, jpc, ev, stopping, current, reader, live, pos>>

PutNothing ==
  /\ rpc = "put" /\ rpc' = "idle"
  /\ closed
  /\ UNCHANGED <<lengths, jpc, ev, stopping, current, reader, live, pos,
                 origin, channel>>

----------------------------------------------------------------------------
(* JoinerThread.                                                           *)

ThreadAt(from, to) == jpc = from /\ jpc' = to

WakeManualResetMutant ==
  /\ ThreadAt("wait", "woken")
  /\ ev
  /\ UNCHANGED <<lengths, ev, stopping, current, reader, live, rpc, pos, origin, channel>>

Wake ==
  /\ ThreadAt("wait", "woken")
  /\ ev /\ ev' = FALSE
  /\ UNCHANGED <<lengths, stopping, current, reader, live, rpc, pos, origin, channel>>

MoreFilesLateMutant == current <= Len(lengths)
MoreFiles == current < Len(lengths)

Woken ==
  /\ ThreadAt("woken", IF stopping THEN "exited" ELSE IF MoreFiles THEN "replace" ELSE "end")
  /\ UNCHANGED <<lengths, ev, stopping, current, reader, live, rpc, pos,
                 origin, channel>>

(* delete m_reader: stop its graph, and wait for its streaming thread.     *)
ReplaceStop ==
  /\ ThreadAt("replace", "drain")
  /\ live' = FALSE
  /\ UNCHANGED <<lengths, ev, stopping, current, reader, rpc, pos, origin, channel>>

ReplaceDelete ==
  /\ ThreadAt("drain", "open")
  /\ rpc = "idle"
  /\ reader' = 0
  /\ UNCHANGED <<lengths, ev, stopping, current, live, rpc, pos, origin, channel>>

ReplaceOpen ==
  /\ ThreadAt("open", "wait")
  /\ current' = current + 1
  /\ reader' = current + 1
  /\ pos' = 0
  /\ live' = TRUE
  /\ UNCHANGED <<lengths, ev, stopping, rpc, origin, channel>>

(* m_joinHandler->HandleFrame(-1, NULL, 0)                                 *)
AnnounceEnd ==
  /\ ThreadAt("end", "exited")
  /\ Ch!Close
  /\ UNCHANGED <<lengths, ev, stopping, current, reader, live, rpc, pos, origin>>

ReaderStep == ReaderCall \/ HandleStopped \/ HandleData \/ HandleEnd \/ PutFrame \/ PutNothing
ThreadStep == Wake \/ Woken \/ ReplaceStop \/ ReplaceDelete \/ ReplaceOpen \/ AnnounceEnd

=============================================================================
