---------------------------- MODULE FrameChannel ----------------------------
(***************************************************************************)
(* What CDVQueue promises the threads on its two ends: a bounded first-in  *)
(* first-out channel of DV frames with one receiver and a one-way close.   *)
(* Frames are numbered in the order the channel accepts them, so a frame   *)
(* that is lost, repeated or reordered shows as a wrong number.            *)
(* The abstract counterpart of DVQueue, which implements it.               *)
(***************************************************************************)
EXTENDS Naturals, Sequences

CONSTANT Capacity    \* the queueSize a CDVQueue is constructed with

VARIABLES
  chan,     \* the accepted frames the receiver has not taken, oldest first
  sent,     \* how many frames the channel has accepted
  last,     \* the frame the receiver holds, 0 before the first
  closed,   \* end of stream was announced
  late      \* a frame was accepted after the close

chVars == <<chan, sent, last, closed, late>>

Init ==
  /\ chan = <<>>
  /\ sent = 0
  /\ last = 0
  /\ closed = FALSE
  /\ late = FALSE

(* A frame is accepted while there is room. The close does not recall a    *)
(* Put that is already under way, but no second frame follows it.          *)
Send ==
  /\ Len(chan) < Capacity
  /\ ~late
  /\ chan' = Append(chan, sent + 1)
  /\ sent' = sent + 1
  /\ late' = closed
  /\ UNCHANGED <<last, closed>>

Receive ==
  /\ chan # <<>>
  /\ last' = Head(chan)
  /\ chan' = Tail(chan)
  /\ UNCHANGED <<sent, closed, late>>

Close ==
  /\ closed' = TRUE
  /\ UNCHANGED <<chan, sent, last, late>>

Next == Send \/ Receive \/ Close

Spec == Init /\ [][Next]_chVars
=============================================================================
