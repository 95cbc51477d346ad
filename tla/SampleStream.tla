---------------------------- MODULE SampleStream ----------------------------
(***************************************************************************)
(* What a COutputGraph with a delivery thread promises the recording       *)
(* worker: the frames it accepts reach the device in the order they were   *)
(* given, none is left out or repeated, no more are under way than there   *)
(* are buffers, and the end of stream follows the last of them. It may     *)
(* stop short (the device refuses, the graph is torn down); then the end   *)
(* of stream is never announced.                                           *)
(* The abstract counterpart of DVOutput, which implements it.              *)
(***************************************************************************)
EXTENDS Naturals

CONSTANT Capacity   \* the number of sample buffers

VARIABLES
  sent,    \* how many frames were accepted
  got,     \* the last frame the device took, 0 before the first
  ended    \* the device was told that no frame follows

streamVars == <<sent, got, ended>>

Init == sent = 0 /\ got = 0 /\ ended = FALSE

Send ==
  /\ ~ended
  /\ sent < got + Capacity
  /\ sent' = sent + 1
  /\ UNCHANGED <<got, ended>>

Take ==
  /\ ~ended
  /\ got < sent
  /\ got' = got + 1
  /\ UNCHANGED <<sent, ended>>

End ==
  /\ got = sent
  /\ ended' = TRUE
  /\ UNCHANGED <<sent, got>>

Next == Send \/ Take \/ End

Spec == Init /\ [][Next]_streamVars
=============================================================================
