-------------------------- MODULE MCCaptureSession --------------------------
(* CaptureSession with a queue of one frame, so that the device blocks on  *)
(* it, and files of two frames, so that a short tape splits. On the tapes, *)
(* frames without a recording time stand at the start, in the middle and   *)
(* across a cut; a cut goes forward or back.                               *)
EXTENDS CaptureSession

MCTapes == {<<1, 2, 2, 9>>, <<1, -1, 9>>, <<-1, 1, 9>>, <<9, 1, 1>>, <<-1, -1, 1>>}
MCCaptureTimes == {0, 2}
=============================================================================
