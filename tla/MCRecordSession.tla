-------------------------- MODULE MCRecordSession --------------------------
(* RecordSession with a queue of one frame, and lists with a file that has *)
(* no frame at either end, in the middle or alone.                         *)
EXTENDS RecordSession

MCFileLists == {<<2, 1>>, <<1, 0, 1>>, <<0, 2>>, <<0>>}
=============================================================================
