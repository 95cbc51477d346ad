---------------------------- MODULE MCDVOutput ----------------------------
(* A small instance of DVOutput: fewer buffers than frames, so that the    *)
(* worker waits for a buffer and buffers are used again.                   *)
EXTENDS DVOutput
CONSTANTS b1, b2
MCBuffers == {b1, b2}
MCGetters == {App}
MCMaxFrames == 4
=============================================================================
