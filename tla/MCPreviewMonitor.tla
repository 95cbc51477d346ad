-------------------------- MODULE MCPreviewMonitor --------------------------
(* PreviewMonitor with two buffers: one on show while the renderer keeps   *)
(* the other, or both kept and the thread waiting for one.                 *)
EXTENDS PreviewMonitor
CONSTANTS b1, b2
MCBuffers == {b1, b2}
MCGetters == {Monitoring}
=============================================================================
