----------------------------- MODULE MCDVQueue -----------------------------
(* DVQueue on a ring of three slots (two of them usable), fed more frames  *)
(* than it has slots so that head and tail wrap around.                    *)
EXTENDS DVQueue

MCCapacity == 2
MCMaxFrames == 5
=============================================================================
