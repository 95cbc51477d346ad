------------------------------ MODULE Program ------------------------------
(***************************************************************************)
(* The parts of WinDV that run on one thread: the main dialog, the names   *)
(* that captures get on the disk, and the tools of the command line. They  *)
(* share no state, so a behaviour stays with one of them.                  *)
(***************************************************************************)
EXTENDS Tools, Dialog, CaptureFiles

VARIABLE use   \* "check", "hashes" (hash and verify), "dialog" or "files"

vars == <<use, toolVars, dialogVars, filesVars>>

Init ==
  /\ use \in {"check", "hashes", "dialog", "files"}
  /\ ToolsInit /\ DialogInit /\ FilesInit

Next ==
  /\ \/ use = "check" /\ CheckSteps /\ UNCHANGED <<dialogVars, filesVars>>
     \/ use = "hashes" /\ HashSteps /\ UNCHANGED <<dialogVars, filesVars>>
     \/ use = "dialog" /\ DialogSteps /\ UNCHANGED <<toolVars, filesVars>>
     \/ use = "files" /\ FilesNext /\ UNCHANGED <<toolVars, dialogVars>>
  /\ UNCHANGED use

(* The timer goes on in every message loop; a capture with a limit and a   *)
(* recording come to their end.                                            *)
Elsewhere == UNCHANGED <<use, toolVars, filesVars>>
Fairness ==
  /\ WF_vars(OnTimer /\ Elsewhere)
  /\ WF_vars(TimedFinish /\ Elsewhere)
  /\ WF_vars(TapeEnds /\ Elsewhere)

Spec == Init /\ [][Next]_vars /\ Fairness

(* Every variable of every part keeps its type.                            *)
TypeOK == ToolsTypeOK /\ DialogTypeOK /\ FilesTypeOK

(* See Dialog: the time limit of a capture is what the command line says.  *)
LimitsAsWritten == [][LimitAsWritten]_vars
=============================================================================
