------------------------------- MODULE Dialog -------------------------------
(***************************************************************************)
(* CDVToolsDlg, the main dialog: the command line, the two tabs with their *)
(* toggle buttons, the status timer that closes the program after -exit,   *)
(* the dialogs opened above it, and what is remembered in the registry.    *)
(* The CDV below it is only its state and time limit: CaptureSession and   *)
(* RecordSession are the parts that change it.                             *)
(*                                                                         *)
(* One action is one message handled on the UI thread. A timer message is  *)
(* handled also while another dialog is open above this one. Left out: the *)
(* texts shown, the layout, the settings that are only passed on.          *)
(***************************************************************************)
EXTENDS Duration

CONSTANT DurationTexts   \* the durations given on a command line

ASSUME DurationTextsAssumption == DurationTexts \subseteq Seq(0 .. Other)

Capture == 0   \* the tabs
Record == 1

VARIABLES
  open,          \* the dialog: "closed", "starting" with a command line, "open",
                 \* or "ending" after EndDialog
  cmd,           \* the subcommand, the duration and -exit of the command line
  modals,        \* the dialogs above it, the last one on top
  greeting,      \* the About box is posted
  tab,           \* m_toolTab.GetCurSel()
  state,         \* m_video.m_state
  captureTime,   \* m_video.m_captureTime
  exitOnFinish,  \* m_exitOnFinish
  timer,         \* timer 1 runs
  DVctrl,        \* m_video.m_DVctrl: commands go to the deck
  deck,          \* external: what the deck was told last
  loose,         \* DVctrl was changed while there was a pipeline
  savedTab,      \* SelectedTool in the registry
  savedDVctrl,   \* DVControlEnabled
  savedPlace     \* whether W and H are there

shown == <<open, cmd, modals, greeting>>
transport == <<DVctrl, deck, loose>>
video == <<state, captureTime, transport>>
registry == <<savedTab, savedDVctrl, savedPlace>>
dialogVars == <<shown, tab, video, exitOnFinish, timer, registry>>

NoCommand == [word |-> "none", text |-> <<>>, exit |-> FALSE]
(* A duration or a file that is missing and one too many lead to the same  *)
(* message as a duration that cannot be read.                              *)
Commands ==
  [word : {"none", "other"}, text : {<<>>}, exit : {FALSE}]
  \cup [word : {"capture"}, text : DurationTexts, exit : BOOLEAN]
  \cup [word : {"record"}, text : {<<>>, <<Other>>}, exit : BOOLEAN]

DialogInit ==
  /\ open = "closed" /\ cmd = NoCommand /\ modals = <<>> /\ greeting = FALSE
  /\ tab = Capture /\ state = "Idle" /\ captureTime = 0
  /\ exitOnFinish = FALSE /\ timer = FALSE
  /\ DVctrl = FALSE /\ deck = "stop" /\ loose = FALSE
  /\ savedTab = Capture /\ savedDVctrl = FALSE /\ savedPlace = FALSE

----------------------------------------------------------------------------
(* The part of CDV that a message may call. A deck without transport       *)
(* control leaves deck as it is, like one that is not under control.       *)

Tell(command) == deck' = IF DVctrl THEN command ELSE deck

(* After a failed build objects are left, and the deck is told as well.    *)
StopsDeck ==
  /\ \/ Tell("stop")
     \/ state = "Idle" /\ UNCHANGED deck
  /\ loose' = (loose /\ ~(DVctrl /\ deck' = "stop"))

Destroy == state' = "Idle" /\ captureTime' = 0 /\ StopsDeck /\ UNCHANGED DVctrl

BuildCapturing == state' = "CapturePaused" /\ captureTime' = 0 /\ StopsDeck /\ UNCHANGED DVctrl

BuildAndStart(s, time, command) ==
  /\ state' = s /\ captureTime' = time
  /\ Tell(command)
  /\ loose' = (loose /\ ~DVctrl)
  /\ UNCHANGED DVctrl

BuildRecording == BuildAndStart("RecordPaused", 0, "recpause")

(* A button: the state changes and the deck is told.                       *)
Switch(s, command) == state' = s /\ Tell(command) /\ UNCHANGED <<DVctrl, loose>>

(* InitVideo on tab t.                                                     *)
InitVideo(t) ==
  /\ exitOnFinish' = FALSE
  /\ \/ t = Capture /\ BuildCapturing /\ timer' = TRUE
     \/ t = Capture /\ Destroy /\ timer' = FALSE
     \/ t = Record /\ Destroy /\ timer' = FALSE

(* OnInitDialog.                                                           *)

(* What the registry restores. Without a place for the window the About    *)
(* box is posted.                                                          *)
Launch(c) ==
  /\ open = "closed"
  /\ open' = "starting" /\ cmd' = c
  /\ tab' = savedTab /\ DVctrl' = savedDVctrl
  /\ greeting' = ~savedPlace
  /\ UNCHANGED <<modals, state, captureTime, deck, loose, exitOnFinish, timer, registry>>

Appears ==
  /\ open = "starting"
  /\ open' = "open" /\ cmd' = NoCommand
  /\ UNCHANGED <<greeting, registry>>

StartPlain ==
  /\ cmd.word = "none"
  /\ Appears
  /\ InitVideo(tab)
  /\ UNCHANGED <<tab, modals>>

(* No subcommand: the usage message, above the saved tab.                  *)
StartUnknown ==
  /\ cmd.word = "other"
  /\ Appears
  /\ modals' = <<"usage">>
  /\ UNCHANGED <<tab, video, exitOnFinish, timer>>

(* OnSelchangeToolTab has built the pipeline of tab t already.             *)
Usage(t) ==
  /\ \/ t = Capture /\ BuildCapturing /\ timer' = TRUE
     \/ Destroy /\ timer' = FALSE
  /\ exitOnFinish' = cmd.exit
  /\ modals' = <<"usage">>

(* Without the call of SetTimer.                                           *)
NoTimerMutant(s, time, command) ==
  /\ \/ /\ BuildAndStart(s, time, command)
        /\ exitOnFinish' = cmd.exit /\ timer' = FALSE
     \/ InitVideo(tab')
  /\ UNCHANGED modals

(* When building throws, InitVideo.                                        *)
Run(s, time, command) ==
  /\ \/ /\ BuildAndStart(s, time, command)
        /\ exitOnFinish' = cmd.exit /\ timer' = TRUE
     \/ InitVideo(tab')
  /\ UNCHANGED modals

StartCapture ==
  /\ cmd.word = "capture"
  /\ Appears
  /\ tab' = Capture
  /\ LET t == ParseDuration(cmd.text)
     IN  \/ t = Malformed /\ Usage(Capture)
         \/ t # Malformed /\ Run("Capturing", t, "play")

StartRecord ==
  /\ cmd.word = "record"
  /\ Appears
  /\ tab' = Record
  /\ IF cmd.text = <<>> THEN Usage(Record) ELSE Run("Recording", 0, "record")

----------------------------------------------------------------------------
(* Messages. With another dialog above it this one is disabled.            *)

Enabled == open = "open" /\ modals = <<>>

OnCapture ==
  /\ Enabled /\ tab = Capture
  /\ \/ /\ state = "CapturePaused"
        /\ Switch("Capturing", "play") /\ captureTime' = 0
        /\ UNCHANGED <<exitOnFinish, timer>>
     \/ /\ state = "Capturing"
        /\ Switch("CapturePaused", "freeze")
        /\ UNCHANGED <<captureTime, exitOnFinish, timer>>
     \/ /\ state \notin {"CapturePaused", "Capturing"}
        /\ InitVideo(tab)
  /\ UNCHANGED <<shown, tab, registry>>

(* The button builds a pipeline and does not start the timer.              *)
UnwatchedMutant ==
  /\ Enabled /\ tab = Record
  /\ state \notin {"RecordPaused", "Recording"}
  /\ BuildRecording
  /\ UNCHANGED <<shown, tab, exitOnFinish, timer, registry>>

OnRecordBuild ==
  /\ Enabled /\ tab = Record
  /\ state \notin {"RecordPaused", "Recording"}
  /\ \/ BuildRecording /\ timer' = TRUE /\ UNCHANGED exitOnFinish
     \/ InitVideo(tab)
  /\ UNCHANGED <<shown, tab, registry>>

OnRecordToggle ==
  /\ Enabled /\ tab = Record
  /\ \/ state = "RecordPaused" /\ Switch("Recording", "record")
     \/ state = "Recording" /\ Switch("RecordPaused", "recpause")
  /\ UNCHANGED <<shown, tab, captureTime, exitOnFinish, timer, registry>>

(* A click on a tab or its command, whichever tab it is.                   *)
OnSelchangeToolTab(t) ==
  /\ Enabled
  /\ tab' = t
  /\ InitVideo(t)
  /\ UNCHANGED <<shown, registry>>

OnDvctrl ==
  /\ Enabled
  /\ DVctrl' = ~DVctrl
  /\ loose' = (loose \/ state # "Idle")
  /\ UNCHANGED <<shown, tab, state, captureTime, deck, exitOnFinish, timer, registry>>

OnCancel ==
  /\ Enabled
  /\ InitVideo(tab)
  /\ UNCHANGED <<shown, tab, registry>>

(* The body of OnClose. EndDialog takes effect when no dialog is above.    *)
Close ==
  /\ Destroy
  /\ savedTab' = tab /\ savedDVctrl' = DVctrl /\ savedPlace' = TRUE
  /\ open' = "ending"

OnClose ==
  /\ Enabled
  /\ Close
  /\ UNCHANGED <<cmd, modals, greeting, tab, exitOnFinish, timer>>

OnTimer ==
  /\ open \in {"open", "ending"} /\ timer
  /\ state = "Finished" /\ exitOnFinish
  /\ Close
  /\ UNCHANGED <<cmd, modals, greeting, tab, exitOnFinish, timer>>

(* About, configuration and file dialogs change nothing here; a device     *)
(* dialog does. OnSysCommand comes posted as well.                         *)
OpenModal(m) ==
  /\ \/ Enabled /\ UNCHANGED greeting
     \/ m = "about" /\ greeting /\ open # "starting" /\ greeting' = FALSE
  /\ modals' = Append(modals, m)
  /\ UNCHANGED <<open, cmd, tab, video, exitOnFinish, timer, registry>>

CloseModal ==
  /\ modals # <<>>
  /\ LET m == Last(modals)
     IN  \/ /\ m # "usage"
            /\ UNCHANGED <<open, tab, video, exitOnFinish, timer>>
         \/ m = "device" /\ InitVideo(tab) /\ UNCHANGED <<open, tab>>
         \/ m = "usage" /\ Destroy /\ open' = "ending" /\ UNCHANGED <<tab, exitOnFinish, timer>>
  /\ modals' = Front(modals)
  /\ UNCHANGED <<cmd, greeting, registry>>

(* The window and timer are gone, and ~CDV destroys what is left.          *)
DialogEnds ==
  /\ open = "ending" /\ modals = <<>>
  /\ open' = "closed" /\ greeting' = FALSE
  /\ Destroy
  /\ tab' = Capture /\ exitOnFinish' = FALSE /\ timer' = FALSE
  /\ UNCHANGED <<cmd, modals, registry>>

----------------------------------------------------------------------------
(* The worker: the time limit, a lost signal, the end of the last file.    *)

TimedFinish ==
  /\ state = "Capturing" /\ captureTime > 0
  /\ state' = "Finished" /\ captureTime' = 0
  /\ UNCHANGED <<shown, tab, transport, exitOnFinish, timer, registry>>

SignalLost ==
  /\ state = "Capturing"
  /\ state' = "Finished"
  /\ UNCHANGED <<shown, tab, captureTime, transport, exitOnFinish, timer, registry>>

TapeEnds ==
  /\ state = "Recording"
  /\ state' = "Finished"
  /\ UNCHANGED <<shown, tab, captureTime, transport, exitOnFinish, timer, registry>>

DialogSteps ==
  \/ \E c \in Commands : Launch(c)
  \/ StartPlain \/ StartUnknown \/ StartCapture \/ StartRecord
  \/ OnCapture \/ OnRecordBuild \/ OnRecordToggle
  \/ \E t \in {Capture, Record} : OnSelchangeToolTab(t)
  \/ OnDvctrl \/ OnCancel \/ OnClose \/ OnTimer
  \/ \E m \in {"about", "device"} : OpenModal(m)
  \/ CloseModal \/ DialogEnds
  \/ TimedFinish \/ SignalLost \/ TapeEnds

----------------------------------------------------------------------------
DialogTypeOK ==
  /\ open \in {"closed", "starting", "open", "ending"}
  /\ cmd = NoCommand \/ cmd \in Commands
  /\ modals \in Seq({"about", "device", "usage"})
  /\ greeting \in BOOLEAN
  /\ tab \in {Capture, Record} /\ savedTab \in {Capture, Record}
  /\ state \in {"Idle", "CapturePaused", "Capturing",
                "RecordPaused", "Recording", "Finished"}
  /\ captureTime \in Nat
  /\ exitOnFinish \in BOOLEAN /\ timer \in BOOLEAN
  /\ DVctrl \in BOOLEAN /\ loose \in BOOLEAN
  /\ deck \in {"stop", "play", "freeze", "recpause", "record"}
  /\ savedDVctrl \in BOOLEAN /\ savedPlace \in BOOLEAN

(* A pipeline is never left running unseen: it belongs to the tab that is  *)
(* shown, whose buttons control it, the timer that shows its state and     *)
(* closes the program runs, and the deck does what the state says. Deck    *)
(* and state part only when the user takes the control of the deck away.   *)
TabShowsPipeline ==
  open \in {"open", "ending"} /\ state # "Idle" =>
    /\ timer
    /\ state \in {"CapturePaused", "Capturing"} => tab = Capture
    /\ state \in {"RecordPaused", "Recording"} => tab = Record

DeckFollows ==
  ~loose =>
    /\ deck = "play" => state \in {"Capturing", "Finished"}
    /\ deck = "freeze" => state = "CapturePaused"
    /\ deck = "record" => state \in {"Recording", "Finished"}
    /\ deck = "recpause" => state = "RecordPaused"

PipelineWatched == TabShowsPipeline /\ DeckFollows

(* A run with -exit and an end comes to it: the program closes by itself,  *)
(* with other dialogs open or not, unless the user pauses the run or takes *)
(* the -exit back by starting over.                                        *)
Runs == state = "Recording" \/ (state = "Capturing" /\ captureTime > 0)
Interrupted == ~exitOnFinish \/ state \in {"CapturePaused", "RecordPaused"}
ExitRunEnds == Runs /\ exitOnFinish /\ open = "open" ~> open # "open" \/ Interrupted

(* Every duration the usage text describes starts a capture from the       *)
(* command line, the usage message answers a text with other characters or *)
(* with colons and points out of place, and the time limit is that of the  *)
(* text. What is between is taken too, against the usage text: a field     *)
(* without a digit counts as 0, so that "", ":" and "." start a capture    *)
(* without a limit.                                                        *)
LimitAsWritten ==
  open = "starting" /\ cmd.word = "capture" =>
    /\ IsDuration(cmd.text) => modals' = <<>>
    /\ ~Punctuated(cmd.text) => modals' # <<>>
    /\ state' = "Capturing" => captureTime' = DurationOf(cmd.text)
=============================================================================
