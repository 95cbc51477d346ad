---------------------------- MODULE CaptureFiles ----------------------------
(***************************************************************************)
(* The files a capture leaves on the disk: GetCaptureFilename, the         *)
(* temporary and the final name of a CAVIWriter.                           *)
(*                                                                         *)
(* All files here share the base name and the format of the date, which    *)
(* holds a character that is no digit. A name is then                      *)
(* <base>[.[~]<stamp>][.<number>].avi: the mark of a temporary file, the   *)
(* stamp, and the number with its width. Radix is 10 in the code; a        *)
(* smaller one lets a number grow wider after fewer files. Numbers too     *)
(* wide for an int are left out (MaxWidth).                                *)
(*                                                                         *)
(* External: the disk, the user who deletes files, and the end of the      *)
(* process at any point.                                                   *)
(***************************************************************************)
EXTENDS Integers, FiniteSets

CONSTANTS
  Radix,       \* the base of the numbers in file names
  MaxWidth,    \* bound: digits in a number
  Digits,      \* the values of m_ndigits the user sets
  MaxTime,     \* bound: the clock and the recording times are 1 .. MaxTime
  MaxFiles     \* bound: files opened in a behaviour

RadixPower[n \in Nat] == IF n = 0 THEN 1 ELSE Radix * RadixPower[n - 1]

ASSUME CaptureFilesAssumption ==
  /\ Radix \in Nat \ {0, 1}
  /\ MaxWidth \in Nat \ {0}
  /\ Digits \subseteq 0 .. MaxWidth /\ 0 \in Digits
  /\ MaxTime \in Nat \ {0}
  /\ MaxFiles \in Nat /\ MaxFiles < RadixPower[MaxWidth]

NoNumber == [width |-> 0, value |-> 0]
NoStamp == 0
Numbers ==
  {n \in [width : 0 .. MaxWidth, value : 0 .. RadixPower[MaxWidth] - 1] :
     n.value < RadixPower[n.width]}
Names == [temp : BOOLEAN, stamp : 0 .. MaxTime, number : Numbers]

VARIABLES
  disk,       \* the names in use, each with the capture the file holds
  format,     \* m_ndigits, and whether m_dtformat is not empty
  writer,     \* the set of the open CAVIWriter: at most one
  now,        \* the clock of the computer
  opened,     \* captures opened so far, each known by its number
  kept,       \* captures left under their temporary name
  deleted     \* captures the user has deleted

filesVars == <<disk, format, writer, now, opened, kept, deleted>>

files == DOMAIN disk
captured == {disk[n] : n \in files}

----------------------------------------------------------------------------
(* GetCaptureFilename.                                                     *)

MaxOf(S) == CHOOSE x \in S : \A y \in S : y <= x

(* "%0*d" of v in at least w digits.                                       *)
Padded(v, w) ==
  [width |-> MaxOf({w} \cup {n \in 1 .. MaxWidth : n = 1 \/ v >= RadixPower[n - 1]}),
   value |-> v]

(* The gap in the numbers in use is filled first.                          *)
FirstFreeMutant(used, min) ==
  LET width == MaxOf({min} \cup {n.width : n \in used})
      isFree(v) == [width |-> width, value |-> v] \notin used
  IN  IF width = 0 /\ NoNumber \notin used
      THEN NoNumber
      ELSE Padded(CHOOSE v \in 0 .. MaxFiles :
                    isFree(v) /\ \A u \in 0 .. v - 1 : ~isFree(u), width)

(* The number after the highest one, among those with the most digits.     *)
NextNumber(used, min) ==
  LET width == MaxOf({min} \cup {n.width : n \in used})
      max == MaxOf({-1} \cup {n.value : n \in {m \in used \ {NoNumber} : m.width = width}})
  IN  IF width = 0 /\ NoNumber \notin used THEN NoNumber ELSE Padded(max + 1, width)

(* A time of -1, or none yet, is replaced by the clock.                    *)
Stamp(dated, t) == IF ~dated THEN NoStamp ELSE IF t > 0 THEN t ELSE now

CaptureFilename(temp, f, t) ==
  LET stamp == Stamp(f.dated, t)
      used == {n.number : n \in {m \in files : m.temp = temp /\ m.stamp = stamp}}
  IN  [temp |-> temp, stamp |-> stamp, number |-> NextNumber(used, f.digits)]

----------------------------------------------------------------------------
Formats == [digits : Digits, dated : BOOLEAN]

FilesInit ==
  /\ disk = <<>>
  /\ format = [digits |-> 0, dated |-> FALSE]
  /\ writer = {}
  /\ now = 1
  /\ opened = 0
  /\ kept = {}
  /\ deleted = {}

(* CDV::StartCapturing may come while a file of the previous start is      *)
(* still open.                                                             *)
StartCapturing(f) ==
  /\ format' = f
  /\ UNCHANGED <<disk, writer, now, opened, kept, deleted>>

(* The temporary file gets the name the final one will have.               *)
NoScanMutant(t) ==
  /\ writer = {}
  /\ opened < MaxFiles
  /\ opened' = opened + 1
  /\ LET name == [temp |-> TRUE, stamp |-> Stamp(format.dated, t), number |-> NoNumber]
     IN  /\ disk' = [n \in files \cup {name} |-> IF n = name THEN opened' ELSE disk[n]]
         /\ writer' = {[name |-> name, format |-> format, dvtime |-> t]}
  /\ UNCHANGED <<format, now, kept, deleted>>

(* CAVIWriter::CAVIWriter. The file sink overwrites.                       *)
OpenWriter(t) ==
  /\ writer = {}
  /\ opened < MaxFiles
  /\ opened' = opened + 1
  /\ LET name == CaptureFilename(TRUE, format, t)
     IN  /\ disk' = [n \in files \cup {name} |-> IF n = name THEN opened' ELSE disk[n]]
         /\ writer' = {[name |-> name, format |-> format, dvtime |-> t]}
  /\ UNCHANGED <<format, now, kept, deleted>>

(* CAVIWriter::~CAVIWriter. MoveFile refuses a name in use, and may be     *)
(* refused by the system for other reasons (systemRefuses).                *)
CloseWriter(w, systemRefuses) ==
  /\ w \in writer
  /\ writer' = {}
  /\ LET name == CaptureFilename(FALSE, w.format, w.dvtime)
     IN  \/ /\ ~systemRefuses /\ name \notin files
            /\ disk' = [n \in (files \ {w.name}) \cup {name} |->
                          IF n = name THEN disk[w.name] ELSE disk[n]]
            /\ UNCHANGED kept
         \/ /\ systemRefuses \/ name \in files
            /\ kept' = IF systemRefuses THEN kept \cup {disk[w.name]} ELSE kept
            /\ UNCHANGED disk
  /\ UNCHANGED <<format, now, opened, deleted>>

----------------------------------------------------------------------------
(* The process ends: the temporary file stays.                             *)
Crash ==
  /\ kept' = kept \cup {disk[w.name] : w \in writer}
  /\ writer' = {}
  /\ UNCHANGED <<disk, format, now, opened, deleted>>

(* The user takes a finished file away.                                    *)
UserDeletes(n) ==
  /\ ~n.temp
  /\ disk' = [m \in files \ {n} |-> disk[m]]
  /\ deleted' = deleted \cup {disk[n]}
  /\ UNCHANGED <<format, writer, now, opened, kept>>

Tick ==
  /\ now < MaxTime
  /\ now' = now + 1
  /\ UNCHANGED <<disk, format, writer, opened, kept, deleted>>

RecordingTimes == {-1} \cup 1 .. MaxTime

FilesNext ==
  \/ \E f \in Formats : StartCapturing(f)
  \/ \E t \in RecordingTimes : OpenWriter(t)
  \/ \E w \in writer, refused \in BOOLEAN : CloseWriter(w, refused)
  \/ Crash
  \/ \E n \in files : UserDeletes(n)
  \/ Tick

FilesSpec == FilesInit /\ [][FilesNext]_filesVars

----------------------------------------------------------------------------
FilesTypeOK ==
  /\ files \subseteq Names
  /\ captured \subseteq 1 .. MaxFiles
  /\ format \in Formats
  /\ \A w \in writer : /\ w.name \in files /\ w.name.temp
                       /\ w.format \in Formats
                       /\ w.dvtime \in RecordingTimes
  /\ Cardinality(writer) <= 1
  /\ now \in 1 .. MaxTime
  /\ opened \in 0 .. MaxFiles
  /\ kept \subseteq 1 .. MaxFiles
  /\ deleted \subseteq 1 .. MaxFiles

(* No capture is ever overwritten, neither a finished one nor what a       *)
(* session that crashed left behind, although temporary files are opened   *)
(* with leave to overwrite: every capture is on the disk under one name    *)
(* until the user deletes it. And the final name is always free, as the    *)
(* comment of GetCaptureFilename says: a capture has its temporary name    *)
(* only while it is open, after a crash, or when the system refused to     *)
(* rename it.                                                              *)
CapturesKept ==
  /\ 1 .. opened = captured \cup deleted
  /\ \A m, n \in files : disk[m] = disk[n] => m = n
  /\ \A n \in files :
       n.temp => n \in {w.name : w \in writer} \/ disk[n] \in kept

(* Files of the same stamp with numbers of one width are numbered in the   *)
(* order of their capture, whatever was deleted between them: CAVIJoiner,  *)
(* which sorts the names as text, plays them in that order.                *)
NumberedInOrder ==
  \A m, n \in {f \in files : ~f.temp} :
    /\ m.stamp = n.stamp /\ m.number.width = n.number.width
    /\ m.number.value < n.number.value
    => disk[m] < disk[n]
=============================================================================
