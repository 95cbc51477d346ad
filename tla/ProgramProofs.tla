--------------------------- MODULE ProgramProofs ---------------------------
(***************************************************************************)
(* Proofs about CaptureFiles and Program: captures are never overwritten,  *)
(* for every radix, width, clock and number of files; what the dialog      *)
(* keeps, whatever the user does; and that check, hash and verify tell     *)
(* what is in the files.                                                   *)
(*                                                                         *)
(* GetCaptureFilename never returns a name in use, because the number it   *)
(* returns is wider than those in use or higher than those of its width.   *)
(***************************************************************************)
EXTENDS Program, ToolsProofs

(* How many of the files opened can be finished.                           *)
DoneCount == IF writer = {} THEN opened ELSE opened - 1

(* A number as GetCaptureFilename writes it: none is the only one of no    *)
(* digits.                                                                 *)
GoodNumber(n, high) ==
  /\ n = [width |-> n.width, value |-> n.value]
  /\ n.width \in 0 .. MaxWidth /\ n.value \in 0 .. high
  /\ n.width = 0 => n = NoNumber

(* The numbers do not outrun the files.                                    *)
NamesInv ==
  \A n \in files :
    /\ n.temp \in BOOLEAN
    /\ n = [temp |-> n.temp, stamp |-> n.stamp, number |-> n.number]
    /\ GoodNumber(n.number, IF n.temp THEN opened ELSE DoneCount)

(* The open file is the last one opened, and has its temporary name.       *)
WriterInv ==
  /\ \A w \in writer : /\ w.name \in files /\ w.name.temp = TRUE
                       /\ disk[w.name] = opened
                       /\ w.format \in Formats
  /\ \A v, w \in writer : v = w

CountInv ==
  /\ opened \in Nat /\ (writer # {} => opened > 0)
  /\ format \in Formats
  /\ \A n \in files : disk[n] \in Nat /\ (n.temp = FALSE => disk[n] <= DoneCount)

FilesIInv == NamesInv /\ WriterInv /\ CountInv /\ CapturesKept /\ NumberedInOrder

(* A number fits the width it is written in, if any width is enough.       *)
Fits(n) == n.value < RadixPower[n.width] \/ n.width = MaxWidth

BoundsInv ==
  /\ \A n \in files : n.stamp \in 0 .. MaxTime /\ Fits(n.number)
  /\ \A w \in writer : w.dvtime \in RecordingTimes
  /\ now \in 1 .. MaxTime
  /\ opened \in 0 .. MaxFiles /\ kept \subseteq 1 .. opened

DeckTypes ==
  /\ deck \in {"stop", "play", "freeze", "recpause", "record"}
  /\ loose \in BOOLEAN /\ DVctrl \in BOOLEAN /\ savedDVctrl \in BOOLEAN
  /\ timer \in BOOLEAN /\ tab \in {Capture, Record} /\ savedTab \in {Capture, Record}

(* Nothing runs before the dialog is there. Without control of the deck,   *)
(* or taken away and given back while nothing runs, the deck stands still. *)
RestInv ==
  /\ open \in {"closed", "starting"} => state = "Idle"
  /\ ~loose /\ ~DVctrl => deck = "stop"

DialogIInv == DeckTypes /\ RestInv /\ PipelineWatched

(* No dialog above one that is not there, and none asked for.              *)
ModalInv ==
  /\ open \in {"closed", "starting"} => modals = <<>>
  /\ open = "closed" => greeting = FALSE

IInv == DialogIInv /\ ModalInv /\ FilesIInv /\ ToolsIInv

----------------------------------------------------------------------------
(* The names of captures.                                                  *)

(* The highest of a set of numbers.                                        *)
LEMMA GreatestOf ==
  ASSUME NEW S, NEW low \in Int, NEW high \in Int, S \subseteq low .. high, S # {}
  PROVE  /\ MaxOf(S) \in S /\ MaxOf(S) \in low .. high
         /\ \A y \in S : y <= MaxOf(S)
<1> DEFINE T == {high - y : y \in S}
<1>1. T \subseteq Nat /\ T # {}
  <2>1. ASSUME NEW y \in S PROVE high - y \in Nat
    <3>1. y \in low .. high
      OBVIOUS
    <3> QED BY <3>1
  <2>2. PICK y : y \in S
    OBVIOUS
  <2>3. high - y \in T
    BY <2>2
  <2> QED BY <2>1, <2>3
<1>2. PICK d \in T : \A e \in T : d <= e
  BY <1>1, LeastOf
<1>3. PICK x \in S : d = high - x
  OBVIOUS
<1>4. ASSUME NEW y \in S PROVE y <= x
  <2>1. d <= high - y
    <3>1. high - y \in T
      OBVIOUS
    <3> HIDE DEF T
    <3> QED BY <1>2, <3>1
  <2>2. x \in Int /\ y \in Int
    <3>1. x \in low .. high /\ y \in low .. high
      OBVIOUS
    <3> QED BY <3>1
  <2> QED BY <1>3, <2>1, <2>2
<1>5. MaxOf(S) \in S /\ \A y \in S : y <= MaxOf(S)
  BY <1>4 DEF MaxOf
<1> QED BY <1>5

(* The powers of the radix are numbers.                                    *)
LEMMA PowersOfRadix == RadixPower \in [Nat -> Nat] /\ RadixPower[0] = 1
<1> DEFINE g == [ss \in Nat \X Nat |-> Radix * ss[2]]
<1>1. g \in [Nat \X Nat -> Nat]
  BY CaptureFilesAssumption
<1>2. PICK f : Follows(f, Nat, 1, g)
  <2> HIDE DEF g
  <2>1. 1 \in Nat
    OBVIOUS
  <2> QED BY <1>1, <2>1, Recursion, Zenon
<1>3. ASSUME NEW n \in Nat, n # 0 PROVE f[n] = Radix * f[n - 1]
  <2>1. n - 1 \in Nat /\ n = (n - 1) + 1
    BY <1>3
  <2>2. f[n] = g[<<n - 1, f[n - 1]>>] /\ f[n - 1] \in Nat
    BY <1>2, <2>1 DEF Follows
  <2> QED BY <2>1, <2>2
<1>4. f = [n \in Nat |-> IF n = 0 THEN 1 ELSE Radix * f[n - 1]]
  BY <1>2, <1>3 DEF Follows
<1> HIDE DEF g
<1>5. RadixPower = [n \in Nat |-> IF n = 0 THEN 1 ELSE Radix * RadixPower[n - 1]]
  BY <1>4 DEF RadixPower
<1>6. \A n \in Nat : RadixPower[n] = IF n = 0 THEN 1 ELSE Radix * RadixPower[n - 1]
  BY <1>5, Zenon
<1>7. RadixPower[0] = 1
  BY <1>6
<1>8. ASSUME NEW m \in Nat, RadixPower[m] \notin Nat PROVE FALSE
  <2> DEFINE T == {k \in Nat : RadixPower[k] \notin Nat}
  <2>1. PICK n \in T : \A y \in T : n <= y
    <3> T \subseteq Nat /\ T # {}
      BY <1>8
    <3> HIDE DEF T
    <3> QED BY LeastOf
  <2>2. n # 0
    BY <1>7, <2>1
  <2>3. n - 1 \in Nat /\ n - 1 \notin T
    BY <2>1, <2>2
  <2>4. RadixPower[n] = Radix * RadixPower[n - 1] /\ RadixPower[n - 1] \in Nat
    BY <1>6, <2>2, <2>3
  <2>5. RadixPower[n] \in Nat
    BY <2>4, CaptureFilesAssumption
  <2> QED BY <2>1, <2>5
<1>9. RadixPower = [n \in Nat |-> RadixPower[n]]
  BY <1>5, Zenon
<1> QED BY <1>7, <1>8, <1>9

(* The next number is none of those in use.                                *)
LEMMA NextNumberFacts ==
  ASSUME NEW used, NEW high \in Int, high >= -1, \A n \in used : GoodNumber(n, high),
         NEW min \in 0 .. MaxWidth
  PROVE  LET next == NextNumber(used, min)
         IN  /\ GoodNumber(next, high + 1) /\ Fits(next)
             /\ \A n \in used : n.width = next.width => n.value < next.value
<1> DEFINE next == NextNumber(used, min)
           W == {min} \cup {n.width : n \in used}
           width == MaxOf(W)
           V == {-1} \cup {n.value : n \in {m \in used \ {NoNumber} : m.width = width}}
           max == MaxOf(V)
           P == {width} \cup {n \in 1 .. MaxWidth : n = 1 \/ max + 1 >= RadixPower[n - 1]}
<1>0. /\ MaxWidth \in Nat \ {0}
      /\ 0 \in Int /\ -1 \in Int /\ MaxWidth \in Int /\ high \in Int
  BY CaptureFilesAssumption
<1>1. width \in 0 .. MaxWidth /\ \A n \in used : n.width <= width
  <2>1. W \subseteq 0 .. MaxWidth /\ W # {}
    BY <1>0 DEF GoodNumber
  <2> HIDE DEF W
  <2>2. width \in 0 .. MaxWidth /\ \A y \in W : y <= width
    BY <1>0, <2>1, GreatestOf, Zenon
  <2> QED BY <2>2 DEF W
<1> HIDE DEF width
<1>2. max \in -1 .. high /\ \A n \in used \ {NoNumber} : n.width = width => n.value <= max
  <2>1. V \subseteq -1 .. high /\ V # {}
    BY DEF GoodNumber
  <2> HIDE DEF V
  <2>2. max \in -1 .. high /\ \A y \in V : y <= max
    BY <1>0, <2>1, GreatestOf, Zenon
  <2> QED BY <2>2 DEF V
<1> HIDE DEF max
<1>3. next = IF width = 0 /\ NoNumber \notin used THEN NoNumber ELSE Padded(max + 1, width)
  BY DEF NextNumber, width, max
<1>4. CASE width = 0 /\ NoNumber \notin used
  <2>1. next = NoNumber
    BY <1>3, <1>4
  <2>2. \A n \in used : FALSE
    BY <1>0, <1>1, <1>4 DEF GoodNumber
  <2>3. GoodNumber(next, high + 1)
    BY <1>0, <2>1 DEF GoodNumber, NoNumber
  <2>4. Fits(next)
    BY <2>1, PowersOfRadix DEF Fits, NoNumber
  <2> QED BY <2>2, <2>3, <2>4
<1>5. CASE ~(width = 0 /\ NoNumber \notin used)
  <2>1. next = [width |-> MaxOf(P), value |-> max + 1]
    BY <1>3, <1>5 DEF Padded
  <2>2. P \subseteq 0 .. MaxWidth /\ 1 \in P /\ P # {}
    BY <1>0, <1>1
  <2>3. MaxOf(P) \in 1 .. MaxWidth /\ width <= MaxOf(P)
    <3> HIDE DEF P
    <3>1. MaxOf(P) \in 0 .. MaxWidth /\ \A y \in P : y <= MaxOf(P)
      BY <1>0, <2>2, GreatestOf, Zenon
    <3>2. width \in P
      BY DEF P
    <3> QED BY <2>2, <3>1, <3>2
  <2>6. MaxOf(P) # MaxWidth => max + 1 < RadixPower[MaxOf(P)]
    <3> SUFFICES ASSUME MaxOf(P) # MaxWidth PROVE max + 1 < RadixPower[MaxOf(P)]
      OBVIOUS
    <3> DEFINE wide == MaxOf(P)
    <3>1. \A y \in P : y <= wide
      <4> HIDE DEF P
      <4> QED BY <1>0, <2>2, GreatestOf, Zenon
    <3>2. wide \in 1 .. MaxWidth /\ wide # MaxWidth
      BY <2>3
    <3> HIDE DEF wide
    <3>3. wide + 1 \in 1 .. MaxWidth /\ wide + 1 # 1 /\ (wide + 1) - 1 = wide /\ wide \in Nat
      BY <1>0, <3>2
    <3>4. wide + 1 \notin P
      BY <3>1, <3>3
    <3>5. ~(max + 1 >= RadixPower[wide])
      BY <3>3, <3>4
    <3>6. RadixPower[wide] \in Nat /\ max + 1 \in Int
      BY <1>2, <3>3, PowersOfRadix
    <3> QED BY <3>5, <3>6 DEF wide
  <2> HIDE DEF P
  <2>4. GoodNumber(next, high + 1)
    BY <1>2, <2>1, <2>3 DEF GoodNumber
  <2>5. ASSUME NEW n \in used, n.width = next.width PROVE n.value < next.value
    <3>1. n.width = width /\ n # NoNumber
      BY <1>1, <2>1, <2>3, <2>5 DEF GoodNumber, NoNumber
    <3> QED BY <1>2, <2>1, <3>1 DEF GoodNumber
  <2>7. Fits(next)
    BY <2>1, <2>6 DEF Fits
  <2> QED BY <2>4, <2>5, <2>7
<1> QED BY <1>4, <1>5

(* GetCaptureFilename returns a name that is free, with a number above     *)
(* those of the same stamp and width.                                      *)
LEMMA CaptureFilenameFacts ==
  ASSUME NamesInv, NEW temp \in BOOLEAN, NEW f \in Formats, NEW t, NEW high \in Int, high >= -1,
         \A n \in files : n.temp = temp => GoodNumber(n.number, high)
  PROVE  LET name == CaptureFilename(temp, f, t)
         IN  /\ name = [temp |-> temp, stamp |-> name.stamp, number |-> name.number]
             /\ GoodNumber(name.number, high + 1) /\ Fits(name.number)
             /\ name.stamp = Stamp(f.dated, t)
             /\ name \notin files
             /\ \A n \in files :
                  n.temp = temp /\ n.stamp = name.stamp /\ n.number.width = name.number.width
                  => n.number.value < name.number.value
<1> DEFINE stamp == Stamp(f.dated, t)
           used == {n.number : n \in {m \in files : m.temp = temp /\ m.stamp = stamp}}
           next == NextNumber(used, f.digits)
           name == CaptureFilename(temp, f, t)
<1>1. name = [temp |-> temp, stamp |-> stamp, number |-> next]
  BY DEF CaptureFilename
<1>2. f.digits \in 0 .. MaxWidth
  BY CaptureFilesAssumption DEF Formats
<1>3. \A n \in used : GoodNumber(n, high)
  OBVIOUS
<1> HIDE DEF next
<1>4. /\ GoodNumber(next, high + 1) /\ Fits(next)
      /\ \A n \in used : n.width = next.width => n.value < next.value
  BY <1>2, <1>3, NextNumberFacts DEF next
<1>5. ASSUME NEW n \in files, n.temp = temp, n.stamp = stamp, n.number.width = next.width
      PROVE  n.number.value < next.value
  BY <1>4, <1>5
<1>6. name \notin files
  <2> SUFFICES ASSUME name \in files PROVE FALSE
    OBVIOUS
  <2>1. name.temp = temp /\ name.stamp = stamp /\ name.number = next
    BY <1>1
  <2>2. next.value < next.value
    BY <1>5, <2>1
  <2> QED BY <1>4, <2>2 DEF GoodNumber
<1> QED BY <1>1, <1>4, <1>5, <1>6

LEMMA GoodNumberGrows ==
  ASSUME NEW n, NEW low \in Int, NEW high \in Int, low <= high, GoodNumber(n, low)
  PROVE  GoodNumber(n, high)
  BY CaptureFilesAssumption DEF GoodNumber

----------------------------------------------------------------------------
(* The steps.                                                              *)

LEMMA OpenKeeps ==
  ASSUME FilesIInv, NEW t \in RecordingTimes, OpenWriter(t)
  PROVE  FilesIInv'
<1> USE DEF FilesIInv, files, captured
<1> DEFINE name == CaptureFilename(TRUE, format, t)
           w == [name |-> name, format |-> format, dvtime |-> t]
<1>1. /\ writer = {} /\ opened' = opened + 1 /\ writer' = {w}
      /\ disk' = [n \in files \cup {name} |-> IF n = name THEN opened' ELSE disk[n]]
      /\ UNCHANGED <<format, kept, deleted>>
  BY DEF OpenWriter
<1> HIDE DEF w
<1>2. /\ opened \in Nat /\ opened \in Int /\ format \in Formats /\ opened >= -1
      /\ DoneCount = opened /\ DoneCount' = opened
  <2>1. opened \in Nat /\ format \in Formats
    BY DEF CountInv
  <2>2. writer' # {} /\ opened' - 1 = opened
    BY <1>1, <2>1
  <2> QED BY <1>1, <2>1, <2>2 DEF DoneCount
<1>3. /\ name = [temp |-> TRUE, stamp |-> name.stamp, number |-> name.number]
      /\ GoodNumber(name.number, opened + 1) /\ name \notin files
  <2>1. \A n \in files : n.temp = TRUE => GoodNumber(n.number, opened)
    BY DEF NamesInv
  <2> QED BY <1>2, <2>1, CaptureFilenameFacts, Zenon
<1> HIDE DEF name
<1>4. /\ DOMAIN disk' = files \cup {name} /\ disk'[name] = opened + 1
      /\ \A n \in files : disk'[n] = disk[n]
  BY <1>1, <1>3
<1>5. name.temp = TRUE
  BY <1>3
<1>6. NamesInv'
  <2> SUFFICES ASSUME NEW n \in files'
               PROVE  /\ n.temp \in BOOLEAN
                      /\ n = [temp |-> n.temp, stamp |-> n.stamp, number |-> n.number]
                      /\ GoodNumber(n.number, IF n.temp THEN opened + 1 ELSE opened)
    BY <1>1, <1>2 DEF NamesInv, GoodNumber
  <2>1. CASE n = name
    BY <1>3, <1>5, <2>1
  <2>2. CASE n \in files
    <3>1. GoodNumber(n.number, opened) /\ n.temp \in BOOLEAN
      BY <1>2, <2>2 DEF NamesInv
    <3>2. GoodNumber(n.number, opened + 1)
      BY <1>2, <3>1, GoodNumberGrows
    <3> QED BY <2>2, <3>1, <3>2 DEF NamesInv
  <2> QED BY <1>4, <2>1, <2>2
<1>7. WriterInv'
  BY <1>1, <1>2, <1>4, <1>5 DEF WriterInv, w
<1>8. CountInv'
  <2>1. \A n \in DOMAIN disk' : disk'[n] \in Nat /\ (n.temp = FALSE => disk'[n] <= DoneCount')
    BY <1>2, <1>4, <1>5 DEF CountInv
  <2>2. opened' \in Nat /\ opened' > 0 /\ format' \in Formats
    BY <1>1, <1>2
  <2> QED BY <2>1, <2>2 DEF CountInv
<1>9. CapturesKept'
  <2>1. 1 .. opened' = captured' \cup deleted'
    <3>1. captured' = captured \cup {opened + 1}
      BY <1>4
    <3>2. 1 .. opened + 1 = 1 .. opened \cup {opened + 1}
      BY <1>2
    <3> QED BY <1>1, <3>1, <3>2 DEF CapturesKept
  <2>2. \A n \in files : disk[n] # opened + 1
    <3> SUFFICES ASSUME NEW n \in files, disk[n] = opened + 1 PROVE FALSE
      OBVIOUS
    <3>1. disk[n] \in 1 .. opened
      BY DEF CapturesKept
    <3> QED BY <1>2, <3>1
  <2>3. \A m, n \in DOMAIN disk' : disk'[m] = disk'[n] => m = n
    BY <1>4, <2>2 DEF CapturesKept
  <2>4. \A n \in DOMAIN disk' : n.temp => n \in {v.name : v \in writer'} \/ disk'[n] \in kept'
    BY <1>1, <1>4 DEF CapturesKept, w
  <2> QED BY <2>1, <2>3, <2>4 DEF CapturesKept
<1>10. NumberedInOrder'
  BY <1>4, <1>5 DEF NumberedInOrder
<1> QED BY <1>6, <1>7, <1>8, <1>9, <1>10

LEMMA CloseKeeps ==
  ASSUME FilesIInv, NEW w \in writer, NEW refused \in BOOLEAN, CloseWriter(w, refused)
  PROVE  FilesIInv'
<1> USE DEF FilesIInv, files, captured
<1> DEFINE name == CaptureFilename(FALSE, w.format, w.dvtime)
<1>1. /\ w.name \in files /\ w.name.temp = TRUE /\ disk[w.name] = opened
      /\ w.format \in Formats /\ writer = {w}
  BY DEF WriterInv
<1>2. /\ writer' = {} /\ UNCHANGED <<format, opened, deleted>>
  BY DEF CloseWriter
<1>3. /\ opened \in Nat /\ opened > 0 /\ opened - 1 \in Int /\ opened - 1 >= -1
      /\ DoneCount = opened - 1 /\ DoneCount' = opened /\ opened - 1 + 1 = opened
  BY <1>1, <1>2 DEF CountInv, DoneCount
<1>4. /\ name = [temp |-> FALSE, stamp |-> name.stamp, number |-> name.number]
      /\ GoodNumber(name.number, opened) /\ name \notin files
      /\ \A n \in files :
           n.temp = FALSE /\ n.stamp = name.stamp /\ n.number.width = name.number.width
           => n.number.value < name.number.value
  <2>1. \A n \in files : n.temp = FALSE => GoodNumber(n.number, opened - 1)
    BY <1>3 DEF NamesInv
  <2>2. GoodNumber(name.number, opened - 1 + 1) => GoodNumber(name.number, opened)
    BY <1>3
  <2> QED BY <1>1, <1>3, <2>1, <2>2, CaptureFilenameFacts, Zenon
<1> HIDE DEF name
<1>5. name.temp = FALSE
  BY <1>4
<1>6. \A n \in files : GoodNumber(n.number, opened)
  <2> SUFFICES ASSUME NEW n \in files PROVE GoodNumber(n.number, opened)
    OBVIOUS
  <2>1. CASE n.temp = TRUE
    BY <2>1 DEF NamesInv
  <2>2. CASE n.temp = FALSE
    <3>1. GoodNumber(n.number, opened - 1)
      BY <1>3, <2>2 DEF NamesInv
    <3> QED BY <1>3, <3>1, GoodNumberGrows
  <2> QED BY <2>1, <2>2 DEF NamesInv
<1>7. CASE /\ disk' = [n \in (files \ {w.name}) \cup {name} |->
                         IF n = name THEN disk[w.name] ELSE disk[n]]
           /\ UNCHANGED kept
  <2>1. /\ DOMAIN disk' = (files \ {w.name}) \cup {name} /\ disk'[name] = opened
        /\ \A n \in files \ {w.name} : disk'[n] = disk[n]
    BY <1>1, <1>4, <1>7
  <2>2. NamesInv'
    <3> SUFFICES ASSUME NEW n \in files'
                 PROVE  /\ n.temp \in BOOLEAN
                        /\ n = [temp |-> n.temp, stamp |-> n.stamp, number |-> n.number]
                        /\ GoodNumber(n.number, opened)
      BY <1>2, <1>3 DEF NamesInv, GoodNumber
    <3>1. CASE n = name
      BY <1>4, <1>5, <3>1
    <3>2. CASE n \in files
      BY <1>6, <3>2 DEF NamesInv
    <3> QED BY <2>1, <3>1, <3>2
  <2>3. WriterInv'
    BY <1>2 DEF WriterInv
  <2>4. CountInv'
    <3>1. \A n \in DOMAIN disk' : disk'[n] \in Nat /\ (n.temp = FALSE => disk'[n] <= DoneCount')
      BY <1>3, <2>1 DEF CountInv
    <3> QED BY <1>2, <1>3, <3>1 DEF CountInv
  <2>5. CapturesKept'
    <3>1. captured' = captured
      <4>1. captured' \subseteq captured
        BY <1>1, <2>1
      <4>2. ASSUME NEW n \in files PROVE disk[n] \in captured'
        <5>1. CASE n = w.name
          BY <1>1, <2>1, <5>1
        <5>2. CASE n # w.name
          BY <2>1, <5>2
        <5> QED BY <5>1, <5>2
      <4> QED BY <4>1, <4>2
    <3>2. \A m, n \in DOMAIN disk' : disk'[m] = disk'[n] => m = n
      BY <1>1, <2>1 DEF CapturesKept
    <3>3. \A n \in DOMAIN disk' : n.temp => n \in {v.name : v \in writer'} \/ disk'[n] \in kept'
      BY <1>1, <1>5, <1>7, <2>1 DEF CapturesKept
    <3> QED BY <1>2, <3>1, <3>2, <3>3 DEF CapturesKept
  <2>6. NumberedInOrder'
    <3> SUFFICES ASSUME NEW m \in DOMAIN disk', NEW n \in DOMAIN disk', ~m.temp, ~n.temp,
                        m.stamp = n.stamp, m.number.width = n.number.width,
                        m.number.value < n.number.value
                 PROVE  disk'[m] < disk'[n]
      BY DEF NumberedInOrder
    <3>1. m.temp = FALSE /\ n.temp = FALSE
      BY <1>5, <2>1 DEF NamesInv
    <3>2. CASE m # name /\ n # name
      BY <2>1, <3>1, <3>2 DEF NumberedInOrder
    <3>3. CASE n = name /\ m # name
      <4>1. m \in files \ {w.name} /\ disk[m] <= opened - 1 /\ disk[m] \in Nat
        BY <1>3, <2>1, <3>1, <3>3 DEF CountInv
      <4> QED BY <1>3, <2>1, <3>3, <4>1
    <3>4. CASE m = name
      <4>1. n \in files
        BY <1>4, <2>1, <3>4 DEF GoodNumber
      <4>2. n.number.value < m.number.value
        BY <1>4, <3>1, <3>4, <4>1
      <4>3. n.number.value \in Int
        <5>1. GoodNumber(n.number, opened)
          BY ONLY <1>6, <4>1
        <5>2. n.number.value \in 0 .. opened
          BY ONLY <5>1 DEF GoodNumber
        <5> QED BY ONLY <5>2
      <4>4. m.number.value \in Int
        BY <1>3, <1>4, <3>4 DEF GoodNumber
      <4> QED BY <4>2, <4>3, <4>4
    <3> QED BY <3>2, <3>3, <3>4
  <2> QED BY <2>2, <2>3, <2>4, <2>5, <2>6
<1>8. CASE refused /\ UNCHANGED disk /\ kept' = kept \cup {disk[w.name]}
  <2>1. NamesInv'
    BY <1>2, <1>3, <1>6, <1>8 DEF NamesInv, GoodNumber
  <2>2. WriterInv'
    BY <1>2 DEF WriterInv
  <2>3. CountInv'
    <3>1. \A n \in DOMAIN disk' : disk'[n] \in Nat /\ (n.temp = FALSE => disk'[n] <= DoneCount')
      BY <1>3, <1>8 DEF CountInv
    <3> QED BY <1>2, <1>3, <3>1 DEF CountInv
  <2>4. CapturesKept'
    BY <1>1, <1>2, <1>8 DEF CapturesKept
  <2>5. NumberedInOrder'
    BY <1>8 DEF NumberedInOrder
  <2> QED BY <2>1, <2>2, <2>3, <2>4, <2>5
<1> QED
  <2>1. name \notin files
    BY <1>4
  <2> QED BY <1>7, <1>8, <2>1 DEF CloseWriter, name

LEMMA CrashKeeps ==
  ASSUME FilesIInv, Crash
  PROVE  FilesIInv'
<1> USE DEF FilesIInv, files, captured
<1>1. /\ kept' = kept \cup {disk[w.name] : w \in writer} /\ writer' = {}
      /\ UNCHANGED <<disk, format, opened, deleted>>
  BY DEF Crash
<1>2. opened \in Nat /\ DoneCount' = opened /\ DoneCount <= opened /\ DoneCount \in Int
  BY <1>1 DEF CountInv, DoneCount
<1>3. NamesInv'
  <2> SUFFICES ASSUME NEW n \in files
               PROVE  GoodNumber(n.number, opened)
    BY <1>1, <1>2 DEF NamesInv, GoodNumber
  <2>1. CASE n.temp = TRUE
    BY <2>1 DEF NamesInv
  <2>2. CASE n.temp = FALSE
    <3>1. GoodNumber(n.number, DoneCount)
      BY <2>2 DEF NamesInv
    <3> QED BY <1>2, <3>1, GoodNumberGrows
  <2> QED BY <2>1, <2>2 DEF NamesInv
<1>4. WriterInv'
  BY <1>1 DEF WriterInv
<1>5. CountInv'
  <2>1. \A n \in files : disk[n] \in Nat /\ (n.temp = FALSE => disk[n] <= DoneCount')
    BY <1>2 DEF CountInv
  <2> QED BY <1>1, <1>2, <2>1 DEF CountInv
<1>6. CapturesKept'
  BY <1>1 DEF CapturesKept
<1>7. NumberedInOrder'
  BY <1>1 DEF NumberedInOrder
<1> QED BY <1>3, <1>4, <1>5, <1>6, <1>7

LEMMA DeleteKeeps ==
  ASSUME FilesIInv, NEW gone \in files, UserDeletes(gone)
  PROVE  FilesIInv'
<1> USE DEF FilesIInv, files, captured
<1>1. /\ ~gone.temp /\ deleted' = deleted \cup {disk[gone]}
      /\ disk' = [m \in files \ {gone} |-> disk[m]]
      /\ UNCHANGED <<format, writer, opened, kept>>
  BY DEF UserDeletes
<1>2. /\ DOMAIN disk' = files \ {gone} /\ (\A n \in files \ {gone} : disk'[n] = disk[n])
      /\ DoneCount' = DoneCount
  BY <1>1 DEF DoneCount
<1>3. NamesInv'
  BY <1>1, <1>2 DEF NamesInv, GoodNumber
<1>4. WriterInv'
  BY <1>1, <1>2 DEF WriterInv
<1>5. CountInv'
  <2>1. \A n \in DOMAIN disk' : disk'[n] \in Nat /\ (n.temp = FALSE => disk'[n] <= DoneCount')
    BY <1>2 DEF CountInv
  <2> QED BY <1>1, <2>1 DEF CountInv
<1>6. CapturesKept'
  <2>1. captured' \cup deleted' = captured \cup deleted
    BY <1>1, <1>2
  <2>2. \A m, n \in DOMAIN disk' : disk'[m] = disk'[n] => m = n
    BY <1>2 DEF CapturesKept
  <2>3. \A n \in DOMAIN disk' : n.temp => n \in {v.name : v \in writer'} \/ disk'[n] \in kept'
    BY <1>1, <1>2 DEF CapturesKept
  <2> QED BY <1>1, <2>1, <2>2, <2>3 DEF CapturesKept
<1>7. NumberedInOrder'
  BY <1>2 DEF NumberedInOrder
<1> QED BY <1>3, <1>4, <1>5, <1>6, <1>7

LEMMA FilesNextKeeps ==
  ASSUME FilesIInv, [FilesNext]_filesVars
  PROVE  FilesIInv'
<1>1. CASE \E f \in Formats : StartCapturing(f)
  <2>1. format' \in Formats /\ UNCHANGED <<disk, writer, opened, kept, deleted>>
    BY <1>1 DEF StartCapturing
  <2> QED BY <2>1 DEF FilesIInv, NamesInv, WriterInv, CountInv, CapturesKept, NumberedInOrder,
                      GoodNumber, DoneCount, files, captured
<1>2. CASE \E t \in RecordingTimes : OpenWriter(t)
  BY <1>2, OpenKeeps
<1>3. CASE \E w \in writer, refused \in BOOLEAN : CloseWriter(w, refused)
  BY <1>3, CloseKeeps
<1>4. CASE Crash
  BY <1>4, CrashKeeps
<1>5. CASE \E n \in files : UserDeletes(n)
  BY <1>5, DeleteKeeps
<1>6. CASE Tick \/ UNCHANGED filesVars
  <2>1. UNCHANGED <<disk, format, writer, opened, kept, deleted>>
    BY <1>6 DEF Tick, filesVars
  <2> QED BY <2>1 DEF FilesIInv, NamesInv, WriterInv, CountInv, CapturesKept, NumberedInOrder,
                      GoodNumber, DoneCount, files, captured
<1> QED BY <1>1, <1>2, <1>3, <1>4, <1>5, <1>6 DEF FilesNext

LEMMA FilesInitKeeps == FilesInit => FilesIInv
<1> SUFFICES ASSUME FilesInit PROVE FilesIInv
  OBVIOUS
<1>1. /\ DOMAIN disk = {} /\ writer = {} /\ opened = 0 /\ deleted = {}
      /\ format = [digits |-> 0, dated |-> FALSE]
  BY DEF FilesInit
<1>2. format \in Formats
  BY <1>1, CaptureFilesAssumption DEF Formats
<1>3. CapturesKept
  BY <1>1 DEF CapturesKept, files, captured
<1> QED BY <1>1, <1>2, <1>3 DEF FilesIInv, NamesInv, WriterInv, CountInv, NumberedInOrder, files

(* What the names of files are made of stays within bounds, whoever opens, *)
(* renames and deletes them.                                               *)
LEMMA StampBounds ==
  ASSUME now \in 1 .. MaxTime, NEW dated, NEW t \in RecordingTimes
  PROVE  Stamp(dated, t) \in 0 .. MaxTime
  BY CaptureFilesAssumption DEF Stamp, NoStamp, RecordingTimes

LEMMA OpenBounds ==
  ASSUME FilesIInv, BoundsInv, NEW t \in RecordingTimes, OpenWriter(t)
  PROVE  BoundsInv'
<1> DEFINE name == CaptureFilename(TRUE, format, t)
<1>1. /\ opened < MaxFiles /\ opened' = opened + 1 /\ UNCHANGED <<now, kept>>
      /\ writer' = {[name |-> name, format |-> format, dvtime |-> t]}
      /\ disk' = [n \in files \cup {name} |-> IF n = name THEN opened' ELSE disk[n]]
  BY DEF OpenWriter
<1>2. /\ opened \in Nat /\ opened \in Int /\ opened >= -1 /\ format \in Formats
      /\ DoneCount = opened
  BY DEF FilesIInv, CountInv, DoneCount, OpenWriter
<1>3. Fits(name.number) /\ name.stamp = Stamp(format.dated, t)
  <2>1. \A n \in files : n.temp = TRUE => GoodNumber(n.number, opened)
    BY DEF FilesIInv, NamesInv
  <2> QED BY <1>2, <2>1, CaptureFilenameFacts, Zenon DEF FilesIInv
<1>4. name.stamp \in 0 .. MaxTime
  BY <1>3, StampBounds DEF BoundsInv
<1> HIDE DEF name
<1>5. files' = files \cup {name}
  BY <1>1 DEF files
<1>6. \A n \in files' : n.stamp \in 0 .. MaxTime /\ Fits(n.number)
  BY <1>3, <1>4, <1>5 DEF BoundsInv
<1>7. \A w \in writer' : w.dvtime \in RecordingTimes
  BY <1>1
<1>8. opened' \in 0 .. MaxFiles /\ kept' \subseteq 1 .. opened'
  BY <1>1, <1>2, CaptureFilesAssumption DEF BoundsInv
<1>9. now' \in 1 .. MaxTime
  BY <1>1 DEF BoundsInv
<1> QED BY <1>6, <1>7, <1>8, <1>9 DEF BoundsInv, Fits

LEMMA CloseBounds ==
  ASSUME FilesIInv, BoundsInv, NEW w \in writer, NEW refused \in BOOLEAN, CloseWriter(w, refused)
  PROVE  BoundsInv'
<1> DEFINE name == CaptureFilename(FALSE, w.format, w.dvtime)
<1>1. /\ writer' = {} /\ UNCHANGED <<opened, now>>
      /\ \/ /\ disk' = [n \in (files \ {w.name}) \cup {name} |->
                          IF n = name THEN disk[w.name] ELSE disk[n]]
            /\ kept' = kept
         \/ /\ disk' = disk
            /\ kept' \subseteq kept \cup {disk[w.name]}
  BY DEF CloseWriter
<1>2. /\ opened \in Nat /\ opened > 0 /\ opened - 1 \in Int /\ opened - 1 >= -1
      /\ w.format \in Formats /\ disk[w.name] = opened /\ DoneCount = opened - 1
  BY DEF FilesIInv, CountInv, WriterInv, DoneCount
<1>3. Fits(name.number) /\ name.stamp = Stamp(w.format.dated, w.dvtime)
  <2>1. \A n \in files : n.temp = FALSE => GoodNumber(n.number, opened - 1)
    BY <1>2 DEF FilesIInv, NamesInv
  <2> QED BY <1>2, <2>1, CaptureFilenameFacts, Zenon DEF FilesIInv
<1>4. name.stamp \in 0 .. MaxTime
  BY <1>3, StampBounds DEF BoundsInv
<1> HIDE DEF name
<1>5. files' \subseteq files \cup {name}
  BY <1>1 DEF files
<1>6. \A n \in files' : n.stamp \in 0 .. MaxTime /\ Fits(n.number)
  BY <1>3, <1>4, <1>5 DEF BoundsInv
<1>7. kept' \subseteq 1 .. opened'
  BY <1>1, <1>2 DEF BoundsInv
<1> QED BY <1>1, <1>6, <1>7 DEF BoundsInv, Fits

LEMMA BoundsKept ==
  ASSUME FilesIInv, BoundsInv, [FilesNext]_filesVars
  PROVE  BoundsInv'
<1>1. CASE \E t \in RecordingTimes : OpenWriter(t)
  BY <1>1, OpenBounds
<1>2. CASE \E w \in writer, refused \in BOOLEAN : CloseWriter(w, refused)
  BY <1>2, CloseBounds
<1>3. CASE Crash
  <2>1. /\ kept' = kept \cup {disk[w.name] : w \in writer} /\ writer' = {}
        /\ UNCHANGED <<disk, opened, now>>
    BY <1>3 DEF Crash
  <2>2. \A w \in writer : disk[w.name] = opened /\ opened \in 1 .. opened
    BY DEF FilesIInv, WriterInv, CountInv
  <2> QED BY <2>1, <2>2 DEF BoundsInv, Fits, files
<1>4. CASE \E n \in files : UserDeletes(n)
  <2>1. DOMAIN disk' \subseteq DOMAIN disk /\ UNCHANGED <<writer, opened, now, kept>>
    BY <1>4 DEF UserDeletes, files
  <2> QED BY <2>1 DEF BoundsInv, Fits, files
<1>5. CASE Tick
  <2>1. now' \in 1 .. MaxTime /\ UNCHANGED <<disk, writer, opened, kept>>
    BY <1>5, CaptureFilesAssumption DEF Tick, BoundsInv
  <2> QED BY <2>1 DEF BoundsInv, Fits, files
<1>6. CASE (\E f \in Formats : StartCapturing(f)) \/ UNCHANGED filesVars
  <2>1. UNCHANGED <<disk, writer, now, opened, kept>>
    BY <1>6 DEF StartCapturing, filesVars
  <2> QED BY <2>1 DEF BoundsInv, Fits, files
<1> QED BY <1>1, <1>2, <1>3, <1>4, <1>5, <1>6 DEF FilesNext

LEMMA FilesTyped == FilesIInv /\ BoundsInv => FilesTypeOK
<1> SUFFICES ASSUME FilesIInv, BoundsInv PROVE FilesTypeOK
  OBVIOUS
<1>1. /\ opened \in 0 .. MaxFiles /\ MaxFiles \in Nat /\ MaxWidth \in Nat \ {0}
      /\ MaxFiles < RadixPower[MaxWidth]
      /\ \A k \in Nat : RadixPower[k] \in Nat
  BY CaptureFilesAssumption, PowersOfRadix DEF BoundsInv
<1>2. \A n \in files : /\ n.temp \in BOOLEAN
                       /\ n = [temp |-> n.temp, stamp |-> n.stamp, number |-> n.number]
                       /\ GoodNumber(n.number, opened)
  <2> SUFFICES ASSUME NEW n \in files PROVE GoodNumber(n.number, opened)
    BY DEF FilesIInv, NamesInv
  <2>1. DoneCount \in Int /\ DoneCount <= opened /\ opened \in Int
    BY DEF FilesIInv, CountInv, DoneCount
  <2>2. GoodNumber(n.number, DoneCount) \/ GoodNumber(n.number, opened)
    BY DEF FilesIInv, NamesInv
  <2> QED BY <2>1, <2>2, GoodNumberGrows
<1>3. ASSUME NEW n \in files PROVE n.number \in Numbers
  <2>1. GoodNumber(n.number, opened) /\ Fits(n.number)
    BY <1>2 DEF BoundsInv
  <2> DEFINE number == n.number
             wide == number.width
             v == number.value
  <2>2. /\ number = [width |-> wide, value |-> v] /\ wide \in 0 .. MaxWidth
        /\ v \in 0 .. opened
    BY <2>1 DEF GoodNumber
  <2>3. v < RadixPower[wide] \/ wide = MaxWidth
    BY <2>1 DEF Fits
  <2> HIDE DEF number, wide, v
  <2>4. v <= MaxFiles /\ v \in Nat
    BY <1>1, <2>2
  <2>5. v < RadixPower[wide]
    BY <1>1, <2>3, <2>4
  <2>6. v \in 0 .. RadixPower[MaxWidth] - 1
    BY <1>1, <2>4
  <2>7. number \in Numbers
    BY <2>2, <2>5, <2>6 DEF Numbers
  <2> QED BY <2>7 DEF number
<1>4. files \subseteq Names
  <2> SUFFICES ASSUME NEW n \in files PROVE n \in Names
    OBVIOUS
  <2>1. /\ n.temp \in BOOLEAN /\ n.stamp \in 0 .. MaxTime /\ n.number \in Numbers
        /\ n = [temp |-> n.temp, stamp |-> n.stamp, number |-> n.number]
    BY <1>2, <1>3 DEF BoundsInv
  <2> QED BY <2>1 DEF Names
<1>5. 1 .. opened \subseteq 1 .. MaxFiles /\ captured \cup deleted = 1 .. opened
  BY <1>1 DEF FilesIInv, CapturesKept
<1>6. Cardinality(writer) <= 1
  <2>1. CASE writer = {}
    BY <2>1, FS_EmptySet
  <2>2. CASE writer # {}
    <3>1. PICK w \in writer : TRUE
      BY <2>2
    <3>2. writer = {w}
      BY <3>1 DEF FilesIInv, WriterInv
    <3> QED BY <3>2, FS_Singleton
  <2> QED BY <2>1, <2>2
<1>7. \A w \in writer : w.name \in files /\ w.name.temp /\ w.format \in Formats
  BY DEF FilesIInv, WriterInv
<1>8. format \in Formats /\ now \in 1 .. MaxTime /\ kept \subseteq 1 .. opened
      /\ \A w \in writer : w.dvtime \in RecordingTimes
  BY DEF FilesIInv, CountInv, BoundsInv
<1> QED BY <1>1, <1>4, <1>5, <1>6, <1>7, <1>8 DEF FilesTypeOK

LEMMA BoundsStart == FilesInit => BoundsInv
<1> SUFFICES ASSUME FilesInit PROVE BoundsInv
  OBVIOUS
<1>1. files = {} /\ writer = {} /\ now = 1 /\ opened = 0 /\ kept = {}
  BY DEF FilesInit, files
<1>2. now \in 1 .. MaxTime /\ opened \in 0 .. MaxFiles
  BY <1>1, CaptureFilesAssumption
<1> QED BY <1>1, <1>2 DEF BoundsInv

(* The conjunction of all the parts holds in every reachable state.        *)
THEOREM FilesInvariance == FilesSpec => []FilesIInv
  BY FilesInitKeeps, FilesNextKeeps, PTL DEF FilesSpec

(* No capture is ever overwritten, by the temporary name of a later one or *)
(* by its final name, and a final name is always free: CAVIWriter keeps a  *)
(* temporary name only after a crash or when the system refuses.           *)
THEOREM KeepsCaptures == FilesSpec => []CapturesKept
<1>1. FilesIInv => CapturesKept
  BY DEF FilesIInv
<1> QED BY <1>1, FilesInvariance, PTL

(* GetCaptureFilename numbers the files of one stamp in the order of their *)
(* capture, whatever the user deletes in between.                          *)
THEOREM NumbersInOrder == FilesSpec => []NumberedInOrder
<1>1. FilesIInv => NumberedInOrder
  BY DEF FilesIInv
<1> QED BY <1>1, FilesInvariance, PTL

----------------------------------------------------------------------------
(* The duration of a capture.                                              *)

(* A run of digits ends, at a character that is none or with the text.     *)
Ends(q, s, p) ==
  /\ q \in p .. Len(s) + 1
  /\ \A i \in p .. q - 1 : IsDigit(s[i])
  /\ q <= Len(s) => ~IsDigit(s[q])

(* What a text is made of.                                                 *)
Texts == Seq(0 .. Other)

LEMMA TextFacts ==
  ASSUME NEW s \in Texts
  PROVE  Len(s) \in Nat /\ \A i \in 1 .. Len(s) : s[i] \in 0 .. Other
<1> DEFINE Characters == 0 .. Other
<1>1. s \in Seq(Characters)
  BY DEF Texts
<1> HIDE DEF Characters
<1>2. Len(s) \in Nat /\ \A i \in 1 .. Len(s) : s[i] \in Characters
  BY <1>1
<1> QED BY <1>2 DEF Characters

LEMMA RunEndFacts ==
  ASSUME NEW s \in Texts, NEW p \in 1 .. Len(s) + 1
  PROVE  Ends(RunEnd(s, p), s, p)
<1>1. Len(s) \in Nat /\ \A i \in 1 .. Len(s) : s[i] \in 0 .. Other
  BY TextFacts
<1> DEFINE T == {q \in p .. Len(s) + 1 : q <= Len(s) => ~IsDigit(s[q])}
<1>2. PICK q \in T : \A y \in T : q <= y
  <2>1. Len(s) + 1 \in T /\ T \subseteq Nat
    BY <1>1
  <2> HIDE DEF T
  <2> QED BY <2>1, LeastOf
<1>3. ASSUME NEW i \in p .. q - 1 PROVE IsDigit(s[i])
  <2>1. i \notin T /\ i \in p .. Len(s) + 1
    BY <1>1, <1>2
  <2> QED BY <2>1
<1>4. Ends(q, s, p)
  BY <1>2, <1>3 DEF Ends
<1> QED BY <1>4 DEF RunEnd, Ends

(* A character of a run is a digit.                                        *)
LEMMA DigitsOfRun ==
  ASSUME NEW s \in Texts, NEW p \in 1 .. Len(s) + 1, NEW i \in p .. RunEnd(s, p) - 1
  PROVE  s[i] \in 0 .. 9 /\ i \in 1 .. Len(s)
<1>1. Len(s) \in Nat /\ \A j \in 1 .. Len(s) : s[j] \in 0 .. Other
  BY TextFacts
<1>2. RunEnd(s, p) \in p .. Len(s) + 1 /\ IsDigit(s[i])
  BY RunEndFacts DEF Ends
<1>3. i \in 1 .. Len(s)
  BY <1>1, <1>2
<1> QED BY <1>1, <1>2, <1>3 DEF IsDigit, Colon, Other

(* What starts with a number and takes a number to a number gives numbers. *)
LEMMA NumbersAlong ==
  ASSUME NEW p \in Nat, NEW e \in Nat, NEW v, v[p] \in Nat,
         \A q \in p .. e : q # p /\ v[q - 1] \in Nat => v[q] \in Nat
  PROVE  \A q \in p .. e : v[q] \in Nat
<1> SUFFICES ASSUME NEW m \in p .. e, v[m] \notin Nat PROVE FALSE
  OBVIOUS
<1> DEFINE T == {q \in p .. e : v[q] \notin Nat}
<1>1. PICK n \in T : \A y \in T : n <= y
  <2>1. T \subseteq Nat /\ T # {}
    OBVIOUS
  <2> HIDE DEF T
  <2> QED BY <2>1, LeastOf
<1>2. n # p /\ n \in p .. e /\ v[n] \notin Nat
  BY <1>1
<1>3. n - 1 \in p .. e /\ n - 1 \notin T
  BY <1>1, <1>2
<1> QED BY <1>2, <1>3

(* A recursive definition along a run has the function it asks for.        *)
Along(f, p, e, base, h) ==
  f = [q \in p .. e |-> IF q = p THEN base ELSE h[<<q, f[q - 1]>>]]

LEMMA RunRecursion ==
  ASSUME NEW p \in Nat, NEW e \in Nat, NEW base \in Nat, NEW h \in [Nat \X Nat -> Nat],
         p <= e
  PROVE  \E f : Along(f, p, e, base, h) /\ \A q \in p .. e : f[q] \in Nat
<1> DEFINE g == [ss \in Nat \X Nat |-> h[<<ss[1] + p + 1, ss[2]>>]]
<1>1. g \in [Nat \X Nat -> Nat]
  OBVIOUS
<1>2. PICK F : Follows(F, Nat, base, g)
  <2> HIDE DEF g
  <2> QED BY <1>1, Recursion, Zenon
<1> DEFINE f == [q \in p .. e |-> F[q - p]]
<1>3. ASSUME NEW q \in p .. e PROVE f[q] = IF q = p THEN base ELSE h[<<q, f[q - 1]>>]
  <2>1. CASE q = p
    BY <1>2, <2>1 DEF Follows
  <2>2. CASE q # p
    <3>1. /\ q - p - 1 \in Nat /\ (q - p - 1) + 1 = q - p /\ q - 1 \in p .. e
          /\ (q - p - 1) + p + 1 = q /\ (q - 1) - p = q - p - 1
      BY <2>2
    <3>2. F[q - p] = g[<<q - p - 1, F[q - p - 1]>>] /\ F[q - p - 1] \in Nat
      BY <1>2, <3>1 DEF Follows
    <3>3. F[q - p] = h[<<q, F[q - p - 1]>>]
      BY <3>1, <3>2
    <3>4. f[q - 1] = F[q - p - 1]
      BY <3>1
    <3> QED BY <2>2, <3>3, <3>4
  <2> QED BY <2>1, <2>2
<1>4. Along(f, p, e, base, h)
  BY <1>3 DEF Along
<1>5. ASSUME NEW q \in p .. e PROVE f[q] \in Nat
  <2>1. q - p \in Nat
    OBVIOUS
  <2> QED BY <1>2, <2>1 DEF Follows
<1> QED BY <1>4, <1>5

(* The run, its digits and its end.                                        *)
LEMMA RunFacts ==
  ASSUME NEW s \in Texts, NEW p \in 1 .. Len(s) + 1
  PROVE  /\ p \in Nat /\ RunEnd(s, p) \in Nat /\ p <= RunEnd(s, p)
         /\ \A q \in p .. RunEnd(s, p) :
              q # p => s[q - 1] \in Nat /\ q - 1 \in p .. RunEnd(s, p)
<1> DEFINE e == RunEnd(s, p)
<1>1. p \in Nat /\ e \in Nat /\ e >= p
  <2>1. Len(s) \in Nat
    BY TextFacts
  <2> QED BY <2>1, RunEndFacts DEF Ends
<1>2. \A i \in p .. e - 1 : s[i] \in Nat
  BY DigitsOfRun
<1> HIDE DEF e
<1>3. \A q \in p .. e : q # p => q - 1 \in p .. e - 1 /\ q - 1 \in p .. e
  BY <1>1
<1>4. \A q \in p .. e : q # p => s[q - 1] \in Nat /\ q - 1 \in p .. e
  BY <1>2, <1>3
<1> QED BY <1>1, <1>4 DEF e

(* A field is read digit by digit.                                         *)
Reads(v, s, p) ==
  /\ v[p] = 0
  /\ \A q \in p .. RunEnd(s, p) : v[q] \in Nat /\ (q # p => v[q] = v[q - 1] * 10 + s[q - 1])

LEMMA NumberReads ==
  ASSUME NEW s \in Texts, NEW p \in 1 .. Len(s) + 1
  PROVE  \E v : Reads(v, s, p) /\ Number(s, p) = v[RunEnd(s, p)]
<1> DEFINE e == RunEnd(s, p)
           digit(q) == IF q \in p .. e /\ q # p THEN s[q - 1] ELSE 0
           h == [ss \in Nat \X Nat |-> ss[2] * 10 + digit(ss[1])]
<1>1. p \in Nat /\ e \in Nat /\ p <= e
      /\ \A q \in p .. e : q # p => s[q - 1] \in Nat /\ q - 1 \in p .. e
  BY RunFacts
<1> HIDE DEF e
<1>2. \A q \in Nat : digit(q) \in Nat
  BY <1>1
<1>3. \A q \in p .. e : q \in Nat /\ (q # p => digit(q) = s[q - 1])
  BY <1>1
<1> HIDE DEF digit
<1>4. h \in [Nat \X Nat -> Nat] /\ 0 \in Nat
  <2>1. ASSUME NEW q \in Nat, NEW y \in Nat PROVE y * 10 + digit(q) \in Nat
    <3>1. digit(q) \in Nat
      BY <1>2
    <3> QED BY <3>1
  <2> QED BY <2>1
<1>5. PICK f : Along(f, p, e, 0, h) /\ \A q \in p .. e : f[q] \in Nat
  <2> HIDE DEF h
  <2> QED BY <1>1, <1>4, RunRecursion, Zenon
<1>6. ASSUME NEW q \in p .. e, q # p
      PROVE  h[<<q, f[q - 1]>>] = f[q - 1] * 10 + s[q - 1]
  <2>1. q \in Nat /\ f[q - 1] \in Nat /\ digit(q) = s[q - 1]
    BY <1>1, <1>3, <1>5, <1>6
  <2> QED BY <2>1
<1> HIDE DEF h
<1>7. f = [q \in p .. e |-> IF q = p THEN 0 ELSE f[q - 1] * 10 + s[q - 1]]
  BY <1>5, <1>6 DEF Along
<1> DEFINE v == CHOOSE v : v = [q \in p .. e |-> IF q = p THEN 0 ELSE v[q - 1] * 10 + s[q - 1]]
<1>8. v = [q \in p .. e |-> IF q = p THEN 0 ELSE v[q - 1] * 10 + s[q - 1]]
  BY <1>7
<1>9. Number(s, p) = v[e]
  BY DEF Number, e
<1> HIDE DEF v
<1>10. v[p] = 0 /\ v[p] \in Nat /\ \A q \in p .. e : q # p => v[q] = v[q - 1] * 10 + s[q - 1]
  BY <1>1, <1>8
<1>11. ASSUME NEW q \in p .. e, q # p, v[q - 1] \in Nat PROVE v[q] \in Nat
  <2>1. s[q - 1] \in Nat
    BY <1>1, <1>11
  <2>2. v[q] = v[q - 1] * 10 + s[q - 1]
    BY <1>8, <1>11
  <2> QED BY <1>11, <2>1, <2>2
<1>12. \A q \in p .. e : v[q] \in Nat
  BY <1>1, <1>10, <1>11, NumbersAlong
<1> QED BY <1>1, <1>9, <1>10, <1>12 DEF Reads, e

LEMMA NumberType ==
  ASSUME NEW s \in Texts, NEW p \in 1 .. Len(s) + 1
  PROVE  Number(s, p) \in Nat
<1>1. PICK v : Reads(v, s, p) /\ Number(s, p) = v[RunEnd(s, p)]
  BY NumberReads
<1>2. RunEnd(s, p) \in p .. RunEnd(s, p)
  BY RunFacts
<1> QED BY <1>1, <1>2 DEF Reads

(* A fraction is read digit by digit, each with a tenth of the weight.     *)
Weighs(w, v, s, p) ==
  /\ w[p] = TicksPerSecond \div 10 /\ v[p] = 0
  /\ \A q \in p .. RunEnd(s, p) :
       /\ w[q] \in Nat /\ v[q] \in Nat
       /\ q # p => w[q] = w[q - 1] \div 10 /\ v[q] = v[q - 1] + w[q - 1] * s[q - 1]

LEMMA TicksWeigh ==
  ASSUME NEW s \in Texts, NEW p \in 1 .. Len(s) + 1
  PROVE  \E w, v : Weighs(w, v, s, p) /\ Ticks(s, p) = v[RunEnd(s, p)]
<1> DEFINE e == RunEnd(s, p)
           tenth == TicksPerSecond \div 10
           w == CHOOSE w : w = [q \in p .. e |-> IF q = p THEN tenth ELSE w[q - 1] \div 10]
           v == CHOOSE v : v = [q \in p .. e |->
                                  IF q = p THEN 0 ELSE v[q - 1] + w[q - 1] * s[q - 1]]
           k == [ss \in Nat \X Nat |-> ss[2] \div 10]
           term(q) == IF q \in p .. e /\ q # p THEN w[q - 1] * s[q - 1] ELSE 0
           h == [ss \in Nat \X Nat |-> ss[2] + term(ss[1])]
<1>1. Ticks(s, p) = v[e]
  BY DEF Ticks, e
<1>2. p \in Nat /\ e \in Nat /\ p <= e
      /\ \A q \in p .. e : q # p => s[q - 1] \in Nat /\ q - 1 \in p .. e
  BY RunFacts
<1> HIDE DEF e
<1>3. tenth \in Nat /\ \A x \in Nat : x \div 10 \in Nat
  BY DurationAssumption
<1> HIDE DEF tenth
<1>4. k \in [Nat \X Nat -> Nat]
  BY <1>3
<1>5. PICK f : Along(f, p, e, tenth, k) /\ \A q \in p .. e : f[q] \in Nat
  <2> HIDE DEF k
  <2> QED BY <1>2, <1>3, <1>4, RunRecursion, Zenon
<1>6. ASSUME NEW q \in p .. e, q # p PROVE k[<<q, f[q - 1]>>] = f[q - 1] \div 10
  <2>1. q \in Nat /\ f[q - 1] \in Nat
    BY <1>2, <1>5, <1>6
  <2> QED BY <2>1
<1> HIDE DEF k
<1>7. f = [q \in p .. e |-> IF q = p THEN tenth ELSE f[q - 1] \div 10]
  BY <1>5, <1>6 DEF Along
<1>8. w = [q \in p .. e |-> IF q = p THEN tenth ELSE w[q - 1] \div 10]
  BY <1>7
<1> HIDE DEF w
<1>9. \A q \in p .. e : w[q] \in Nat
  <2>1. w[p] \in Nat
    BY <1>2, <1>3, <1>8
  <2>2. ASSUME NEW q \in p .. e, q # p, w[q - 1] \in Nat PROVE w[q] \in Nat
    BY <1>3, <1>8, <2>2
  <2> QED BY <1>2, <2>1, <2>2, NumbersAlong
<1>10. \A q \in p .. e : q # p => w[q - 1] * s[q - 1] \in Nat
  <2> SUFFICES ASSUME NEW q \in p .. e, q # p PROVE w[q - 1] * s[q - 1] \in Nat
    OBVIOUS
  <2>1. w[q - 1] \in Nat /\ s[q - 1] \in Nat
    BY <1>2, <1>9
  <2> QED BY <2>1
<1>11. \A q \in Nat : term(q) \in Nat
  BY <1>10
<1>12. \A q \in p .. e : q \in Nat /\ (q # p => term(q) = w[q - 1] * s[q - 1])
  BY <1>2
<1> HIDE DEF term
<1>13. h \in [Nat \X Nat -> Nat] /\ 0 \in Nat
  <2>1. ASSUME NEW q \in Nat, NEW y \in Nat PROVE y + term(q) \in Nat
    <3>1. term(q) \in Nat
      BY <1>11
    <3> QED BY <3>1
  <2> QED BY <2>1
<1>14. PICK u : Along(u, p, e, 0, h) /\ \A q \in p .. e : u[q] \in Nat
  <2> HIDE DEF h
  <2> QED BY <1>2, <1>13, RunRecursion, Zenon
<1>15. ASSUME NEW q \in p .. e, q # p
       PROVE  h[<<q, u[q - 1]>>] = u[q - 1] + w[q - 1] * s[q - 1]
  <2>1. q \in Nat /\ u[q - 1] \in Nat /\ term(q) = w[q - 1] * s[q - 1]
    BY <1>2, <1>12, <1>14, <1>15
  <2> QED BY <2>1
<1> HIDE DEF h
<1>16. u = [q \in p .. e |-> IF q = p THEN 0 ELSE u[q - 1] + w[q - 1] * s[q - 1]]
  BY <1>14, <1>15 DEF Along
<1>17. v = [q \in p .. e |-> IF q = p THEN 0 ELSE v[q - 1] + w[q - 1] * s[q - 1]]
  BY <1>16
<1> HIDE DEF v
<1>18. \A q \in p .. e : v[q] \in Nat
  <2>1. v[p] \in Nat
    BY <1>2, <1>17
  <2>2. ASSUME NEW q \in p .. e, q # p, v[q - 1] \in Nat PROVE v[q] \in Nat
    <3>1. v[q] = v[q - 1] + w[q - 1] * s[q - 1]
      BY <1>17, <2>2
    <3> QED BY <1>10, <2>2, <3>1
  <2> QED BY <1>2, <2>1, <2>2, NumbersAlong
<1>19. w[p] = tenth /\ \A q \in p .. e : q # p => w[q] = w[q - 1] \div 10
  BY <1>2, <1>8
<1>20. v[p] = 0 /\ \A q \in p .. e : q # p => v[q] = v[q - 1] + w[q - 1] * s[q - 1]
  BY <1>2, <1>17
<1> QED BY <1>1, <1>9, <1>18, <1>19, <1>20 DEF Weighs, e, tenth

LEMMA TicksType ==
  ASSUME NEW s \in Texts, NEW p \in 1 .. Len(s) + 1
  PROVE  Ticks(s, p) \in Nat
<1>1. PICK w, v : Weighs(w, v, s, p) /\ Ticks(s, p) = v[RunEnd(s, p)]
  BY TicksWeigh
<1>2. RunEnd(s, p) \in p .. RunEnd(s, p)
  BY RunFacts
<1> QED BY <1>1, <1>2 DEF Weighs

(* A time limit is a number of ticks, or there is none.                    *)
LEMMA FractionType ==
  ASSUME NEW s \in Texts, NEW p \in 1 .. Len(s) + 1, NEW seconds \in Nat
  PROVE  Fraction(s, p, seconds) \in Nat \cup {Malformed}
<1>1. seconds * TicksPerSecond \in Nat
  BY DurationAssumption
<1>2. p <= Len(s) => Ticks(s, p + 1) \in Nat
  <2>1. p <= Len(s) => p + 1 \in 1 .. Len(s) + 1
    BY TextFacts
  <2> QED BY <2>1, TicksType
<1> QED BY <1>1, <1>2, TextFacts DEF Fraction

LEMMA DurationType ==
  ASSUME NEW s \in Texts
  PROVE  ParseDuration(s) \in Nat \cup {Malformed}
<1> DEFINE p1 == RunEnd(s, 1)
           p2 == RunEnd(s, p1 + 1)
           p3 == RunEnd(s, p2 + 1)
           n1 == Number(s, 1)
           n2 == Number(s, p1 + 1)
           n3 == Number(s, p2 + 1)
           Anywhere == 1 .. Len(s) + 1
<1>0. Len(s) \in Nat
  BY TextFacts
<1>1. \A p \in Anywhere : RunEnd(s, p) \in Anywhere
  BY <1>0, RunEndFacts DEF Ends
<1>2. \A p \in Anywhere : Number(s, p) \in Nat
  BY NumberType
<1>3. \A p \in Anywhere : ~FieldEnds(s, p) => p + 1 \in Anywhere
  BY <1>0 DEF FieldEnds
<1>4. \A p \in Anywhere, n \in Nat : Fraction(s, p, n) \in Nat \cup {Malformed}
  BY FractionType
<1>5. p1 \in Anywhere /\ n1 \in Nat
  <2>1. 1 \in Anywhere
    BY <1>0
  <2> QED BY <1>1, <1>2, <2>1
<1>6. ~FieldEnds(s, p1) => p2 \in Anywhere /\ n2 \in Nat
  BY <1>1, <1>2, <1>3, <1>5
<1>7. ~FieldEnds(s, p1) /\ ~FieldEnds(s, p2) => p3 \in Anywhere /\ n3 \in Nat
  BY <1>1, <1>2, <1>3, <1>6
<1>8. ParseDuration(s) =
        IF FieldEnds(s, p1) THEN Fraction(s, p1, n1)
        ELSE IF s[p1] # Colon THEN Malformed
        ELSE IF FieldEnds(s, p2) THEN Fraction(s, p2, n1 * 60 + n2)
        ELSE IF s[p2] # Colon THEN Malformed
        ELSE Fraction(s, p3, (n1 * 60 + n2) * 60 + n3)
  BY DEF ParseDuration, MinutesSeconds
<1> HIDE DEF p1, p2, p3, n1, n2, n3, Anywhere
<1>9. ~FieldEnds(s, p1) => n1 * 60 + n2 \in Nat
  BY <1>5, <1>6
<1>10. ~FieldEnds(s, p1) /\ ~FieldEnds(s, p2) => (n1 * 60 + n2) * 60 + n3 \in Nat
  BY <1>5, <1>6, <1>7
<1> QED BY <1>4, <1>5, <1>6, <1>7, <1>8, <1>9, <1>10

----------------------------------------------------------------------------
(* The sum of the usage text.                                              *)

(* The powers of ten.                                                      *)
LEMMA PowersOfTen ==
  /\ PowerOfTen[0] = 1
  /\ \A n \in Nat : PowerOfTen[n] \in Nat \ {0} /\ PowerOfTen[n + 1] = 10 * PowerOfTen[n]
<1> DEFINE g == [ss \in Nat \X Nat |-> 10 * ss[2]]
<1>1. g \in [Nat \X Nat -> Nat]
  OBVIOUS
<1>2. PICK f : Follows(f, Nat, 1, g)
  <2> HIDE DEF g
  <2>1. 1 \in Nat
    OBVIOUS
  <2> QED BY <1>1, <2>1, Recursion, Zenon
<1>3. ASSUME NEW n \in Nat, n # 0 PROVE f[n] = 10 * f[n - 1]
  <2>1. n - 1 \in Nat /\ n = (n - 1) + 1
    BY <1>3
  <2>2. f[n] = g[<<n - 1, f[n - 1]>>] /\ f[n - 1] \in Nat
    BY <1>2, <2>1 DEF Follows
  <2> QED BY <2>1, <2>2
<1>4. f = [n \in Nat |-> IF n = 0 THEN 1 ELSE 10 * f[n - 1]]
  BY <1>2, <1>3 DEF Follows
<1> HIDE DEF g
<1>5. PowerOfTen = [n \in Nat |-> IF n = 0 THEN 1 ELSE 10 * PowerOfTen[n - 1]]
  BY <1>4 DEF PowerOfTen
<1>6. \A n \in Nat : PowerOfTen[n] = IF n = 0 THEN 1 ELSE 10 * PowerOfTen[n - 1]
  BY <1>5, Zenon
<1>7. PowerOfTen[0] = 1
  BY <1>6
<1>8. ASSUME NEW m \in Nat, PowerOfTen[m] \notin Nat \ {0} PROVE FALSE
  <2> DEFINE T == {k \in Nat : PowerOfTen[k] \notin Nat \ {0}}
  <2>1. PICK n \in T : \A y \in T : n <= y
    <3> T \subseteq Nat /\ T # {}
      BY <1>8
    <3> HIDE DEF T
    <3> QED BY LeastOf
  <2>2. n # 0
    BY <1>7, <2>1
  <2>3. n - 1 \in Nat /\ n - 1 \notin T
    BY <2>1, <2>2
  <2>4. PowerOfTen[n] = 10 * PowerOfTen[n - 1] /\ PowerOfTen[n - 1] \in Nat \ {0}
    BY <1>6, <2>2, <2>3
  <2>5. PowerOfTen[n] \in Nat \ {0}
    BY <2>4
  <2> QED BY <2>1, <2>5
<1>9. ASSUME NEW n \in Nat PROVE PowerOfTen[n + 1] = 10 * PowerOfTen[n]
  <2>1. n + 1 \in Nat /\ n + 1 # 0 /\ (n + 1) - 1 = n
    OBVIOUS
  <2> QED BY <1>6, <2>1
<1> QED BY <1>7, <1>8, <1>9

(* What a place of the text adds to the sum, and the sum up to a place.    *)
Term(s, n) == IF n \in DigitPlaces(s) THEN s[n] * Weight(s, n) ELSE 0

Sums(f, s) ==
  /\ f[0] = 0
  /\ \A n \in 1 .. Len(s) : f[n] = f[n - 1] + Term(s, n)

(* Sets of two and of three.                                               *)
LEMMA TwoOf ==
  ASSUME NEW S, IsFiniteSet(S), NEW a \in S, NEW b \in S, a # b
  PROVE  Cardinality(S) >= 2
<1>1. IsFiniteSet({a}) /\ Cardinality({a}) = 1
  BY FS_Singleton
<1>2. IsFiniteSet({a} \cup {b}) /\ Cardinality({a} \cup {b}) = 2
  <2>1. b \notin {a}
    OBVIOUS
  <2>2. IsFiniteSet({a} \cup {b}) /\ Cardinality({a} \cup {b}) = Cardinality({a}) + 1
    BY <1>1, <2>1, FS_AddElement, Zenon
  <2> QED BY <1>1, <2>2
<1>3. ({a} \cup {b}) \in SUBSET S
  OBVIOUS
<1>4. Cardinality({a} \cup {b}) <= Cardinality(S)
  BY <1>3, FS_Subset
<1>5. Cardinality(S) \in Nat
  BY FS_CardinalityType
<1> QED BY <1>2, <1>4, <1>5

LEMMA ThreeOf ==
  ASSUME NEW S, IsFiniteSet(S), NEW a \in S, NEW b \in S, NEW c \in S, a # b, a # c, b # c
  PROVE  Cardinality(S) >= 3
<1>1. IsFiniteSet(S \ {c}) /\ Cardinality(S \ {c}) = Cardinality(S) - 1
  BY FS_RemoveElement
<1>2. Cardinality(S \ {c}) >= 2
  <2> DEFINE T == S \ {c}
  <2>1. a \in T /\ b \in T /\ IsFiniteSet(T)
    BY <1>1
  <2> HIDE DEF T
  <2>2. Cardinality(T) >= 2
    BY <2>1, TwoOf
  <2> QED BY <2>2 DEF T
<1>3. Cardinality(S) \in Nat
  BY FS_CardinalityType
<1> QED BY <1>1, <1>2, <1>3

(* The places of a character.                                              *)
LEMMA PlacesOf ==
  ASSUME NEW s \in Texts, NEW c
  PROVE  /\ \A i : i \in At(s, c) <=> i \in 1 .. Len(s) /\ s[i] = c
         /\ IsFiniteSet(At(s, c)) /\ Cardinality(At(s, c)) \in Nat
<1>1. DOMAIN s = 1 .. Len(s) /\ Len(s) \in Nat
  BY DEF Texts
<1>2. IsFiniteSet(1 .. Len(s))
  BY <1>1, FS_Interval
<1>3. At(s, c) \in SUBSET (1 .. Len(s))
  BY <1>1 DEF At
<1>4. IsFiniteSet(At(s, c))
  BY <1>2, <1>3, FS_Subset
<1>5. Cardinality(At(s, c)) \in Nat
  BY <1>4, FS_CardinalityType
<1> QED BY <1>1, <1>4, <1>5 DEF At

(* The weight of a place of the fraction ...                               *)
LEMMA PointWeight ==
  ASSUME NEW s, NEW p \in Int, At(s, Point) = {p}, NEW i \in Int, p < i
  PROVE  Weight(s, i) = TicksPerSecond \div PowerOfTen[i - p]
<1>1. \E j \in At(s, Point) : j < i
  OBVIOUS
<1>2. (CHOOSE j \in At(s, Point) : TRUE) = p
  OBVIOUS
<1> QED BY <1>1, <1>2 DEF Weight

(* ... and of a field, before the colons C.                                *)
Unit(C) == TicksPerSecond * <<1, 60, 3600>>[Cardinality(C) + 1]

LEMMA FieldWeight ==
  ASSUME NEW s \in Texts, NEW p \in 1 .. Len(s) + 1, NEW i \in p .. RunEnd(s, p) - 1,
         \A j \in At(s, Point) : j >= RunEnd(s, p)
  PROVE  Weight(s, i) = Unit({j \in At(s, Colon) : j >= RunEnd(s, p)})
                          * PowerOfTen[RunEnd(s, p) - 1 - i]
<1> DEFINE e == RunEnd(s, p)
           colons == {j \in At(s, Colon) : j > i}
           after == {k \in DigitPlaces(s) : k > i /\ \A j \in i .. k : IsDigit(s[j])}
<1>1. e \in p .. Len(s) + 1 /\ (\A j \in p .. e - 1 : IsDigit(s[j]))
      /\ (e <= Len(s) => ~IsDigit(s[e])) /\ Len(s) \in Nat
  BY RunEndFacts, TextFacts DEF Ends
<1>2. DOMAIN s = 1 .. Len(s)
  BY DEF Texts
<1>3. \A j : j \in At(s, Colon) <=> j \in 1 .. Len(s) /\ s[j] = Colon
  BY PlacesOf
<1>4. ~(\E j \in At(s, Point) : j < i)
  <2>1. \A j \in At(s, Point) : j \in 1 .. Len(s)
    BY PlacesOf
  <2> QED BY <1>1, <2>1
<1> HIDE DEF e
<1>5. colons = {j \in At(s, Colon) : j >= e}
  <2>1. ASSUME NEW j \in At(s, Colon), j > i PROVE j >= e
    <3>1. j \in 1 .. Len(s) /\ ~IsDigit(s[j])
      BY <1>3 DEF IsDigit, Colon
    <3> QED BY <1>1, <2>1, <3>1 DEF e
  <2>2. ASSUME NEW j \in At(s, Colon), j >= e PROVE j > i
    <3>1. j \in 1 .. Len(s)
      BY <1>3
    <3> QED BY <1>1, <2>2, <3>1 DEF e
  <2> QED BY <2>1, <2>2
<1>6. after = i + 1 .. e - 1
  <2>1. ASSUME NEW k \in after PROVE k \in i + 1 .. e - 1
    <3>1. k \in 1 .. Len(s) /\ k > i /\ \A j \in i .. k : IsDigit(s[j])
      BY <1>2 DEF DigitPlaces
    <3>2. ~(k >= e)
      <4>1. k >= e => e \in i .. k /\ e <= Len(s)
        BY <1>1, <3>1 DEF e
      <4> QED BY <1>1, <3>1, <4>1
    <3> QED BY <1>1, <3>1, <3>2
  <2>2. ASSUME NEW k \in i + 1 .. e - 1 PROVE k \in after
    <3>1. k \in 1 .. Len(s) /\ k > i
      BY <1>1 DEF e
    <3>2. \A j \in i .. k : j \in p .. e - 1
      BY <1>1 DEF e
    <3>3. \A j \in i .. k : IsDigit(s[j])
      BY <1>1, <3>2
    <3>4. k \in DigitPlaces(s)
      BY <1>1, <1>2, <3>1, <3>3 DEF DigitPlaces
    <3> QED BY <3>1, <3>3, <3>4
  <2> QED BY <2>1, <2>2
<1>7. Cardinality(after) = e - 1 - i
  <2>1. i + 1 \in Int /\ e - 1 \in Int /\ i <= e - 1
    BY <1>1 DEF e
  <2>2. Cardinality(i + 1 .. e - 1) = IF i + 1 > e - 1 THEN 0 ELSE (e - 1) - (i + 1) + 1
    BY <2>1, FS_Interval
  <2>3. Cardinality(i + 1 .. e - 1) = e - 1 - i
    BY <2>1, <2>2
  <2> QED BY <1>6, <2>3
<1>8. Weight(s, i) = Unit(colons) * PowerOfTen[Cardinality(after)]
  BY <1>4 DEF Weight, Unit
<1> HIDE DEF colons, after
<1> QED BY <1>5, <1>7, <1>8 DEF e

(* Every weight of a duration is a number.                                 *)
LEMMA WeightType ==
  ASSUME NEW s \in Texts, Punctuated(s), NEW i \in 1 .. Len(s)
  PROVE  Weight(s, i) \in Nat
<1>1. CASE \E j \in At(s, Point) : j < i
  <2>1. PICK p \in At(s, Point) : p < i
    BY <1>1
  <2>2. At(s, Point) = {p}
    <3>1. ASSUME NEW q \in At(s, Point), q # p PROVE FALSE
      <4>1. IsFiniteSet(At(s, Point)) /\ Cardinality(At(s, Point)) \in Nat
        BY PlacesOf
      <4>2. Cardinality(At(s, Point)) >= 2
        BY <3>1, <4>1, TwoOf
      <4> QED BY <4>1, <4>2 DEF Punctuated
    <3> QED BY <3>1
  <2>3. p \in 1 .. Len(s)
    BY PlacesOf
  <2>4. Weight(s, i) = TicksPerSecond \div PowerOfTen[i - p]
    BY <2>1, <2>2, <2>3, PointWeight
  <2>5. i - p \in Nat
    BY <2>1, <2>3
  <2>6. PowerOfTen[i - p] \in Nat \ {0}
    BY <2>5, PowersOfTen
  <2>7. TicksPerSecond \in Nat
    BY DurationAssumption
  <2> QED BY <2>4, <2>6, <2>7, Division
<1>2. CASE ~(\E j \in At(s, Point) : j < i)
  <2> DEFINE colons == {j \in At(s, Colon) : j > i}
             after == {k \in DigitPlaces(s) : k > i /\ \A j \in i .. k : IsDigit(s[j])}
  <2>1. Weight(s, i) = TicksPerSecond * <<1, 60, 3600>>[Cardinality(colons) + 1]
                         * PowerOfTen[Cardinality(after)]
    BY <1>2 DEF Weight
  <2>2. Cardinality(colons) \in 0 .. 2
    <3>1. colons \in SUBSET At(s, Colon)
      OBVIOUS
    <3>2. IsFiniteSet(At(s, Colon)) /\ Cardinality(At(s, Colon)) \in Nat
          /\ Cardinality(At(s, Colon)) <= 2
      BY PlacesOf DEF Punctuated
    <3> HIDE DEF colons
    <3>3. IsFiniteSet(colons) /\ Cardinality(colons) <= Cardinality(At(s, Colon))
      BY <3>1, <3>2, FS_Subset
    <3>4. Cardinality(colons) \in Nat
      BY <3>3, FS_CardinalityType
    <3> QED BY <3>2, <3>3, <3>4
  <2>3. Cardinality(after) \in Nat
    <3>1. Len(s) \in Nat /\ DOMAIN s = 1 .. Len(s)
      BY DEF Texts
    <3>2. after \in SUBSET (1 .. Len(s))
      BY <3>1 DEF DigitPlaces
    <3> HIDE DEF after
    <3>3. IsFiniteSet(1 .. Len(s))
      BY <3>1, FS_Interval
    <3>4. IsFiniteSet(after)
      BY <3>2, <3>3, FS_Subset
    <3> QED BY <3>4, FS_CardinalityType
  <2> HIDE DEF colons, after
  <2>4. <<1, 60, 3600>>[Cardinality(colons) + 1] \in Nat
    BY <2>2
  <2>5. PowerOfTen[Cardinality(after)] \in Nat /\ TicksPerSecond \in Nat
    BY <2>3, PowersOfTen, DurationAssumption
  <2> QED BY <2>1, <2>4, <2>5
<1> QED BY <1>1, <1>2

(* A sum of the terms exists, and DurationOf is one.                       *)
LEMMA SumOfDuration ==
  ASSUME NEW s \in Texts, Punctuated(s)
  PROVE  \E f : /\ Sums(f, s) /\ \A n \in 0 .. Len(s) : f[n] \in Nat
                /\ DurationOf(s) = f[Len(s)]
<1> DEFINE len == Len(s)
           term(n) == IF n \in 1 .. len THEN Term(s, n) ELSE 0
           h == [ss \in Nat \X Nat |-> ss[2] + term(ss[1])]
<1>1. len \in Nat /\ DOMAIN s = 1 .. len /\ \A i \in 1 .. len : s[i] \in Nat
  BY TextFacts DEF Texts, Other
<1>2. \A n \in 1 .. len : Term(s, n) \in Nat
  <2> SUFFICES ASSUME NEW n \in 1 .. len PROVE Term(s, n) \in Nat
    OBVIOUS
  <2>1. s[n] \in Nat /\ Weight(s, n) \in Nat
    BY <1>1, WeightType
  <2> QED BY <2>1 DEF Term
<1> HIDE DEF len
<1>3. \A n \in Nat : term(n) \in Nat
  BY <1>2
<1>4. \A n \in 0 .. len : n \in Nat /\ (n # 0 => term(n) = Term(s, n) /\ n - 1 \in 0 .. len)
  BY <1>1
<1> HIDE DEF term
<1>5. h \in [Nat \X Nat -> Nat] /\ 0 \in Nat
  <2>1. ASSUME NEW q \in Nat, NEW y \in Nat PROVE y + term(q) \in Nat
    <3>1. term(q) \in Nat
      BY <1>3
    <3> QED BY <3>1
  <2> QED BY <2>1
<1>6. PICK f : Along(f, 0, len, 0, h) /\ \A n \in 0 .. len : f[n] \in Nat
  <2>1. 0 <= len
    BY <1>1
  <2> HIDE DEF h
  <2> QED BY <1>1, <1>5, <2>1, RunRecursion, Zenon
<1>7. ASSUME NEW n \in 0 .. len, n # 0 PROVE h[<<n, f[n - 1]>>] = f[n - 1] + Term(s, n)
  <2>1. n \in Nat /\ f[n - 1] \in Nat /\ term(n) = Term(s, n)
    BY <1>4, <1>6, <1>7
  <2> QED BY <2>1
<1> HIDE DEF h
<1>8. f = [n \in 0 .. len |-> IF n = 0 THEN 0 ELSE f[n - 1] + Term(s, n)]
  BY <1>6, <1>7 DEF Along
<1> DEFINE v == CHOOSE v : v = [n \in 0 .. len |-> IF n = 0 THEN 0 ELSE v[n - 1] + Term(s, n)]
<1>9. v = [n \in 0 .. len |-> IF n = 0 THEN 0 ELSE v[n - 1] + Term(s, n)]
  BY <1>8
<1>10. DurationOf(s) = v[len]
  BY DEF DurationOf, Term, len
<1> HIDE DEF v
<1>11. v[0] = 0 /\ \A n \in 1 .. len : v[n] = v[n - 1] + Term(s, n)
  <2>1. 0 \in 0 .. len /\ \A n \in 1 .. len : n \in 0 .. len /\ n # 0
    BY <1>1
  <2> QED BY <1>9, <2>1
<1>12. \A n \in 0 .. len : v[n] \in Nat
  <2>1. v[0] \in Nat
    BY <1>11
  <2>2. ASSUME NEW n \in 0 .. len, n # 0, v[n - 1] \in Nat PROVE v[n] \in Nat
    <3>1. n \in 1 .. len
      BY <1>1, <2>2
    <3>2. v[n] = v[n - 1] + Term(s, n) /\ Term(s, n) \in Nat
      BY <1>2, <1>11, <3>1 DEF len
    <3> QED BY <2>2, <3>2
  <2>3. 0 \in Nat
    OBVIOUS
  <2> QED BY <1>1, <2>1, <2>2, <2>3, NumbersAlong
<1> QED BY <1>10, <1>11, <1>12 DEF Sums, len

(* A field adds its number to the sum, in units of its place.              *)
LEMMA OneMoreDigit ==
  ASSUME NEW a \in Nat, NEW u \in Nat, NEW v \in Nat, NEW t \in Nat, NEW d \in Nat
  PROVE  (a + u * (v * (10 * t))) + d * (u * t) = a + u * ((v * 10 + d) * t)
<1>1. (v * 10 + d) * t = v * (10 * t) + d * t
  OBVIOUS
<1>2. u * (v * (10 * t) + d * t) = u * (v * (10 * t)) + u * (d * t)
  OBVIOUS
<1>3. u * (d * t) = d * (u * t)
  OBVIOUS
<1>4. u * (v * (10 * t)) \in Nat /\ d * (u * t) \in Nat
  OBVIOUS
<1> QED BY <1>1, <1>2, <1>3, <1>4

LEMMA FieldSum ==
  ASSUME NEW s \in Texts, NEW p \in 1 .. Len(s) + 1, NEW f, Sums(f, s),
         \A n \in 0 .. Len(s) : f[n] \in Nat,
         \A j \in At(s, Point) : j >= RunEnd(s, p),
         NEW u \in Nat, u = Unit({j \in At(s, Colon) : j >= RunEnd(s, p)})
  PROVE  f[RunEnd(s, p) - 1] = f[p - 1] + u * Number(s, p)
<1> DEFINE e == RunEnd(s, p)
<1>1. PICK v : Reads(v, s, p) /\ Number(s, p) = v[e]
  BY NumberReads
<1> DEFINE G(q) == f[q - 1] = f[p - 1] + u * (v[q] * PowerOfTen[e - q])
<1>2. e \in p .. Len(s) + 1 /\ Len(s) \in Nat
  BY RunEndFacts, TextFacts DEF Ends
<1>3. \A i \in p .. e - 1 : /\ s[i] \in Nat /\ i \in DigitPlaces(s)
                            /\ Weight(s, i) = u * PowerOfTen[e - 1 - i]
  <2> SUFFICES ASSUME NEW i \in p .. e - 1
               PROVE  s[i] \in Nat /\ i \in DigitPlaces(s)
    BY FieldWeight
  <2>1. s[i] \in 0 .. 9 /\ i \in 1 .. Len(s)
    BY DigitsOfRun
  <2>2. i \in DOMAIN s
    BY <2>1 DEF Texts
  <2> QED BY <2>1, <2>2 DEF DigitPlaces, IsDigit, Colon
<1>4. v[p] = 0 /\ \A q \in p .. e : v[q] \in Nat /\ (q # p => v[q] = v[q - 1] * 10 + s[q - 1])
  BY <1>1 DEF Reads
<1> HIDE DEF e, G
<1>5. f[p - 1] \in Nat
  BY <1>2
<1>6. ASSUME NEW m \in p .. e, ~G(m) PROVE FALSE
  <2> DEFINE T == {q \in p .. e : ~G(q)}
  <2>1. PICK n \in T : \A y \in T : n <= y
    <3>1. T \subseteq Nat /\ T # {}
      BY <1>2, <1>6
    <3> HIDE DEF T
    <3> QED BY <3>1, LeastOf
  <2>2. n # p
    <3>1. PowerOfTen[e - p] \in Nat
      <4>1. e - p \in Nat
        BY <1>2
      <4> QED BY <4>1, PowersOfTen
    <3>2. u * (v[p] * PowerOfTen[e - p]) = 0
      BY <1>4, <3>1
    <3>3. G(p)
      BY <1>5, <3>2 DEF G
    <3> QED BY <2>1, <3>3
  <2>3. n \in p .. e /\ n - 1 \in p .. e - 1 /\ n - 1 \in p .. e
        /\ n - 1 \in 1 .. Len(s) /\ e - n \in Nat
    BY <1>2, <2>1, <2>2
  <2>4. G(n - 1)
    BY <2>1, <2>3
  <2> DEFINE t == PowerOfTen[e - n]
             d == s[n - 1]
  <2>5. t \in Nat /\ PowerOfTen[e - (n - 1)] = 10 * t
    <3>1. e - (n - 1) = (e - n) + 1
      BY <1>2, <2>3
    <3> QED BY <2>3, <3>1, PowersOfTen
  <2>6. d \in Nat /\ Term(s, n - 1) = d * (u * t)
    <3>1. e - 1 - (n - 1) = e - n
      BY <1>2, <2>3
    <3> QED BY <1>3, <2>3, <3>1 DEF Term
  <2>7. f[n - 1] = f[(n - 1) - 1] + Term(s, n - 1)
    BY <2>3 DEF Sums
  <2>8. f[(n - 1) - 1] = f[p - 1] + u * (v[n - 1] * (10 * t))
    BY <2>4, <2>5 DEF G
  <2>9. v[n] = v[n - 1] * 10 + d /\ v[n - 1] \in Nat
    BY <1>4, <2>2, <2>3
  <2> HIDE DEF t, d
  <2>10. f[n - 1] = f[p - 1] + u * ((v[n - 1] * 10 + d) * t)
    <3> DEFINE x == f[p - 1]
               y == v[n - 1]
    <3>1. x \in Nat /\ y \in Nat
      BY <1>5, <2>9
    <3>2. f[n - 1] = (x + u * (y * (10 * t))) + d * (u * t)
      BY <2>6, <2>7, <2>8
    <3> HIDE DEF x, y
    <3>3. (x + u * (y * (10 * t))) + d * (u * t) = x + u * ((y * 10 + d) * t)
      BY <2>5, <2>6, <3>1, OneMoreDigit
    <3>4. f[n - 1] = x + u * ((y * 10 + d) * t)
      BY <3>2, <3>3
    <3> QED BY <3>4 DEF x, y
  <2>11. G(n)
    BY <2>9, <2>10 DEF t, G
  <2> QED BY <2>1, <2>11
<1>7. G(e)
  <2>1. e \in p .. e
    BY <1>2
  <2> QED BY <1>6, <2>1
<1>8. v[e] \in Nat /\ e - e = 0 /\ PowerOfTen[0] = 1
  BY <1>2, <1>4, PowersOfTen
<1>9. v[e] * PowerOfTen[e - e] = v[e]
  BY <1>8
<1>10. f[e - 1] = f[p - 1] + u * v[e]
  BY <1>7, <1>9 DEF G
<1> QED BY <1>1, <1>10 DEF e

(* The fraction adds its ticks.                                            *)
LEMMA FractionSum ==
  ASSUME NEW s \in Texts, NEW p \in 1 .. Len(s) + 1, p - 1 \in 1 .. Len(s),
         NEW f, Sums(f, s), \A n \in 0 .. Len(s) : f[n] \in Nat,
         At(s, Point) = {p - 1}
  PROVE  f[RunEnd(s, p) - 1] = f[p - 1] + Ticks(s, p)
<1> DEFINE e == RunEnd(s, p)
<1>1. PICK w, v : Weighs(w, v, s, p) /\ Ticks(s, p) = v[e]
  BY TicksWeigh
<1> DEFINE G(q) == f[q - 1] = f[p - 1] + v[q]
           W(q) == w[q] = TicksPerSecond \div PowerOfTen[q - p + 1]
<1>2. e \in p .. Len(s) + 1 /\ Len(s) \in Nat
  BY RunEndFacts, TextFacts DEF Ends
<1>3. \A i \in p .. e - 1 : s[i] \in Nat /\ i \in DigitPlaces(s)
  <2> SUFFICES ASSUME NEW i \in p .. e - 1
               PROVE  s[i] \in Nat /\ i \in DigitPlaces(s)
    OBVIOUS
  <2>1. s[i] \in 0 .. 9 /\ i \in 1 .. Len(s)
    BY DigitsOfRun
  <2>2. i \in DOMAIN s
    BY <2>1 DEF Texts
  <2> QED BY <2>1, <2>2 DEF DigitPlaces, IsDigit, Colon
<1>4. /\ w[p] = TicksPerSecond \div 10 /\ v[p] = 0
      /\ \A q \in p .. e :
           /\ w[q] \in Nat /\ v[q] \in Nat
           /\ q # p => w[q] = w[q - 1] \div 10 /\ v[q] = v[q - 1] + w[q - 1] * s[q - 1]
  BY <1>1 DEF Weighs
<1> HIDE DEF e, G, W
<1>5. f[p - 1] \in Nat
  BY <1>2
<1>6. \A q \in p .. e : W(q)
  <2> SUFFICES ASSUME NEW m \in p .. e, ~W(m) PROVE FALSE
    OBVIOUS
  <2> DEFINE T == {q \in p .. e : ~W(q)}
  <2>1. PICK n \in T : \A y \in T : n <= y
    <3>1. T \subseteq Nat /\ T # {}
      BY <1>2
    <3> HIDE DEF T
    <3> QED BY <3>1, LeastOf
  <2>2. n # p
    <3>1. p - p + 1 = 0 + 1
      BY <1>2
    <3>2. PowerOfTen[0 + 1] = 10
      <4>1. 0 \in Nat
        OBVIOUS
      <4>2. PowerOfTen[0 + 1] = 10 * PowerOfTen[0] /\ PowerOfTen[0] = 1
        BY <4>1, PowersOfTen, Zenon
      <4> QED BY <4>2
    <3>3. W(p)
      BY <1>4, <3>1, <3>2 DEF W
    <3> QED BY <2>1, <3>3
  <2>3. n \in p .. e /\ n - 1 \in p .. e /\ (n - 1) - p + 1 = n - p /\ n - p \in Nat
    BY <1>2, <2>1, <2>2
  <2>4. W(n - 1)
    BY <1>2, <2>1, <2>3
  <2> DEFINE t == PowerOfTen[n - p]
  <2>5. t \in Nat \ {0} /\ PowerOfTen[n - p + 1] = 10 * t
    BY <2>3, PowersOfTen
  <2>6. w[n - 1] = TicksPerSecond \div t /\ w[n] = w[n - 1] \div 10
    BY <1>4, <2>2, <2>3, <2>4 DEF W
  <2> HIDE DEF t
  <2>7. TicksPerSecond \in Nat /\ 10 \in Nat \ {0}
    BY DurationAssumption
  <2>8. (TicksPerSecond \div t) \div 10 = TicksPerSecond \div (t * 10)
    BY <2>5, <2>7, QuotientTwice
  <2>9. t * 10 = 10 * t
    BY <2>5
  <2>10. W(n)
    BY <2>5, <2>6, <2>8, <2>9 DEF W
  <2> QED BY <2>1, <2>10
<1>7. \A i \in p .. e - 1 : Weight(s, i) = w[i]
  <2> SUFFICES ASSUME NEW i \in p .. e - 1 PROVE Weight(s, i) = w[i]
    OBVIOUS
  <2>1. i \in Int /\ p - 1 \in Int /\ p - 1 < i /\ i \in p .. e /\ i - (p - 1) = i - p + 1
    BY <1>2
  <2>2. Weight(s, i) = TicksPerSecond \div PowerOfTen[i - (p - 1)]
    BY <2>1, PointWeight
  <2> QED BY <1>6, <2>1, <2>2 DEF W
<1>8. \A q \in p .. e : G(q)
  <2> SUFFICES ASSUME NEW m \in p .. e, ~G(m) PROVE FALSE
    OBVIOUS
  <2> DEFINE T == {q \in p .. e : ~G(q)}
  <2>1. PICK n \in T : \A y \in T : n <= y
    <3>1. T \subseteq Nat /\ T # {}
      BY <1>2
    <3> HIDE DEF T
    <3> QED BY <3>1, LeastOf
  <2>2. n # p
    <3>1. G(p)
      BY <1>4, <1>5 DEF G
    <3> QED BY <2>1, <3>1
  <2>3. n \in p .. e /\ n - 1 \in p .. e - 1 /\ n - 1 \in p .. e /\ n - 1 \in 1 .. Len(s)
    BY <1>2, <2>1, <2>2
  <2>4. G(n - 1)
    BY <1>2, <2>1, <2>3
  <2>5. f[n - 1] = f[(n - 1) - 1] + Term(s, n - 1)
    BY <2>3 DEF Sums
  <2>6. Term(s, n - 1) = w[n - 1] * s[n - 1] /\ w[n - 1] * s[n - 1] \in Nat
    <3>1. s[n - 1] \in Nat /\ w[n - 1] \in Nat /\ Term(s, n - 1) = s[n - 1] * w[n - 1]
      BY <1>3, <1>4, <1>7, <2>3 DEF Term
    <3> QED BY <3>1
  <2>7. v[n] = v[n - 1] + w[n - 1] * s[n - 1] /\ v[n - 1] \in Nat
    BY <1>4, <2>2, <2>3
  <2>8. G(n)
    BY <1>5, <2>4, <2>5, <2>6, <2>7 DEF G
  <2> QED BY <2>1, <2>8
<1>9. e \in p .. e
  BY <1>2
<1> QED BY <1>1, <1>8, <1>9 DEF e, G

(* What the parser has read before p: fields and the colons after them.    *)
FieldsBefore(s, p) == \A i \in 1 .. p - 1 : IsDigit(s[i]) \/ s[i] = Colon
ColonsBefore(s, p) == {i \in At(s, Colon) : i < p}

(* A character that is no digit is one of three.                           *)
LEMMA NoDigit ==
  ASSUME NEW s \in Texts, NEW i \in 1 .. Len(s), ~IsDigit(s[i])
  PROVE  s[i] \in {Colon, Point, Other}
<1>1. s[i] \in 0 .. Other
  BY TextFacts
<1> QED BY <1>1 DEF IsDigit, Colon, Point, Other

(* With the fields behind it, the rest of a text is read just when the     *)
(* text is a duration.                                                     *)
LEMMA RestIsRead ==
  ASSUME NEW s \in Texts, NEW p \in 1 .. Len(s) + 1, NEW seconds \in Nat,
         FieldEnds(s, p), FieldsBefore(s, p), Cardinality(ColonsBefore(s, p)) <= 2
  PROVE  /\ Fraction(s, p, seconds) # Malformed <=> Punctuated(s)
         /\ Punctuated(s) => /\ At(s, Colon) = ColonsBefore(s, p)
                             /\ \A j \in At(s, Point) : j >= p
<1>1. Len(s) \in Nat
  BY TextFacts
<1>2. \A c, i : i \in At(s, c) <=> i \in 1 .. Len(s) /\ s[i] = c
  BY PlacesOf
<1>3. seconds * TicksPerSecond \in Nat /\ Malformed \notin Nat
  BY DurationAssumption DEF Malformed
<1>4. CASE p > Len(s)
  <2>1. \A i \in 1 .. Len(s) : IsDigit(s[i]) \/ s[i] = Colon
    BY <1>1, <1>4 DEF FieldsBefore
  <2>2. At(s, Other) = {} /\ At(s, Point) = {}
    BY <1>2, <2>1 DEF IsDigit, Colon, Point, Other
  <2>3. At(s, Colon) = ColonsBefore(s, p)
    BY <1>1, <1>2, <1>4 DEF ColonsBefore
  <2>4. Cardinality(At(s, Point)) = 0
    BY <2>2, FS_EmptySet
  <2>5. Punctuated(s)
    BY <2>2, <2>3, <2>4 DEF Punctuated
  <2>6. Fraction(s, p, seconds) = seconds * TicksPerSecond
    BY <1>4 DEF Fraction
  <2>7. Fraction(s, p, seconds) # Malformed
    BY <1>3, <2>6
  <2> QED BY <2>2, <2>3, <2>5, <2>7
<1>5. CASE p <= Len(s)
  <2>1. s[p] = Point /\ p + 1 \in 1 .. Len(s) + 1 /\ p \in At(s, Point)
    BY <1>1, <1>2, <1>5 DEF FieldEnds
  <2>2. Ends(RunEnd(s, p + 1), s, p + 1)
    BY <2>1, RunEndFacts
  <2>3. Ticks(s, p + 1) \in Nat
    BY <2>1, TicksType
  <2> DEFINE e == RunEnd(s, p + 1)
  <2>4. CASE e > Len(s)
    <3>1. Fraction(s, p, seconds) = seconds * TicksPerSecond + Ticks(s, p + 1)
      BY <1>1, <1>5, <2>1, <2>4 DEF Fraction
    <3>2. Fraction(s, p, seconds) # Malformed
      BY <1>3, <2>3, <3>1
    <3>3. \A i \in 1 .. Len(s) : i > p => IsDigit(s[i])
      BY <1>1, <2>1, <2>2, <2>4 DEF Ends
    <3>4. \A i \in 1 .. Len(s) : i < p => IsDigit(s[i]) \/ s[i] = Colon
      BY <1>1 DEF FieldsBefore
    <3>5. \A i \in 1 .. Len(s) : i # p => IsDigit(s[i]) \/ (i < p /\ s[i] = Colon)
      BY <1>1, <3>3, <3>4
    <3>6. At(s, Other) = {} /\ At(s, Point) = {p}
      BY <1>2, <2>1, <3>5 DEF IsDigit, Colon, Point, Other
    <3>7. At(s, Colon) = ColonsBefore(s, p)
      BY <1>2, <2>1, <3>5 DEF ColonsBefore, IsDigit, Colon, Point
    <3>8. Cardinality(At(s, Point)) = 1
      BY <3>6, FS_Singleton
    <3>9. \A i \in At(s, Colon), j \in At(s, Point) : i < j
      BY <3>6, <3>7 DEF ColonsBefore
    <3>10. Punctuated(s)
      BY <3>6, <3>7, <3>8, <3>9 DEF Punctuated
    <3> QED BY <3>2, <3>6, <3>7, <3>10
  <2>5. CASE e <= Len(s)
    <3>1. e \in 1 .. Len(s) /\ e > p /\ ~IsDigit(s[e])
      BY <1>1, <2>1, <2>2, <2>5 DEF Ends
    <3>2. Fraction(s, p, seconds) = Malformed
      BY <1>1, <1>5, <2>5, <3>1 DEF Fraction
    <3>3. ~Punctuated(s)
      <4>1. CASE s[e] = Colon
        <5>1. e \in At(s, Colon) /\ ~(e < p)
          BY <1>2, <3>1, <4>1
        <5> QED BY <2>1, <5>1 DEF Punctuated
      <4>2. CASE s[e] = Point
        <5>1. e \in At(s, Point) /\ e # p
          BY <1>2, <3>1, <4>2
        <5>2. IsFiniteSet(At(s, Point)) /\ Cardinality(At(s, Point)) \in Nat
          BY PlacesOf
        <5>3. Cardinality(At(s, Point)) >= 2
          BY <2>1, <5>1, <5>2, TwoOf
        <5> QED BY <5>2, <5>3 DEF Punctuated
      <4>3. CASE s[e] = Other
        <5>1. e \in At(s, Other)
          BY <1>2, <3>1, <4>3
        <5> QED BY <5>1 DEF Punctuated
      <4> HIDE DEF e
      <4> QED BY <3>1, <4>1, <4>2, <4>3, NoDigit
    <3> QED BY <3>2, <3>3
  <2>6. e \in Nat
    BY <1>1, <2>1, <2>2 DEF Ends
  <2> QED BY <1>1, <2>4, <2>5, <2>6
<1> QED BY <1>1, <1>4, <1>5

(* The rest adds its ticks.                                                *)
LEMMA RestSum ==
  ASSUME NEW s \in Texts, NEW p \in 1 .. Len(s) + 1, NEW seconds \in Nat,
         FieldEnds(s, p), FieldsBefore(s, p), Punctuated(s),
         Fraction(s, p, seconds) # Malformed,
         NEW f, Sums(f, s), \A n \in 0 .. Len(s) : f[n] \in Nat
  PROVE  f[Len(s)] + seconds * TicksPerSecond = f[p - 1] + Fraction(s, p, seconds)
<1>1. Len(s) \in Nat
  BY TextFacts
<1>2. \A c, i : i \in At(s, c) <=> i \in 1 .. Len(s) /\ s[i] = c
  BY PlacesOf
<1>3. seconds * TicksPerSecond \in Nat
  BY DurationAssumption
<1>4. CASE p > Len(s)
  <2>1. p - 1 = Len(s) /\ Fraction(s, p, seconds) = seconds * TicksPerSecond
    BY <1>1, <1>4 DEF Fraction
  <2>2. f[Len(s)] \in Nat
    BY <1>1
  <2> QED BY <2>1
<1>5. CASE p <= Len(s)
  <2>1. s[p] = Point /\ p + 1 \in 1 .. Len(s) + 1 /\ p \in At(s, Point)
    BY <1>1, <1>2, <1>5 DEF FieldEnds
  <2>2. RunEnd(s, p + 1) > Len(s)
        /\ Fraction(s, p, seconds) = seconds * TicksPerSecond + Ticks(s, p + 1)
    BY <1>5, <2>1 DEF Fraction
  <2>3. RunEnd(s, p + 1) - 1 = Len(s)
    <3>1. Ends(RunEnd(s, p + 1), s, p + 1)
      BY <2>1, RunEndFacts
    <3> QED BY <1>1, <2>2, <3>1 DEF Ends
  <2>4. At(s, Point) = {p}
    <3>1. ASSUME NEW q \in At(s, Point), q # p PROVE FALSE
      <4>1. IsFiniteSet(At(s, Point)) /\ Cardinality(At(s, Point)) \in Nat
        BY PlacesOf
      <4>2. Cardinality(At(s, Point)) >= 2
        BY <2>1, <3>1, <4>1, TwoOf
      <4> QED BY <4>1, <4>2 DEF Punctuated
    <3> QED BY <2>1, <3>1
  <2>5. (p + 1) - 1 = p /\ p \in 1 .. Len(s)
    BY <1>1, <1>5
  <2>6. At(s, Point) = {(p + 1) - 1} /\ (p + 1) - 1 \in 1 .. Len(s)
    BY <2>4, <2>5
  <2>7. f[RunEnd(s, p + 1) - 1] = f[(p + 1) - 1] + Ticks(s, p + 1)
    BY <2>1, <2>6, FractionSum
  <2>8. f[p] = f[p - 1] + Term(s, p)
    BY <2>5 DEF Sums
  <2>9. Term(s, p) = 0
    BY <2>1 DEF Term, DigitPlaces, IsDigit, Point, Colon
  <2>10. Ticks(s, p + 1) \in Nat /\ f[p] \in Nat /\ f[p - 1] \in Nat
    BY <1>1, <2>1, <2>5, TicksType
  <2>11. f[Len(s)] = f[p] + Ticks(s, p + 1)
    BY <2>3, <2>5, <2>7
  <2> QED BY <1>3, <2>2, <2>8, <2>9, <2>10, <2>11
<1> QED BY <1>1, <1>4, <1>5

(* A field whose digits end at e leaves the fields before it as they were. *)
LEMMA OneMoreField ==
  ASSUME NEW s \in Texts, NEW p \in 1 .. Len(s) + 1,
         p = 1 \/ (p > 1 /\ FieldsBefore(s, p - 1) /\ s[p - 1] = Colon)
  PROVE  /\ RunEnd(s, p) \in p .. Len(s) + 1
         /\ RunEnd(s, p) <= Len(s) => ~IsDigit(s[RunEnd(s, p)])
         /\ FieldsBefore(s, RunEnd(s, p))
         /\ ColonsBefore(s, RunEnd(s, p)) =
              IF p = 1 THEN {} ELSE ColonsBefore(s, p - 1) \cup {p - 1}
<1> DEFINE e == RunEnd(s, p)
<1>1. Ends(e, s, p) /\ Len(s) \in Nat
  BY RunEndFacts, TextFacts
<1>2. \A i : i \in At(s, Colon) <=> i \in 1 .. Len(s) /\ s[i] = Colon
  BY PlacesOf
<1> HIDE DEF e
<1>3. \A i \in 1 .. e - 1 : i >= p => IsDigit(s[i])
  BY <1>1 DEF Ends
<1>4. \A i \in 1 .. p - 1 : IsDigit(s[i]) \/ s[i] = Colon
  BY <1>1 DEF FieldsBefore
<1>5. FieldsBefore(s, e)
  BY <1>1, <1>3, <1>4 DEF FieldsBefore, Ends
<1>6. \A i : i \in ColonsBefore(s, e) <=> i \in At(s, Colon) /\ i < p
  <2>1. \A i \in At(s, Colon) : i < e => i < p
    BY <1>1, <1>2, <1>3 DEF IsDigit, Colon, Ends
  <2>2. \A i \in At(s, Colon) : i < p => i < e
    BY <1>1, <1>2 DEF Ends
  <2> QED BY <2>1, <2>2 DEF ColonsBefore
<1>7. ColonsBefore(s, e) = IF p = 1 THEN {} ELSE ColonsBefore(s, p - 1) \cup {p - 1}
  <2>1. CASE p = 1
    BY <1>1, <1>2, <1>6, <2>1
  <2>2. CASE p # 1
    <3>1. p - 1 \in At(s, Colon) /\ p - 1 < p
      BY <1>1, <1>2, <2>2
    <3>2. \A i \in At(s, Colon) : i < p <=> i < p - 1 \/ i = p - 1
      BY <1>1, <1>2
    <3> QED BY <1>6, <2>2, <3>1, <3>2 DEF ColonsBefore
  <2> QED BY <2>1, <2>2
<1> QED BY <1>1, <1>5, <1>7 DEF Ends, e

(* The weights of fields before two colons, before one and before none.    *)
LEMMA Units ==
  /\ Unit({}) = TicksPerSecond
  /\ \A a \in Nat : Unit({a}) = 60 * TicksPerSecond
  /\ \A a, b \in Nat : a # b => Unit({a} \cup {b}) = 3600 * TicksPerSecond
<1>1. TicksPerSecond \in Nat
  BY DurationAssumption
<1>2. Unit({}) = TicksPerSecond
  <2>1. Cardinality({}) = 0
    BY FS_EmptySet
  <2> QED BY <1>1, <2>1 DEF Unit
<1>3. ASSUME NEW a \in Nat PROVE Unit({a}) = 60 * TicksPerSecond
  <2>1. Cardinality({a}) = 1
    BY FS_Singleton
  <2> QED BY <1>1, <2>1 DEF Unit
<1>4. ASSUME NEW a \in Nat, NEW b \in Nat, a # b
      PROVE  Unit({a} \cup {b}) = 3600 * TicksPerSecond
  <2>1. IsFiniteSet({a}) /\ Cardinality({a}) = 1 /\ b \notin {a}
    BY <1>4, FS_Singleton
  <2>2. Cardinality({a} \cup {b}) = 2
    BY <2>1, FS_AddElement
  <2> QED BY <1>1, <2>2 DEF Unit
<1> QED BY <1>2, <1>3, <1>4

(* The parser reads just the durations, and each as what the usage text    *)
(* says of it.                                                             *)
LEMMA ReadsOneField ==
  ASSUME NEW s \in Texts, FieldEnds(s, RunEnd(s, 1))
  PROVE  /\ ParseDuration(s) # Malformed <=> Punctuated(s)
         /\ Punctuated(s) => ParseDuration(s) = DurationOf(s)
<1> DEFINE p1 == RunEnd(s, 1)
           n1 == Number(s, 1)
<1>1. Len(s) \in Nat /\ 1 \in 1 .. Len(s) + 1
  BY TextFacts
<1>2. p1 \in 1 .. Len(s) + 1 /\ FieldsBefore(s, p1) /\ ColonsBefore(s, p1) = {}
  BY <1>1, OneMoreField
<1>3. n1 \in Nat
  BY <1>1, NumberType
<1>4. ParseDuration(s) = Fraction(s, p1, n1)
  BY DEF ParseDuration
<1>5. FieldEnds(s, p1)
  OBVIOUS
<1>6. Cardinality(ColonsBefore(s, p1)) <= 2
  BY <1>2, FS_EmptySet
<1>7. /\ ParseDuration(s) # Malformed <=> Punctuated(s)
      /\ Punctuated(s) => At(s, Colon) = {} /\ \A j \in At(s, Point) : j >= p1
  <2> HIDE DEF p1, n1
  <2> QED BY <1>2, <1>3, <1>4, <1>5, <1>6, RestIsRead
<1>8. ASSUME Punctuated(s) PROVE ParseDuration(s) = DurationOf(s)
  <2>1. PICK f : /\ Sums(f, s) /\ \A n \in 0 .. Len(s) : f[n] \in Nat
                 /\ DurationOf(s) = f[Len(s)]
    BY <1>8, SumOfDuration
  <2>2. {j \in At(s, Colon) : j >= p1} = {} /\ \A j \in At(s, Point) : j >= p1
    BY <1>7, <1>8
  <2>3. Unit({j \in At(s, Colon) : j >= p1}) = TicksPerSecond /\ TicksPerSecond \in Nat
    BY <2>2, Units, DurationAssumption
  <2>4. f[p1 - 1] = f[1 - 1] + TicksPerSecond * n1
    BY <1>1, <2>1, <2>2, <2>3, FieldSum
  <2> HIDE DEF p1, n1
  <2>5. f[Len(s)] + n1 * TicksPerSecond = f[p1 - 1] + Fraction(s, p1, n1)
    BY <1>2, <1>3, <1>4, <1>5, <1>7, <1>8, <2>1, RestSum
  <2>6. f[Len(s)] \in Nat /\ ParseDuration(s) \in Nat /\ f[1 - 1] = 0
    BY <1>1, <1>7, <1>8, <2>1, DurationType DEF Sums
  <2>7. n1 * TicksPerSecond = TicksPerSecond * n1 /\ TicksPerSecond * n1 \in Nat
    BY <1>3, <2>3
  <2> QED BY <1>4, <2>1, <2>4, <2>5, <2>6, <2>7
<1> QED BY <1>7, <1>8

(* A text with a character that is no digit, colon or point is malformed.  *)
LEMMA NotRead ==
  ASSUME NEW s \in Texts, NEW p \in 1 .. Len(s) + 1, ~FieldEnds(s, p),
         p <= Len(s) => ~IsDigit(s[p]), s[p] # Colon
  PROVE  ~Punctuated(s)
<1>1. p \in 1 .. Len(s) /\ s[p] # Point
  BY TextFacts DEF FieldEnds
<1>2. s[p] = Other
  BY <1>1, NoDigit
<1>3. p \in At(s, Other)
  BY <1>1, <1>2, PlacesOf
<1> QED BY <1>3 DEF Punctuated

(* A colon adds nothing to the sum.                                        *)
LEMMA ColonTerm ==
  ASSUME NEW s, NEW p, s[p] = Colon
  PROVE  Term(s, p) = 0
<1>1. ~IsDigit(s[p])
  BY DEF IsDigit, Colon
<1> QED BY <1>1 DEF Term, DigitPlaces

LEMMA TwoUnits ==
  ASSUME NEW t \in Nat, NEW a \in Nat, NEW b \in Nat
  PROVE  (a * 60 + b) * t = (60 * t) * a + t * b
<1>1. (a * 60 + b) * t = (a * 60) * t + b * t
  OBVIOUS
<1>2. (a * 60) * t = (60 * t) * a /\ b * t = t * b
  OBVIOUS
<1> QED BY <1>1, <1>2

LEMMA ThreeUnits ==
  ASSUME NEW t \in Nat, NEW a \in Nat, NEW b \in Nat, NEW c \in Nat
  PROVE  ((a * 60 + b) * 60 + c) * t = (3600 * t) * a + (60 * t) * b + t * c
<1>1. ((a * 60 + b) * 60 + c) * t = (60 * t) * (a * 60 + b) + t * c
  <2>1. a * 60 + b \in Nat
    OBVIOUS
  <2> QED BY <2>1, TwoUnits
<1>2. (60 * t) * (a * 60 + b) = (60 * t) * (a * 60) + (60 * t) * b
  OBVIOUS
<1>3. (60 * t) * (a * 60) = (3600 * t) * a
  OBVIOUS
<1> QED BY <1>1, <1>2, <1>3

(* The field from p to its colon, and the colon, in the sum.               *)
LEMMA FieldAndColon ==
  ASSUME NEW s \in Texts, NEW p \in 1 .. Len(s) + 1, NEW f, Sums(f, s),
         \A n \in 0 .. Len(s) : f[n] \in Nat,
         \A j \in At(s, Point) : j >= RunEnd(s, p),
         NEW u \in Nat, u = Unit({j \in At(s, Colon) : j >= RunEnd(s, p)}),
         RunEnd(s, p) \in 1 .. Len(s), s[RunEnd(s, p)] = Colon
  PROVE  f[(RunEnd(s, p) + 1) - 1] = f[p - 1] + u * Number(s, p)
<1> DEFINE e == RunEnd(s, p)
<1>1. f[e - 1] = f[p - 1] + u * Number(s, p)
  BY FieldSum
<1>2. f[e] = f[e - 1] + Term(s, e) /\ f[e - 1] \in Nat
  BY TextFacts DEF Sums
<1>3. Term(s, e) = 0
  BY ColonTerm
<1>4. (e + 1) - 1 = e
  BY TextFacts
<1> HIDE DEF e
<1>5. f[e] = f[e - 1]
  BY <1>2, <1>3
<1> QED BY <1>1, <1>4, <1>5 DEF e

LEMMA ReadsTwoFields ==
  ASSUME NEW s \in Texts, ~FieldEnds(s, RunEnd(s, 1)), s[RunEnd(s, 1)] = Colon,
         FieldEnds(s, RunEnd(s, RunEnd(s, 1) + 1))
  PROVE  /\ ParseDuration(s) # Malformed <=> Punctuated(s)
         /\ Punctuated(s) => ParseDuration(s) = DurationOf(s)
<1> DEFINE p1 == RunEnd(s, 1)
           q1 == p1 + 1
           p2 == RunEnd(s, q1)
           n1 == Number(s, 1)
           n2 == Number(s, q1)
           seconds == n1 * 60 + n2
<1>1. Len(s) \in Nat /\ 1 \in 1 .. Len(s) + 1
  BY TextFacts
<1>2. p1 \in 1 .. Len(s) + 1 /\ FieldsBefore(s, p1) /\ ColonsBefore(s, p1) = {}
  BY <1>1, OneMoreField
<1>3. p1 \in 1 .. Len(s) /\ q1 \in 1 .. Len(s) + 1 /\ q1 > 1 /\ q1 - 1 = p1
  BY <1>1, <1>2 DEF FieldEnds
<1>4. /\ p2 \in q1 .. Len(s) + 1 /\ FieldsBefore(s, p2)
      /\ ColonsBefore(s, p2) = {p1}
  <2> HIDE DEF p1, q1
  <2>1. FieldsBefore(s, q1 - 1) /\ s[q1 - 1] = Colon
    BY <1>2, <1>3 DEF p1
  <2>2. /\ p2 \in q1 .. Len(s) + 1 /\ FieldsBefore(s, p2)
        /\ ColonsBefore(s, p2) = ColonsBefore(s, q1 - 1) \cup {q1 - 1}
    BY <1>3, <2>1, OneMoreField
  <2> QED BY <1>2, <1>3, <2>2
<1>5. n1 \in Nat /\ n2 \in Nat /\ seconds \in Nat
  BY <1>1, <1>3, NumberType
<1>6. ParseDuration(s) = Fraction(s, p2, seconds) /\ FieldEnds(s, p2) /\ s[p1] = Colon
  BY DEF ParseDuration, MinutesSeconds
<1>7. Cardinality(ColonsBefore(s, p2)) <= 2 /\ p2 \in 1 .. Len(s) + 1
  <2>1. Cardinality({p1}) = 1
    BY FS_Singleton
  <2> HIDE DEF p1, p2, q1
  <2> QED BY <1>1, <1>3, <1>4, <2>1
<1>8. /\ ParseDuration(s) # Malformed <=> Punctuated(s)
      /\ Punctuated(s) => At(s, Colon) = {p1} /\ \A j \in At(s, Point) : j >= p2
  <2> HIDE DEF p1, p2, q1, seconds
  <2> QED BY <1>4, <1>5, <1>6, <1>7, RestIsRead
<1>9. ASSUME Punctuated(s) PROVE ParseDuration(s) = DurationOf(s)
  <2>1. PICK f : /\ Sums(f, s) /\ \A n \in 0 .. Len(s) : f[n] \in Nat
                 /\ DurationOf(s) = f[Len(s)]
    BY <1>9, SumOfDuration
  <2> DEFINE t == TicksPerSecond
  <2>2. t \in Nat
    BY DurationAssumption
  <2> HIDE DEF p1, p2, q1, n1, n2, t, seconds
  <2>3. {j \in At(s, Colon) : j >= p1} = {p1} /\ {j \in At(s, Colon) : j >= p2} = {}
        /\ (\A j \in At(s, Point) : j >= p1) /\ \A j \in At(s, Point) : j >= p2
    <3>1. \A j \in At(s, Point) : j \in Int
      BY PlacesOf
    <3> QED BY <1>3, <1>4, <1>8, <1>9, <3>1
  <2>4. Unit({j \in At(s, Colon) : j >= p1}) = 60 * t /\ 60 * t \in Nat
        /\ Unit({j \in At(s, Colon) : j >= p2}) = t
    <3>1. p1 \in Nat /\ 60 * t \in Nat
      BY <1>3, <2>2
    <3>2. Unit({p1}) = 60 * t /\ Unit({}) = t
      BY <3>1, Units DEF t
    <3> QED BY <2>3, <3>1, <3>2
  <2>5. f[q1 - 1] = f[1 - 1] + (60 * t) * n1
    BY <1>1, <1>3, <1>6, <2>1, <2>3, <2>4, FieldAndColon DEF p1, q1, n1
  <2>6. f[p2 - 1] = f[q1 - 1] + t * n2
    BY <1>3, <2>1, <2>2, <2>3, <2>4, FieldSum DEF p2, n2
  <2>7. f[Len(s)] + seconds * t = f[p2 - 1] + Fraction(s, p2, seconds)
    BY <1>4, <1>5, <1>6, <1>7, <1>8, <1>9, <2>1, RestSum DEF t
  <2>8. f[Len(s)] \in Nat /\ ParseDuration(s) \in Nat /\ f[1 - 1] = 0
    BY <1>1, <1>8, <1>9, <2>1, DurationType DEF Sums
  <2>9. seconds * t = (60 * t) * n1 + t * n2
    BY <1>5, <2>2, TwoUnits DEF seconds
  <2>10. (60 * t) * n1 \in Nat /\ t * n2 \in Nat
    BY <1>5, <2>2
  <2> QED BY <1>6, <2>1, <2>5, <2>6, <2>7, <2>8, <2>9, <2>10
<1> QED BY <1>8, <1>9

LEMMA ReadsThreeFields ==
  ASSUME NEW s \in Texts, ~FieldEnds(s, RunEnd(s, 1)), s[RunEnd(s, 1)] = Colon,
         ~FieldEnds(s, RunEnd(s, RunEnd(s, 1) + 1)), s[RunEnd(s, RunEnd(s, 1) + 1)] = Colon
  PROVE  /\ ParseDuration(s) # Malformed <=> Punctuated(s)
         /\ Punctuated(s) => ParseDuration(s) = DurationOf(s)
<1> DEFINE p1 == RunEnd(s, 1)
           q1 == p1 + 1
           p2 == RunEnd(s, q1)
           q2 == p2 + 1
           p3 == RunEnd(s, q2)
           n1 == Number(s, 1)
           n2 == Number(s, q1)
           n3 == Number(s, q2)
           seconds == (n1 * 60 + n2) * 60 + n3
<1>1. Len(s) \in Nat /\ 1 \in 1 .. Len(s) + 1
  BY TextFacts
<1>2. p1 \in 1 .. Len(s) + 1 /\ FieldsBefore(s, p1) /\ ColonsBefore(s, p1) = {}
  BY <1>1, OneMoreField
<1>3. p1 \in 1 .. Len(s) /\ q1 \in 1 .. Len(s) + 1 /\ q1 > 1 /\ q1 - 1 = p1
  BY <1>1, <1>2 DEF FieldEnds
<1>4. /\ p2 \in q1 .. Len(s) + 1 /\ FieldsBefore(s, p2)
      /\ ColonsBefore(s, p2) = {p1}
  <2> HIDE DEF p1, q1
  <2>1. FieldsBefore(s, q1 - 1) /\ s[q1 - 1] = Colon
    BY <1>2, <1>3 DEF p1
  <2>2. /\ p2 \in q1 .. Len(s) + 1 /\ FieldsBefore(s, p2)
        /\ ColonsBefore(s, p2) = ColonsBefore(s, q1 - 1) \cup {q1 - 1}
    BY <1>3, <2>1, OneMoreField
  <2> QED BY <1>2, <1>3, <2>2
<1>5. p2 \in 1 .. Len(s) /\ q2 \in 1 .. Len(s) + 1 /\ q2 > 1 /\ q2 - 1 = p2 /\ p1 < p2
  <2>1. ~FieldEnds(s, p2)
    OBVIOUS
  <2> HIDE DEF p1, p2
  <2>2. p2 <= Len(s)
    BY <1>1, <1>3, <1>4, <2>1 DEF FieldEnds
  <2> QED BY <1>1, <1>3, <1>4, <2>2
<1>6. /\ p3 \in q2 .. Len(s) + 1 /\ FieldsBefore(s, p3) /\ (p3 <= Len(s) => ~IsDigit(s[p3]))
      /\ ColonsBefore(s, p3) = {p1} \cup {p2}
  <2> HIDE DEF p1, p2, q2
  <2>1. FieldsBefore(s, q2 - 1) /\ s[q2 - 1] = Colon
    BY <1>4, <1>5 DEF p1, p2
  <2>2. /\ p3 \in q2 .. Len(s) + 1 /\ FieldsBefore(s, p3) /\ (p3 <= Len(s) => ~IsDigit(s[p3]))
        /\ ColonsBefore(s, p3) = ColonsBefore(s, q2 - 1) \cup {q2 - 1}
    BY <1>5, <2>1, OneMoreField
  <2> QED BY <1>4, <1>5, <2>2
<1>7. n1 \in Nat /\ n2 \in Nat /\ n3 \in Nat /\ seconds \in Nat
  <2>1. n1 \in Nat /\ n2 \in Nat /\ n3 \in Nat
    BY <1>1, <1>3, <1>5, NumberType
  <2> HIDE DEF n1, n2, n3
  <2> QED BY <2>1
<1>8. ParseDuration(s) = Fraction(s, p3, seconds) /\ s[p1] = Colon /\ s[p2] = Colon
  BY DEF ParseDuration
<1>9. p3 \in 1 .. Len(s) + 1 /\ p1 < p3 /\ p2 < p3
  <2> HIDE DEF p1, p2, q2, p3
  <2> QED BY <1>1, <1>3, <1>5, <1>6 DEF q2
<1> HIDE DEF p1, p2, q1, q2, p3, n1, n2, n3, seconds
<1>10. CASE ~FieldEnds(s, p3)
  <2>1. p3 \in 1 .. Len(s) /\ s[p3] # Point
    BY <1>1, <1>9, <1>10 DEF FieldEnds
  <2>2. ParseDuration(s) = Malformed
    BY <1>1, <1>8, <2>1 DEF Fraction
  <2>3. ~Punctuated(s)
    <3>1. CASE s[p3] # Colon
      BY <1>6, <1>9, <1>10, <3>1, NotRead
    <3>2. CASE s[p3] = Colon
      <4>1. p1 \in At(s, Colon) /\ p2 \in At(s, Colon) /\ p3 \in At(s, Colon)
        BY <1>3, <1>5, <1>8, <2>1, <3>2, PlacesOf
      <4>2. p1 # p2 /\ p1 # p3 /\ p2 # p3
        BY <1>3, <1>5, <1>9
      <4>3. IsFiniteSet(At(s, Colon)) /\ Cardinality(At(s, Colon)) \in Nat
        BY PlacesOf
      <4>4. Cardinality(At(s, Colon)) >= 3
        BY <4>1, <4>2, <4>3, ThreeOf
      <4> QED BY <4>3, <4>4 DEF Punctuated
    <3> QED BY <3>1, <3>2
  <2> QED BY <2>2, <2>3
<1>11. CASE FieldEnds(s, p3)
  <2>1. Cardinality(ColonsBefore(s, p3)) <= 2
    <3>1. p2 \notin {p1}
      BY <1>3, <1>5
    <3>2. IsFiniteSet({p1}) /\ Cardinality({p1}) = 1
      BY FS_Singleton
    <3>3. Cardinality({p1} \cup {p2}) = Cardinality({p1}) + 1
      BY <3>1, <3>2, FS_AddElement, Zenon
    <3>4. Cardinality({p1} \cup {p2}) = 2
      BY <3>2, <3>3
    <3>5. ColonsBefore(s, p3) = {p1} \cup {p2}
      BY <1>6
    <3> QED BY <3>4, <3>5
  <2>2. /\ ParseDuration(s) # Malformed <=> Punctuated(s)
        /\ Punctuated(s) => At(s, Colon) = {p1} \cup {p2} /\ \A j \in At(s, Point) : j >= p3
    BY <1>6, <1>7, <1>8, <1>9, <1>11, <2>1, RestIsRead
  <2>3. ASSUME Punctuated(s) PROVE ParseDuration(s) = DurationOf(s)
    <3>1. PICK f : /\ Sums(f, s) /\ \A n \in 0 .. Len(s) : f[n] \in Nat
                   /\ DurationOf(s) = f[Len(s)]
      BY <2>3, SumOfDuration
    <3> DEFINE t == TicksPerSecond
               u1 == 3600 * t
               u2 == 60 * t
    <3>2. t \in Nat
      BY DurationAssumption
    <3> HIDE DEF t
    <3>3. \A j \in At(s, Point) : j >= p1 /\ j >= p2 /\ j >= p3
      <4>1. \A j \in At(s, Point) : j \in Int /\ j >= p3
        BY <2>2, <2>3, PlacesOf
      <4> QED BY <1>3, <1>5, <1>9, <4>1
    <3>4. /\ {j \in At(s, Colon) : j >= p1} = {p1} \cup {p2}
          /\ {j \in At(s, Colon) : j >= p2} = {p2}
          /\ {j \in At(s, Colon) : j >= p3} = {}
      <4>1. p1 \in Int /\ p2 \in Int /\ p3 \in Int
        BY <1>3, <1>5, <1>9
      <4> QED BY <1>5, <1>9, <2>2, <2>3, <4>1
    <3>5. p1 \in Nat /\ p2 \in Nat /\ p1 # p2
      BY <1>3, <1>5
    <3>6. /\ Unit({p1} \cup {p2}) = u1 /\ Unit({p2}) = u2 /\ Unit({}) = t
      BY <3>5, Units DEF t
    <3>7. u1 \in Nat /\ u2 \in Nat
      BY <3>2
    <3> HIDE DEF u1, u2
    <3>8. f[q1 - 1] = f[1 - 1] + u1 * n1
      <4>1. u1 = Unit({j \in At(s, Colon) : j >= p1})
        BY <3>4, <3>6
      <4>2. \A j \in At(s, Point) : j >= p1
        BY <3>3
      <4> QED BY <1>1, <1>3, <1>8, <3>1, <3>7, <4>1, <4>2, FieldAndColon DEF p1, q1, n1
    <3>9. f[q2 - 1] = f[q1 - 1] + u2 * n2
      <4>1. u2 = Unit({j \in At(s, Colon) : j >= p2})
        BY <3>4, <3>6
      <4>2. \A j \in At(s, Point) : j >= p2
        BY <3>3
      <4> QED BY <1>3, <1>5, <1>8, <3>1, <3>7, <4>1, <4>2, FieldAndColon DEF p2, q2, n2
    <3>10. f[p3 - 1] = f[q2 - 1] + t * n3
      <4>1. t = Unit({j \in At(s, Colon) : j >= p3})
        BY <3>4, <3>6
      <4>2. \A j \in At(s, Point) : j >= p3
        BY <3>3
      <4> QED BY <1>5, <3>1, <3>2, <4>1, <4>2, FieldSum DEF p3, n3
    <3>11. f[Len(s)] + seconds * t = f[p3 - 1] + Fraction(s, p3, seconds)
      BY <1>6, <1>7, <1>8, <1>9, <1>11, <2>2, <2>3, <3>1, RestSum DEF t
    <3>12. f[Len(s)] \in Nat /\ ParseDuration(s) \in Nat /\ f[1 - 1] = 0
      BY <1>1, <2>2, <2>3, <3>1, DurationType DEF Sums
    <3>13. seconds * t = u1 * n1 + u2 * n2 + t * n3
      BY <1>7, <3>2, ThreeUnits DEF seconds, u1, u2
    <3>14. u1 * n1 \in Nat /\ u2 * n2 \in Nat /\ t * n3 \in Nat
      BY <1>7, <3>2, <3>7
    <3> QED BY <1>8, <3>1, <3>8, <3>9, <3>10, <3>11, <3>12, <3>13, <3>14
  <2> QED BY <2>2, <2>3
<1> QED BY <1>10, <1>11

(* What the parser takes, and how it reads it.                             *)
LEMMA PunctuatedIsRead ==
  ASSUME NEW s \in Texts
  PROVE  /\ ParseDuration(s) # Malformed <=> Punctuated(s)
         /\ Punctuated(s) => ParseDuration(s) = DurationOf(s)
<1> DEFINE p1 == RunEnd(s, 1)
           p2 == RunEnd(s, p1 + 1)
<1>1. Len(s) \in Nat /\ 1 \in 1 .. Len(s) + 1
  BY TextFacts
<1>2. p1 \in 1 .. Len(s) + 1 /\ FieldsBefore(s, p1) /\ (p1 <= Len(s) => ~IsDigit(s[p1]))
  BY <1>1, OneMoreField
<1>3. CASE FieldEnds(s, p1)
  BY <1>3, ReadsOneField
<1>4. CASE ~FieldEnds(s, p1) /\ s[p1] # Colon
  <2>1. ParseDuration(s) = Malformed
    BY <1>4 DEF ParseDuration
  <2>2. ~Punctuated(s)
    <3> HIDE DEF p1
    <3> QED BY <1>2, <1>4, NotRead
  <2> QED BY <2>1, <2>2
<1>5. CASE ~FieldEnds(s, p1) /\ s[p1] = Colon /\ FieldEnds(s, p2)
  BY <1>5, ReadsTwoFields
<1>6. CASE ~FieldEnds(s, p1) /\ s[p1] = Colon /\ ~FieldEnds(s, p2) /\ s[p2] # Colon
  <2>1. ParseDuration(s) = Malformed
    BY <1>6 DEF ParseDuration
  <2>2. p2 \in 1 .. Len(s) + 1 /\ (p2 <= Len(s) => ~IsDigit(s[p2]))
    <3> HIDE DEF p1
    <3>1. p1 + 1 \in 1 .. Len(s) + 1 /\ p1 + 1 > 1 /\ (p1 + 1) - 1 = p1
      BY <1>1, <1>2, <1>6 DEF FieldEnds
    <3>2. Ends(p2, s, p1 + 1)
      BY <3>1, RunEndFacts
    <3> QED BY <1>1, <3>1, <3>2 DEF Ends
  <2>3. ~Punctuated(s)
    <3> HIDE DEF p2
    <3> QED BY <1>6, <2>2, NotRead
  <2> QED BY <2>1, <2>3
<1>7. CASE ~FieldEnds(s, p1) /\ s[p1] = Colon /\ ~FieldEnds(s, p2) /\ s[p2] = Colon
  BY <1>7, ReadsThreeFields
<1> QED BY <1>3, <1>4, <1>5, <1>6, <1>7

(* Every duration the usage text describes is read as the usage text       *)
(* describes it. The parser takes more: every text of digits with at most  *)
(* two colons and one point, in this order, of whose digits it reads each  *)
(* by its place and a field without any as 0; and nothing else.            *)
THEOREM DurationsAsWritten ==
  ASSUME NEW s \in Texts
  PROVE  /\ IsDuration(s) => ParseDuration(s) # Malformed
         /\ IsDuration(s) => ParseDuration(s) = DurationOf(s)
         /\ ParseDuration(s) # Malformed <=> Punctuated(s)
         /\ Punctuated(s) => ParseDuration(s) = DurationOf(s)
<1>1. IsDuration(s) => Punctuated(s)
  BY DEF IsDuration
<1> QED BY <1>1, PunctuatedIsRead

----------------------------------------------------------------------------
(* The dialog.                                                             *)

(* The deck is told to stop, or nobody watches what it does.               *)
LEMMA StopsDeckFacts ==
  ASSUME DeckTypes, RestInv, DeckFollows, StopsDeck, UNCHANGED DVctrl
  PROVE  /\ deck' \in {"stop", "play", "freeze", "recpause", "record"} /\ loose' \in BOOLEAN
         /\ ~loose' => deck' = "stop"
<1>1. loose' = (loose /\ ~(DVctrl /\ deck' = "stop"))
  BY DEF StopsDeck
<1>2. deck' = (IF DVctrl THEN "stop" ELSE deck) \/ (state = "Idle" /\ deck' = deck)
  BY DEF StopsDeck, Tell
<1>3. deck' \in {"stop", "play", "freeze", "recpause", "record"}
  BY <1>2 DEF DeckTypes
<1>4. loose' \in BOOLEAN
  BY <1>1
<1>5. ASSUME ~loose' PROVE deck' = "stop"
  <2>1. ~loose \/ (DVctrl /\ deck' = "stop")
    BY <1>1, <1>5
  <2>2. CASE ~loose /\ state = "Idle"
    BY <1>2, <2>2 DEF DeckTypes, DeckFollows
  <2>3. CASE ~loose /\ deck' = (IF DVctrl THEN "stop" ELSE deck)
    BY <2>3 DEF RestInv, DeckTypes
  <2> QED BY <1>2, <2>1, <2>2, <2>3
<1> QED BY <1>3, <1>4, <1>5

(* A pipeline is built, or taken down, on the tab shown.                   *)
LEMMA InitVideoFacts ==
  ASSUME DeckTypes, RestInv, DeckFollows, NEW t, InitVideo(t)
  PROVE  /\ deck' \in {"stop", "play", "freeze", "recpause", "record"} /\ loose' \in BOOLEAN
         /\ ~loose' => deck' = "stop"
         /\ DVctrl' = DVctrl /\ timer' \in BOOLEAN
         /\ state' = "Idle" \/ (state' = "CapturePaused" /\ t = Capture /\ timer' = TRUE)
<1>1. StopsDeck /\ UNCHANGED DVctrl
  BY DEF InitVideo, BuildCapturing, Destroy
<1>2. /\ timer' \in BOOLEAN
      /\ state' = "Idle" \/ (state' = "CapturePaused" /\ t = Capture /\ timer' = TRUE)
  BY DEF InitVideo, BuildCapturing, Destroy
<1> QED BY <1>1, <1>2, StopsDeckFacts

(* Where a message leaves a stopped deck, or nobody watches it, and a      *)
(* paused capture or nothing on the tab shown.                             *)
LEMMA AtRest ==
  ASSUME DeckTypes, tab' \in {Capture, Record}, savedTab' \in {Capture, Record},
         savedDVctrl' \in BOOLEAN, DVctrl' = DVctrl, timer' \in BOOLEAN,
         deck' \in {"stop", "play", "freeze", "recpause", "record"}, loose' \in BOOLEAN,
         ~loose' => deck' = "stop",
         state' = "Idle" \/ (state' = "CapturePaused" /\ tab' = Capture /\ timer' = TRUE),
         open' \in {"closed", "starting"} => state' = "Idle"
  PROVE  DialogIInv'
<1>1. DeckTypes'
  BY DEF DeckTypes
<1>2. RestInv'
  BY DEF RestInv
<1>3. TabShowsPipeline'
  BY DEF TabShowsPipeline, Capture, Record
<1>4. DeckFollows'
  BY DEF DeckFollows
<1> QED BY <1>1, <1>2, <1>3, <1>4 DEF DialogIInv, PipelineWatched

(* Where a message builds and starts a pipeline on the tab shown.          *)
LEMMA Started ==
  ASSUME DialogIInv, NEW s, NEW time, NEW command, BuildAndStart(s, time, command),
         \/ s = "Capturing" /\ command = "play" /\ tab' = Capture
         \/ s = "Recording" /\ command = "record" /\ tab' = Record
         \/ s = "RecordPaused" /\ command = "recpause" /\ tab' = Record,
         timer' = TRUE, open' = "open", UNCHANGED registry
  PROVE  DialogIInv'
<1>1. /\ state' = s /\ deck' = (IF DVctrl THEN command ELSE deck)
      /\ loose' = (loose /\ ~DVctrl) /\ DVctrl' = DVctrl
      /\ UNCHANGED <<savedTab, savedDVctrl>>
  BY DEF BuildAndStart, Tell, registry
<1>2. loose' \in BOOLEAN
  BY <1>1
<1>3. deck' \in {"stop", "play", "freeze", "recpause", "record"}
  BY <1>1 DEF DialogIInv, DeckTypes
<1>4. ~loose' => IF DVctrl THEN deck' = command ELSE deck' = "stop"
  <2>1. CASE DVctrl
    BY <1>1, <2>1
  <2>2. CASE ~DVctrl
    BY <1>1, <2>2 DEF DialogIInv, RestInv
  <2> QED BY <2>1, <2>2
<1>5. DeckTypes'
  BY <1>1, <1>2, <1>3 DEF DialogIInv, DeckTypes
<1>6. RestInv'
  BY <1>1, <1>4 DEF RestInv
<1>7. TabShowsPipeline'
  BY <1>1 DEF TabShowsPipeline, Capture, Record
<1>8. DeckFollows'
  BY <1>1, <1>4 DEF DeckFollows
<1> QED BY <1>5, <1>6, <1>7, <1>8 DEF DialogIInv, PipelineWatched

USE DEF shown, video, transport, registry
LEMMA LaunchKeeps ==
  ASSUME DialogIInv, NEW c \in Commands, Launch(c)
  PROVE  DialogIInv'
<1>1. /\ open = "closed" /\ open' = "starting"
      /\ tab' = savedTab /\ DVctrl' = savedDVctrl
      /\ UNCHANGED <<state, deck, loose, timer, savedTab, savedDVctrl>>
  BY DEF Launch
<1>2. state = "Idle" /\ (~loose => deck = "stop")
  BY <1>1 DEF DialogIInv, RestInv, DeckTypes, PipelineWatched, DeckFollows
<1>3. DeckTypes'
  BY <1>1 DEF DialogIInv, DeckTypes
<1>4. RestInv'
  BY <1>1, <1>2 DEF RestInv
<1>5. TabShowsPipeline' /\ DeckFollows'
  BY <1>1, <1>2 DEF TabShowsPipeline, DeckFollows
<1> QED BY <1>3, <1>4, <1>5 DEF DialogIInv, PipelineWatched

LEMMA StartKeeps ==
  ASSUME DialogIInv, StartPlain \/ StartUnknown \/ StartCapture \/ StartRecord
  PROVE  DialogIInv'
<1>1. open = "starting" /\ open' = "open" /\ UNCHANGED <<savedTab, savedDVctrl>>
  BY DEF StartPlain, StartUnknown, StartCapture, StartRecord, Appears
<1>2. DeckTypes /\ RestInv /\ DeckFollows /\ state = "Idle"
  BY <1>1 DEF DialogIInv, RestInv, PipelineWatched
<1>3. savedTab' \in {Capture, Record} /\ savedDVctrl' \in BOOLEAN
  BY <1>1, <1>2 DEF DeckTypes
<1>4. ASSUME NEW t \in {Capture, Record}, tab' = t, InitVideo(t) PROVE DialogIInv'
  BY <1>1, <1>2, <1>3, <1>4, InitVideoFacts, AtRest
<1>5. ASSUME NEW t \in {Capture, Record}, tab' = t, Usage(t) PROVE DialogIInv'
  <2>1. /\ StopsDeck /\ UNCHANGED DVctrl /\ timer' \in BOOLEAN
        /\ state' = "Idle" \/ (state' = "CapturePaused" /\ t = Capture /\ timer' = TRUE)
    BY <1>5 DEF Usage, BuildCapturing, Destroy
  <2> QED BY <1>1, <1>2, <1>3, <1>5, <2>1, StopsDeckFacts, AtRest
<1>6. CASE StartPlain
  <2>1. tab' = tab /\ InitVideo(tab) /\ tab \in {Capture, Record}
    BY <1>2, <1>6 DEF StartPlain, DeckTypes
  <2> QED BY <1>4, <2>1
<1>7. CASE StartUnknown
  <2>1. UNCHANGED <<tab, state, deck, loose, DVctrl, timer>>
    BY <1>7 DEF StartUnknown
  <2>2. ~loose => deck = "stop"
    BY <1>2 DEF DeckTypes, DeckFollows
  <2>3. /\ tab' \in {Capture, Record} /\ timer' \in BOOLEAN /\ loose' \in BOOLEAN
        /\ deck' \in {"stop", "play", "freeze", "recpause", "record"}
    BY <1>2, <2>1 DEF DeckTypes
  <2> QED BY <1>2, <1>3, <2>1, <2>2, <2>3, AtRest
<1>8. CASE StartCapture
  <2>1. /\ tab' = Capture
        /\ Usage(Capture) \/ Run("Capturing", ParseDuration(cmd.text), "play")
    BY <1>8 DEF StartCapture
  <2>2. CASE Usage(Capture)
    BY <1>5, <2>1, <2>2
  <2>3. ASSUME NEW time, Run("Capturing", time, "play") PROVE DialogIInv'
    <3>1. CASE InitVideo(tab')
      BY <1>4, <2>1, <3>1
    <3>2. CASE BuildAndStart("Capturing", time, "play") /\ timer' = TRUE
      <4>1. UNCHANGED registry
        BY <1>8 DEF StartCapture, Appears
      <4> QED BY <1>1, <2>1, <3>2, <4>1, Started
    <3> QED BY <2>3, <3>1, <3>2 DEF Run
  <2> QED BY <2>1, <2>2, <2>3
<1>9. CASE StartRecord
  <2>1. tab' = Record /\ (Usage(Record) \/ Run("Recording", 0, "record"))
    BY <1>9 DEF StartRecord
  <2>2. CASE Usage(Record)
    BY <1>5, <2>1, <2>2
  <2>3. CASE InitVideo(tab')
    BY <1>4, <2>1, <2>3
  <2>4. CASE BuildAndStart("Recording", 0, "record") /\ timer' = TRUE
    <3>1. UNCHANGED registry
      BY <1>9 DEF StartRecord, Appears
    <3> QED BY <1>1, <2>1, <2>4, <3>1, Started
  <2> QED BY <2>1, <2>2, <2>3, <2>4 DEF Run
<1> QED BY <1>6, <1>7, <1>8, <1>9

(* A button changes the state of the pipeline shown.                       *)
LEMMA Switched ==
  ASSUME DialogIInv, open = "open", state # "Idle", NEW s, NEW command, Switch(s, command),
         \/ s = "Capturing" /\ command = "play" /\ tab = Capture
         \/ s = "CapturePaused" /\ command = "freeze" /\ tab = Capture
         \/ s = "Recording" /\ command = "record" /\ tab = Record
         \/ s = "RecordPaused" /\ command = "recpause" /\ tab = Record,
         UNCHANGED <<open, tab, timer, registry>>
  PROVE  DialogIInv'
<1>1. /\ state' = s /\ deck' = (IF DVctrl THEN command ELSE deck)
      /\ UNCHANGED <<open, tab, timer, savedTab, savedDVctrl, DVctrl, loose>>
  BY DEF Switch, Tell
<1>2. deck' \in {"stop", "play", "freeze", "recpause", "record"}
  BY <1>1 DEF DialogIInv, DeckTypes
<1>3. ~loose => IF DVctrl THEN deck' = command ELSE deck' = "stop"
  <2>1. CASE DVctrl
    BY <1>1, <2>1
  <2>2. CASE ~DVctrl
    BY <1>1, <2>2 DEF DialogIInv, RestInv
  <2> QED BY <2>1, <2>2
<1>4. DeckTypes'
  BY <1>1, <1>2 DEF DialogIInv, DeckTypes
<1>5. RestInv'
  BY <1>1, <1>3 DEF RestInv
<1>6. TabShowsPipeline'
  BY <1>1 DEF DialogIInv, PipelineWatched, TabShowsPipeline, Capture, Record
<1>7. DeckFollows'
  BY <1>1, <1>3 DEF DeckFollows
<1> QED BY <1>4, <1>5, <1>6, <1>7 DEF DialogIInv, PipelineWatched

(* InitVideo on the tab that is shown, or that was clicked.                *)
LEMMA Rebuilt ==
  ASSUME DialogIInv, open' \notin {"closed", "starting"},
         tab' \in {Capture, Record}, InitVideo(tab'), UNCHANGED registry
  PROVE  DialogIInv'
<1>1. DeckTypes /\ RestInv /\ DeckFollows
  BY DEF DialogIInv, PipelineWatched
<1>2. UNCHANGED <<savedTab, savedDVctrl>>
  OBVIOUS
<1>3. savedTab' \in {Capture, Record} /\ savedDVctrl' \in BOOLEAN
  BY <1>1, <1>2 DEF DeckTypes
<1> QED BY <1>1, <1>3, InitVideoFacts, AtRest

LEMMA CaptureKeeps ==
  ASSUME DialogIInv, OnCapture
  PROVE  DialogIInv'
<1>1. /\ open = "open" /\ tab = Capture /\ UNCHANGED <<open, tab, registry>>
  BY DEF OnCapture, Enabled
<1>2. CASE state = "CapturePaused" /\ Switch("Capturing", "play") /\ UNCHANGED timer
  BY <1>1, <1>2, Switched
<1>3. CASE state = "Capturing" /\ Switch("CapturePaused", "freeze") /\ UNCHANGED timer
  BY <1>1, <1>3, Switched
<1>4. CASE InitVideo(tab)
  BY <1>1, <1>4, Rebuilt
<1> QED BY <1>2, <1>3, <1>4 DEF OnCapture

LEMMA RecordKeeps ==
  ASSUME DialogIInv, OnRecordBuild \/ OnRecordToggle
  PROVE  DialogIInv'
<1>1. /\ open = "open" /\ tab = Record /\ UNCHANGED <<open, tab, registry>>
  BY DEF OnRecordBuild, OnRecordToggle, Enabled
<1>2. CASE BuildRecording /\ timer' = TRUE
  <2>1. BuildAndStart("RecordPaused", 0, "recpause")
    BY <1>2 DEF BuildRecording
  <2>2. tab' = Record /\ open' = "open" /\ UNCHANGED registry
    BY <1>1
  <2> QED BY <1>2, <2>1, <2>2, Started
<1>3. CASE InitVideo(tab)
  BY <1>1, <1>3, Rebuilt
<1>4. CASE state = "RecordPaused" /\ Switch("Recording", "record") /\ UNCHANGED timer
  BY <1>1, <1>4, Switched
<1>5. CASE state = "Recording" /\ Switch("RecordPaused", "recpause") /\ UNCHANGED timer
  BY <1>1, <1>5, Switched
<1> QED BY <1>2, <1>3, <1>4, <1>5 DEF OnRecordBuild, OnRecordToggle

LEMMA TabKeeps ==
  ASSUME DialogIInv, OnCancel \/ (\E t \in {Capture, Record} : OnSelchangeToolTab(t))
  PROVE  DialogIInv'
<1>1. open' = "open" /\ UNCHANGED registry
  BY DEF OnCancel, OnSelchangeToolTab, Enabled
<1>2. tab' \in {Capture, Record} /\ InitVideo(tab')
  BY DEF OnCancel, OnSelchangeToolTab, DialogIInv, DeckTypes
<1> QED BY <1>1, <1>2, Rebuilt

LEMMA ControlKeeps ==
  ASSUME DialogIInv, OnDvctrl
  PROVE  DialogIInv'
<1>1. /\ open = "open" /\ DVctrl' = ~DVctrl /\ loose' = (loose \/ state # "Idle")
      /\ UNCHANGED <<open, tab, state, deck, timer, savedTab, savedDVctrl>>
  BY DEF OnDvctrl, Enabled
<1>2. DVctrl' \in BOOLEAN /\ loose' \in BOOLEAN
  BY <1>1
<1>3. DeckTypes'
  BY <1>1, <1>2 DEF DialogIInv, DeckTypes
<1>4. ~loose' => ~loose /\ state = "Idle"
  BY <1>1
<1>5. ~loose' => deck' = "stop"
  BY <1>1, <1>4 DEF DialogIInv, DeckTypes, PipelineWatched, DeckFollows
<1>6. RestInv'
  BY <1>1, <1>5 DEF RestInv
<1>7. TabShowsPipeline'
  BY <1>1 DEF DialogIInv, PipelineWatched, TabShowsPipeline
<1>8. DeckFollows'
  BY <1>5 DEF DeckFollows
<1> QED BY <1>3, <1>6, <1>7, <1>8 DEF DialogIInv, PipelineWatched

(* Where the pipeline is taken down.                                       *)
LEMMA TakenDown ==
  ASSUME DialogIInv, Destroy,
         tab' \in {Capture, Record}, savedTab' \in {Capture, Record},
         savedDVctrl' \in BOOLEAN, timer' \in BOOLEAN
  PROVE  DialogIInv'
<1>1. /\ DeckTypes /\ RestInv /\ DeckFollows
      /\ StopsDeck /\ UNCHANGED DVctrl /\ state' = "Idle"
  BY DEF DialogIInv, PipelineWatched, Destroy
<1> QED BY <1>1, StopsDeckFacts, AtRest

LEMMA ClosingKeeps ==
  ASSUME DialogIInv, OnClose \/ OnTimer \/ DialogEnds
  PROVE  DialogIInv'
<1>1. Destroy
  BY DEF OnClose, OnTimer, DialogEnds, Close
<1>2. /\ tab' = tab \/ tab' = Capture
      /\ savedTab' = tab \/ savedTab' = savedTab
      /\ savedDVctrl' = DVctrl \/ savedDVctrl' = savedDVctrl
      /\ timer' = timer \/ timer' = FALSE
  BY DEF OnClose, OnTimer, DialogEnds, Close
<1>3. tab' \in {Capture, Record} /\ savedTab' \in {Capture, Record}
  BY <1>2 DEF DialogIInv, DeckTypes
<1>4. savedDVctrl' \in BOOLEAN /\ timer' \in BOOLEAN
  BY <1>2 DEF DialogIInv, DeckTypes
<1> QED BY <1>1, <1>3, <1>4, TakenDown

LEMMA ModalKeeps ==
  ASSUME DialogIInv, ModalInv, CloseModal \/ (\E m \in {"about", "device"} : OpenModal(m))
  PROVE  DialogIInv'
<1>1. UNCHANGED registry
  BY DEF CloseModal, OpenModal
<1>2. CASE UNCHANGED <<open, tab, video, timer>>
  BY <1>1, <1>2 DEF DialogIInv, DeckTypes, RestInv, PipelineWatched, TabShowsPipeline, DeckFollows
<1>3. CASE InitVideo(tab) /\ UNCHANGED <<open, tab>> /\ modals # <<>>
  <2>1. tab' \in {Capture, Record} /\ InitVideo(tab') /\ open' \notin {"closed", "starting"}
    BY <1>3 DEF DialogIInv, DeckTypes, ModalInv
  <2> QED BY <1>1, <2>1, Rebuilt
<1>4. CASE Destroy /\ UNCHANGED <<tab, timer>>
  <2>1. /\ tab' \in {Capture, Record} /\ savedTab' \in {Capture, Record}
        /\ savedDVctrl' \in BOOLEAN /\ timer' \in BOOLEAN
    BY <1>1, <1>4 DEF DialogIInv, DeckTypes
  <2> QED BY <1>4, <2>1, TakenDown
<1> QED BY <1>2, <1>3, <1>4 DEF CloseModal, OpenModal

LEMMA WorkerKeeps ==
  ASSUME DialogIInv, TimedFinish \/ SignalLost \/ TapeEnds
  PROVE  DialogIInv'
<1>1. /\ state' = "Finished" /\ state \in {"Capturing", "Recording"}
      /\ UNCHANGED <<open, tab, DVctrl, deck, loose, timer, savedTab, savedDVctrl>>
  BY DEF TimedFinish, SignalLost, TapeEnds
<1>2. DeckTypes'
  BY <1>1 DEF DialogIInv, DeckTypes
<1>3. RestInv'
  BY <1>1 DEF DialogIInv, RestInv
<1>4. TabShowsPipeline'
  BY <1>1 DEF DialogIInv, PipelineWatched, TabShowsPipeline
<1>5. DeckFollows'
  BY <1>1 DEF DialogIInv, PipelineWatched, DeckFollows
<1> QED BY <1>2, <1>3, <1>4, <1>5 DEF DialogIInv, PipelineWatched

LEMMA ModalsKept ==
  ASSUME ModalInv, DialogSteps
  PROVE  ModalInv'
<1>1. ASSUME NEW c \in Commands, Launch(c) PROVE ModalInv'
  BY <1>1 DEF Launch, ModalInv
<1>2. CASE StartPlain \/ StartUnknown \/ StartCapture \/ StartRecord
  <2>1. open' = "open"
    BY <1>2 DEF StartPlain, StartUnknown, StartCapture, StartRecord, Appears
  <2> QED BY <2>1 DEF ModalInv
<1>3. CASE \/ OnCapture \/ OnRecordBuild \/ OnRecordToggle \/ OnDvctrl \/ OnCancel
           \/ (\E t \in {Capture, Record} : OnSelchangeToolTab(t))
  <2>1. open' = "open"
    BY <1>3 DEF OnCapture, OnRecordBuild, OnRecordToggle, OnDvctrl, OnCancel,
                OnSelchangeToolTab, Enabled
  <2> QED BY <2>1 DEF ModalInv
<1>4. CASE OnClose \/ OnTimer
  <2>1. open' = "ending"
    BY <1>4 DEF OnClose, OnTimer, Close
  <2> QED BY <2>1 DEF ModalInv
<1>5. CASE \E m \in {"about", "device"} : OpenModal(m)
  <2>1. open \notin {"closed", "starting"} /\ UNCHANGED open
    BY <1>5 DEF OpenModal, Enabled, ModalInv
  <2> QED BY <2>1 DEF ModalInv
<1>6. CASE CloseModal
  <2>1. modals # <<>> /\ open' \in {open, "ending"}
    BY <1>6 DEF CloseModal
  <2> QED BY <2>1 DEF ModalInv
<1>7. CASE DialogEnds
  BY <1>7 DEF DialogEnds, ModalInv
<1>8. CASE TimedFinish \/ SignalLost \/ TapeEnds
  BY <1>8 DEF TimedFinish, SignalLost, TapeEnds, ModalInv
<1> QED BY <1>1, <1>2, <1>3, <1>4, <1>5, <1>6, <1>7, <1>8 DEF DialogSteps

LEMMA DialogKeeps ==
  ASSUME DialogIInv, ModalInv, DialogSteps
  PROVE  DialogIInv'
<1>1. CASE (\E c \in Commands : Launch(c))
           \/ StartPlain \/ StartUnknown \/ StartCapture \/ StartRecord
  BY <1>1, LaunchKeeps, StartKeeps
<1>2. CASE OnCapture \/ OnRecordBuild \/ OnRecordToggle \/ OnDvctrl
  BY <1>2, CaptureKeeps, RecordKeeps, ControlKeeps
<1>3. CASE OnCancel \/ (\E t \in {Capture, Record} : OnSelchangeToolTab(t))
  BY <1>3, TabKeeps
<1>4. CASE OnClose \/ OnTimer \/ DialogEnds
  BY <1>4, ClosingKeeps
<1>5. CASE CloseModal \/ (\E m \in {"about", "device"} : OpenModal(m))
  BY <1>5, ModalKeeps
<1>6. CASE TimedFinish \/ SignalLost \/ TapeEnds
  BY <1>6, WorkerKeeps
<1> QED BY <1>1, <1>2, <1>3, <1>4, <1>5, <1>6 DEF DialogSteps

LEMMA DialogInitKeeps == DialogInit => DialogIInv /\ ModalInv
BY DEF DialogInit, DialogIInv, ModalInv, DeckTypes, RestInv, PipelineWatched,
       TabShowsPipeline, DeckFollows

(* The types.                                                              *)
States == {"Idle", "CapturePaused", "Capturing", "RecordPaused", "Recording", "Finished"}

ShownTypes ==
  /\ open \in {"closed", "starting", "open", "ending"}
  /\ cmd \in Commands
  /\ modals \in Seq({"about", "device", "usage"})
  /\ greeting \in BOOLEAN /\ savedPlace \in BOOLEAN

VideoTypes == state \in States /\ captureTime \in Nat /\ exitOnFinish \in BOOLEAN

DialogTypes == ShownTypes /\ VideoTypes

(* Whatever InitVideo builds.                                              *)
LEMMA InitVideoTypes ==
  ASSUME NEW t, InitVideo(t)
  PROVE  VideoTypes'
<1>1. state' \in {"Idle", "CapturePaused"} /\ captureTime' = 0 /\ exitOnFinish' = FALSE
  BY DEF InitVideo, BuildCapturing, Destroy
<1>2. state' \in States /\ captureTime' \in Nat
  BY <1>1 DEF States
<1>3. exitOnFinish' \in BOOLEAN
  BY <1>1
<1> QED BY <1>2, <1>3 DEF VideoTypes

LEMMA DestroyTypes ==
  ASSUME Destroy, exitOnFinish' \in BOOLEAN
  PROVE  VideoTypes'
  BY DEF Destroy, VideoTypes, States

(* The exit of a command line is a choice, and its duration a text.        *)
LEMMA CommandFacts ==
  ASSUME NEW c \in Commands
  PROVE  c.exit \in BOOLEAN /\ (c.word = "capture" => c.text \in Texts)
  BY DurationTextsAssumption DEF Commands, Texts

(* A start from the command line sets a time limit that is a number.       *)
LEMMA StartTypes ==
  ASSUME ShownTypes, VideoTypes, StartPlain \/ StartUnknown \/ StartCapture \/ StartRecord
  PROVE  VideoTypes'
<1>1. cmd \in Commands /\ cmd.exit \in BOOLEAN
  BY CommandFacts DEF ShownTypes
<1>2. ASSUME NEW t \in {Capture, Record}, Usage(t) PROVE VideoTypes'
  BY <1>1, <1>2 DEF Usage, BuildCapturing, Destroy, VideoTypes, States
<1>3. ASSUME NEW s \in States, NEW time \in Nat, NEW command, Run(s, time, command)
      PROVE  VideoTypes'
  <2>1. CASE BuildAndStart(s, time, command) /\ exitOnFinish' = cmd.exit
    BY <1>1, <2>1 DEF BuildAndStart, VideoTypes
  <2>2. CASE InitVideo(tab')
    <3>1. PICK t : t = tab'
      OBVIOUS
    <3>2. InitVideo(t)
      BY <2>2, <3>1
    <3> QED BY <3>2, InitVideoTypes
  <2> QED BY <1>3, <2>1, <2>2 DEF Run
<1>4. CASE StartPlain
  BY <1>4, InitVideoTypes DEF StartPlain
<1>5. CASE StartUnknown
  <2>1. UNCHANGED <<state, captureTime, exitOnFinish>>
    BY <1>5 DEF StartUnknown, video
  <2> QED BY <2>1 DEF VideoTypes
<1>6. CASE StartCapture
  <2> DEFINE t == ParseDuration(cmd.text)
  <2>1. cmd.text \in Texts
    BY <1>1, <1>6, CommandFacts DEF StartCapture
  <2>2. t \in Nat \cup {Malformed}
    BY <2>1, DurationType
  <2>3. \/ Usage(Capture)
        \/ t # Malformed /\ Run("Capturing", t, "play")
    BY <1>6 DEF StartCapture
  <2> HIDE DEF t
  <2>4. CASE Usage(Capture)
    BY <1>2, <2>4
  <2>5. CASE t # Malformed /\ Run("Capturing", t, "play")
    <3>1. t \in Nat /\ "Capturing" \in States
      BY <2>2, <2>5 DEF States
    <3> QED BY <1>3, <2>5, <3>1
  <2> QED BY <2>3, <2>4, <2>5
<1>7. CASE StartRecord
  <2>1. Usage(Record) \/ Run("Recording", 0, "record")
    BY <1>7 DEF StartRecord
  <2>2. "Recording" \in States /\ 0 \in Nat
    BY DEF States
  <2>3. CASE Usage(Record)
    BY <1>2, <2>3
  <2>4. CASE Run("Recording", 0, "record")
    BY <1>3, <2>2, <2>4
  <2> QED BY <2>1, <2>3, <2>4
<1> QED BY <1>4, <1>5, <1>6, <1>7

LEMMA VideoTypesKept ==
  ASSUME ShownTypes, VideoTypes, DialogSteps
  PROVE  VideoTypes'
<1>1. state \in States /\ captureTime \in Nat /\ exitOnFinish \in BOOLEAN
  BY DEF VideoTypes
<1>2. CASE StartPlain \/ StartUnknown \/ StartCapture \/ StartRecord
  BY <1>2, StartTypes
<1>3. CASE (\E c \in Commands : Launch(c)) \/ OnDvctrl
           \/ (\E m \in {"about", "device"} : OpenModal(m))
  <2>1. UNCHANGED <<state, captureTime, exitOnFinish>>
    BY <1>3 DEF Launch, OnDvctrl, OpenModal, video
  <2> QED BY <2>1 DEF VideoTypes
<1>4. CASE OnCapture
  BY <1>1, <1>4, InitVideoTypes DEF OnCapture, Switch, VideoTypes, States
<1>5. CASE OnRecordBuild
  BY <1>1, <1>5, InitVideoTypes DEF OnRecordBuild, BuildRecording, BuildAndStart, VideoTypes,
                                    States
<1>6. CASE OnRecordToggle
  BY <1>1, <1>6 DEF OnRecordToggle, Switch, VideoTypes, States
<1>7. CASE OnCancel \/ (\E t \in {Capture, Record} : OnSelchangeToolTab(t))
  BY <1>7, InitVideoTypes DEF OnCancel, OnSelchangeToolTab
<1>8. CASE OnClose \/ OnTimer \/ DialogEnds
  <2>1. Destroy /\ exitOnFinish' \in {exitOnFinish, FALSE}
    BY <1>8 DEF OnClose, OnTimer, DialogEnds, Close
  <2> QED BY <1>1, <2>1, DestroyTypes
<1>9. CASE CloseModal
  <2>1. CASE UNCHANGED <<state, captureTime, exitOnFinish>>
    BY <2>1 DEF VideoTypes
  <2>2. CASE InitVideo(tab)
    BY <2>2, InitVideoTypes
  <2>3. CASE Destroy /\ UNCHANGED exitOnFinish
    BY <1>1, <2>3, DestroyTypes
  <2> QED BY <1>9, <2>1, <2>2, <2>3 DEF CloseModal, video
<1>10. CASE TimedFinish \/ SignalLost \/ TapeEnds
  BY <1>1, <1>10 DEF TimedFinish, SignalLost, TapeEnds, VideoTypes, States
<1> QED BY <1>2, <1>3, <1>4, <1>5, <1>6, <1>7, <1>8, <1>9, <1>10 DEF DialogSteps

(* The dialogs above this one.                                             *)
LEMMA ModalsTyped ==
  ASSUME ShownTypes, DialogSteps
  PROVE  modals' \in Seq({"about", "device", "usage"})
<1> DEFINE Boxes == {"about", "device", "usage"}
<1>1. modals \in Seq(Boxes) /\ "usage" \in Boxes /\ {"about", "device"} \subseteq Boxes
  BY DEF ShownTypes
<1> SUFFICES modals' \in Seq(Boxes)
  OBVIOUS
<1> HIDE DEF Boxes
<1>2. CASE UNCHANGED modals
  BY <1>1, <1>2
<1>3. CASE modals' = <<"usage">>
  BY <1>1, <1>3
<1>4. CASE \E m \in {"about", "device"} : OpenModal(m)
  <2>1. PICK m \in Boxes : modals' = Append(modals, m)
    BY <1>1, <1>4 DEF OpenModal
  <2> QED BY <1>1, <2>1
<1>5. CASE CloseModal
  <2>1. modals # <<>> /\ modals' = Front(modals)
    BY <1>5 DEF CloseModal
  <2>2. modals' = SubSeq(modals, 1, Len(modals) - 1) /\ Len(modals) \in Nat \ {0}
    BY <1>1, <2>1, EmptySeq DEF Front
  <2>3. \A i \in 1 .. Len(modals) - 1 : i \in 1 .. Len(modals)
    BY <2>2
  <2> QED BY <1>1, <2>2, <2>3
<1>6. UNCHANGED modals \/ modals' = <<"usage">>
      \/ CloseModal \/ (\E m \in {"about", "device"} : OpenModal(m))
  BY DEF DialogSteps, Launch, StartPlain, StartUnknown, StartCapture, StartRecord, Usage, Run,
         OnCapture, OnRecordBuild, OnRecordToggle, OnSelchangeToolTab, OnDvctrl, OnCancel,
         OnClose, OnTimer, DialogEnds, TimedFinish, SignalLost, TapeEnds, shown
<1> QED BY <1>2, <1>3, <1>4, <1>5, <1>6

LEMMA ShownTypesKept ==
  ASSUME ShownTypes, DialogSteps
  PROVE  ShownTypes'
<1>1. /\ open' \in {open, "closed", "starting", "open", "ending"}
      /\ cmd' = cmd \/ cmd' = NoCommand \/ cmd' \in Commands
      /\ greeting' \in {greeting, FALSE, ~savedPlace}
      /\ savedPlace' \in {savedPlace, TRUE}
  BY DEF DialogSteps, Launch, StartPlain, StartUnknown, StartCapture, StartRecord, Appears,
         OnCapture, OnRecordBuild, OnRecordToggle, OnSelchangeToolTab, OnDvctrl, OnCancel,
         OnClose, OnTimer, Close, OpenModal, CloseModal, DialogEnds, TimedFinish, SignalLost,
         TapeEnds, shown, registry
<1>2. NoCommand \in Commands
  BY DEF NoCommand, Commands
<1>3. cmd' \in Commands
  BY <1>1, <1>2 DEF ShownTypes
<1>4. open' \in {"closed", "starting", "open", "ending"}
  BY <1>1 DEF ShownTypes
<1>5. greeting' \in BOOLEAN /\ savedPlace' \in BOOLEAN
  BY <1>1 DEF ShownTypes
<1> QED BY <1>3, <1>4, <1>5, ModalsTyped DEF ShownTypes

(* A start with a time limit, or the usage message.                        *)
LEMMA LimitSet ==
  ASSUME cmd.text \in Texts, modals = <<>>, StartCapture
  PROVE  /\ IsDuration(cmd.text) => modals' = <<>>
         /\ ~Punctuated(cmd.text) => modals' # <<>>
         /\ state' = "Capturing" => captureTime' = DurationOf(cmd.text)
<1> DEFINE s == cmd.text
           t == ParseDuration(s)
<1>1. /\ t # Malformed <=> Punctuated(s)
      /\ Punctuated(s) => t = DurationOf(s)
      /\ IsDuration(s) => t # Malformed
  BY DurationsAsWritten
<1>2. \/ t = Malformed /\ Usage(Capture)
      \/ t # Malformed /\ Run("Capturing", t, "play")
  BY DEF StartCapture
<1> HIDE DEF s, t
<1>3. CASE t = Malformed /\ Usage(Capture)
  <2>1. modals' = <<"usage">> /\ state' \in {"CapturePaused", "Idle"}
    BY <1>3 DEF Usage, BuildCapturing, Destroy
  <2>2. modals' # <<>> /\ state' # "Capturing"
    BY <2>1
  <2> QED BY <1>1, <1>3, <2>2 DEF s
<1>4. CASE t # Malformed /\ Run("Capturing", t, "play")
  <2>1. modals' = <<>>
    BY <1>4 DEF Run
  <2>2. state' = "Capturing" => captureTime' = t
    <3>1. CASE BuildAndStart("Capturing", t, "play")
      BY <3>1 DEF BuildAndStart
    <3>2. CASE InitVideo(tab')
      <4>1. state' \in {"CapturePaused", "Idle"}
        BY <3>2 DEF InitVideo, BuildCapturing, Destroy
      <4> QED BY <4>1
    <3> QED BY <1>4, <3>1, <3>2 DEF Run
  <2>3. Punctuated(s) /\ t = DurationOf(s)
    BY <1>1, <1>4
  <2> QED BY <2>1, <2>2, <2>3 DEF s
<1> QED BY <1>2, <1>3, <1>4

(* While the dialog starts with a capture, nothing but that happens.       *)
LEMMA OnlyStarts ==
  ASSUME DialogIInv, ModalInv, ShownTypes, open = "starting", cmd.word = "capture", DialogSteps
  PROVE  StartCapture /\ modals = <<>> /\ cmd.text \in Texts
<1>1. modals = <<>> /\ state = "Idle"
  BY DEF ModalInv, DialogIInv, RestInv
<1>2. cmd.text \in Texts
  BY CommandFacts DEF ShownTypes
<1>3. ~(\E c \in Commands : Launch(c)) /\ ~StartPlain /\ ~StartUnknown /\ ~StartRecord
  BY DEF Launch, StartPlain, StartUnknown, StartRecord
<1>4. ~OnCapture /\ ~OnRecordBuild /\ ~OnRecordToggle
      /\ ~(\E t \in {Capture, Record} : OnSelchangeToolTab(t))
      /\ ~OnDvctrl /\ ~OnCancel /\ ~OnClose
  BY DEF OnCapture, OnRecordBuild, OnRecordToggle, OnSelchangeToolTab, OnDvctrl, OnCancel,
         OnClose, Enabled
<1>5. ~OnTimer /\ ~DialogEnds /\ ~CloseModal
      /\ ~(\E m \in {"about", "device"} : OpenModal(m))
  BY <1>1 DEF OnTimer, DialogEnds, CloseModal, OpenModal, Enabled
<1>6. ~TimedFinish /\ ~SignalLost /\ ~TapeEnds
  BY <1>1 DEF TimedFinish, SignalLost, TapeEnds
<1> QED BY <1>1, <1>2, <1>3, <1>4, <1>5, <1>6 DEF DialogSteps

LEMMA DialogTypesStart == DialogInit => DialogTypes
<1> SUFFICES ASSUME DialogInit PROVE DialogTypes
  OBVIOUS
<1>1. NoCommand \in Commands
  BY DEF NoCommand, Commands
<1>2. ShownTypes
  <2>1. open = "closed" /\ cmd = NoCommand /\ modals = <<>> /\ greeting = FALSE
        /\ savedPlace = FALSE
    BY DEF DialogInit
  <2>2. greeting \in BOOLEAN /\ savedPlace \in BOOLEAN
    BY <2>1
  <2> QED BY <1>1, <2>1, <2>2, EmptySeq DEF ShownTypes
<1>3. VideoTypes
  BY DEF DialogInit, VideoTypes, States
<1> QED BY <1>2, <1>3 DEF DialogTypes

LEMMA DialogTyped == DialogIInv /\ DialogTypes => DialogTypeOK
  BY DEF DialogIInv, DeckTypes, DialogTypes, ShownTypes, VideoTypes, States, DialogTypeOK

----------------------------------------------------------------------------
(* The program.                                                            *)

USE DEF toolVars, dialogVars, filesVars

LEMMA NextKeeps ==
  ASSUME IInv, Next
  PROVE  IInv'
<1>1. DialogIInv /\ ModalInv /\ FilesIInv /\ ToolsIInv
  BY DEF IInv
<1>2. CASE CheckSteps /\ UNCHANGED <<dialogVars, filesVars>>
  <2>1. DialogIInv' /\ ModalInv'
    BY <1>1, <1>2 DEF DialogIInv, DeckTypes, RestInv, PipelineWatched, TabShowsPipeline,
                      DeckFollows, ModalInv
  <2>2. FilesIInv'
    BY <1>1, <1>2, FilesNextKeeps
  <2> QED BY <1>1, <1>2, <2>1, <2>2, ToolsKeep DEF IInv
<1>3. CASE HashSteps /\ UNCHANGED <<dialogVars, filesVars>>
  <2>1. DialogIInv' /\ ModalInv'
    BY <1>1, <1>3 DEF DialogIInv, DeckTypes, RestInv, PipelineWatched, TabShowsPipeline,
                      DeckFollows, ModalInv
  <2>2. FilesIInv'
    BY <1>1, <1>3, FilesNextKeeps
  <2> QED BY <1>1, <1>3, <2>1, <2>2, ToolsKeep DEF IInv
<1>4. CASE DialogSteps /\ UNCHANGED <<toolVars, filesVars>>
  <2>1. ToolsIInv'
    BY <1>1, <1>4, ToolsStay
  <2>2. FilesIInv'
    BY <1>1, <1>4, FilesNextKeeps
  <2> QED BY <1>1, <1>4, <2>1, <2>2, DialogKeeps, ModalsKept DEF IInv
<1>5. CASE FilesNext /\ UNCHANGED <<toolVars, dialogVars>>
  <2>1. ToolsIInv'
    BY <1>1, <1>5, ToolsStay
  <2>2. DialogIInv' /\ ModalInv'
    BY <1>1, <1>5 DEF DialogIInv, DeckTypes, RestInv, PipelineWatched, TabShowsPipeline,
                      DeckFollows, ModalInv
  <2> QED BY <1>1, <1>5, <2>1, <2>2, FilesNextKeeps DEF IInv
<1> QED BY <1>2, <1>3, <1>4, <1>5 DEF Next

LEMMA InitKeeps == Init => IInv
<1> SUFFICES ASSUME Init PROVE IInv
  OBVIOUS
<1>1. DialogIInv /\ ModalInv /\ FilesIInv
  BY DialogInitKeeps, FilesInitKeeps DEF Init
<1>2. ToolsIInv
  BY ToolsStart DEF Init
<1> QED BY <1>1, <1>2 DEF IInv

(* IInv is an inductive invariant of the program.                          *)
THEOREM Invariance == Spec => []IInv
<1>1. ASSUME IInv, UNCHANGED vars PROVE IInv'
  <2>1. UNCHANGED <<toolVars, dialogVars, filesVars>>
    BY <1>1 DEF vars
  <2>2. DialogIInv' /\ ModalInv'
    BY <1>1, <2>1 DEF IInv, DialogIInv, DeckTypes, RestInv, PipelineWatched,
                      TabShowsPipeline, DeckFollows, ModalInv
  <2>3. ToolsIInv'
    BY <1>1, <2>1, ToolsStay DEF IInv
  <2>4. FilesIInv'
    BY <1>1, <2>1, FilesNextKeeps DEF IInv
  <2> QED BY <2>2, <2>3, <2>4 DEF IInv
<1>2. IInv /\ [Next]_vars => IInv'
  BY <1>1, NextKeeps
<1> QED BY <1>2, InitKeeps, PTL DEF Spec

(* With IInv, what every part adds for its types is inductive as well.     *)
TypesInv == ToolsTypes /\ DialogTypes /\ BoundsInv

LEMMA TypesStay ==
  /\ ToolsTypes /\ UNCHANGED toolVars => ToolsTypes'
  /\ DialogTypes /\ UNCHANGED dialogVars => DialogTypes'
<1>1. ASSUME ToolsTypes, UNCHANGED toolVars PROVE ToolsTypes'
  BY <1>1 DEF ToolsTypes, CheckTypes, ContextTypes, CallTypes, checkVars, found, hashVars,
              onDisk, callVars
<1>2. ASSUME DialogTypes, UNCHANGED dialogVars PROVE DialogTypes'
  BY <1>2 DEF DialogTypes, ShownTypes, VideoTypes, shown, video, registry
<1> QED BY <1>1, <1>2

LEMMA TypesKept ==
  ASSUME IInv, TypesInv, [Next]_vars
  PROVE  TypesInv'
<1>1. /\ ToolsIInv /\ FilesIInv
      /\ ToolsTypes /\ DialogTypes /\ ShownTypes /\ VideoTypes /\ BoundsInv
  BY DEF IInv, TypesInv, DialogTypes
<1>2. (CheckSteps \/ HashSteps) \/ UNCHANGED toolVars
  BY DEF Next, vars
<1>3. DialogSteps \/ UNCHANGED dialogVars
  BY DEF Next, vars
<1>4. FilesNext \/ UNCHANGED filesVars
  BY DEF Next, vars
<1>5. ToolsTypes'
  BY <1>1, <1>2, ToolsTypesKept, TypesStay
<1>6. DialogTypes'
  BY <1>1, <1>3, ShownTypesKept, VideoTypesKept, TypesStay DEF DialogTypes
<1>7. BoundsInv'
  BY <1>1, <1>4, BoundsKept
<1> QED BY <1>5, <1>6, <1>7 DEF TypesInv

(* The types, with what they rest on, are invariants of the program.       *)
THEOREM TypesInvariance == Spec => []IInv /\ []TypesInv
<1>1. Init => IInv /\ TypesInv
  <2> SUFFICES ASSUME Init PROVE IInv /\ TypesInv
    OBVIOUS
  <2>1. IInv
    BY InitKeeps
  <2>2. TypesInv
    BY ToolsTypesStart, DialogTypesStart, BoundsStart DEF Init, TypesInv
  <2> QED BY <2>1, <2>2
<1>2. IInv /\ TypesInv /\ [Next]_vars => TypesInv'
  BY TypesKept
<1>3. Spec => []IInv
  BY Invariance
<1> QED BY <1>1, <1>2, <1>3, PTL DEF Spec

(* Every variable of the program keeps its type: an index holds no more    *)
(* bad entries than entries, the context of a digest only bytes, the time  *)
(* limit of a capture is a number whatever the text of a command line is,  *)
(* and the numbers of files fit the width they are written in.             *)
THEOREM TypeCorrect == Spec => []TypeOK
<1>1. ASSUME IInv, TypesInv PROVE TypeOK
  <2>1. ToolsTypeOK
    BY <1>1, ToolsTyped DEF IInv, TypesInv
  <2>2. DialogTypeOK
    BY <1>1, DialogTyped DEF IInv, TypesInv
  <2>3. FilesTypeOK
    BY <1>1, FilesTyped DEF IInv, TypesInv
  <2> QED BY <2>1, <2>2, <2>3 DEF TypeOK
<1>2. IInv /\ TypesInv => TypeOK
  BY <1>1
<1> QED BY <1>2, TypesInvariance, PTL

(* The dialog is not shown while the program is used for something else.   *)
UseInv == use # "dialog" => open = "closed"

LEMMA UseKept ==
  ASSUME UseInv, [Next]_vars
  PROVE  UseInv'
<1>1. use' = use
  BY DEF Next, vars
<1>2. use = "dialog" \/ open' = open
  BY DEF Next, vars
<1> QED BY <1>1, <1>2 DEF UseInv

(* capture takes from the command line every duration the usage text       *)
(* describes, answers a text with wrong characters or punctuation with the *)
(* usage message, and sets the time limit the text describes, a field      *)
(* without a digit being 0; nothing the user does meanwhile gets between.  *)
THEOREM LimitsKept == Spec => LimitsAsWritten
<1>1. Init => UseInv
  BY DEF Init, DialogInit, UseInv
<1>2. UseInv /\ [Next]_vars => UseInv'
  BY UseKept
<1>3. ASSUME IInv, TypesInv, UseInv, Next PROVE LimitAsWritten
  <2> SUFFICES ASSUME open = "starting", cmd.word = "capture"
               PROVE  /\ IsDuration(cmd.text) => modals' = <<>>
                      /\ ~Punctuated(cmd.text) => modals' # <<>>
                      /\ state' = "Capturing" => captureTime' = DurationOf(cmd.text)
    BY DEF LimitAsWritten
  <2>1. DialogSteps
    BY <1>3 DEF Next, UseInv
  <2>2. StartCapture /\ modals = <<>> /\ cmd.text \in Texts
    BY <1>3, <2>1, OnlyStarts DEF IInv, TypesInv, DialogTypes
  <2> QED BY <2>2, LimitSet
<1>4. IInv /\ TypesInv /\ UseInv /\ [Next]_vars => [LimitAsWritten]_vars
  BY <1>3
<1>5. Spec => []IInv /\ []TypesInv
  BY TypesInvariance
<1> QED BY <1>1, <1>2, <1>4, <1>5, PTL DEF Spec, LimitsAsWritten

(* A pipeline is never left running unseen, whatever the user does, in     *)
(* whatever order: command line, buttons, tabs, the menu that takes the    *)
(* control of the deck away, dialogs above this one, and the timer that    *)
(* closes the program under them.                                          *)
THEOREM Watched == Spec => []PipelineWatched
<1>1. IInv => PipelineWatched
  BY DEF IInv, DialogIInv
<1> QED BY <1>1, Invariance, PTL

(* In WinDV as in CaptureFiles alone, no capture is overwritten.           *)
THEOREM ProgramKeepsCaptures == Spec => []CapturesKept
<1>1. IInv => CapturesKept
  BY DEF IInv, FilesIInv
<1> QED BY <1>1, Invariance, PTL

(* In WinDV as in CaptureFiles alone, numbers follow the captures.         *)
THEOREM ProgramNumbersInOrder == Spec => []NumberedInOrder
<1>1. IInv => NumberedInOrder
  BY DEF IInv, FilesIInv
<1> QED BY <1>1, Invariance, PTL

(* CheckAVIIntegrity passes no file without a header, a movi list and an   *)
(* index, whatever chunks it has, in whatever order, wherever it ends; and *)
(* it passes every intact file, whose index is all there, agrees with its  *)
(* header and has no defect, whatever the sizes of its chunks. It says     *)
(* nothing of a file that ends inside its index.                           *)
THEOREM ChecksTell == Spec => []CheckTells
<1>1. IInv => PassedHasAll
  BY DEF IInv, ToolsIInv, WalkInv, PassedHasAll, CheckPassed
<1>2. IInv => IntactPasses
  BY IntactPassed DEF IInv, ToolsIInv
<1>3. IInv => CheckTells
  BY <1>1, <1>2 DEF CheckTells
<1> QED BY <1>3, Invariance, PTL

(* ComputeFileSHA256 gives the digest of the bytes it has read, for every  *)
(* file, however its length meets the blocks, the room for the length and  *)
(* the words that count the bits.                                          *)
THEOREM DigestsOfFiles == Spec => []DigestOfBytes
<1>1. IInv => DigestOfBytes
  BY DigestFollows DEF IInv
<1> QED BY <1>1, Invariance, PTL

(* What was wrong with an argument of check, hash or verify shows in the   *)
(* exit code at the end, for verify because sidecars agree with what was   *)
(* hashed and digests tell the bytes; and the code is not 0 for another    *)
(* reason. A read error is not wrong by itself: only verify notices it,    *)
(* when what was read is not what the sidecar is of.                       *)
THEOREM CodesTell == Spec => []ExitCodeTells
<1>1. IInv => ExitCodeTells
  BY DEF IInv, ToolsIInv, CodeInv, ExitCodeTells
<1> QED BY <1>1, Invariance, PTL
=============================================================================
