------------------------------ MODULE AVICheck ------------------------------
(***************************************************************************)
(* CheckAVIIntegrity: the walk over the top-level chunks of an AVI file    *)
(* that decides whether a capture is whole. One step is one turn of the    *)
(* loop. A file is given by its chunks, each with the place it starts at,  *)
(* by the size its RIFF header states, and by the bytes that are there:    *)
(* fewer than the chunks need when the capture was cut off.                *)
(*                                                                         *)
(* The sizes stay far below 2^32. Left out: texts, the signature (a file   *)
(* without it fails at once, like one too short for it), the format and    *)
(* the size computed from it, which no decision uses, and the walk over    *)
(* RIFF AVIX parts, which changes no result.                               *)
(***************************************************************************)
EXTENDS Naturals, Sequences, FiniteSets

CONSTANTS
  AVIFiles,   \* the files that may be checked
  Batch,      \* index entries read at a time: 4096
  NoFile

ASSUME AVICheckAssumption ==
  /\ \A f \in AVIFiles : /\ f.size \in Nat /\ f.riffSize \in Nat
                         /\ \A c \in f.chunks :
                              /\ c.at \in Nat /\ c.at >= 12 /\ c.size \in Nat
                              /\ c.frames \in Nat
                              /\ c.entries \in Seq({"good", "bad", "other"})
  /\ Batch \in Nat \ {0}
  /\ NoFile \notin AVIFiles

VARIABLES
  avi,       \* the file
  walking,   \* the loop over the chunks is not left yet
  pos,       \* where the next chunk is expected
  hdrl, movi, index,   \* what was found: bHasHdrl, bHasMovi, bHasIndex
  frames,    \* dwTotalFrames of the avih header, 0 without one
  entries,   \* dwIndexEntries
  defects    \* dwDefectFrames

found == <<hdrl, movi, index, frames, entries, defects>>
checkVars == <<avi, walking, pos, found>>

HeaderSize == 8          \* sizeof (RIFFChunk)
ListTypeSize == 4
AvihSize == 56           \* sizeof (AVIMainHeader)
EntrySize == 16          \* sizeof (AVIIndexEntry)

(* PADEVEN without the rounding.                                           *)
UnpaddedMutant(n) == n
PadEven(n) == n + (n % 2)

SmallerOf(a, b) == IF a <= b THEN a ELSE b
riffEnd == SmallerOf(HeaderSize + avi.riffSize, avi.size)

(* ReadExact of n bytes from p.                                            *)
CanRead(p, n) == p + n <= avi.size

CheckIdle ==
  /\ avi = NoFile
  /\ walking = FALSE /\ pos = 0
  /\ hdrl = FALSE /\ movi = FALSE /\ index = FALSE
  /\ frames = 0 /\ entries = 0 /\ defects = 0

NothingYet ==
  /\ hdrl' = FALSE /\ movi' = FALSE /\ index' = FALSE
  /\ frames' = 0 /\ entries' = 0 /\ defects' = 0

(* Up to the RIFF header.                                                  *)
CheckOpens(f) ==
  /\ avi' = f
  /\ walking' = (f.size >= 12)
  /\ pos' = 12
  /\ NothingYet

CheckCloses ==
  /\ avi' = NoFile
  /\ walking' = FALSE /\ pos' = 0
  /\ NothingYet

(* The entries of the index are read in batches, and a batch that is not   *)
(* there completely ends the reading. An entry is "good" or "bad" by its   *)
(* frame size, or "other" when it is not a video frame.                    *)
EntriesRead(c) ==
  LET there == (avi.size - (pos + HeaderSize)) \div EntrySize
  IN  IF there >= Len(c.entries) THEN Len(c.entries) ELSE Batch * (there \div Batch)

NumberOf(c, kinds) == Cardinality({i \in 1 .. EntriesRead(c) : c.entries[i] \in kinds})

ListType(c) ==
  \/ /\ c.kind = "hdrl"
     /\ hdrl' = TRUE
     /\ frames' = IF CanRead(pos, HeaderSize + ListTypeSize + HeaderSize + AvihSize)
                  THEN c.frames ELSE frames
     /\ UNCHANGED <<movi, index, entries, defects>>
  \/ /\ c.kind = "movi"
     /\ movi' = TRUE
     /\ UNCHANGED <<hdrl, index, frames, entries, defects>>

OtherType(c) ==
  \/ /\ c.kind = "idx1"
     /\ index' = TRUE
     /\ entries' = NumberOf(c, {"good", "bad"})
     /\ defects' = NumberOf(c, {"bad"})
     /\ UNCHANGED <<hdrl, movi, frames>>
  \/ /\ c.kind = "indx"
     /\ index' = TRUE
     /\ UNCHANGED <<hdrl, movi, frames, entries, defects>>
  \/ c.kind = "junk" /\ UNCHANGED found

(* Where no chunk begins the walk finds something it does not know, of     *)
(* some size.                                                              *)
ChunksAt(p) ==
  LET here == {c \in avi.chunks : c.at = p}
  IN  IF here # {} THEN here ELSE [at : {p}, kind : {"junk"}, size : 0 .. 3]

WalkChunk ==
  /\ walking
  /\ pos + HeaderSize <= riffEnd
  /\ \E c \in ChunksAt(pos) :
       \/ /\ c.kind \in {"hdrl", "movi"} /\ ~CanRead(pos, HeaderSize + ListTypeSize)
          /\ walking' = FALSE
          /\ UNCHANGED <<pos, found>>
       \/ /\ c.kind \in {"hdrl", "movi"} /\ CanRead(pos, HeaderSize + ListTypeSize)
          /\ ListType(c)
          /\ pos' = pos + HeaderSize + PadEven(c.size)
          /\ UNCHANGED walking
       \/ /\ OtherType(c)
          /\ pos' = pos + HeaderSize + PadEven(c.size)
          /\ UNCHANGED walking
  /\ UNCHANGED avi

WalkEnds ==
  /\ walking
  /\ pos + HeaderSize > riffEnd
  /\ walking' = FALSE
  /\ UNCHANGED <<avi, pos, found>>

FrameCount == IF frames = 0 /\ entries > 0 THEN entries ELSE frames

(* What FormatCheckResult and the command line call OK.                    *)
CheckPassed ==
  /\ hdrl /\ movi /\ FrameCount > 0
  /\ defects = 0
  /\ index
=============================================================================
