------------------------------- MODULE Tools -------------------------------
(***************************************************************************)
(* The tools of the command line, which run in OnInitDialog before any     *)
(* window is shown and end with ExitProcess: WinDV check, hash and verify. *)
(* A user calls one after the other and changes the files in between; what *)
(* one call leaves for the next are the sidecar files. While a file is     *)
(* read nobody can write it (FILE_SHARE_READ).                             *)
(*                                                                         *)
(* A sidecar has one line, for its file. External: the disk, on which a    *)
(* read may fail (ReadFails) and a sidecar may not be written.             *)
(***************************************************************************)
EXTENDS AVICheck, Sha256

CONSTANTS
  Files,      \* the names given to hash and verify
  Contents,   \* what a file may contain: sequences of bytes
  ReadSize,   \* bytes ReadFile is asked for at a time: 65536
  MaxArgs     \* bound: files named in one call

ASSUME ToolsAssumption ==
  /\ Contents \subseteq Seq(0 .. 255)
  /\ ReadSize \in Nat \ {0} /\ MaxArgs \in Nat
  /\ NoFile \notin Contents

VARIABLES
  content,    \* what is in each file
  sidecar,    \* the digest in each sidecar
  hashed,     \* the bytes that digest was computed from
  tool,       \* the subcommand that runs
  quiet,      \* hash -q
  args,       \* the arguments from the current one on
  step,       \* "next" argument, "read" a file or "walk" over one
  place,      \* bytes read from the file
  exitCode,
  bad,        \* an argument of this call was not in order
  unread      \* a read of this call failed before the end of the file

onDisk == <<content, sidecar, hashed>>
callVars == <<tool, quiet, args, step, place, exitCode, bad, unread>>
toolVars == <<checkVars, hashVars, onDisk, callVars>>

ToolsInit ==
  /\ CheckIdle /\ HashIdle
  /\ content = [f \in Files |-> NoFile]
  /\ sidecar = [f \in Files |-> NoFile]
  /\ hashed = [f \in Files |-> NoFile]
  /\ tool = "none" /\ quiet = FALSE /\ args = <<>>
  /\ step = "next" /\ place = 0 /\ exitCode = 0 /\ bad = FALSE
  /\ unread = FALSE

file == Head(args)
bytesRead == SubSeq(content[file], 1, place)

----------------------------------------------------------------------------
ArgLists == UNION {[1 .. n -> Files] : n \in 1 .. MaxArgs}

StartTool(t, as, q) ==
  /\ tool = "none"
  /\ tool' = t /\ args' = as /\ quiet' = q
  /\ step' = "next" /\ place' = 0 /\ exitCode' = 0 /\ bad' = FALSE
  /\ unread' = FALSE
  /\ UNCHANGED <<checkVars, hashVars, onDisk>>

(* The result of the last argument decides.                                *)
LastCodeMutant(code) == exitCode' = code

(* The worst result decides; 0 is none.                                    *)
Raise(code) == exitCode' = IF exitCode < code THEN code ELSE exitCode

NextArg ==
  /\ args' = Tail(args)
  /\ step' = "next"
  /\ UNCHANGED <<tool, quiet>>

ToolExits ==
  /\ tool # "none" /\ step = "next" /\ args = <<>>
  /\ tool' = "none" /\ quiet' = FALSE /\ exitCode' = 0 /\ bad' = FALSE
  /\ unread' = FALSE
  /\ UNCHANGED <<checkVars, hashVars, onDisk, args, step, place>>

----------------------------------------------------------------------------
(* ComputeFileSHA256, in hash and in verify.                               *)

(* CreateFile fails, or verify finds no sidecar.                           *)
NotReadable ==
  /\ tool \in {"hash", "verify"} /\ step = "next" /\ args # <<>>
  /\ content[file] = NoFile \/ (tool = "verify" /\ sidecar[file] = NoFile)
  /\ Raise(2)
  /\ bad' = TRUE
  /\ NextArg
  /\ UNCHANGED <<checkVars, hashVars, onDisk, place, unread>>

OpenFile ==
  /\ tool \in {"hash", "verify"} /\ step = "next" /\ args # <<>>
  /\ content[file] # NoFile
  /\ tool = "verify" => sidecar[file] # NoFile
  /\ sha256_init
  /\ step' = "read" /\ place' = 0
  /\ UNCHANGED <<checkVars, onDisk, tool, quiet, args, exitCode, bad, unread>>

ReadByte ==
  /\ step = "read"
  /\ place < Len(content[file])
  /\ sha256_update(content[file][place + 1])
  /\ place' = place + 1
  /\ UNCHANGED <<checkVars, onDisk, tool, quiet, args, step, exitCode, bad, unread>>

(* The loop ends with the file, and in the same way when a read fails.     *)
ReadFails == place % ReadSize = 0
LoopEnds == step = "read" /\ (place = Len(content[file]) \/ ReadFails)

CutShort == unread' = (unread \/ place < Len(content[file]))

(* The context was a variable of the function.                             *)
ContextGone == sha256_init /\ place' = 0

(* The sidecar is not written when it cannot be opened, and nobody hears.  *)
HashFile ==
  /\ tool = "hash" /\ LoopEnds
  /\ \/ /\ ~quiet
        /\ sidecar' = [sidecar EXCEPT ![file] = Digest]
        /\ hashed' = [hashed EXCEPT ![file] = bytesRead]
     \/ UNCHANGED <<sidecar, hashed>>
  /\ CutShort
  /\ NextArg
  /\ ContextGone
  /\ UNCHANGED <<checkVars, content, exitCode, bad>>

VerifyFile ==
  /\ tool = "verify" /\ LoopEnds
  /\ Raise(IF Digest = sidecar[file] THEN 0 ELSE 1)
  /\ bad' = (bad \/ bytesRead # hashed[file])
  /\ CutShort
  /\ NextArg
  /\ ContextGone
  /\ UNCHANGED <<checkVars, onDisk>>

----------------------------------------------------------------------------
(* WinDV check: the argument is a pattern. Here it names a file, nothing,  *)
(* or directories; one that names several files is several arguments.      *)

NothingFound ==
  /\ tool = "check" /\ step = "next" /\ args # <<>>
  /\ Raise(2)
  /\ bad' = TRUE
  /\ NextArg
  /\ UNCHANGED <<checkVars, hashVars, onDisk, place, unread>>

(* A directory is passed over.                                             *)
OnlyDirectories ==
  /\ tool = "check" /\ step = "next" /\ args # <<>>
  /\ NextArg
  /\ UNCHANGED <<checkVars, hashVars, onDisk, place, exitCode, bad, unread>>

CheckFile ==
  /\ tool = "check" /\ step = "next" /\ args # <<>>
  /\ \E f \in AVIFiles : CheckOpens(f)
  /\ step' = "walk"
  /\ UNCHANGED <<hashVars, onDisk, tool, quiet, args, place, exitCode, bad, unread>>

Walk ==
  /\ step = "walk"
  /\ WalkChunk \/ WalkEnds
  /\ UNCHANGED <<hashVars, onDisk, callVars>>

(* A file that fails makes the code 1, also when it was 2 before.          *)
CheckEnds ==
  /\ step = "walk" /\ ~walking
  /\ exitCode' = IF CheckPassed THEN exitCode ELSE 1
  /\ bad' = (bad \/ ~CheckPassed)
  /\ NextArg
  /\ CheckCloses
  /\ UNCHANGED <<hashVars, onDisk, place, unread>>

----------------------------------------------------------------------------
UserChanges(f, c) ==
  /\ tool = "none"
  /\ content' = [content EXCEPT ![f] = c]
  /\ UNCHANGED <<checkVars, hashVars, sidecar, hashed, callVars>>

HashSteps ==
  \/ NotReadable \/ OpenFile \/ ReadByte \/ HashFile \/ VerifyFile
  \/ ToolExits
  \/ \E t \in {"hash", "verify"}, as \in ArgLists, q \in BOOLEAN :
       (q => t = "hash") /\ StartTool(t, as, q)
  \/ \E f \in Files, c \in Contents \cup {NoFile} : UserChanges(f, c)

CheckSteps ==
  \/ \E as \in ArgLists : StartTool("check", as, FALSE)
  \/ NothingFound
  \/ OnlyDirectories
  \/ CheckFile
  \/ Walk
  \/ CheckEnds
  \/ ToolExits

----------------------------------------------------------------------------
ToolsTypeOK ==
  /\ avi = NoFile <=> step # "walk"
  /\ walking \in BOOLEAN /\ pos \in Nat
  /\ hdrl \in BOOLEAN /\ movi \in BOOLEAN /\ index \in BOOLEAN
  /\ frames \in Nat /\ entries \in Nat /\ defects \in 0 .. entries
  /\ data \in [Places -> 0 .. 255 \cup {Uninitialized}]
  /\ datalen \in Places /\ lo \in 0 .. Word - 1 /\ hi \in 0 .. Word - 1
  /\ content \in [Files -> Contents \cup {NoFile}]
  /\ tool \in {"none", "check", "hash", "verify"}
  /\ args \in {<<>>} \cup ArgLists
  /\ step \in {"next", "read", "walk"}
  /\ place \in Nat
  /\ exitCode \in 0 .. 2
  /\ quiet \in BOOLEAN /\ bad \in BOOLEAN /\ unread \in BOOLEAN

(* After any number of bytes the digest is that of the padded message of   *)
(* FIPS 180-4, over the boundaries of the blocks, of the room for the      *)
(* length and of the words that count the bits.                            *)
DigestOfBytes == step = "read" => Digest = PaddedMessage(bytesRead)

(* What was wrong with an argument shows in the exit code at the end of    *)
(* the call, and nothing a later argument does takes it back: a missing    *)
(* file or sidecar, a file whose bytes are not those of its sidecar, one   *)
(* the check fails. And the code is not 0 unless something was wrong.      *)
(*                                                                         *)
(* A read that fails before the end of the file is not enough, although    *)
(* ComputeFileSHA256 promises FALSE on a read error and the documentation  *)
(* a code that is not 0: its loop takes the failure for the end. Only      *)
(* verify can notice, when the bytes it got are not those of the sidecar;  *)
(* hash writes a sidecar of them and the code stays 0.                     *)
ExitCodeTells ==
  /\ bad => exitCode # 0
  /\ exitCode # 0 => bad \/ unread

HasChunk(f, kinds) == \E c \in f.chunks : c.kind \in kinds /\ c.at + HeaderSize <= f.size

(* An intact file: chunks one after the other from the RIFF header on,     *)
(* each on an even place and all there, among them a header, a movi list   *)
(* and an index, with frames, as many in the index as in the header, and   *)
(* without defects.                                                        *)
EndOf(c) == c.at + HeaderSize + c.size + (c.size % 2)
Smallest(kind) == CASE kind = "hdrl" -> ListTypeSize + HeaderSize + AvihSize
                    [] kind = "movi" -> ListTypeSize
                    [] OTHER -> 0
Indexed(c) == Cardinality({i \in DOMAIN c.entries : c.entries[i] # "other"})
Intact(f) ==
  /\ f.riffSize + HeaderSize = f.size
  /\ \A c \in f.chunks :
       /\ c.at = 12 \/ \E d \in f.chunks : c.at = EndOf(d)
       /\ \A d \in f.chunks : d.at = c.at => d = c
       /\ EndOf(c) <= f.size /\ c.size >= Smallest(c.kind)
       /\ c.kind = "hdrl" => c.frames > 0
       /\ \A i \in DOMAIN c.entries : c.entries[i] # "bad"
       /\ c.kind = "idx1" => \A h \in f.chunks : h.kind = "hdrl" => h.frames = Indexed(c)
  /\ \A k \in {"hdrl", "movi", "idx1"} : HasChunk(f, {k})

(* A file passes the check only when it has a header, a movi list and an   *)
(* index, or at least where these begin.                                   *)
PassedHasAll ==
  step = "walk" /\ ~walking /\ CheckPassed =>
    /\ HasChunk(avi, {"hdrl"}) /\ HasChunk(avi, {"movi"})
    /\ HasChunk(avi, {"idx1", "indx"})

(* An intact file passes.                                                  *)
IntactPasses == step = "walk" /\ ~walking /\ Intact(avi) => CheckPassed

(* A file cut off before its index fails, an intact one passes. Between    *)
(* the two the check promises nothing: a file cut off inside its index may *)
(* pass, and so may one whose index has another number of frames than its  *)
(* header, although AVICheck.cpp lists that consistency as validated: it   *)
(* only adds to the text of a file that fails anyway.                      *)
CheckTells == PassedHasAll /\ IntactPasses
=============================================================================
