------------------------------- MODULE Sha256 -------------------------------
(***************************************************************************)
(* The streaming side of sha256.c: how bytes are collected into blocks,    *)
(* counted, and padded at the end. The compression of a block is left out: *)
(* the digest is known by the blocks it was computed from, in their order. *)
(* BlockSize is 64 and WordBytes 4 in the code.                            *)
(***************************************************************************)
EXTENDS Naturals, Sequences

CONSTANTS
  BlockSize,   \* bytes in a block
  WordBytes    \* bytes in one of the two words that count the bits

(* 256 to the power of n.                                                  *)
Power256[n \in Nat] == IF n = 0 THEN 1 ELSE 256 * Power256[n - 1]

Word == Power256[WordBytes]
BlockBits == 8 * BlockSize
Room == BlockSize - 2 * WordBytes   \* where the length begins in the last block

ASSUME Sha256Assumption ==
  /\ BlockSize \in Nat /\ WordBytes \in Nat \ {0}
  /\ BlockSize > 2 * WordBytes
  /\ BlockBits < Word /\ Word % BlockBits = 0

VARIABLES
  data,      \* ctx->data, with what the last block has left in it
  datalen,   \* ctx->datalen
  lo, hi,    \* ctx->bitlen
  blocks     \* the blocks sha256_transform has had

hashVars == <<data, datalen, lo, hi, blocks>>

Places == 0 .. BlockSize - 1
Uninitialized == 999

HashIdle ==
  /\ data = [i \in Places |-> Uninitialized]
  /\ datalen = 0 /\ lo = 0 /\ hi = 0
  /\ blocks = <<>>

(* The context is a new variable of ComputeFileSHA256.                     *)
sha256_init ==
  /\ data' = [i \in Places |-> Uninitialized]
  /\ datalen' = 0 /\ lo' = 0 /\ hi' = 0
  /\ blocks' = <<>>

(* The block is sent on when there is one byte too many in it.             *)
OverfullMutant(n) == n > BlockSize
BlockFull(n) == n = BlockSize

Overflowed(low, n) == low < n

(* sha256_update: one turn of its loop.                                    *)
sha256_update(byte) ==
  /\ data' = [data EXCEPT ![datalen] = byte]
  /\ IF BlockFull(datalen + 1)
     THEN /\ datalen' = 0
          /\ blocks' = Append(blocks, data')
          /\ lo' = (lo + BlockBits) % Word
          /\ hi' = (IF Overflowed(lo', BlockBits) THEN hi + 1 ELSE hi) % Word
     ELSE /\ datalen' = datalen + 1
          /\ UNCHANGED <<lo, hi, blocks>>

(* Zeros in block b from one place up to another.                          *)
Zeroed(b, from, to) == [i \in Places |-> IF from <= i /\ i < to THEN 0 ELSE b[i]]

(* Byte i of a word of the length, the most significant first.             *)
ByteOf(word, i) == (word \div Power256[WordBytes - 1 - i]) % 256

(* Whether the length still fits behind the 0x80.                          *)
NoRoomOffByOneMutant(padindex) == padindex >= Room
NoRoom(padindex) == padindex > Room

(* sha256_final: the digest as it would be after the bytes so far.         *)
Digest ==
  LET low == (lo + 8 * datalen) % Word
      high == (IF Overflowed(low, lo) THEN hi + 1 ELSE hi) % Word
      marked == [data EXCEPT ![datalen] = 128]
      filled == Zeroed(marked, datalen + 1, BlockSize)
      full == NoRoom(datalen + 1)
      padded == IF full THEN Zeroed(filled, 0, Room) ELSE Zeroed(marked, datalen + 1, Room)
      last == [i \in Places |->
                 IF i < Room THEN padded[i]
                 ELSE IF i < Room + WordBytes THEN ByteOf(high, i - Room)
                 ELSE ByteOf(low, i - Room - WordBytes)]
  IN  blocks \o (IF full THEN <<filled>> ELSE <<>>) \o <<last>>

(* FIPS 180-4: the message, 0x80, the fewest zeros that fill a block, and  *)
(* the length of the message in bits in the last bytes.                    *)
PaddedMessage(m) ==
  LET n == Len(m)
      count == (n + 1 + 2 * WordBytes + BlockSize - 1) \div BlockSize
      size == count * BlockSize
      byte(p) == IF p < n THEN m[p + 1]
                 ELSE IF p = n THEN 128
                 ELSE IF p < size - 2 * WordBytes THEN 0
                 ELSE ((8 * n) \div Power256[size - 1 - p]) % 256
  IN  [j \in 1 .. count |-> [i \in Places |-> byte((j - 1) * BlockSize + i)]]
=============================================================================
