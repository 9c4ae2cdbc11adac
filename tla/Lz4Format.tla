----------------------------- MODULE Lz4Format -----------------------------
(***************************************************************************)
(* The numbers of tools/lz4.c and what the bytes of a block are: a token   *)
(* with two lengths of four bits, more length bytes where four bits are    *)
(* not enough, literals, a match offset of two bytes.                      *)
(***************************************************************************)
EXTENDS Integers, Sequences

CONSTANTS KB64,         \* the "64 KB" of the code: how far back history counts
          DISTANCE_MAX, \* the farthest match (can be set when lz4.c is built)
          KB4,          \* "4 KB": from there on a table is not worth keeping
          GB1,          \* "1 GB": from there on an index is taken back by a reset
          IndexLimit,   \* 0x80000000: beyond it the indexes of a stream are rescaled
          IndexSpan,    \* 2^32: an index is an unsigned number of 32 bits
          MAX_INPUT_SIZE

ASSUME WindowAssumption == KB64 \in Nat /\ DISTANCE_MAX \in 1..(KB64 - 1)
ASSUME SizesAssumption ==
  /\ KB4 \in 1..KB64 /\ GB1 \in Nat /\ IndexLimit \in Nat /\ MAX_INPUT_SIZE \in Nat
  /\ KB64 + MAX_INPUT_SIZE <= IndexLimit /\ GB1 + KB64 <= IndexLimit
  /\ IndexSpan \in Nat /\ IndexLimit + MAX_INPUT_SIZE < IndexSpan /\ IndexSpan % KB64 = 0

MINMATCH == 4
WILDCOPYLENGTH == 8
LASTLITERALS == 5
MFLIMIT == 12
MATCH_SAFEGUARD_DISTANCE == 2 * WILDCOPYLENGTH - MINMATCH
FASTLOOP_SAFE_DISTANCE == 64
ML_MASK == 15
RUN_MASK == 15

minLength == MFLIMIT + 1
Limit64K  == KB64 + MFLIMIT - 1

(* A sum of indexes in 32 bits. *)
U32(i) == i % IndexSpan

(* The size that is always enough for n bytes; 0 for a size that is none. *)
CompressBoundBare(n) == IF n \in 0..MAX_INPUT_SIZE THEN n + (n \div 255) ELSE 0   \* MUTANT
CompressBound(n) == IF n \in 0..MAX_INPUT_SIZE THEN n + (n \div 255) + 16 ELSE 0

(* What lz4.h gives a user for a ring buffer of decoded blocks, 0 for a      *)
(* size that is none, and for decoding in the buffer that holds the input.  *)
DecoderRingBufferSize(maxBlockSize) ==
  IF maxBlockSize < 0 \/ maxBlockSize > MAX_INPUT_SIZE THEN 0
  ELSE KB64 + 14 + (IF maxBlockSize < 16 THEN 16 ELSE maxBlockSize)
InPlaceBufferSize(size) == size + size \div 256 + 32

(* The two numbers of a token. *)
LiteralBits(token) == token \div (ML_MASK + 1)
MatchBits(token)   == token % (ML_MASK + 1)

(* The bytes that carry the part of a length a token cannot hold. *)
LengthBytes(rest) == [i \in 1..(rest \div 255 + 1) |->
                        IF i <= rest \div 255 THEN 255 ELSE rest % 255]

(* A length field as written: its bits in the token, its further bytes. *)
Bits(length, mask)    == IF length >= mask THEN mask ELSE length
MoreBytes(length, mask) == IF length >= mask THEN LengthBytes(length - mask) ELSE <<>>

OffsetBytes(offset) == <<offset % 256, offset \div 256>>
=============================================================================
