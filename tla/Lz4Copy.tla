------------------------------ MODULE Lz4Copy ------------------------------
(***************************************************************************)
(* The copies of tools/lz4.c, on a memory that gives each address a byte.  *)
(* Most of them work in whole chunks and so write, and read, past the end  *)
(* of what they are asked for; a chunk is read whole before it is written. *)
(***************************************************************************)
EXTENDS Integers

Bytes == 0..255

CONSTANT Junk           \* what an address holds that nobody has written

ASSUME JunkAssumption == Junk \in Bytes

At(m, a) == IF a \in DOMAIN m THEN m[a] ELSE Junk

(* n bytes from s to d, in chunks that are read whole before they are       *)
(* written: a cell gets what an earlier chunk has left at its source.       *)
Copy(m, d, s, n, chunk) ==
  LET left[a \in d..(d + n - 1)] ==
        LET from  == s + (a - d)
            start == a - ((a - d) % chunk)
        IN IF d <= from /\ from < start THEN left[from] ELSE At(m, from)
  IN [a \in DOMAIN m |-> IF d <= a /\ a < d + n THEN left[a] ELSE m[a]]

(* memcpy and memmove; a loop over the bytes.                               *)
Chunk(m, d, s, n)    == IF n <= 0 THEN m ELSE Copy(m, d, s, n, n)
ByteCopy(m, d, s, n) == IF n <= 0 THEN m ELSE Copy(m, d, s, n, 1)

(* Whole stripes from d until e is reached, one at least: where they end.   *)
StripesEnd(d, e, stripe) ==
  d + stripe * (IF e <= d THEN 1 ELSE (e - d + stripe - 1) \div stripe)

(* wildCopy8, 32 and 64: stripes, each copied in chunks.                    *)
WildCopy(m, d, s, e, stripe, chunk) == Copy(m, d, s, StripesEnd(d, e, stripe) - d, chunk)

WildCopy8(m, d, s, e) == WildCopy(m, d, s, e, 8, 8)

inc32table == <<0, 1, 2, 1, 0, 4, 4, 4>>
dec64tableShifted == <<0, 0, 0, 1, -4, 1, 2, 3>>               \* MUTANT
dec64table == <<0, 0, 0, -1, -4, 1, 2, 3>>

(* The first eight bytes of a match: offsets below eight repeat, and the    *)
(* source is moved so that it lies eight bytes behind from then on.  The    *)
(* first four are set to 0 before they are copied, two or one at a time.    *)
StartMatch(m, d, s, offset, unit) ==
  IF offset < 8
    THEN LET zeroed == [a \in DOMAIN m |-> IF d <= a /\ a < d + 4 THEN 0 ELSE m[a]]
         IN Chunk(WildCopy(zeroed, d, s, d + 4, unit, unit), d + 4, s + inc32table[offset + 1], 4)
    ELSE Chunk(m, d, s, 8)

Source8(s, offset) ==
  IF offset < 8 THEN s + inc32table[offset + 1] - dec64table[offset + 1] ELSE s + 8

(* memcpy_using_offset: 1, 2 and 4 from a pattern of eight bytes, the       *)
(* others from eight bytes behind.                                          *)
CopyUsingOffset(m, d, s, e, offset) ==
  IF offset \in {1, 2, 4}
    THEN LET end == StripesEnd(d, e, 8)
         IN [a \in DOMAIN m |-> IF d <= a /\ a < end THEN At(m, s + ((a - d) % offset)) ELSE m[a]]
    ELSE WildCopy8(StartMatch(m, d, s, offset, 2), d + 8, Source8(s, offset), e)

(* The stripe of the long copies: 32 bytes in two halves, on aarch64 64     *)
(* bytes at once where the offset allows.                                   *)
StripeCopy(m, d, s, e, stripe) == WildCopy(m, d, s, e, stripe, IF stripe = 64 THEN 64 ELSE 16)
=============================================================================
