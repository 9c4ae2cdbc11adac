-------------------------- MODULE Lz4DecodeProofs --------------------------
(***************************************************************************)
(* Proofs about Lz4Decoder, for every input, every size of the buffers and *)
(* every sequence of calls of the functions that check their input; what   *)
(* the memory holds is arbitrary.                                          *)
(***************************************************************************)
EXTENDS Lz4Decoder, WellFoundedInduction, TLAPS

(* The second memory is the first but for the cells from lo to hi - 1. *)
Touches(m, m2, lo, hi) == /\ m2 \in [DOMAIN m -> Bytes]
                          /\ \A a \in DOMAIN m : m2[a] # m[a] => lo <= a /\ a < hi

(* A memory stays one, and two changes are one change. *)
LEMMA TouchesTwice ==
  ASSUME NEW m, IsMemory(m), NEW m1, NEW m2,
         NEW lo \in Int, NEW mid \in Int, NEW from \in Int, NEW hi \in Int,
         Touches(m, m1, lo, mid), Touches(m1, m2, from, hi), lo <= from, mid <= hi
  PROVE  Touches(m, m2, lo, hi) /\ IsMemory(m1) /\ IsMemory(m2)
BY DEF Touches, IsMemory

(* A wider range is touched as well. *)
LEMMA TouchesMore ==
  ASSUME NEW m, IsMemory(m), NEW m1,
         NEW lo \in Int, NEW hi \in Int, NEW from \in Int, NEW to \in Int,
         Touches(m, m1, from, to), lo <= from, to <= hi
  PROVE  Touches(m, m1, lo, hi)
BY DEF Touches, IsMemory

(* What is read is a byte, wherever it is read. *)
LEMMA AtByte ==
  ASSUME NEW m, IsMemory(m), NEW a
  PROVE  At(m, a) \in Bytes
BY JunkAssumption DEF At, IsMemory

-----------------------------------------------------------------------------
(* The copies.                                                             *)

(* The order of the natural numbers is well-founded. *)
Less == {ss \in Nat \X Nat : ss[1] < ss[2]}

(* A set of natural numbers that is not empty has a least one. *)
LEMMA LeastNat ==
  ASSUME NEW T \in SUBSET Nat, T # {}
  PROVE  \E x \in T : \A y \in T : x <= y
<1>1. IsWellFoundedOn(Less, Nat) BY NatLessThanWellFounded DEF OpToRel, Less
<1>2. PICK x \in T : \A y \in T : ~(<<y, x>> \in Less) BY <1>1, WFMin
<1>3. ASSUME NEW y \in T PROVE x <= y
  <2>1. x \in Nat /\ y \in Nat OBVIOUS
  <2>2. ~(y < x) BY <1>2, <2>1 DEF Less
  <2> QED BY <2>1, <2>2
<1> QED BY <1>3

(* Where the byte for the cell at k comes from, counted from the            *)
(* destination; and whether an earlier chunk has written there.             *)
Source(s, d, k)          == s - d + k
Overlaps(s, d, k, chunk) == 0 <= Source(s, d, k) /\ Source(s, d, k) < k - (k % chunk)

(* A chunk that reads what an earlier one wrote reads from a cell before it. *)
LEMMA OverlapIsEarlier ==
  ASSUME NEW s \in Int, NEW d \in Int, NEW k \in Nat, NEW chunk \in Nat \ {0},
         Overlaps(s, d, k, chunk)
  PROVE  Source(s, d, k) \in 0..(k - 1)
<1>1. k % chunk \in Nat OBVIOUS
<1> QED BY <1>1 DEF Overlaps, Source

(* The cells that are left by the first n bytes of a copy exist. *)
Left(m, d, s, n, chunk, f) ==
  f = [a \in d..(d + n - 1) |-> IF Overlaps(s, d, a - d, chunk) THEN f[s + (a - d)]
                                ELSE At(m, s + (a - d))]

(* The recursion over the cells has a solution, whatever the overlap. *)
LEMMA LeftExists ==
  ASSUME NEW m, NEW d \in Int, NEW s \in Int, NEW chunk \in Nat \ {0}, NEW n \in Nat
  PROVE  \E f : Left(m, d, s, n, chunk, f)
<1> DEFINE T == {k \in Nat : ~ \E f : Left(m, d, s, k, chunk, f)}
<1>1. SUFFICES ASSUME T # {} PROVE FALSE OBVIOUS
<1>2. PICK x \in T : \A y \in T : x <= y BY <1>1, LeastNat
<1>3. x \in Nat /\ ~ \E f : Left(m, d, s, x, chunk, f) OBVIOUS
<1>4. x # 0
  <2>1. Left(m, d, s, 0, chunk, [a \in d..(d + 0 - 1) |-> 0]) BY DEF Left
  <2> QED BY <1>3, <2>1
<1>5. x - 1 \in Nat /\ x - 1 \notin T BY <1>2, <1>3, <1>4
<1>6. PICK f : Left(m, d, s, x - 1, chunk, f) BY <1>5
<1> HIDE DEF T
<1> DEFINE last == d + x - 1
           g == [a \in d..(d + x - 1) |->
                   IF a < last THEN f[a]
                   ELSE IF Overlaps(s, d, a - d, chunk) THEN f[s + (a - d)] ELSE At(m, s + (a - d))]
<1>7. ASSUME NEW a \in d..(d + x - 1)
      PROVE  g[a] = IF Overlaps(s, d, a - d, chunk) THEN g[s + (a - d)] ELSE At(m, s + (a - d))
  <2>1. a - d \in Nat /\ a \in Int /\ last \in Int BY <1>3
  <2>2. Overlaps(s, d, a - d, chunk) => s + (a - d) \in d..(a - 1)
    <3>1. HAVE Overlaps(s, d, a - d, chunk)
    <3>2. Source(s, d, a - d) \in 0..(a - d - 1) BY <2>1, <3>1, OverlapIsEarlier
    <3> QED BY <2>1, <3>2 DEF Source
  <2>3. Overlaps(s, d, a - d, chunk) => g[s + (a - d)] = f[s + (a - d)]
    <3>1. HAVE Overlaps(s, d, a - d, chunk)
    <3>2. s + (a - d) \in d..(d + x - 1) /\ s + (a - d) < last BY <1>3, <2>1, <2>2, <3>1
    <3> QED BY <3>2
  <2>4. CASE a < last
    <3>1. a \in d..(d + (x - 1) - 1) BY <1>3, <2>1, <2>4
    <3>2. f[a] = IF Overlaps(s, d, a - d, chunk) THEN f[s + (a - d)] ELSE At(m, s + (a - d))
      BY <1>6, <3>1 DEF Left
    <3> QED BY <2>3, <2>4, <3>2
  <2>5. CASE ~(a < last) BY <2>3, <2>5
  <2> QED BY <2>4, <2>5
<1>8. Left(m, d, s, x, chunk, g) BY <1>7 DEF Left
<1> QED BY <1>3, <1>8

(* They hold bytes. *)
LEMMA LeftBytes ==
  ASSUME NEW m, IsMemory(m), NEW d \in Int, NEW s \in Int, NEW chunk \in Nat \ {0}, NEW n \in Nat,
         NEW f, Left(m, d, s, n, chunk, f)
  PROVE  \A a \in d..(d + n - 1) : f[a] \in Bytes
<1> DEFINE T == {k \in 0..(n - 1) : f[d + k] \notin Bytes}
<1>1. T = {}
  <2>1. SUFFICES ASSUME T # {} PROVE FALSE OBVIOUS
  <2>2. T \in SUBSET Nat OBVIOUS
  <2>3. PICK x \in T : \A y \in T : x <= y BY <2>1, <2>2, LeastNat
  <2>4. x \in 0..(n - 1) /\ x \in Nat /\ f[d + x] \notin Bytes OBVIOUS
  <2>5. d + x \in d..(d + n - 1) /\ (d + x) - d = x BY <2>4
  <2>6. f[d + x] = IF Overlaps(s, d, x, chunk) THEN f[s + x] ELSE At(m, s + x)
    BY <2>5 DEF Left
  <2>7. Overlaps(s, d, x, chunk) BY <2>4, <2>6, AtByte
  <2>8. Source(s, d, x) \in 0..(x - 1) BY <2>4, <2>7, OverlapIsEarlier
  <2>9. Source(s, d, x) \notin T BY <2>3, <2>4, <2>8
  <2>10. Source(s, d, x) \in 0..(n - 1) /\ d + Source(s, d, x) = s + x
    BY <2>4, <2>8 DEF Source
  <2>11. f[s + x] \in Bytes BY <2>9, <2>10
  <2> QED BY <2>4, <2>6, <2>7, <2>11
<1>2. ASSUME NEW a \in d..(d + n - 1) PROVE f[a] \in Bytes
  <2>1. a - d \in 0..(n - 1) /\ d + (a - d) = a OBVIOUS
  <2> QED BY <1>1, <2>1
<1> QED BY <1>2

(* A copy writes as many bytes as it is told, and no others. *)
LEMMA CopyTouches ==
  ASSUME NEW m, IsMemory(m), NEW d \in Int, NEW s \in Int, NEW n \in Nat, NEW chunk \in Nat \ {0}
  PROVE  Touches(m, Copy(m, d, s, n, chunk), d, d + n)
<1> DEFINE left == CHOOSE f : f = [a \in d..(d + n - 1) |->
                     IF d <= s + (a - d) /\ s + (a - d) < a - ((a - d) % chunk)
                       THEN f[s + (a - d)] ELSE At(m, s + (a - d))]
<1>1. Copy(m, d, s, n, chunk)
        = [a \in DOMAIN m |-> IF d <= a /\ a < d + n THEN left[a] ELSE m[a]]
  BY DEF Copy
<1>2. ASSUME NEW a \in d..(d + n - 1)
      PROVE  (d <= s + (a - d) /\ s + (a - d) < a - ((a - d) % chunk))
               <=> Overlaps(s, d, a - d, chunk)
  <2>1. (a - d) % chunk \in Int /\ a \in Int
    <3>1. a - d \in Nat OBVIOUS
    <3> QED BY <3>1
  <2> QED BY <2>1 DEF Overlaps, Source
<1>3. \A f : Left(m, d, s, n, chunk, f)
             <=> f = [a \in d..(d + n - 1) |->
                        IF d <= s + (a - d) /\ s + (a - d) < a - ((a - d) % chunk)
                          THEN f[s + (a - d)] ELSE At(m, s + (a - d))]
  BY <1>2 DEF Left
<1>4. \E f : Left(m, d, s, n, chunk, f) BY LeftExists
<1>5. Left(m, d, s, n, chunk, left) BY <1>3, <1>4
<1> HIDE DEF left
<1>6. \A a \in d..(d + n - 1) : left[a] \in Bytes BY <1>5, LeftBytes
<1>7. ASSUME NEW a \in DOMAIN m
      PROVE  (IF d <= a /\ a < d + n THEN left[a] ELSE m[a]) \in Bytes
  <2>1. a \in Int /\ m[a] \in Bytes BY DEF IsMemory
  <2>2. d <= a /\ a < d + n => a \in d..(d + n - 1) BY <2>1
  <2> QED BY <1>6, <2>1, <2>2
<1> QED BY <1>1, <1>7 DEF Touches

(* memcpy, memmove and the loops over bytes write nothing else. *)
LEMMA ChunkTouches ==
  ASSUME NEW m, IsMemory(m), NEW d \in Int, NEW s \in Int, NEW n \in Int,
         NEW hi \in Int, d <= hi, d + n <= hi
  PROVE  Touches(m, Chunk(m, d, s, n), d, hi) /\ Touches(m, ByteCopy(m, d, s, n), d, hi)
<1>1. CASE n <= 0
  <2>1. Chunk(m, d, s, n) = m /\ ByteCopy(m, d, s, n) = m BY <1>1 DEF Chunk, ByteCopy
  <2> QED BY <2>1 DEF Touches, IsMemory
<1>2. CASE ~(n <= 0)
  <2>1. n \in Nat /\ n \in Nat \ {0} /\ 1 \in Nat \ {0} BY <1>2
  <2>2. /\ Touches(m, Copy(m, d, s, n, n), d, d + n)
        /\ Touches(m, Copy(m, d, s, n, 1), d, d + n)
    BY <2>1, CopyTouches
  <2>3. d + n \in Int /\ d <= d OBVIOUS
  <2>4. /\ Chunk(m, d, s, n) = Copy(m, d, s, n, n)
        /\ ByteCopy(m, d, s, n) = Copy(m, d, s, n, 1)
    BY <1>2 DEF Chunk, ByteCopy
  <2> QED BY <2>2, <2>3, <2>4, TouchesMore
<1> QED BY <1>1, <1>2

(* Stripes go on past the end by less than one of them. *)
Stripes == {1, 2, 8, 32, 64}

(* Where the stripes end. *)
LEMMA StripesEndIs ==
  ASSUME NEW d \in Int, NEW e \in Int, NEW stripe \in Stripes
  PROVE  /\ StripesEnd(d, e, stripe) \in Int
         /\ StripesEnd(d, e, stripe) >= d + stripe
         /\ e <= d => StripesEnd(d, e, stripe) = d + stripe
         /\ e > d => e <= StripesEnd(d, e, stripe) /\ StripesEnd(d, e, stripe) < e + stripe
<1>1. CASE e <= d BY <1>1 DEF StripesEnd, Stripes
<1>2. CASE e > d
  <2> DEFINE n == e - d
  <2>1. n \in Nat /\ n > 0 BY <1>2
  <2>2. StripesEnd(d, e, stripe) = d + stripe * ((n + stripe - 1) \div stripe)
    BY <1>2 DEF StripesEnd, Stripes
  <2> HIDE DEF n
  <2>3. LET x == stripe * ((n + stripe - 1) \div stripe)
        IN x \in Int /\ x >= stripe /\ n <= x /\ x < n + stripe
    <3>1. CASE stripe = 1 BY <2>1, <3>1
    <3>2. CASE stripe = 2 BY <2>1, <3>2
    <3>3. CASE stripe = 8 BY <2>1, <3>3
    <3>4. CASE stripe = 32 BY <2>1, <3>4
    <3>5. CASE stripe = 64 BY <2>1, <3>5
    <3> QED BY <3>1, <3>2, <3>3, <3>4, <3>5 DEF Stripes
  <2> QED BY <1>2, <2>2, <2>3 DEF n, Stripes
<1> QED BY <1>1, <1>2

(* A wild copy stays below any bound a stripe less one above what is asked. *)
LEMMA WildCopyTouches ==
  ASSUME NEW m, IsMemory(m), NEW d \in Int, NEW s \in Int, NEW e \in Int,
         NEW stripe \in Stripes, NEW chunk \in Nat \ {0},
         NEW hi \in Int, d + stripe <= hi, e + stripe - 1 <= hi
  PROVE  Touches(m, WildCopy(m, d, s, e, stripe, chunk), d, hi)
<1> DEFINE end == StripesEnd(d, e, stripe)
<1>1. stripe \in Nat \ {0} BY DEF Stripes
<1>2. end \in Int /\ end >= d + stripe /\ end <= hi
  <2>1. /\ end \in Int /\ end >= d + stripe
        /\ e <= d => end = d + stripe
        /\ e > d => end < e + stripe
    BY StripesEndIs
  <2> HIDE DEF end
  <2> QED BY <1>1, <2>1
<1> HIDE DEF end
<1>3. end - d \in Nat /\ d + (end - d) = end BY <1>1, <1>2
<1>4. Touches(m, Copy(m, d, s, end - d, chunk), d, end) BY <1>3, CopyTouches
<1>5. Touches(m, Copy(m, d, s, end - d, chunk), d, hi) BY <1>2, <1>4, TouchesMore
<1> QED BY <1>5 DEF WildCopy, end

(* wildCopy8, and the copies of the long stripes. *)
LEMMA WildCopy8Touches ==
  ASSUME NEW m, IsMemory(m), NEW d \in Int, NEW s \in Int, NEW e \in Int,
         NEW hi \in Int, d + 8 <= hi, e + 7 <= hi
  PROVE  Touches(m, WildCopy8(m, d, s, e), d, hi)
<1>1. 8 \in Stripes /\ 8 \in Nat \ {0} /\ e + 8 - 1 = e + 7 BY DEF Stripes
<1> QED BY <1>1, WildCopyTouches DEF WildCopy8

(* The stripes of 32 and of 64 bytes. *)
LEMMA StripeCopyTouches ==
  ASSUME NEW m, IsMemory(m), NEW d \in Int, NEW s \in Int, NEW e \in Int,
         NEW stripe \in {32, 64}, NEW hi \in Int, d + stripe <= hi, e + stripe - 1 <= hi
  PROVE  Touches(m, StripeCopy(m, d, s, e, stripe), d, hi)
<1> DEFINE chunk == IF stripe = 64 THEN 64 ELSE 16
<1>1. stripe \in Stripes /\ chunk \in Nat \ {0} BY DEF Stripes
<1> HIDE DEF chunk
<1>2. Touches(m, WildCopy(m, d, s, e, stripe, chunk), d, hi) BY <1>1, WildCopyTouches
<1> QED BY <1>2 DEF StripeCopy, chunk

(* The two tables are numbers. *)
LEMMA Source8Int ==
  ASSUME NEW s \in Int, NEW distance \in Nat
  PROVE  /\ Source8(s, distance) \in Int
         /\ distance < 8 => s + inc32table[distance + 1] \in Int
<1>1. CASE distance >= 8 BY <1>1 DEF Source8
<1>2. CASE distance < 8
  <2>1. distance \in {0, 1, 2, 3, 4, 5, 6, 7} BY <1>2
  <2>2. inc32table[distance + 1] \in Int /\ dec64table[distance + 1] \in Int
    BY <2>1 DEF inc32table, dec64table
  <2> QED BY <1>2, <2>2 DEF Source8
<1> QED BY <1>1, <1>2

(* The start of a match is eight bytes. *)
LEMMA StartMatchTouches ==
  ASSUME NEW m, IsMemory(m), NEW d \in Int, NEW s \in Int, NEW distance \in Nat,
         NEW unit \in {1, 2}
  PROVE  Touches(m, StartMatch(m, d, s, distance, unit), d, d + 8)
<1>1. CASE distance >= 8
  <2>1. Touches(m, Chunk(m, d, s, 8), d, d + 8) BY ChunkTouches
  <2> QED BY <1>1, <2>1 DEF StartMatch
<1>2. CASE distance < 8
  <2> DEFINE zeroed == [a \in DOMAIN m |-> IF d <= a /\ a < d + 4 THEN 0 ELSE m[a]]
             four   == WildCopy(zeroed, d, s, d + 4, unit, unit)
             i      == s + inc32table[distance + 1]
  <2>1. Touches(m, zeroed, d, d + 4) BY DEF Touches, IsMemory, Bytes
  <2>2. IsMemory(zeroed) BY DEF IsMemory, Bytes
  <2>3. unit \in Stripes /\ unit \in Nat \ {0} BY DEF Stripes
  <2> HIDE DEF zeroed
  <2>4. Touches(zeroed, four, d, d + 8) BY <2>2, <2>3, WildCopyTouches
  <2>5. Touches(m, four, d, d + 8) /\ IsMemory(four) BY <2>1, <2>4, TouchesTwice
  <2>6. i \in Int BY <1>2, Source8Int
  <2> HIDE DEF four, i
  <2>7. Touches(four, Chunk(four, d + 4, i, 4), d + 4, d + 8)
    <3>1. d + 4 \in Int /\ d + 8 \in Int /\ (d + 4) + 4 <= d + 8 /\ d + 4 <= d + 8 OBVIOUS
    <3> QED BY <2>5, <2>6, <3>1, ChunkTouches
  <2>8. Touches(m, Chunk(four, d + 4, i, 4), d, d + 8)
    <3>1. d <= d + 4 /\ d + 8 <= d + 8 OBVIOUS
    <3> QED BY <2>5, <2>7, <3>1, TouchesTwice
  <2> QED BY <1>2, <2>8 DEF StartMatch, four, zeroed, i
<1> QED BY <1>1, <1>2

(* memcpy_using_offset writes sixteen bytes at least. *)
LEMMA UsingOffsetTouches ==
  ASSUME NEW m, IsMemory(m), NEW d \in Int, NEW s \in Int, NEW e \in Int, NEW distance \in Nat,
         NEW hi \in Int, d + 16 <= hi, e + 7 <= hi
  PROVE  Touches(m, CopyUsingOffset(m, d, s, e, distance), d, hi)
<1>1. CASE distance \in {1, 2, 4}
  <2> DEFINE end == StripesEnd(d, e, 8)
             m2  == [a \in DOMAIN m |->
                       IF d <= a /\ a < end THEN At(m, s + ((a - d) % distance)) ELSE m[a]]
  <2>1. 8 \in Stripes BY DEF Stripes
  <2>2. end \in Int /\ end <= hi BY <2>1, StripesEndIs
  <2> HIDE DEF end
  <2>3. \A a \in DOMAIN m : At(m, s + ((a - d) % distance)) \in Bytes BY AtByte
  <2>4. Touches(m, m2, d, hi) BY <2>2, <2>3 DEF Touches, IsMemory
  <2> QED BY <1>1, <2>4 DEF CopyUsingOffset, end
<1>2. CASE distance \notin {1, 2, 4}
  <2> DEFINE started == StartMatch(m, d, s, distance, 2)
             i       == Source8(s, distance)
  <2>1. Touches(m, started, d, d + 8) BY StartMatchTouches
  <2>2. i \in Int BY Source8Int
  <2>3. IsMemory(started) BY <2>1 DEF Touches, IsMemory
  <2> HIDE DEF started, i
  <2>4. Touches(started, WildCopy8(started, d + 8, i, e), d + 8, hi)
    BY <2>2, <2>3, WildCopy8Touches
  <2>5. Touches(m, WildCopy8(started, d + 8, i, e), d, hi)
    <3>1. d <= d + 8 /\ d + 8 <= hi /\ d + 8 \in Int OBVIOUS
    <3> QED BY <2>1, <2>4, <3>1, TouchesTwice
  <2> QED BY <1>2, <2>5 DEF CopyUsingOffset, started, i
<1> QED BY <1>1, <1>2

(* The eighteen bytes of a short match. *)
LEMMA Copy18Touches ==
  ASSUME NEW m, IsMemory(m), NEW d \in Int, NEW s \in Int, NEW hi \in Int, d + 18 <= hi
  PROVE  Touches(m, Copy18(m, d, s), d, hi)
<1> DEFINE m1 == Chunk(m, d, s, 8)
           m2 == Chunk(m1, d + 8, s + 8, 8)
<1>1. Touches(m, m1, d, hi) BY ChunkTouches
<1>2. IsMemory(m1) BY <1>1 DEF Touches, IsMemory
<1> HIDE DEF m1
<1>3. Touches(m1, m2, d + 8, hi) BY <1>2, ChunkTouches
<1>4. Touches(m, m2, d, hi) /\ IsMemory(m2)
  <2>1. d <= d + 8 /\ hi <= hi /\ d + 8 \in Int OBVIOUS
  <2> QED BY <1>1, <1>3, <2>1, TouchesTwice
<1> HIDE DEF m2
<1>5. Touches(m2, Chunk(m2, d + 16, s + 16, 2), d + 16, hi) BY <1>4, ChunkTouches
<1>6. Touches(m, Chunk(m2, d + 16, s + 16, 2), d, hi)
  <2>1. d <= d + 16 /\ hi <= hi /\ d + 16 \in Int OBVIOUS
  <2> QED BY <1>4, <1>5, <2>1, TouchesTwice
<1> QED BY <1>6 DEF Copy18, m1, m2

-----------------------------------------------------------------------------
(* Reading.                                                                *)

(* The greater of two numbers. *)
LEMMA Greater ==
  ASSUME NEW a \in Int, NEW b \in Int
  PROVE  Max({a, b}) = IF a >= b THEN a ELSE b
BY DEF Max

(* The smaller of two numbers. *)
LEMMA Smaller ==
  ASSUME NEW a \in Int, NEW b \in Int
  PROVE  Min({a, b}) = IF a <= b THEN a ELSE b
BY DEF Min

(* The smallest of three is one of them and no more than any. *)
LEMMA Smallest ==
  ASSUME NEW a \in Int, NEW b \in Int, NEW c \in Int
  PROVE  /\ Min({a, b, c}) \in {a, b, c}
         /\ Min({a, b, c}) <= a /\ Min({a, b, c}) <= b /\ Min({a, b, c}) <= c
<1>1. \E x \in {a, b, c} : \A y \in {a, b, c} : x =< y
  <2>1. CASE a <= b /\ a <= c BY <2>1
  <2>2. CASE b <= a /\ b <= c BY <2>2
  <2>3. CASE c <= a /\ c <= b BY <2>3
  <2> QED BY <2>1, <2>2, <2>3
<1> QED BY <1>1 DEF Min

(* The two numbers of a token have four bits, an offset is no number below 0.*)
LEMMA Fields ==
  ASSUME NEW m, IsMemory(m), NEW a, NEW t \in Bytes
  PROVE  /\ LiteralBits(t) \in 0..15 /\ MatchBits(t) \in 0..15
         /\ ReadLE16(m, a) \in Nat
<1>1. At(m, a) \in Nat /\ At(m, a + 1) \in Nat BY AtByte DEF Bytes
<1>2. ReadLE16(m, a) \in Nat
  <2>1. \A x, y \in Nat : x + 256 * y \in Nat OBVIOUS
  <2> QED BY <1>1, <2>1 DEF ReadLE16
<1>3. t \in 0..255 BY DEF Bytes
<1> QED BY <1>2, <1>3 DEF LiteralBits, MatchBits, ML_MASK

(* read_variable_length stops before the limit. *)
LEMMA MoreLengthIs ==
  ASSUME IsMemory(mem), NEW i \in Int, NEW limit \in Int, NEW r \in MoreLength(i, limit)
  PROVE  r.adds \in Nat /\ r.next \in Int /\ i < r.next /\ r.next <= limit
<1> DEFINE Last(k) == At(mem, k) # 255 /\ \A j \in i..(k - 1) : At(mem, j) = 255
           last    == CHOOSE k \in i..(limit - 1) : Last(k)
<1>1. /\ \E k \in i..(limit - 1) : Last(k)
      /\ r = [adds |-> 255 * (last - i) + At(mem, last), next |-> last + 1]
  BY DEF MoreLength
<1>2. last \in i..(limit - 1) BY <1>1
<1> HIDE DEF last
<1>3. At(mem, last) \in Nat BY AtByte DEF Bytes
<1> QED BY <1>1, <1>2, <1>3

-----------------------------------------------------------------------------
(* The margins: how far the output and the input are from their ends at     *)
(* each label of the code, whatever the input says.                         *)

IsCall(c) ==
  /\ c.src \in Int /\ c.size \in Nat /\ c.dst \in Int /\ c.cap \in Int
  /\ c.partial \in BOOLEAN /\ c.build \in Builds
  /\ c.prefix \in Int /\ c.dictEnd \in Int /\ c.dictSize \in Int

Numbers == /\ ip \in Int /\ op \in Int /\ reach \in Int /\ rc \in Int
           /\ token \in Bytes /\ length \in Nat /\ offset \in Nat

AtSequence == {"fast", "safe"}
Running    == {"fast", "safe", "literal_length", "literals", "fast_match_length", "match_length",
               "fast_match", "match"}

(* What is left of the input: a byte at least where a token or an offset    *)
(* was promised.                                                            *)
InputLeft == /\ reach <= iend
             /\ pc \in {"literal_length", "literals"} => ip <= iend
             /\ pc \in Running \ {"literal_length", "literals"} => ip < iend

(* What is left of the output.  Where the caller asked for a part only, the *)
(* last sequences come as close to its end as they may.                     *)
RoomLeft ==
  /\ call.dst <= op
  /\ pc \in Running => op <= oend
  /\ pc = "fast" => op <= oend - FASTLOOP_SAFE_DISTANCE
  /\ pc = "fast_match_length" => op <= oend - 32
  /\ pc = "fast_match" => op + length < oend - FASTLOOP_SAFE_DISTANCE
  /\ pc \in {"match_length", "match"} /\ ~call.partial => op <= oend - MFLIMIT
  /\ pc \in {"fast_match", "match"} => length >= MINMATCH

Margins == /\ pc \in {"idle", "start", "done"} \cup Running
           /\ pc # "idle" => IsCall(call) /\ InputLeft /\ RoomLeft
           /\ pc = "start" => ip = call.src /\ op = call.dst

DecInv == IsMemory(mem) /\ Numbers /\ Margins

(* What a step leaves: a memory that differs inside the output only. *)
Kept == call' = call /\ Touches(mem, mem', call.dst, oend)

(* The ends are numbers, and a step that keeps the call keeps them. *)
LEMMA Ends ==
  ASSUME DecInv, pc # "idle"
  PROVE  /\ iend \in Int /\ oend \in Int /\ lowPrefix \in Int /\ match \in Int /\ cpy \in Int
         /\ call.src <= iend /\ IsCall(call) /\ oend = call.dst + call.cap
         /\ call' = call => iend' = iend /\ oend' = oend
         /\ call.build.stripe \in {32, 64}
BY DEF DecInv, Margins, Numbers, IsCall, iend, oend, lowPrefix, match, cpy, Builds

(* A step that writes nothing keeps the memory. *)
LEMMA NothingTouched ==
  ASSUME IsMemory(mem), UNCHANGED <<mem, call>>
  PROVE  Kept
BY DEF Kept, Touches, IsMemory

(* Reading as far as the input goes leaves the mark within it. *)
LEMMA Reads ==
  ASSUME DecInv, pc # "idle", NEW end \in Int, ReadsUpTo(end), end <= iend
  PROVE  reach' \in Int /\ reach' <= iend
<1>1. reach \in Int /\ reach <= iend /\ iend \in Int
  BY Ends DEF DecInv, Numbers, Margins, InputLeft
<1> QED BY <1>1, Greater DEF ReadsUpTo

(* After the literals: the offset of the match. *)
LEMMA OffsetRead ==
  ASSUME DecInv, pc # "idle", NEW i \in Int, NEW end \in Int, NEW next, GetOffset(i, end, next),
         IsMemory(mem'), token' \in Bytes, i + 2 <= iend, end <= iend
  PROVE  /\ offset' \in Nat /\ ip' = i + 2 /\ length' \in 0..15 /\ pc' = next
         /\ reach' \in Int /\ reach' <= iend
<1>1. offset' \in Nat /\ length' \in 0..15 BY Fields DEF GetOffset
<1>2. Max({i + 2, end}) \in Int /\ Max({i + 2, end}) <= iend BY Greater
<1>3. reach' \in Int /\ reach' <= iend BY <1>2, Reads DEF GetOffset
<1> QED BY <1>1, <1>3 DEF GetOffset

(* A step that leaves enough of both keeps the invariant. *)
LEMMA EnoughLeft ==
  ASSUME DecInv, pc # "idle", Kept, Numbers', reach' <= iend, call.dst <= op',
         pc' \in {"done"} \cup Running,
         pc' \in {"literal_length", "literals"} => ip' <= iend,
         pc' \in Running \ {"literal_length", "literals"} => ip' < iend,
         pc' \in Running => op' <= oend,
         pc' = "fast" => op' <= oend - 64,
         pc' = "fast_match_length" => op' <= oend - 32,
         pc' = "fast_match" => op' + length' < oend - 64,
         pc' \in {"match_length", "match"} /\ ~call.partial => op' <= oend - 12,
         pc' \in {"fast_match", "match"} => length' >= 4
  PROVE  DecInv'
<1>1. iend' = iend /\ oend' = oend /\ call' = call /\ IsCall(call) BY Ends DEF Kept
<1>2. IsMemory(mem)' BY DEF Kept, Touches, IsMemory, DecInv
<1>3. InputLeft' BY <1>1 DEF InputLeft
<1>4. RoomLeft' BY <1>1 DEF RoomLeft, FASTLOOP_SAFE_DISTANCE, MFLIMIT, MINMATCH
<1>5. Margins' BY <1>1, <1>3, <1>4 DEF Margins, Running
<1> QED BY <1>2, <1>5 DEF DecInv

(* What the invariant says, in numbers. *)
LEMMA WhatIsLeft ==
  ASSUME DecInv, pc # "idle"
  PROVE  /\ ip \in Int /\ op \in Int /\ reach \in Int /\ rc \in Int
         /\ token \in Bytes /\ length \in Nat /\ offset \in Nat
         /\ IsMemory(mem)
         /\ call.dst \in Int /\ call.partial \in BOOLEAN
         /\ iend \in Int /\ oend \in Int
         /\ call.build.stripe \in {32, 64}
         /\ reach <= iend /\ call.dst <= op
         /\ pc \in {"literal_length", "literals"} => ip <= iend
         /\ pc \in {"fast", "safe", "fast_match_length", "match_length", "fast_match", "match"}
              => ip < iend
         /\ pc \in Running => op <= oend
         /\ pc = "fast" => op <= oend - 64
         /\ pc = "fast_match_length" => op <= oend - 32
         /\ pc = "fast_match" => op + length < oend - 64
         /\ pc \in {"match_length", "match"} /\ ~call.partial => op <= oend - 12
         /\ pc \in {"fast_match", "match"} => length >= 4
         /\ lowPrefix \in Int /\ match = op - offset /\ cpy = op + length
         /\ call.dictEnd \in Int
<1>1. InputLeft /\ RoomLeft /\ Numbers /\ IsMemory(mem) BY DEF DecInv, Margins
<1>2. /\ iend \in Int /\ oend \in Int /\ lowPrefix \in Int /\ IsCall(call)
      /\ call.build.stripe \in {32, 64}
  BY Ends
<1>3. /\ lowPrefix \in Int /\ match = op - offset /\ cpy = op + length BY <1>2 DEF match, cpy
<1> QED
  BY <1>1, <1>2, <1>3
  DEF InputLeft, RoomLeft, Numbers, IsCall, Running, FASTLOOP_SAFE_DISTANCE, MFLIMIT, MINMATCH

(* A refusal leaves the memory and the cursor. *)
LEMMA FailKeeps ==
  ASSUME DecInv, pc # "idle", Fail
  PROVE  Kept /\ DecInv'
<1>1. Kept BY NothingTouched DEF Fail, DecInv
<1>2. Numbers' BY DEF Fail, cursor, DecInv, Numbers
<1> QED BY <1>1, <1>2, EnoughLeft, WhatIsLeft DEF Fail, cursor, Running

(* The first step. *)
LEMMA BeginKeeps ==
  ASSUME DecInv, Refuse \/ Begin
  PROVE  Kept /\ DecInv'
<1>1. pc = "start" /\ UNCHANGED <<mem, call, cursor, reach>> BY DEF Refuse, Begin
<1>2. Kept BY <1>1, NothingTouched DEF DecInv
<1>3. ip = call.src /\ op = call.dst BY <1>1 DEF DecInv, Margins
<1>4. /\ call.src \in Int /\ call.size \in Nat /\ call.cap \in Int /\ call.dst \in Int
      /\ iend = call.src + call.size /\ oend = call.dst + call.cap
  BY <1>1, Ends DEF IsCall, iend
<1>5. CASE Refuse
  <2>1. Numbers' BY <1>1, <1>5, WhatIsLeft DEF Refuse, cursor, Numbers
  <2> QED BY <1>1, <1>2, <1>5, <2>1, EnoughLeft, WhatIsLeft DEF Refuse, cursor, Running
<1>6. CASE Begin
  <2>1. Numbers' BY <1>1, <1>6, WhatIsLeft DEF Begin, cursor, Numbers
  <2>2. /\ pc' \in {"fast", "safe"} /\ call.size > 0 /\ call.cap > 0
        /\ pc' = "fast" => call.cap >= FASTLOOP_SAFE_DISTANCE
    BY <1>6 DEF Begin
  <2>3. ip \in Int /\ op \in Int /\ iend \in Int /\ oend \in Int BY <1>1, WhatIsLeft
  <2>4. ip < iend /\ op <= oend BY <1>3, <1>4, <2>2
  <2>5. pc' = "fast" => op <= oend - 64
    BY <1>3, <1>4, <2>2 DEF FASTLOOP_SAFE_DISTANCE
  <2> QED BY <1>1, <1>2, <2>1, <2>2, <2>4, <2>5, EnoughLeft, WhatIsLeft DEF cursor, Running
<1> QED BY <1>5, <1>6

-----------------------------------------------------------------------------
(* The fast loop.                                                          *)

(* A token that is read the slow way: the byte of it is there. *)
LEMMA FastNearEndKeeps ==
  ASSUME DecInv, FastNearEnd \/ SafeToken
  PROVE  Kept /\ DecInv'
<1>1. /\ pc \in {"fast", "safe"} /\ pc' = "literal_length"
      /\ token' = At(mem, ip) /\ length' = LiteralBits(token') /\ ip' = ip + 1 /\ ReadsUpTo(ip + 1)
      /\ UNCHANGED <<mem, call, op, offset, rc>>
  BY DEF FastNearEnd, SafeToken
<1>2. Kept BY <1>1, NothingTouched DEF DecInv
<1>3. ip < iend /\ ip \in Int /\ iend \in Int /\ op <= oend BY <1>1, WhatIsLeft DEF Running
<1>4. reach' \in Int /\ reach' <= iend BY <1>1, <1>3, Reads
<1>5. token' \in Bytes /\ length' \in Nat
  BY <1>1, AtByte, Fields DEF DecInv
<1>6. Numbers' BY <1>1, <1>4, <1>5, WhatIsLeft DEF Numbers
<1> QED BY <1>1, <1>2, <1>3, <1>4, <1>6, EnoughLeft, WhatIsLeft DEF Running

(* Sixteen bytes are copied for a run of up to fourteen literals. *)
LEMMA FastShortRunKeeps ==
  ASSUME DecInv, FastShortRun
  PROVE  Kept /\ DecInv'
<1> DEFINE run == LiteralBits(token')
<1>1. /\ pc = "fast" /\ ip + 1 <= iend - 17 /\ run # 15
      /\ token' = At(mem, ip) /\ UNCHANGED <<call, rc>>
      /\ mem' = Chunk(mem, op, ip + 1, 16) /\ op' = op + run
      /\ GetOffset(ip + 1 + run, ip + 1 + 16, "fast_match_length")
  BY DEF FastShortRun, FarFromEnd, LongRun, RUN_MASK
<1>2. token' \in Bytes /\ run \in 0..15 BY <1>1, AtByte, Fields DEF DecInv
<1> HIDE DEF run
<1>3. run \in 0..14 BY <1>1, <1>2
<1>4. /\ ip \in Int /\ op \in Int /\ iend \in Int /\ oend \in Int /\ op <= oend - 64 /\ IsMemory(mem)
      /\ call.dst \in Int /\ call.dst <= op /\ rc \in Int
  BY <1>1, WhatIsLeft
<1>5. Touches(mem, mem', op, op + 16) BY <1>1, <1>4, ChunkTouches
<1>6. Touches(mem, mem', call.dst, oend) BY <1>4, <1>5, TouchesMore
<1>7. Kept /\ IsMemory(mem') BY <1>1, <1>4, <1>6 DEF Kept, Touches, IsMemory
<1>8. /\ offset' \in Nat /\ ip' = ip + 1 + run + 2 /\ length' \in 0..15
      /\ pc' = "fast_match_length" /\ reach' \in Int /\ reach' <= iend
  <2>1. /\ ip + 1 + run \in Int /\ ip + 1 + 16 \in Int
        /\ (ip + 1 + run) + 2 <= iend /\ ip + 1 + 16 <= iend
    BY <1>1, <1>3, <1>4
  <2> QED BY <1>1, <1>2, <1>7, <2>1, OffsetRead
<1>9. Numbers' BY <1>1, <1>2, <1>3, <1>4, <1>8 DEF Numbers
<1>10. ip' < iend /\ op' <= oend - 32 /\ call.dst <= op' BY <1>1, <1>3, <1>4, <1>8
<1> QED BY <1>1, <1>4, <1>7, <1>8, <1>9, <1>10, EnoughLeft DEF Running

(* A long run of literals is copied in stripes where they have room.        *)
LEMMA FastLongRunKeeps ==
  ASSUME DecInv, FastLongRun
  PROVE  Kept /\ DecInv'
<1> DEFINE stripe == call.build.stripe
<1>1. PICK r \in LiteralLengths(ip + 1) :
        IF op + (15 + r.adds) > oend - stripe \/ r.next + (15 + r.adds) > iend - stripe
          THEN /\ length' = 15 + r.adds /\ ip' = r.next /\ ReadsUpTo(r.next)
               /\ pc' = "literals" /\ UNCHANGED <<mem, op, offset>>
          ELSE /\ mem' = StripeCopy(mem, op, r.next, op + (15 + r.adds), stripe)
               /\ op' = op + (15 + r.adds)
               /\ GetOffset(r.next + (15 + r.adds),
                            StripesEnd(r.next, r.next + (15 + r.adds), stripe), "fast_match_length")
  BY DEF FastLongRun, RUN_MASK
<1>2. pc = "fast" /\ token' = At(mem, ip) /\ UNCHANGED <<call, rc>> BY DEF FastLongRun
<1>3. /\ ip \in Int /\ op \in Int /\ iend \in Int /\ oend \in Int /\ op <= oend - 64
      /\ IsMemory(mem) /\ call.dst \in Int /\ call.dst <= op /\ rc \in Int
      /\ stripe \in {32, 64} /\ offset \in Nat
  BY <1>2, WhatIsLeft
<1>4. token' \in Bytes BY <1>2, <1>3, AtByte
<1>5. r.adds \in Nat /\ r.next \in Int /\ r.next <= iend - 15
  BY <1>3, MoreLengthIs DEF LiteralLengths, RUN_MASK
<1> DEFINE n == 15 + r.adds   from == r.next
<1>6. n \in Nat /\ from \in Int /\ from <= iend - 15 BY <1>5
<1> HIDE DEF n, from, stripe
<1>7. CASE op + n > oend - stripe \/ from + n > iend - stripe
  <2>1. /\ length' = n /\ ip' = from /\ ReadsUpTo(from)
        /\ pc' = "literals" /\ UNCHANGED <<mem, op, offset>>
    BY <1>1, <1>7 DEF n, from
  <2>2. Kept BY <1>2, <1>3, <2>1, NothingTouched
  <2>3. reach' \in Int /\ reach' <= iend /\ ip' <= iend BY <1>2, <1>3, <1>6, <2>1, Reads
  <2>4. Numbers' BY <1>2, <1>3, <1>4, <1>6, <2>1, <2>3 DEF Numbers
  <2>5. op' <= oend /\ call.dst <= op' BY <1>3, <2>1
  <2> QED BY <1>2, <2>1, <2>2, <2>3, <2>4, <2>5, EnoughLeft DEF Running
<1>8. CASE ~(op + n > oend - stripe \/ from + n > iend - stripe)
  <2> DEFINE end == StripesEnd(from, from + n, stripe)
  <2>1. /\ mem' = StripeCopy(mem, op, from, op + n, stripe) /\ op' = op + n
        /\ GetOffset(from + n, end, "fast_match_length")
    BY <1>1, <1>8 DEF n, from
  <2>2. op + n <= oend - stripe /\ from + n <= iend - stripe BY <1>3, <1>6, <1>8
  <2>3. Touches(mem, mem', op, oend)
    <3>1. op + n \in Int /\ op + stripe <= oend /\ (op + n) + stripe - 1 <= oend
      BY <1>3, <1>6, <2>2
    <3> QED BY <1>3, <1>6, <2>1, <3>1, StripeCopyTouches
  <2>4. Kept /\ IsMemory(mem') BY <1>2, <1>3, <2>3, TouchesMore DEF Kept, Touches, IsMemory
  <2>5. end \in Int /\ end <= iend /\ from + n \in Int /\ (from + n) + 2 <= iend
    <3>1. stripe \in Stripes BY <1>3 DEF Stripes
    <3>2. /\ end \in Int
          /\ from + n <= from => end = from + stripe
          /\ from + n > from => end < (from + n) + stripe
      BY <1>6, <3>1, StripesEndIs
    <3> HIDE DEF end
    <3> QED BY <1>3, <1>6, <2>2, <3>2
  <2> HIDE DEF end
  <2>6. /\ offset' \in Nat /\ ip' = (from + n) + 2 /\ length' \in 0..15
        /\ pc' = "fast_match_length" /\ reach' \in Int /\ reach' <= iend
    BY <1>2, <1>4, <2>1, <2>4, <2>5, OffsetRead
  <2>7. Numbers' BY <1>2, <1>3, <1>4, <1>6, <2>1, <2>6 DEF Numbers
  <2>8. ip' < iend /\ op' <= oend - 32 /\ op' <= oend /\ call.dst <= op'
    BY <1>3, <1>6, <2>1, <2>2, <2>6
  <2> QED BY <1>2, <2>4, <2>6, <2>7, <2>8, EnoughLeft DEF Running
<1> QED BY <1>7, <1>8

-----------------------------------------------------------------------------
(* The length of the match.                                                *)

(* The length of the match decides which loop copies it. *)
LEMMA SetLengthKeeps ==
  ASSUME DecInv, AtMatchLength, NEW n \in Nat, n >= 4, NEW i \in Int, i < iend, SetLength(n, i)
  PROVE  Kept /\ DecInv'
<1>1. /\ length' = n /\ ip' = i /\ ReadsUpTo(i) /\ UNCHANGED <<mem, call, op, token, offset, rc>>
      /\ pc' = IF pc = "fast_match_length" /\ op + n < oend - FASTLOOP_SAFE_DISTANCE
                  THEN "fast_match" ELSE "match"
  BY DEF SetLength
<1>2. pc \in {"match_length", "fast_match_length"} BY DEF AtMatchLength
<1>3. /\ op \in Int /\ iend \in Int /\ oend \in Int /\ op <= oend /\ call.dst <= op
      /\ call.partial \in BOOLEAN
      /\ ~call.partial => op <= oend - 12
      /\ IsMemory(mem)
  BY <1>2, WhatIsLeft DEF Running
<1>4. Kept BY <1>1, <1>3, NothingTouched
<1>5. reach' \in Int /\ reach' <= iend BY <1>1, <1>2, <1>3, Reads
<1>6. Numbers' BY <1>1, <1>2, <1>5, WhatIsLeft DEF Numbers
<1>7. pc' = "fast_match" => op' + length' < oend - 64
  BY <1>1, <1>3 DEF FASTLOOP_SAFE_DISTANCE
<1> QED BY <1>1, <1>2, <1>3, <1>4, <1>5, <1>6, <1>7, EnoughLeft DEF Running

(* A length in the token, and one that goes on behind it. *)
LEMMA MatchLengthKeeps ==
  ASSUME DecInv, MatchLength \/ LongMatchLength
  PROVE  Kept /\ DecInv'
<1>1. AtMatchLength BY DEF MatchLength, LongMatchLength
<1>2. ip \in Int /\ iend \in Int /\ ip < iend /\ length \in Nat /\ IsMemory(mem)
  BY <1>1, WhatIsLeft DEF AtMatchLength
<1>3. CASE MatchLength
  <2>1. SetLength(length + 4, ip) BY <1>3 DEF MatchLength, MINMATCH
  <2>2. length + 4 \in Nat /\ length + 4 >= 4 BY <1>2
  <2> QED BY <1>1, <1>2, <2>1, <2>2, SetLengthKeeps
<1>4. CASE LongMatchLength
  <2>1. PICK r \in MatchLengths(ip) : SetLength(length + r.adds + 4, r.next)
    BY <1>4 DEF LongMatchLength, MINMATCH
  <2>2. r.adds \in Nat /\ r.next \in Int /\ r.next <= iend - 6
    BY <1>2, MoreLengthIs DEF MatchLengths, LASTLITERALS
  <2>3. length + r.adds + 4 \in Nat /\ length + r.adds + 4 >= 4 /\ r.next < iend BY <1>2, <2>2
  <2> QED BY <1>1, <2>1, <2>2, <2>3, SetLengthKeeps
<1> QED BY <1>3, <1>4

-----------------------------------------------------------------------------
(* Copying the match.                                                      *)

(* A match that is copied inside the output leads back to a token.          *)
LEMMA CopiedKeeps ==
  ASSUME DecInv, AtMatch, NEW m, NEW end \in Int, Touches(mem, m, op, oend),
         op <= end, end <= oend, pc = "fast_match" => end <= oend - 64, Copied(m, end)
  PROVE  Kept /\ DecInv'
<1>1. /\ mem' = m /\ op' = end /\ pc' = IF pc = "fast_match" THEN "fast" ELSE "safe"
      /\ UNCHANGED <<call, ip, token, length, offset, reach, rc>>
  BY DEF Copied, NextLoop
<1>2. pc \in {"match", "fast_match"} BY DEF AtMatch
<1>3. /\ op \in Int /\ oend \in Int /\ call.dst \in Int /\ call.dst <= op /\ ip < iend
      /\ IsMemory(mem) /\ reach <= iend
  BY <1>2, WhatIsLeft
<1>4. Kept BY <1>1, <1>3, TouchesMore DEF Kept
<1>5. Numbers' BY <1>1, <1>2, WhatIsLeft DEF Numbers
<1>6. call.dst <= op' BY <1>1, <1>3
<1> QED BY <1>1, <1>2, <1>3, <1>4, <1>5, <1>6, EnoughLeft DEF Running

(* What is known where a match is copied. *)
LEMMA AtMatchIs ==
  ASSUME DecInv, AtMatch
  PROVE  /\ op \in Int /\ oend \in Int /\ op <= oend /\ match \in Int /\ lowPrefix \in Int
         /\ offset \in Nat /\ length \in Nat /\ length >= 4 /\ cpy = op + length
         /\ IsMemory(mem) /\ call.dictEnd \in Int /\ call.partial \in BOOLEAN
         /\ pc \in {"match", "fast_match"}
         /\ pc = "fast_match" => op + length < oend - 64
         /\ pc = "match" /\ ~call.partial => op <= oend - 12
<1>1. pc \in {"match", "fast_match"} BY DEF AtMatch
<1> QED BY <1>1, WhatIsLeft DEF Running

(* 64 bytes of room are left behind every match of the fast loop. *)
LEMMA FastMatchKeeps ==
  ASSUME DecInv, FastShortMatch \/ FastMatch
  PROVE  Kept /\ DecInv'
<1>1. pc = "fast_match" /\ AtMatch BY DEF FastShortMatch, FastMatch, AtMatch
<1>2. /\ op \in Int /\ oend \in Int /\ match \in Int /\ offset \in Nat /\ length \in Nat
      /\ length >= 4 /\ cpy = op + length /\ op + length < oend - 64 /\ IsMemory(mem)
  BY <1>1, AtMatchIs
<1>3. /\ cpy \in Int /\ op <= cpy /\ cpy <= oend /\ cpy <= oend - 64
      /\ op + 18 <= oend /\ op + 16 <= oend /\ op + 64 <= oend /\ op + 32 <= oend
      /\ cpy + 7 <= oend /\ cpy + 64 - 1 <= oend /\ cpy + 32 - 1 <= oend
  BY <1>2
<1>4. CASE FastShortMatch
  <2>1. Copied(Copy18(mem, op, match), cpy) BY <1>4 DEF FastShortMatch
  <2>2. Touches(mem, Copy18(mem, op, match), op, oend) BY <1>2, <1>3, Copy18Touches
  <2> QED BY <1>1, <1>3, <2>1, <2>2, CopiedKeeps
<1>5. CASE FastMatch
  <2> DEFINE far == call.build.stripe = 64 /\ offset >= 64
             m   == IF offset < 16 THEN CopyUsingOffset(mem, op, match, cpy, offset)
                    ELSE StripeCopy(mem, op, match, cpy, IF far THEN 64 ELSE 32)
  <2>1. Copied(m, cpy) BY <1>5 DEF FastMatch
  <2>2. Touches(mem, CopyUsingOffset(mem, op, match, cpy, offset), op, oend)
    BY <1>2, <1>3, UsingOffsetTouches
  <2>3. Touches(mem, StripeCopy(mem, op, match, cpy, 64), op, oend)
    BY <1>2, <1>3, StripeCopyTouches
  <2>4. Touches(mem, StripeCopy(mem, op, match, cpy, 32), op, oend)
    BY <1>2, <1>3, StripeCopyTouches
  <2>5. Touches(mem, m, op, oend) BY <2>2, <2>3, <2>4
  <2> HIDE DEF m
  <2> QED BY <1>1, <1>3, <2>1, <2>5, CopiedKeeps
<1> QED BY <1>4, <1>5

(* Out of the external dictionary and on from the prefix.                   *)
LEMMA DictMatchKeeps ==
  ASSUME DecInv, DictMatch
  PROVE  Kept /\ DecInv'
<1> DEFINE n        == IF cpy > oend - LASTLITERALS THEN Min({length, oend - op}) ELSE length
           fromDict == Min({n, lowPrefix - match})
           m        == Chunk(mem, op, call.dictEnd - (lowPrefix - match), fromDict)
           m2       == ByteCopy(m, op + fromDict, lowPrefix, n - fromDict)
<1>1. AtMatch /\ match < lowPrefix /\ Copied(m2, op + n)
  BY DEF DictMatch, InOrder, InDict
<1>2. /\ op \in Int /\ oend \in Int /\ op <= oend /\ match \in Int /\ lowPrefix \in Int
      /\ length \in Nat /\ length >= 4 /\ cpy = op + length /\ IsMemory(mem)
      /\ call.dictEnd \in Int
      /\ pc = "fast_match" => op + length < oend - 64
  BY <1>1, AtMatchIs
<1>3. n \in Nat /\ op + n <= oend /\ (pc = "fast_match" => op + n <= oend - 64)
  <2>1. oend - op \in Int /\ length \in Int BY <1>2
  <2>2. Min({length, oend - op}) = IF length <= oend - op THEN length ELSE oend - op
    BY <2>1, Smaller
  <2> QED BY <1>2, <2>1, <2>2 DEF LASTLITERALS
<1> HIDE DEF n
<1>4. fromDict \in Nat /\ fromDict <= n
  <2>1. lowPrefix - match \in Int /\ lowPrefix - match > 0 BY <1>1, <1>2
  <2>2. fromDict = IF n <= lowPrefix - match THEN n ELSE lowPrefix - match
    BY <1>3, <2>1, Smaller
  <2> HIDE DEF fromDict
  <2> QED BY <1>3, <2>1, <2>2
<1> HIDE DEF fromDict
<1>5. Touches(mem, m, op, oend)
  <2>1. call.dictEnd - (lowPrefix - match) \in Int /\ op + fromDict <= oend BY <1>2, <1>3, <1>4
  <2> QED BY <1>2, <1>4, <2>1, ChunkTouches
<1> HIDE DEF m
<1>6. IsMemory(m) BY <1>2, <1>5 DEF Touches, IsMemory
<1>7. Touches(m, m2, op + fromDict, oend)
  <2>1. /\ op + fromDict \in Int /\ n - fromDict \in Int /\ op + fromDict <= oend
        /\ (op + fromDict) + (n - fromDict) <= oend
    BY <1>2, <1>3, <1>4
  <2> QED BY <1>2, <1>6, <2>1, ChunkTouches
<1> HIDE DEF m2
<1>8. Touches(mem, m2, op, oend)
  <2>1. op <= op + fromDict /\ oend <= oend /\ op + fromDict \in Int BY <1>2, <1>4
  <2> QED BY <1>2, <1>5, <1>7, <2>1, TouchesTwice
<1>9. op + n \in Int /\ op <= op + n BY <1>2, <1>3
<1> QED BY <1>1, <1>3, <1>8, <1>9, CopiedKeeps

(* Where a part is asked for, byte by byte to the end of the output.        *)
LEMMA PartialMatchKeeps ==
  ASSUME DecInv, PartialMatch
  PROVE  Kept /\ DecInv'
<1> DEFINE n == Min({length, oend - op})
<1>1. /\ pc = "match" /\ call.partial /\ mem' = ByteCopy(mem, op, match, n) /\ op' = op + n
      /\ IF op' = oend THEN pc' = "done" /\ rc' = op' - call.dst ELSE pc' = "safe" /\ UNCHANGED rc
      /\ UNCHANGED <<call, ip, token, length, offset, reach>>
  BY DEF PartialMatch
<1>2. /\ op \in Int /\ oend \in Int /\ op <= oend /\ match \in Int /\ length \in Nat
      /\ IsMemory(mem) /\ call.dst \in Int /\ call.dst <= op /\ rc \in Int /\ ip < iend
      /\ reach <= iend
  BY <1>1, WhatIsLeft DEF Running
<1>3. n \in Nat /\ op + n <= oend
  <2>1. oend - op \in Int /\ length \in Int BY <1>2
  <2>2. n = IF length <= oend - op THEN length ELSE oend - op BY <2>1, Smaller
  <2> HIDE DEF n
  <2> QED BY <1>2, <2>1, <2>2
<1> HIDE DEF n
<1>4. Touches(mem, mem', op, oend) BY <1>1, <1>2, <1>3, ChunkTouches
<1>5. Kept BY <1>1, <1>2, <1>4, TouchesMore DEF Kept
<1>6. op' \in Int /\ call.dst <= op' /\ op' <= oend /\ rc' \in Int BY <1>1, <1>2, <1>3
<1>7. Numbers' BY <1>1, <1>6, WhatIsLeft DEF Numbers
<1> QED BY <1>1, <1>2, <1>5, <1>6, <1>7, EnoughLeft DEF Running

(* Twelve bytes before the end there is room for the first eight.           *)
LEMMA CloseMatchKeeps ==
  ASSUME DecInv, CloseMatch
  PROVE  Kept /\ DecInv'
<1> DEFINE started == StartMatch(mem, op, match, offset, 1)
           s     == Source8(match, offset)
           limit == oend - (WILDCOPYLENGTH - 1)
           wild  == op + 8 < limit
           m     == IF wild THEN WildCopy8(started, op + 8, s, limit) ELSE started
           at    == IF wild THEN limit ELSE op + 8
           m2    == ByteCopy(m, at, s + (at - (op + 8)), cpy - at)
<1>1. pc = "match" /\ ~call.partial /\ cpy <= oend - 5 /\ AtMatch /\ Copied(m2, cpy)
  BY DEF CloseMatch, LASTLITERALS, AtMatch
<1>2. /\ op \in Int /\ oend \in Int /\ match \in Int /\ offset \in Nat /\ length \in Nat
      /\ cpy = op + length /\ op <= oend - 12 /\ IsMemory(mem)
  BY <1>1, AtMatchIs
<1>3. Touches(mem, started, op, op + 8) BY <1>2, StartMatchTouches
<1>4. Touches(mem, started, op, oend) /\ IsMemory(started)
  <2>1. op + 8 \in Int /\ op + 8 <= oend /\ op <= op BY <1>2
  <2> HIDE DEF started
  <2> QED BY <1>2, <1>3, <2>1, TouchesMore DEF Touches, IsMemory
<1>5. s \in Int BY <1>2, Source8Int
<1>6. limit = oend - 7 BY DEF WILDCOPYLENGTH
<1> HIDE DEF started, s, limit
<1>7. Touches(mem, m, op, oend) /\ IsMemory(m)
  <2>1. CASE wild
    <3>1. /\ op + 8 \in Int /\ limit \in Int /\ (op + 8) + 8 <= oend /\ limit + 7 <= oend
          /\ op <= op + 8 /\ oend <= oend
      BY <1>2, <1>6, <2>1
    <3>2. Touches(started, WildCopy8(started, op + 8, s, limit), op + 8, oend)
      BY <1>2, <1>4, <1>5, <3>1, WildCopy8Touches
    <3>3. m = WildCopy8(started, op + 8, s, limit) BY <2>1
    <3> HIDE DEF m
    <3> QED BY <1>2, <1>4, <3>1, <3>2, <3>3, TouchesTwice
  <2>2. CASE ~wild BY <1>4, <2>2
  <2> QED BY <2>1, <2>2
<1>8. /\ at \in Int /\ op <= at /\ at <= oend /\ cpy - at \in Int /\ at + (cpy - at) <= oend
      /\ s + (at - (op + 8)) \in Int
  BY <1>1, <1>2, <1>5, <1>6
<1> HIDE DEF m, at
<1>9. Touches(m, m2, at, oend) BY <1>2, <1>7, <1>8, ChunkTouches
<1> HIDE DEF m2
<1>10. Touches(mem, m2, op, oend)
  <2>1. oend <= oend BY <1>2
  <2> QED BY <1>2, <1>7, <1>8, <1>9, <2>1, TouchesTwice
<1>11. cpy \in Int /\ op <= cpy /\ cpy <= oend BY <1>1, <1>2
<1> QED BY <1>1, <1>10, <1>11, CopiedKeeps

(* The first eight bytes of a match that is refused have room. *)
LEMMA MatchTooLongKeeps ==
  ASSUME DecInv, MatchTooLong
  PROVE  Kept /\ DecInv'
<1>1. /\ pc = "match" /\ ~call.partial /\ mem' = StartMatch(mem, op, match, offset, 1)
      /\ pc' = "done" /\ rc' = -1 /\ UNCHANGED <<call, ip, op, token, length, offset, reach>>
  BY DEF MatchTooLong, cursor
<1>2. /\ op \in Int /\ oend \in Int /\ match \in Int /\ offset \in Nat /\ op <= oend - 12
      /\ IsMemory(mem) /\ call.dst \in Int /\ call.dst <= op /\ reach <= iend
  BY <1>1, WhatIsLeft
<1>3. Touches(mem, mem', op, op + 8) BY <1>1, <1>2, StartMatchTouches
<1>4. call.dst <= op /\ op + 8 <= oend /\ op + 8 \in Int BY <1>2
<1>5. Kept BY <1>1, <1>2, <1>3, <1>4, TouchesMore DEF Kept
<1>6. Numbers' BY <1>1, WhatIsLeft DEF Numbers
<1> QED BY <1>1, <1>2, <1>5, <1>6, EnoughLeft DEF Running

(* Twelve bytes behind the match are enough for the copies of eight. *)
LEMMA PlainMatchKeeps ==
  ASSUME DecInv, PlainMatch
  PROVE  Kept /\ DecInv'
<1> DEFINE started == StartMatch(mem, op, match, offset, 1)
           s  == Source8(match, offset)
           m  == Chunk(started, op + 8, s, 8)
           m2 == IF length > 16 THEN WildCopy8(m, op + 16, s + 8, cpy) ELSE m
<1>1. pc = "match" /\ ~(cpy > oend - 12) /\ AtMatch /\ Copied(m2, cpy)
  BY DEF PlainMatch, NearEnd, MATCH_SAFEGUARD_DISTANCE, WILDCOPYLENGTH, MINMATCH, AtMatch
<1>2. /\ op \in Int /\ oend \in Int /\ match \in Int /\ offset \in Nat /\ length \in Nat
      /\ length >= 4 /\ cpy = op + length /\ IsMemory(mem)
  BY <1>1, AtMatchIs
<1>3. op + length <= oend - 12 /\ op + 16 <= oend BY <1>1, <1>2
<1>4. Touches(mem, started, op, op + 8) BY <1>2, StartMatchTouches
<1>6. s \in Int BY <1>2, Source8Int
<1> HIDE DEF started, s
<1>5. IsMemory(started) BY <1>2, <1>4 DEF Touches, IsMemory
<1>7. /\ op + 8 \in Int /\ op + 16 \in Int /\ (op + 8) + 8 <= op + 16 /\ op + 8 <= op + 16
      /\ op <= op + 8 /\ op + 16 <= op + 16
  BY <1>2
<1>8. Touches(started, m, op + 8, op + 16) BY <1>5, <1>6, <1>7, ChunkTouches
<1> HIDE DEF m
<1>9. Touches(mem, m, op, op + 16) /\ IsMemory(m) BY <1>2, <1>4, <1>7, <1>8, TouchesTwice
<1>10. Touches(mem, m2, op, oend)
  <2>1. CASE length > 16
    <3>1. /\ s + 8 \in Int /\ cpy \in Int /\ (op + 16) + 8 <= oend /\ cpy + 7 <= oend
          /\ op <= op + 16 /\ op + 16 <= oend /\ oend <= oend
      BY <1>2, <1>3, <1>6, <2>1
    <3>2. Touches(m, WildCopy8(m, op + 16, s + 8, cpy), op + 16, oend)
      BY <1>2, <1>7, <1>9, <3>1, WildCopy8Touches
    <3>3. m2 = WildCopy8(m, op + 16, s + 8, cpy) BY <2>1
    <3> HIDE DEF m2
    <3> QED BY <1>2, <1>7, <1>9, <3>1, <3>2, <3>3, TouchesTwice
  <2>2. CASE ~(length > 16)
    <3>1. op <= op /\ op + 16 <= oend BY <1>2, <1>3
    <3> QED BY <1>2, <1>7, <1>9, <2>2, <3>1, TouchesMore
  <2> QED BY <2>1, <2>2
<1> HIDE DEF m2
<1>11. cpy \in Int /\ op <= cpy /\ cpy <= oend BY <1>2, <1>3
<1> QED BY <1>1, <1>10, <1>11, CopiedKeeps

-----------------------------------------------------------------------------
(* The safe loop.                                                          *)

(* The shortcut has room for two copies that overshoot.                     *)
LEMMA ShortcutKeeps ==
  ASSUME DecInv, Shortcut
  PROVE  Kept /\ DecInv'
<1> DEFINE run == LiteralBits(token')
           i     == ip + 1 + run
           m     == Chunk(mem, op, ip + 1, 16)
           o     == ReadLE16(m, i)
           d     == op + run
           n     == MatchBits(token')
           short == n # ML_MASK /\ o >= 8 /\ (call.dict = "prefix64k" \/ d - o >= lowPrefix)
<1>1. /\ pc = "safe" /\ LiteralBits(At(mem, ip)) # 15 /\ ip + 1 < iend - 14 - 2
      /\ op <= oend - 14 - 18 /\ token' = At(mem, ip) /\ UNCHANGED <<call, rc>>
      /\ offset' = o /\ ip' = i + 2 /\ length' = n /\ ReadsUpTo(ip + 1 + 16)
      /\ IF short THEN mem' = Copy18(m, d, d - o) /\ op' = d + length' + 4 /\ pc' = "safe"
                  ELSE mem' = m /\ op' = d /\ pc' = "match_length"
  BY DEF Shortcut, Roomy, LongRun, RUN_MASK, MINMATCH
<1>2. /\ ip \in Int /\ op \in Int /\ iend \in Int /\ oend \in Int /\ IsMemory(mem)
      /\ call.dst \in Int /\ call.dst <= op /\ rc \in Int
  BY <1>1, WhatIsLeft
<1>3. token' \in Bytes BY <1>1, <1>2, AtByte
<1>4. run \in 0..14 /\ n \in 0..15
  <2>1. run \in 0..15 /\ n \in 0..15 BY <1>2, <1>3, Fields
  <2>2. run # 15 BY <1>1
  <2> HIDE DEF run, n
  <2> QED BY <2>1, <2>2
<1>5. Touches(mem, m, op, op + 16) BY <1>2, ChunkTouches
<1> HIDE DEF m
<1>6. IsMemory(m) BY <1>2, <1>5 DEF Touches, IsMemory
<1>7. o \in Nat BY <1>3, <1>6, Fields
<1> HIDE DEF run, o, n
<1>8. reach' \in Int /\ reach' <= iend
  <2>1. ip + 1 + 16 \in Int /\ ip + 1 + 16 <= iend BY <1>1, <1>2
  <2> QED BY <1>1, <2>1, Reads
<1>9. ip' \in Int /\ ip' < iend BY <1>1, <1>2, <1>4
<1>10. CASE short
  <2>1. mem' = Copy18(m, d, d - o) /\ op' = d + n + 4 /\ pc' = "safe" BY <1>1, <1>10
  <2>2. d \in Int /\ op <= d /\ d + 18 <= oend /\ op + 16 <= oend BY <1>1, <1>2, <1>4
  <2>3. d - o \in Int BY <1>7, <2>2
  <2>4. op' \in Int /\ op' <= oend /\ call.dst <= op'
    <3>1. n # 15 BY <1>10 DEF ML_MASK
    <3> HIDE DEF d
    <3>2. n \in 0..14 BY <1>4, <3>1
    <3> QED BY <1>2, <2>1, <2>2, <3>2
  <2> HIDE DEF d
  <2>5. Touches(m, mem', d, oend) BY <1>2, <1>6, <2>1, <2>2, <2>3, Copy18Touches
  <2>6. Touches(mem, m, op, oend) BY <1>2, <1>5, <2>2, TouchesMore
  <2>7. Touches(mem, mem', call.dst, oend)
    <3>1. call.dst <= d /\ oend <= oend BY <1>2, <2>2
    <3>2. Touches(mem, m, call.dst, oend)
      <4>1. op + 16 \in Int BY <1>2
      <4> QED BY <1>2, <1>5, <2>2, <4>1, TouchesMore
    <3> QED BY <1>2, <2>2, <2>5, <3>1, <3>2, TouchesTwice
  <2>8. Kept BY <1>1, <2>7 DEF Kept
  <2>9. Numbers' BY <1>1, <1>2, <1>3, <1>4, <1>7, <1>8, <1>9, <2>4 DEF Numbers
  <2> QED BY <1>1, <1>8, <1>9, <2>1, <2>4, <2>8, <2>9, EnoughLeft DEF Running
<1>11. CASE ~short
  <2>1. mem' = m /\ op' = d /\ pc' = "match_length" BY <1>1, <1>11
  <2>2. op' \in Int /\ call.dst <= op' /\ op' <= oend - 12 /\ op' <= oend /\ op + 16 <= oend
    BY <1>1, <1>2, <1>4, <2>1
  <2>3. Kept
    <3>1. op + 16 \in Int BY <1>2
    <3> QED BY <1>1, <1>2, <1>5, <2>1, <2>2, <3>1, TouchesMore DEF Kept
  <2>4. Numbers' BY <1>1, <1>2, <1>3, <1>4, <1>7, <1>8, <1>9, <2>2 DEF Numbers
  <2> QED BY <1>1, <1>8, <1>9, <2>1, <2>2, <2>3, <2>4, EnoughLeft DEF Running
<1> QED BY <1>10, <1>11

(* A run of literals that goes on behind its token. *)
LEMMA LiteralLengthKeeps ==
  ASSUME DecInv, LiteralLength
  PROVE  Kept /\ DecInv'
<1>1. pc = "literal_length" /\ pc' = "literals" /\ UNCHANGED <<mem, call, op, token, offset, rc>>
  BY DEF LiteralLength
<1>2. /\ ip \in Int /\ op \in Int /\ iend \in Int /\ oend \in Int /\ IsMemory(mem)
      /\ ip <= iend /\ op <= oend /\ call.dst <= op /\ length \in Nat
  BY <1>1, WhatIsLeft DEF Running
<1>3. PICK r \in IF length = RUN_MASK THEN LiteralLengths(ip) ELSE {[adds |-> 0, next |-> ip]} :
        length' = length + r.adds /\ ip' = r.next /\ ReadsUpTo(r.next)
  BY DEF LiteralLength
<1>4. r.adds \in Nat /\ r.next \in Int /\ r.next <= iend
  <2>1. CASE length = RUN_MASK
    <3>1. r.adds \in Nat /\ r.next \in Int /\ r.next <= iend - 15
      BY <1>2, <1>3, <2>1, MoreLengthIs DEF LiteralLengths, RUN_MASK
    <3> QED BY <1>2, <3>1
  <2>2. CASE length # RUN_MASK
    <3>1. r = [adds |-> 0, next |-> ip] BY <1>3, <2>2
    <3> QED BY <1>2, <3>1
  <2> QED BY <2>1, <2>2
<1>5. Kept BY <1>1, <1>2, NothingTouched
<1>6. reach' \in Int /\ reach' <= iend BY <1>1, <1>2, <1>3, <1>4, Reads
<1>7. length' \in Nat /\ ip' \in Int /\ ip' <= iend BY <1>2, <1>3, <1>4
<1>8. Numbers' BY <1>1, <1>6, <1>7, WhatIsLeft DEF Numbers
<1> QED BY <1>1, <1>2, <1>5, <1>6, <1>7, <1>8, EnoughLeft DEF Running

(* The literals that are not the last ones.                                 *)
LEMMA LiteralsKeep ==
  ASSUME DecInv, Literals
  PROVE  Kept /\ DecInv'
<1> DEFINE end == StripesEnd(ip, ip + length, 8)
<1>1. /\ pc = "literals" /\ ~(cpy > oend - 12) /\ ~(ip + length > iend - 8)
      /\ mem' = WildCopy8(mem, op, ip, cpy) /\ op' = cpy /\ UNCHANGED <<call, token, rc>>
      /\ GetOffset(ip + length, end, "match_length")
  BY DEF Literals, LastRun, MFLIMIT, LASTLITERALS
<1>2. /\ ip \in Int /\ op \in Int /\ iend \in Int /\ oend \in Int /\ IsMemory(mem)
      /\ cpy = op + length /\ call.dst <= op /\ length \in Nat /\ token \in Bytes
      /\ call.dst \in Int /\ rc \in Int
  BY <1>1, WhatIsLeft
<1>3. op + length <= oend - 12 /\ ip + length <= iend - 8 BY <1>1, <1>2
<1>4. Touches(mem, mem', op, oend)
  <2>1. cpy \in Int /\ op + 8 <= oend /\ cpy + 7 <= oend BY <1>2, <1>3
  <2> QED BY <1>1, <1>2, <2>1, WildCopy8Touches
<1>5. Kept /\ IsMemory(mem')
  <2>1. oend <= oend BY <1>2
  <2>2. Touches(mem, mem', call.dst, oend) BY <1>2, <1>4, <2>1, TouchesMore
  <2> QED BY <1>1, <1>2, <2>2 DEF Kept, Touches, IsMemory
<1>6. end \in Int /\ end <= iend /\ ip + length \in Int /\ (ip + length) + 2 <= iend
  <2>1. 8 \in Stripes /\ ip + length \in Int BY <1>2 DEF Stripes
  <2>2. /\ end \in Int
        /\ ip + length <= ip => end = ip + 8
        /\ ip + length > ip => end < (ip + length) + 8
    BY <1>2, <2>1, StripesEndIs
  <2> HIDE DEF end
  <2> QED BY <1>2, <1>3, <2>2
<1> HIDE DEF end
<1>7. token' \in Bytes BY <1>1, <1>2
<1>8. /\ offset' \in Nat /\ ip' = (ip + length) + 2 /\ length' \in 0..15
      /\ pc' = "match_length" /\ reach' \in Int /\ reach' <= iend
  BY <1>1, <1>5, <1>6, <1>7, OffsetRead
<1>9. /\ op' \in Int /\ call.dst <= op' /\ op' <= oend /\ op' <= oend - 12
      /\ ip' \in Int /\ ip' < iend /\ length' \in Nat
  BY <1>1, <1>2, <1>3, <1>8
<1>10. Numbers' BY <1>1, <1>2, <1>7, <1>8, <1>9 DEF Numbers
<1> QED BY <1>1, <1>5, <1>8, <1>9, <1>10, EnoughLeft DEF Running

(* The last literals end with the input and inside the output. *)
LEMMA LastLiteralsKeep ==
  ASSUME DecInv, LastLiterals
  PROVE  Kept /\ DecInv'
<1>1. /\ pc = "literals" /\ cpy <= oend /\ mem' = Chunk(mem, op, ip, length) /\ op' = cpy
      /\ ip' = iend /\ ReadsUpTo(iend) /\ pc' = "done" /\ rc' = op' - call.dst
      /\ UNCHANGED <<call, token, length, offset>>
  BY DEF LastLiterals
<1>2. /\ ip \in Int /\ op \in Int /\ iend \in Int /\ oend \in Int /\ IsMemory(mem)
      /\ cpy = op + length /\ op <= oend /\ call.dst <= op /\ length \in Nat /\ call.dst \in Int
  BY <1>1, WhatIsLeft DEF Running
<1>3. Touches(mem, mem', op, oend) BY <1>1, <1>2, ChunkTouches
<1>4. Kept BY <1>1, <1>2, <1>3, TouchesMore DEF Kept
<1>5. reach' \in Int /\ reach' <= iend BY <1>1, <1>2, Reads
<1>6. op' \in Int /\ call.dst <= op' /\ rc' \in Int /\ ip' \in Int BY <1>1, <1>2
<1>7. Numbers' BY <1>1, <1>5, <1>6, WhatIsLeft DEF Numbers
<1> QED BY <1>1, <1>4, <1>5, <1>6, <1>7, EnoughLeft DEF Running

(* Where a part is asked for: as many literals as there are and fit.        *)
LEMMA PartialLiteralsKeep ==
  ASSUME DecInv, PartialLiterals
  PROVE  Kept /\ DecInv'
<1> DEFINE n == Min({length, iend - ip, oend - op})
<1>1. /\ pc = "literals" /\ call.partial /\ UNCHANGED call
      /\ mem' = Chunk(mem, op, ip, n) /\ op' = op + n
      /\ IF op' = oend \/ ip + n >= iend - 2
           THEN /\ ip' = ip + n /\ ReadsUpTo(ip') /\ pc' = "done" /\ rc' = op' - call.dst
                /\ UNCHANGED <<token, length, offset>>
           ELSE UNCHANGED <<token, rc>> /\ GetOffset(ip + n, ip + n, "match_length")
  BY DEF PartialLiterals
<1>2. /\ ip \in Int /\ op \in Int /\ iend \in Int /\ oend \in Int /\ IsMemory(mem)
      /\ ip <= iend /\ op <= oend /\ call.dst <= op /\ length \in Nat /\ call.dst \in Int
      /\ token \in Bytes /\ rc \in Int /\ offset \in Nat
  BY <1>1, WhatIsLeft DEF Running
<1>3. n \in Nat /\ op + n <= oend /\ ip + n <= iend
  <2>1. iend - ip \in Int /\ oend - op \in Int /\ length \in Int BY <1>2
  <2>2. /\ n \in {length, iend - ip, oend - op}
        /\ n <= iend - ip /\ n <= oend - op
    BY <2>1, Smallest
  <2> HIDE DEF n
  <2> QED BY <1>2, <2>1, <2>2
<1> HIDE DEF n
<1>4. Touches(mem, mem', op, oend) BY <1>1, <1>2, <1>3, ChunkTouches
<1>5. Kept /\ IsMemory(mem')
  <2>1. oend <= oend BY <1>2
  <2>2. Touches(mem, mem', call.dst, oend) BY <1>2, <1>4, <2>1, TouchesMore
  <2> QED BY <1>1, <1>2, <2>2 DEF Kept, Touches, IsMemory
<1>6. op' \in Int /\ call.dst <= op' /\ op' <= oend /\ ip + n \in Int BY <1>1, <1>2, <1>3
<1>7. CASE op' = oend \/ ip + n >= iend - 2
  <2>1. /\ ip' = ip + n /\ ReadsUpTo(ip + n) /\ pc' = "done" /\ rc' = op' - call.dst
        /\ UNCHANGED <<token, length, offset>>
    BY <1>1, <1>7
  <2>2. reach' \in Int /\ reach' <= iend BY <1>1, <1>3, <1>6, <2>1, Reads
  <2>3. rc' \in Int BY <1>2, <1>6, <2>1
  <2>4. Numbers' BY <1>2, <1>6, <2>1, <2>2, <2>3 DEF Numbers
  <2> QED BY <1>1, <1>5, <1>6, <2>1, <2>2, <2>4, EnoughLeft DEF Running
<1>8. CASE ~(op' = oend \/ ip + n >= iend - 2)
  <2>1. UNCHANGED <<token, rc>> /\ GetOffset(ip + n, ip + n, "match_length") BY <1>1, <1>8
  <2>2. (ip + n) + 2 < iend /\ (ip + n) + 2 <= iend BY <1>2, <1>6, <1>8
  <2>3. token' \in Bytes BY <1>2, <2>1
  <2>4. /\ offset' \in Nat /\ ip' = (ip + n) + 2 /\ length' \in 0..15
        /\ pc' = "match_length" /\ reach' \in Int /\ reach' <= iend
    BY <1>1, <1>3, <1>5, <1>6, <2>1, <2>2, <2>3, OffsetRead
  <2>5. ip' \in Int /\ ip' < iend /\ length' \in Nat BY <1>6, <2>2, <2>4
  <2>6. Numbers' BY <1>2, <1>6, <2>1, <2>3, <2>4, <2>5 DEF Numbers
  <2> QED BY <1>1, <1>5, <1>6, <2>4, <2>5, <2>6, EnoughLeft DEF Running
<1> QED BY <1>7, <1>8

-----------------------------------------------------------------------------
(* The whole decoder, and its callers.                                     *)

(* A step of the decoder writes inside the output and reads inside the      *)
(* input.                                                                   *)
LEMMA DecodeKeeps ==
  ASSUME DecInv, DecodeStep
  PROVE  pc \notin {"idle", "done"} /\ Kept /\ DecInv'
<1>1. pc \notin {"idle", "done"}
  BY DEF DecodeStep, Refuse, Begin, FastLoop, FastNearEnd, FastShortRun, FastLongRun, FastRunCut,
         SafeLoop, Shortcut, SafeToken, LiteralLength, LiteralLengthCut, Literals, LastLiterals,
         NotTheLast, PartialLiterals, Match, MatchLength, LongMatchLength, MatchLengthCut,
         AtMatchLength, FastShortMatch, OffsetOutside, DictMatch, DictMatchTooLong, FastMatch,
         PartialMatch, CloseMatch, MatchTooLong, PlainMatch, InOrder, AtMatch
<1>2. CASE Refuse \/ Begin BY <1>1, <1>2, BeginKeeps
<1>3. CASE FastLoop
  <2>1. FastRunCut => Fail BY DEF FastRunCut
  <2> QED BY <1>1, <1>3, <2>1, FastNearEndKeeps, FastShortRunKeeps, FastLongRunKeeps, FailKeeps
          DEF FastLoop
<1>4. CASE SafeLoop
  <2>1. LiteralLengthCut \/ NotTheLast => Fail BY DEF LiteralLengthCut, NotTheLast
  <2> QED BY <1>1, <1>4, <2>1, ShortcutKeeps, FastNearEndKeeps, LiteralLengthKeeps, LiteralsKeep,
             LastLiteralsKeep, PartialLiteralsKeep, FailKeeps
          DEF SafeLoop
<1>5. CASE Match
  <2>1. MatchLengthCut \/ OffsetOutside \/ DictMatchTooLong => Fail
    BY DEF MatchLengthCut, OffsetOutside, DictMatchTooLong
  <2> QED BY <1>1, <1>5, <2>1, MatchLengthKeeps, FastMatchKeeps, DictMatchKeeps, PartialMatchKeeps,
             CloseMatchKeeps, MatchTooLongKeeps, PlainMatchKeeps, FailKeeps
          DEF Match
<1> QED BY <1>2, <1>3, <1>4, <1>5 DEF DecodeStep

(* The next request, and the ones that are left after it. *)
LEMMA AskedTail ==
  ASSUME NEW s, Asked(s), s # <<>>
  PROVE  IsRequest(Head(s)) /\ Asked(Tail(s))
<1> DEFINE all == {s[k] : k \in DOMAIN s}
           t   == Tail(s)
           left == {t[k] : k \in DOMAIN t}
<1>1. s \in Seq(all) /\ \A r \in all : IsRequest(r) BY DEF Asked
<1> HIDE DEF all
<1>2. Len(s) \in Nat \ {0} /\ DOMAIN s = 1..Len(s) BY <1>1
<1>3. Head(s) = s[1] /\ 1 \in DOMAIN s BY <1>1, <1>2
<1>4. IsRequest(Head(s)) BY <1>1, <1>3 DEF all
<1>5. t \in Seq(all) /\ Len(t) = Len(s) - 1 BY <1>1, <1>2
<1> HIDE DEF t
<1>6. DOMAIN t = 1..Len(t) /\ Len(t) \in Nat BY <1>5
<1>7. \A k \in 1..Len(t) : t[k] \in all BY <1>5
<1>8. t \in Seq(left)
  <2>1. \A k \in 1..Len(t) : t[k] \in left BY <1>6
  <2>2. t = [k \in 1..Len(t) |-> t[k]] BY <1>5
  <2> HIDE DEF left
  <2> QED BY <1>6, <2>1, <2>2
<1>9. \A r \in left : IsRequest(r) BY <1>1, <1>6, <1>7
<1> QED BY <1>4, <1>8, <1>9 DEF Asked, t, left

Streams == [prefixSize : Int, prefixEnd : Int, extDictSize : Int, extEnd : Int]

(* The calls that are made have numbers for arguments. *)
LEMMA CallTyped ==
  ASSUME IsRequest(q), q.fn # "set", sd \in Streams
  PROVE  IsCall(CallOf) /\ CallOf.src = q.src /\ CallOf.dst = q.dst
<1>1. /\ q.src \in Int /\ q.size \in Nat /\ q.dst \in Int /\ q.cap \in Int /\ q.target \in Int
      /\ q.partial \in BOOLEAN /\ q.build \in Builds /\ q.dictEnd \in Int /\ q.dictSize \in Int
      /\ q.fn \in DecodeFunctions
  BY DEF IsRequest
<1>2. (IF q.partial THEN Min({q.target, q.cap}) ELSE q.cap) \in Int
  BY <1>1, Smaller
<1>3. ASSUME NEW dict, NEW p \in Int, NEW end \in Int, NEW n \in Int
      PROVE  LET c == Generic(dict, p, end, n) IN IsCall(c) /\ c.src = q.src /\ c.dst = q.dst
  BY <1>1, <1>2 DEF Generic, IsCall
<1>4. KB64 \in Int BY WindowAssumption
<1>5. /\ sd.prefixSize \in Int /\ sd.prefixEnd \in Int /\ sd.extDictSize \in Int
      /\ sd.extEnd \in Int
  BY DEF Streams
<1> DEFINE Good(c) == IsCall(c) /\ c.src = q.src /\ c.dst = q.dst
<1>6. ASSUME NEW p \in Int, NEW end \in Int, NEW n \in Int
      PROVE  /\ Good(Safe) /\ Good(Prefix64k) /\ Good(SmallPrefix(n)) /\ Good(ExtDict(end, n))
             /\ Good(DoubleDict(p, end, n)) /\ Good(Unsafe(p, end, n))
  BY <1>3, <1>4 DEF Safe, Prefix64k, SmallPrefix, ExtDict, DoubleDict, Unsafe
<1> HIDE DEF Good
<1>7. Good(UsingDict) BY <1>1, <1>6 DEF UsingDict
<1>8. Good(FastUsingDict) BY <1>1, <1>6 DEF FastUsingDict
<1>9. Good(SafeContinue) BY <1>5, <1>6 DEF SafeContinue
<1>10. Good(FastContinue)
  <2>1. /\ Good(Unsafe(0, 0, 0)) /\ Good(Unsafe(0, sd.prefixEnd, sd.prefixSize))
        /\ Good(Unsafe(sd.prefixSize, sd.extEnd, sd.extDictSize))
    BY <1>5, <1>6
  <2> QED BY <2>1 DEF FastContinue
<1>11. Good(CallOf)
  BY <1>1, <1>7, <1>8, <1>9, <1>10 DEF CallOf, DecodeFunctions
<1> QED BY <1>11 DEF Good

(* The functions that check their input never come to the decoder that     *)
(* trusts it.                                                               *)
SafeCall == call.dict # "unsafe"

ApiInv == /\ DecInv /\ Asked(todo) /\ sd \in Streams
          /\ pc # "idle" => todo # <<>>

(* What the step does to the memory and the input. *)
Inside == pc \notin {"idle", "done"} => Kept /\ reach' <= iend

(* It holds when a user has called nothing. *)
LEMMA ApiStarts ==
  ASSUME Init
  PROVE  ApiInv
<1>1. PICK s \in Scenarios : Starts(s.memory, s.requests) BY DEF Init
<1>2. IsMemory(mem) /\ Asked(todo) BY <1>1, ScenariosAssumption DEF Starts
<1>3. /\ sd = NewStream /\ pc = "idle" /\ ip = 0 /\ op = 0 /\ token = 0 /\ length = 0
      /\ offset = 0 /\ reach = 0 /\ rc = 0
  BY <1>1 DEF Starts
<1>4. sd \in Streams BY <1>3 DEF NewStream, Streams
<1>5. Numbers BY <1>3 DEF Numbers, Bytes
<1>6. Margins BY <1>3 DEF Margins, Running
<1> QED BY <1>2, <1>3, <1>4, <1>5, <1>6 DEF ApiInv, DecInv

(* A call starts at the first byte of its input and of its output. *)
LEMMA InvokeKeeps ==
  ASSUME ApiInv, SafeCall', Invoke
  PROVE  ApiInv' /\ Inside
<1>1. /\ pc = "idle" /\ todo # <<>> /\ q.fn # "set" /\ call' = CallOf
      /\ pc' = IF call'.dict = "unsafe" THEN "unsafe" ELSE "start"
      /\ ip' = q.src /\ op' = q.dst /\ reach' = q.src
      /\ UNCHANGED <<mem, token, length, offset, rc, todo>>
  BY DEF Invoke
<1>2. IsRequest(q) BY <1>1, AskedTail DEF ApiInv, q
<1>3. sd \in Streams BY DEF ApiInv
<1>4. IsCall(call') /\ call'.src = q.src /\ call'.dst = q.dst BY <1>1, <1>2, <1>3, CallTyped
<1>5. pc' = "start" BY <1>1 DEF SafeCall
<1>6. q.src \in Int /\ q.dst \in Int BY <1>2 DEF IsRequest
<1>7. Numbers' BY <1>1, <1>6 DEF Numbers, ApiInv, DecInv
<1>8. iend' = q.src + call'.size /\ call'.size \in Nat BY <1>4 DEF iend, IsCall
<1>9. InputLeft' BY <1>1, <1>5, <1>6, <1>8 DEF InputLeft, Running
<1>10. RoomLeft' BY <1>1, <1>4, <1>5, <1>6 DEF RoomLeft, Running
<1>11. Margins' BY <1>1, <1>4, <1>5, <1>9, <1>10 DEF Margins
<1>12. sd' \in Streams
  <2>1. sd' = sd \/ sd' = [sd EXCEPT !.extDictSize = sd.prefixSize, !.extEnd = sd.prefixEnd]
    BY DEF Invoke
  <2> QED BY <1>3, <2>1 DEF Streams
<1>13. IsMemory(mem)' /\ Asked(todo)' BY <1>1 DEF ApiInv, DecInv
<1> QED BY <1>1, <1>7, <1>11, <1>12, <1>13 DEF ApiInv, DecInv, Inside

(* A stream that is set up anew, and one that goes on after a block.        *)
LEMMA SetKeeps ==
  ASSUME ApiInv, SetStreamDecode
  PROVE  ApiInv' /\ Inside
<1>1. /\ pc = "idle" /\ todo # <<>> /\ UNCHANGED decVars /\ todo' = Tail(todo)
      /\ sd' = [NewStream EXCEPT !.prefixSize = q.dictSize, !.prefixEnd = q.dictEnd]
  BY DEF SetStreamDecode
<1>2. IsRequest(q) /\ Asked(todo') BY <1>1, AskedTail DEF ApiInv, q
<1>3. sd' \in Streams
  <2>1. q.dictSize \in Int /\ q.dictEnd \in Int BY <1>2 DEF IsRequest
  <2>2. NewStream \in Streams BY DEF NewStream, Streams
  <2> QED BY <1>1, <2>1, <2>2 DEF Streams
<1>4. IsMemory(mem)' /\ Numbers' BY <1>1 DEF ApiInv, DecInv, Numbers, decVars, cursor
<1>5. pc' = "idle" BY <1>1 DEF decVars
<1>6. Margins' BY <1>5 DEF Margins, Running
<1> QED BY <1>1, <1>2, <1>3, <1>4, <1>5, <1>6 DEF ApiInv, DecInv, Inside

(* After the return the stream has moved on by a number of bytes. *)
LEMMA ReturnKeeps ==
  ASSUME ApiInv, Return
  PROVE  ApiInv' /\ Inside
<1> DEFINE n == IF q.fn = "fastContinue" THEN q.cap ELSE rc
<1>1. /\ pc = "done" /\ todo' = Tail(todo) /\ pc' = "idle" /\ ip' = 0 /\ op' = 0 /\ token' = 0
      /\ length' = 0 /\ offset' = 0 /\ reach' = 0 /\ rc' = 0 /\ UNCHANGED mem
      /\ sd' = IF ~InStream \/ rc <= 0 THEN sd
               ELSE [sd EXCEPT !.prefixSize = IF Rolling /\ ~First THEN @ + n ELSE n,
                               !.prefixEnd  = q.dst + n]
  BY DEF Return
<1>2. todo # <<>> BY <1>1 DEF ApiInv
<1>3. IsRequest(q) /\ Asked(todo') BY <1>1, <1>2, AskedTail DEF ApiInv, q
<1>4. n \in Int /\ q.dst \in Int
  BY <1>3 DEF IsRequest, ApiInv, DecInv, Numbers
<1> HIDE DEF n
<1>5. sd' \in Streams
  <2>1. sd \in Streams BY DEF ApiInv
  <2>2. q.dst + n \in Int /\ sd.prefixSize + n \in Int BY <1>4, <2>1 DEF Streams
  <2>3. \/ sd' = sd
        \/ sd' = [sd EXCEPT !.prefixSize = n, !.prefixEnd = q.dst + n]
        \/ sd' = [sd EXCEPT !.prefixSize = sd.prefixSize + n, !.prefixEnd = q.dst + n]
    BY <1>1, <2>1 DEF Streams
  <2> QED BY <1>4, <2>1, <2>2, <2>3 DEF Streams
<1>6. Numbers' BY <1>1 DEF Numbers, Bytes
<1>7. Margins' BY <1>1 DEF Margins, Running
<1>8. IsMemory(mem)' BY <1>1 DEF ApiInv, DecInv
<1> QED BY <1>1, <1>3, <1>5, <1>6, <1>7, <1>8 DEF ApiInv, DecInv, Inside

(* Every step keeps it. *)
LEMMA ApiStep ==
  ASSUME ApiInv, SafeCall', [Next]_allVars
  PROVE  ApiInv' /\ Inside
<1>1. CASE Invoke BY <1>1, InvokeKeeps
<1>2. CASE SetStreamDecode BY <1>2, SetKeeps
<1>3. CASE Return BY <1>3, ReturnKeeps
<1>4. CASE Step /\ UNCHANGED <<todo, sd>>
  <2>1. DecInv BY DEF ApiInv
  <2>2. pc \notin {"unsafe", "unsafe_match"} BY <2>1 DEF DecInv, Margins, Running
  <2>3. DecodeStep BY <1>4, <2>2 DEF Step, UnsafeLiterals, UnsafeMatch
  <2>4. pc \notin {"idle", "done"} /\ Kept /\ DecInv' BY <2>1, <2>3, DecodeKeeps
  <2>5. todo # <<>> BY <2>4 DEF ApiInv
  <2>6. ApiInv' BY <1>4, <2>4, <2>5 DEF ApiInv
  <2>7. reach' <= iend
    <3>1. iend' = iend BY <2>1, <2>4, Ends DEF Kept
    <3>2. pc' # "idle"
      BY <2>3 DEF DecodeStep, Refuse, Begin, FastLoop, FastNearEnd, FastShortRun, FastLongRun,
         FastRunCut, SafeLoop, Shortcut, SafeToken, LiteralLength, LiteralLengthCut, Literals,
         LastLiterals, NotTheLast, PartialLiterals, Match, MatchLength, LongMatchLength,
         MatchLengthCut, FastShortMatch, OffsetOutside, DictMatch, DictMatchTooLong, FastMatch,
         PartialMatch, CloseMatch, MatchTooLong, PlainMatch, GetOffset, SetLength, Fail, Copied,
         NextLoop
    <3> QED BY <2>4, <3>1, <3>2 DEF DecInv, Margins, InputLeft
  <2> QED BY <2>4, <2>6, <2>7 DEF Inside
<1>5. CASE UNCHANGED allVars
  <2>1. UNCHANGED <<mem, call, pc, ip, op, token, length, offset, reach, rc, todo, sd>>
    BY <1>5 DEF allVars, decVars, cursor
  <2>2. ApiInv'
    BY <2>1 DEF ApiInv, DecInv, Numbers, Margins, InputLeft, RoomLeft, iend, oend
  <2>3. Inside
    <3>1. ASSUME pc \notin {"idle", "done"} PROVE Kept /\ reach' <= iend
      <4>1. DecInv BY DEF ApiInv
      <4>2. Kept BY <2>1, <4>1, NothingTouched DEF DecInv
      <4>3. reach' <= iend BY <2>1, <3>1, <4>1, WhatIsLeft
      <4> QED BY <4>2, <4>3
    <3> QED BY <3>1 DEF Inside
  <2> QED BY <2>2, <2>3
<1> QED BY <1>1, <1>2, <1>3, <1>4, <1>5 DEF Next, Finished

(* For a user of the functions that check their input: whatever the input,  *)
(* the sizes and the dictionaries are, no copy of the decoder, however far  *)
(* it overshoots, changes a byte outside the output, and nothing is read    *)
(* behind the end of the input (LZ4_decompress_generic; the fast functions, *)
(* which trust their input, do not promise it).                             *)
THEOREM StaysInsideTheorem == Spec /\ []SafeCall => StaysInside
<1> DEFINE Stays == pc \notin {"idle", "done"} =>
                      /\ \A a \in DOMAIN mem : mem'[a] # mem[a] => a \in call.dst .. (oend - 1)
                      /\ reach' <= iend
<1>1. Init => ApiInv BY ApiStarts
<1>2. ApiInv /\ SafeCall' /\ [Next]_allVars => ApiInv' BY ApiStep
<1>3. ApiInv /\ SafeCall' /\ [Next]_allVars => Stays
  <2>1. SUFFICES ASSUME ApiInv, SafeCall', [Next]_allVars, pc \notin {"idle", "done"}
                 PROVE  /\ \A a \in DOMAIN mem : mem'[a] # mem[a] => a \in call.dst .. (oend - 1)
                        /\ reach' <= iend
    OBVIOUS
  <2>2. Kept /\ reach' <= iend BY <2>1, ApiStep DEF Inside
  <2>3. call.dst \in Int /\ oend \in Int /\ IsMemory(mem) BY <2>1, WhatIsLeft DEF ApiInv
  <2>4. \A a \in DOMAIN mem : mem'[a] # mem[a] => a \in call.dst .. (oend - 1)
    BY <2>2, <2>3 DEF Kept, Touches, IsMemory
  <2> QED BY <2>2, <2>4
<1>4. ApiInv /\ SafeCall' /\ [Next]_allVars => [Stays]_decVars BY <1>3
<1> HIDE DEF Stays
<1>5. Spec /\ []SafeCall => []ApiInv BY <1>1, <1>2, PTL DEF Spec
<1>6. Spec /\ []SafeCall => [][Stays]_decVars
  BY <1>4, <1>5, PTL DEF Spec
<1> QED BY <1>6 DEF StaysInside, Stays
=============================================================================
