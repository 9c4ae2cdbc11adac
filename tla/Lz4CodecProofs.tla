--------------------------- MODULE Lz4CodecProofs ---------------------------
(***************************************************************************)
(* Proofs about Lz4Codec, for every plan of the user, every hash function, *)
(* every size of the window, the table, the blocks and their outputs.      *)
(***************************************************************************)
EXTENDS Lz4Codec, FiniteSetTheorems, WellFoundedInduction, TLAPS

-----------------------------------------------------------------------------
(* Numbers and lists.                                                      *)

(* The sizes are numbers, and the window is longer than a hashed string.    *)
LEMMA Numbers ==
  /\ KB64 \in Nat /\ KB64 >= 8 /\ DISTANCE_MAX \in Nat /\ 1 <= DISTANCE_MAX /\ DISTANCE_MAX < KB64
  /\ KB4 \in Nat /\ KB4 >= 1 /\ KB4 <= KB64 /\ GB1 \in Nat
  /\ IndexLimit \in Nat /\ MAX_INPUT_SIZE \in Nat /\ KB64 <= MAX_INPUT_SIZE
  /\ KB64 + MAX_INPUT_SIZE <= IndexLimit
  /\ IndexSpan \in Nat /\ IndexLimit + MAX_INPUT_SIZE < IndexSpan
  /\ Buckets \in Nat /\ Buckets >= 1
  /\ HASH_UNIT = 8 /\ MINMATCH = 4 /\ LASTLITERALS = 5 /\ MFLIMIT = 12 /\ minLength = 13
  /\ ML_MASK = 15 /\ RUN_MASK = 15 /\ Limit64K = KB64 + 11
BY WindowAssumption, SizesAssumption, CodecAssumption
   DEF HASH_UNIT, MINMATCH, LASTLITERALS, MFLIMIT, minLength, ML_MASK, RUN_MASK, Limit64K

(* An index in 32 bits is a number again, no larger than it was.            *)
LEMMA U32Is ==
  ASSUME NEW i \in Nat
  PROVE  U32(i) \in Nat /\ U32(i) <= i /\ (i < IndexSpan => U32(i) = i)
<1>1. IndexSpan \in Nat /\ IndexSpan > 0 BY Numbers
<1>2. \A m \in Nat : m > 0 => i % m \in Nat /\ i % m <= i /\ (i < m => i % m = i) OBVIOUS
<1> QED BY <1>1, <1>2 DEF U32

(* The greater of two numbers. *)
LEMMA GreaterOf ==
  ASSUME NEW a \in Int, NEW b \in Int
  PROVE  Max({a, b}) = IF a >= b THEN a ELSE b
BY DEF Max

(* The smaller of two numbers. *)
LEMMA SmallerOf ==
  ASSUME NEW a \in Int, NEW b \in Int
  PROVE  Min({a, b}) = IF a <= b THEN a ELSE b
BY DEF Min

(* The smallest of three is one of them and no more than any. *)
LEMMA SmallestOf ==
  ASSUME NEW a \in Int, NEW b \in Int, NEW c \in Int
  PROVE  /\ Min({a, b, c}) \in {a, b, c}
         /\ Min({a, b, c}) <= a /\ Min({a, b, c}) <= b /\ Min({a, b, c}) <= c
<1>1. \E x \in {a, b, c} : \A y \in {a, b, c} : x <= y
  <2>1. CASE a <= b /\ a <= c BY <2>1
  <2>2. CASE b <= a /\ b <= c BY <2>2
  <2>3. CASE c <= a /\ c <= b BY <2>3
  <2> QED BY <2>1, <2>2, <2>3
<1> QED BY <1>1 DEF Min

(* The order of the natural numbers is well-founded. *)
Below == {ss \in Nat \X Nat : ss[1] < ss[2]}

(* A set of natural numbers that is not empty has a least one. *)
LEMMA LeastOf ==
  ASSUME NEW T \in SUBSET Nat, T # {}
  PROVE  \E x \in T : \A y \in T : x <= y
<1>1. IsWellFoundedOn(Below, Nat) BY NatLessThanWellFounded DEF OpToRel, Below
<1>2. PICK x \in T : \A y \in T : ~(<<y, x>> \in Below) BY <1>1, WFMin
<1>3. ASSUME NEW y \in T PROVE x <= y
  <2>1. x \in Nat /\ y \in Nat OBVIOUS
  <2>2. ~(y < x) BY <1>2, <2>1 DEF Below
  <2> QED BY <2>1, <2>2
<1> QED BY <1>3

(* The minimum of a set of numbers from some number on. *)
LEMMA MinIs ==
  ASSUME NEW low \in Int, NEW T \in SUBSET Int, T # {}, \A x \in T : low <= x
  PROVE  Min(T) \in T /\ \A y \in T : Min(T) <= y
<1> DEFINE U == {x - low : x \in T}
<1>0. \A x \in T : x \in Int /\ x - low \in Nat OBVIOUS
<1>1. U \in SUBSET Nat /\ U # {} BY <1>0
<1>2. PICK u \in U : \A v \in U : u <= v
  <2> HIDE DEF U
  <2> QED BY <1>1, LeastOf
<1>3. PICK x \in T : u = x - low OBVIOUS
<1>4. \A y \in T : x <= y
  <2>1. TAKE y \in T
  <2>2. u <= y - low BY <1>2
  <2> QED BY <1>3, <2>2
<1> QED BY <1>4 DEF Min

(* The maximum of a set of numbers up to some number. *)
LEMMA MaxIs ==
  ASSUME NEW top \in Int, NEW T \in SUBSET Int, T # {}, \A x \in T : x <= top
  PROVE  Max(T) \in T /\ \A y \in T : y <= Max(T)
<1> DEFINE U == {top - x : x \in T}
<1>0. \A x \in T : x \in Int /\ top - x \in Nat OBVIOUS
<1>1. U \in SUBSET Nat /\ U # {} BY <1>0
<1>2. PICK u \in U : \A v \in U : u <= v
  <2> HIDE DEF U
  <2> QED BY <1>1, LeastOf
<1>3. PICK x \in T : u = top - x OBVIOUS
<1>4. \A y \in T : x >= y
  <2>1. TAKE y \in T
  <2>2. u <= top - y BY <1>2
  <2> QED BY <1>3, <2>2
<1> QED BY <1>4 DEF Max

IsList(ss) == ss \in Seq({ss[k] : k \in DOMAIN ss})

(* A sequence over some set is a list. *)
LEMMA ListOf ==
  ASSUME NEW SS, NEW ss \in Seq(SS)
  PROVE  IsList(ss) /\ Len(ss) \in Nat /\ DOMAIN ss = 1..Len(ss)
<1>1. Len(ss) \in Nat /\ DOMAIN ss = 1..Len(ss) OBVIOUS
<1>2. ss \in [1..Len(ss) -> {ss[k] : k \in DOMAIN ss}] OBVIOUS
<1> QED BY SMTT(60), <1>1, <1>2 DEF IsList

(* A list of one. *)
LEMMA ListOne == \A v : IsList(<<v>>) /\ Len(<<v>>) = 1
<1>1. TAKE v
<1>2. <<v>> \in Seq({v}) /\ Len(<<v>>) = 1 OBVIOUS
<1> QED BY <1>2, ListOf

(* A list of two. *)
LEMMA ListTwo == \A v, u : IsList(<<v, u>>) /\ Len(<<v, u>>) = 2
<1>1. TAKE v, u
<1>2. <<v, u>> \in Seq({v, u}) /\ Len(<<v, u>>) = 2 OBVIOUS
<1> QED BY <1>2, ListOf

(* Two lists, one behind the other, are one. *)
LEMMA ListConcat ==
  ASSUME NEW ss, NEW tt, IsList(ss), IsList(tt)
  PROVE  IsList(ss \o tt) /\ Len(ss \o tt) = Len(ss) + Len(tt)
<1> DEFINE SS == {ss[k] : k \in DOMAIN ss} \cup {tt[k] : k \in DOMAIN tt}
<1>1. ss \in Seq(SS) /\ tt \in Seq(SS) BY DEF IsList
<1> HIDE DEF SS
<1>2. ss \o tt \in Seq(SS) /\ Len(ss \o tt) = Len(ss) + Len(tt) BY <1>1
<1> QED BY <1>2, ListOf

(* The places of a list. *)
LEMMA ListPlaces ==
  ASSUME NEW ss, IsList(ss)
  PROVE  Len(ss) \in Nat /\ DOMAIN ss = 1..Len(ss)
BY DEF IsList

(* A list of which an element is replaced. *)
LEMMA ListExcept ==
  ASSUME NEW ss, IsList(ss), NEW k \in 1..Len(ss), NEW v
  PROVE  IsList([ss EXCEPT ![k] = v]) /\ Len([ss EXCEPT ![k] = v]) = Len(ss)
<1> DEFINE SS == {ss[j] : j \in DOMAIN ss} \cup {v}
<1>1. ss \in Seq(SS) /\ v \in SS BY DEF IsList
<1> HIDE DEF SS
<1>2. [ss EXCEPT ![k] = v] \in Seq(SS) /\ Len([ss EXCEPT ![k] = v]) = Len(ss) BY <1>1
<1> QED BY <1>2, ListOf

(* The beginning of a list. *)
LEMMA ListCut ==
  ASSUME NEW ss, IsList(ss), NEW n \in Nat, n <= Len(ss)
  PROVE  IsList(SubSeq(ss, 1, n)) /\ Len(SubSeq(ss, 1, n)) = n
<1> DEFINE SS == {ss[j] : j \in DOMAIN ss}
<1>1. ss \in Seq(SS) BY DEF IsList
<1> HIDE DEF SS
<1>2. SubSeq(ss, 1, n) \in Seq(SS) /\ Len(SubSeq(ss, 1, n)) = n BY <1>1
<1> QED BY <1>2, ListOf

(* A function on the first n numbers is a list of n. *)
LEMMA ListMade ==
  ASSUME NEW n \in Nat, NEW ff, ff = [k \in 1..n |-> ff[k]]
  PROVE  IsList(ff) /\ Len(ff) = n
<1>1. ff \in [1..n -> {ff[k] : k \in DOMAIN ff}] OBVIOUS
<1>2. ff \in Seq({ff[k] : k \in DOMAIN ff}) BY SMTT(60), <1>1
<1>3. DOMAIN ff = 1..n OBVIOUS
<1>4. Len(ff) = n BY <1>2, <1>3
<1> QED BY <1>2, <1>4 DEF IsList
-----------------------------------------------------------------------------
(* The bytes of a length, and how much a text can grow.                    *)

More(n)  == (n + 240) \div 255
Bound(n) == n + n \div 255

(* The further bytes of a length. *)
LEMMA MoreBytesIs ==
  ASSUME NEW n \in Nat
  PROVE  IsList(MoreBytes(n, 15)) /\ Len(MoreBytes(n, 15)) = More(n) /\ More(n) \in Nat
<1>1. CASE n < 15
  <2>1. (n + 240) \div 255 = 0 BY <1>1
  <2>2. MoreBytes(n, 15) = <<>> BY <1>1 DEF MoreBytes
  <2>3. IsList(<<>>) /\ Len(<<>>) = 0 BY DEF IsList
  <2> QED BY <2>1, <2>2, <2>3 DEF More
<1>2. CASE n >= 15
  <2> DEFINE count == (n - 15) \div 255 + 1
             ff    == [k \in 1..count |-> IF k <= (n - 15) \div 255 THEN 255 ELSE (n - 15) % 255]
  <2>1. count \in Nat BY <1>2
  <2>2. MoreBytes(n, 15) = ff BY <1>2 DEF MoreBytes, LengthBytes
  <2>3. ff = [k \in 1..count |-> ff[k]] OBVIOUS
  <2>4. IsList(ff) /\ Len(ff) = count
    <3> HIDE DEF ff, count
    <3> QED BY <2>1, <2>3, ListMade
  <2>5. count = (n + 240) \div 255
    <3>1. n - 15 \in Nat /\ n + 240 = (n - 15) + 255 BY <1>2
    <3>2. \A k \in Nat : (k + 255) \div 255 = k \div 255 + 1 OBVIOUS
    <3> QED BY <3>1, <3>2
  <2> QED BY <2>1, <2>2, <2>4, <2>5 DEF More
<1> QED BY <1>1, <1>2

(* A quotient by 255, by what defines it. *)
LEMMA Quotient ==
  ASSUME NEW n \in Nat
  PROVE  /\ n \div 255 \in Nat /\ 255 * (n \div 255) <= n /\ n < 255 * (n \div 255) + 255
         /\ More(n) \in Nat /\ 255 * More(n) <= n + 240 /\ n + 240 < 255 * More(n) + 255
         /\ Bound(n) \in Nat
BY DEF More, Bound

(* The number of further bytes, by what defines it. *)
LEMMA MoreIs ==
  ASSUME NEW n \in Nat
  PROVE  More(n) \in Nat /\ 255 * More(n) <= n + 240 /\ n + 240 < 255 * More(n) + 255
BY DEF More

(* The bound of a part and the next part. *)
LEMMA BoundAdds ==
  ASSUME NEW a \in Nat, NEW b \in Nat
  PROVE  Bound(a) + Bound(b) <= Bound(a + b)
<1> DEFINE x == a \div 255
           y == b \div 255
           z == (a + b) \div 255
<1>1. /\ x \in Nat /\ 255 * x <= a /\ y \in Nat /\ 255 * y <= b
      /\ z \in Nat /\ a + b < 255 * z + 255
  BY Quotient
<1>2. Bound(a) = a + x /\ Bound(b) = b + y /\ Bound(a + b) = a + b + z BY DEF Bound
<1> HIDE DEF x, y, z
<1> QED BY <1>1, <1>2

(* Literals grow by their lengths; with a token, and in front of what is    *)
(* left of a block, they stay within the bound.                             *)
LEMMA LiteralsBound ==
  ASSUME NEW n \in Nat
  PROVE  /\ n + More(n) <= Bound(n) + 1 /\ (n < 15 => More(n) = 0)
         /\ More(n) <= n \div 255 + 1
<1> DEFINE x == n \div 255
           y == More(n)
<1>1. x \in Nat /\ 255 * x <= n /\ n < 255 * x + 255 /\ y \in Nat /\ 255 * y <= n + 240
  BY Quotient
<1>2. Bound(n) = n + x BY DEF Bound
<1> HIDE DEF x, y
<1>3. n + y <= Bound(n) + 1 /\ (n < 15 => y = 0) /\ y <= x + 1 BY <1>1, <1>2
<1> QED BY <1>3 DEF x, y

(* A sequence is never longer than the bound of what it stands for.         *)
LEMMA SequenceBound ==
  ASSUME NEW run \in Nat, NEW code \in Nat
  PROVE  1 + run + More(run) + 2 + More(code) <= Bound(run + MINMATCH + code)
<1> DEFINE x == More(run)
           y == More(code)
           z == (run + 4 + code) \div 255
<1>1. /\ x \in Nat /\ 255 * x <= run + 240 /\ y \in Nat /\ 255 * y <= code + 240
      /\ z \in Nat /\ run + 4 + code < 255 * z + 255
  <2>1. run + 4 + code \in Nat OBVIOUS
  <2> QED BY <2>1, Quotient
<1>2. Bound(run + MINMATCH + code) = run + 4 + code + z BY DEF Bound, MINMATCH
<1> HIDE DEF x, y, z
<1>3. 1 + run + x + 2 + y <= run + 4 + code + z BY <1>1
<1> QED BY <1>2, <1>3 DEF x, y

(* What is touched by a copy in steps of eight, one step at least. *)
Wide(n) == 8 * Max({1, (n + 7) \div 8})

(* The extra length of the copies: at most eight bytes for literals, three  *)
(* for the length of a match.                                               *)
LEMMA Overshoot ==
  ASSUME NEW n \in Nat
  PROVE  /\ Wide(n) \in Nat /\ Wide(n) <= n + 8 /\ (n > 0 => Wide(n) <= n + 7)
         /\ n >= 15 => 4 * ((n - 15) \div (4 * 255)) + 4 <= More(n) + 3
         /\ n >= 15 => 4 * ((n - 15) \div (4 * 255)) + 4 \in Nat
<1>1. (n + 7) \div 8 \in Nat /\ 8 * ((n + 7) \div 8) <= n + 7 /\ (n > 0 => (n + 7) \div 8 >= 1)
  OBVIOUS
<1>2. Max({1, (n + 7) \div 8}) = IF 1 >= (n + 7) \div 8 THEN 1 ELSE (n + 7) \div 8
  BY <1>1, GreaterOf
<1>3. Wide(n) \in Nat /\ Wide(n) <= n + 8 /\ (n > 0 => Wide(n) <= n + 7)
  <2> DEFINE x == (n + 7) \div 8
             y == Max({1, x})
  <2>1. x \in Nat /\ 8 * x <= n + 7 /\ (n > 0 => x >= 1) BY <1>1
  <2>2. y = IF 1 >= x THEN 1 ELSE x BY <1>2
  <2>3. Wide(n) = 8 * y BY DEF Wide
  <2> HIDE DEF x, y
  <2> QED BY <2>1, <2>2, <2>3
<1>4. ASSUME n >= 15
      PROVE  /\ 4 * ((n - 15) \div (4 * 255)) + 4 <= More(n) + 3
             /\ 4 * ((n - 15) \div (4 * 255)) + 4 \in Nat
  <2> DEFINE x == (n - 15) \div 1020
             y == More(n)
  <2>1. x \in Nat /\ 1020 * x <= n - 15 BY <1>4
  <2>2. y \in Nat /\ n + 240 < 255 * y + 255 BY Quotient
  <2>3. 4 * 255 = 1020 OBVIOUS
  <2> HIDE DEF x, y
  <2>4. 4 * x + 4 <= y + 3 /\ 4 * x + 4 \in Nat BY <1>4, <2>1, <2>2
  <2> QED BY <2>3, <2>4 DEF x, y
<1> QED BY <1>3, <1>4
-----------------------------------------------------------------------------
(* How far two places agree.                                               *)

(* LZ4_count stops at the limit or at the first difference.                 *)
LEMMA CountIs ==
  ASSUME NEW i \in Int, NEW j \in Int, NEW limit \in Int
  PROVE  /\ Count(i, j, limit) \in Nat
         /\ Count(i, j, limit) <= (IF i < limit THEN limit - i ELSE 0)
         /\ \A m \in Nat : Same(i, j, m) /\ i + m <= limit => m <= Count(i, j, limit)
<1> DEFINE n == IF i < limit THEN limit - i ELSE 0
           T == {k \in 0..n : k = n \/ ByteAt(i + k) # ByteAt(j + k)}
<1>1. n \in Nat OBVIOUS
<1>2. n \in T BY <1>1
<1>3. T \in SUBSET Int /\ T # {} /\ \A x \in T : 0 <= x
  <2> HIDE DEF n
  <2>1. \A x \in T : x \in Int /\ 0 <= x BY <1>1
  <2> QED BY <1>2, <2>1
<1>4. Min(T) \in T /\ \A y \in T : Min(T) <= y
  <2> HIDE DEF T, n
  <2> QED BY <1>3, MinIs
<1>5. Count(i, j, limit) = Min(T) BY DEF Count
<1>6. Min(T) \in 0..n /\ (Min(T) = n \/ ByteAt(i + Min(T)) # ByteAt(j + Min(T)))
  <2> HIDE DEF n
  <2> QED BY <1>4
<1>7. ASSUME NEW m \in Nat, Same(i, j, m), i + m <= limit
      PROVE  m <= Min(T)
  <2>1. SUFFICES ASSUME Min(T) < m PROVE FALSE
    <3> HIDE DEF T, n
    <3> QED BY <1>1, <1>6
  <2>2. Min(T) \in 0..(m - 1)
    <3> HIDE DEF T, n
    <3> QED BY <1>1, <1>6, <2>1
  <2>3. ByteAt(i + Min(T)) = ByteAt(j + Min(T))
    <3> HIDE DEF T
    <3> QED BY <1>7, <2>2 DEF Same
  <2>4. Min(T) = n BY <1>6, <2>3
  <2>5. m <= n BY <1>7
  <2> HIDE DEF T, n
  <2> QED BY <1>1, <2>1, <2>4, <2>5
<1> QED BY <1>1, <1>5, <1>6, <1>7

(* The match code never takes a match into the last five bytes; in the      *)
(* other segment it goes to its end at least.                               *)
LEMMA MatchCodeIs ==
  ASSUME job.start \in Int, job.size \in Int, at \in Int, found \in Int, inDict \in BOOLEAN,
         at + 12 <= stop
  PROVE  /\ MatchCode \in Nat /\ at + 4 + MatchCode <= stop - 5
         /\ \A m \in Nat : /\ Same(at + 4, found + 4, m) /\ at + 4 + m <= stop - 5
                           /\ inDict => found + 4 + m <= job.start
                           => m <= MatchCode
<1> DEFINE limit == Min({at + (job.start - found), matchlimit})
           code  == Count(at + 4, found + 4, limit)
           next  == Count(limit, job.start, matchlimit)
           whole == Count(at + 4, found + 4, matchlimit)
<1>1. stop \in Int /\ matchlimit = stop - 5 /\ matchlimit \in Int
  BY DEF stop, matchlimit, LASTLITERALS
<1>2. limit = (IF at + (job.start - found) <= matchlimit THEN at + (job.start - found) ELSE matchlimit)
      /\ limit \in Int
  BY <1>1, SmallerOf
<1>3. /\ whole \in Nat
      /\ whole <= (IF at + 4 < matchlimit THEN matchlimit - (at + 4) ELSE 0)
      /\ \A m \in Nat : Same(at + 4, found + 4, m) /\ at + 4 + m <= matchlimit => m <= whole
  <2>1. at + 4 \in Int /\ found + 4 \in Int OBVIOUS
  <2> QED BY <1>1, <2>1, CountIs
<1>4. /\ code \in Nat /\ code <= (IF at + 4 < limit THEN limit - (at + 4) ELSE 0)
      /\ \A m \in Nat : Same(at + 4, found + 4, m) /\ at + 4 + m <= limit => m <= code
  <2>1. at + 4 \in Int /\ found + 4 \in Int OBVIOUS
  <2> HIDE DEF limit
  <2> QED BY <1>2, <2>1, CountIs
<1>5. next \in Nat /\ next <= (IF limit < matchlimit THEN matchlimit - limit ELSE 0)
  <2> HIDE DEF limit
  <2> QED BY <1>1, <1>2, CountIs
<1>6. MatchCode = IF inDict THEN (IF at + 4 + code = limit THEN code + next ELSE code) ELSE whole
  BY DEF MatchCode, MINMATCH
<1>7. MatchCode \in Nat /\ at + 4 + MatchCode <= stop - 5
  <2> HIDE DEF limit, code, next, whole
  <2>1. CASE ~inDict BY <1>1, <1>3, <1>6, <2>1
  <2>2. CASE inDict /\ at + 4 + code = limit BY <1>1, <1>2, <1>4, <1>5, <1>6, <2>2
  <2>3. CASE inDict /\ at + 4 + code # limit BY <1>1, <1>2, <1>4, <1>6, <2>3
  <2> QED BY <2>1, <2>2, <2>3
<1>8. ASSUME NEW m \in Nat, Same(at + 4, found + 4, m), at + 4 + m <= stop - 5,
             inDict => found + 4 + m <= job.start
      PROVE  m <= MatchCode
  <2>1. CASE ~inDict BY <1>1, <1>3, <1>6, <1>8, <2>1
  <2>2. CASE inDict
    <3> HIDE DEF code, next, whole
    <3>1. at + 4 + m <= limit BY <1>1, <1>2, <1>8, <2>2
    <3>2. m <= code BY <1>4, <1>8, <3>1
    <3> HIDE DEF limit
    <3> QED BY <1>4, <1>5, <1>6, <2>2, <3>2
  <2> QED BY <2>1, <2>2
<1> QED BY <1>7, <1>8

(* Catching up goes back over literals, and only where the bytes agree.     *)
LEMMA CatchUpIs ==
  ASSUME at \in Int, anchor \in Int, anchor <= at
  PROVE  /\ CatchUp \in Nat /\ CatchUp <= at - anchor
         /\ CatchUp = 0 \/ (/\ found - CatchUp >= lowLimit
                            /\ Same(at - CatchUp, found - CatchUp, CatchUp))
<1> DEFINE T == {k \in 0..(at - anchor) :
                   k = 0 \/ (found - k >= lowLimit /\ Same(at - k, found - k, k))}
<1>1. at - anchor \in Nat OBVIOUS
<1>2. 0 \in T BY <1>1
<1>3. T \in SUBSET Int /\ T # {} /\ \A x \in T : x <= at - anchor BY <1>1, <1>2
<1>4. Max(T) \in T
  <2>1. at - anchor \in Int OBVIOUS
  <2> HIDE DEF T
  <2> QED BY <1>3, <2>1, MaxIs
<1>5. CatchUp = Max(T) BY DEF CatchUp
<1>6. \A x \in T : x \in Nat /\ x <= at - anchor
                   /\ (x = 0 \/ (found - x >= lowLimit /\ Same(at - x, found - x, x)))
  OBVIOUS
<1> HIDE DEF T
<1> QED BY <1>4, <1>5, <1>6
-----------------------------------------------------------------------------
(* Tables and streams.                                                     *)

Slots  == 0..(Buckets - 1)
Tables == UNION {[D -> Nat] : D \in SUBSET Slots}
Kinds  == {"cleared", "byU16", "byU32", "byPtr"}

Contexts == [currentOffset : Nat, tableType : Kinds, table : Tables, dictionary : Int,
             dictSize : Nat, dictCtx : BOOLEAN]

(* A bucket is one of the table. *)
LEMMA BucketIs == \A ss : Bucket(ss) \in Slots
BY Numbers DEF Bucket, Slots

(* A position goes to a bucket of the table. *)
LEMMA HashAtIs == \A i : HashAt(i) \in Slots
BY BucketIs DEF HashAt

(* A function from some buckets to indexes is a table. *)
LEMMA TableIs ==
  ASSUME NEW tt, DOMAIN tt \subseteq Slots, tt \in [DOMAIN tt -> Nat]
  PROVE  tt \in Tables
BY DEF Tables

(* A table has some buckets, and an index in each. *)
LEMMA TableHas ==
  ASSUME NEW tt \in Tables
  PROVE  DOMAIN tt \subseteq Slots /\ tt \in [DOMAIN tt -> Nat]
BY DEF Tables

(* The empty table is one. *)
LEMMA EmptyTable == <<>> \in Tables /\ DOMAIN <<>> = {}
BY DEF Tables

(* An entry is a number, not above the position it is made for.             *)
LEMMA StoredIs ==
  ASSUME NEW i \in Nat
  PROVE  Stored(i) \in Nat /\ Stored(i) <= i /\ (job.type # "byU16" => Stored(i) = i)
BY Numbers DEF Stored

(* A table with one more position. *)
LEMMA PutIs ==
  ASSUME NEW tt \in Tables, NEW i \in Nat
  PROVE  /\ Put(tt, i) \in Tables
         /\ DOMAIN Put(tt, i) = DOMAIN tt \cup {HashAt(i)}
         /\ \A h \in DOMAIN Put(tt, i) :
              \/ h = HashAt(i) /\ Put(tt, i)[h] = Stored(i)
              \/ h # HashAt(i) /\ h \in DOMAIN tt /\ Put(tt, i)[h] = tt[h]
<1> DEFINE pp == Put(tt, i)
<1>1. pp = [h \in DOMAIN tt \cup {HashAt(i)} |-> IF h = HashAt(i) THEN Stored(i) ELSE tt[h]]
  BY DEF Put
<1>2. DOMAIN pp = DOMAIN tt \cup {HashAt(i)} BY <1>1
<1>3. \A h \in DOMAIN pp : \/ h = HashAt(i) /\ pp[h] = Stored(i)
                           \/ h # HashAt(i) /\ h \in DOMAIN tt /\ pp[h] = tt[h]
  BY <1>1
<1>4. Stored(i) \in Nat /\ DOMAIN tt \subseteq Slots /\ (\A h \in DOMAIN tt : tt[h] \in Nat)
      /\ HashAt(i) \in Slots
  BY StoredIs, TableHas, HashAtIs
<1>5. pp \in [DOMAIN pp -> Nat]
  <2>1. \A h \in DOMAIN tt \cup {HashAt(i)} : (IF h = HashAt(i) THEN Stored(i) ELSE tt[h]) \in Nat
    BY <1>4
  <2> QED BY <1>1, <1>2, <2>1
<1> HIDE DEF pp
<1>6. pp \in Tables BY <1>2, <1>4, <1>5, TableIs
<1> QED BY <1>2, <1>3, <1>6 DEF pp

(* A table without the buckets of some positions. *)
LEMMA ClearIs ==
  ASSUME NEW tt \in Tables, NEW S
  PROVE  /\ Clear(tt, S) \in Tables
         /\ DOMAIN Clear(tt, S) = DOMAIN tt \ {HashAt(i) : i \in S}
         /\ \A h \in DOMAIN Clear(tt, S) : Clear(tt, S)[h] = tt[h]
<1> DEFINE cc == Clear(tt, S)
<1>1. cc = [h \in DOMAIN tt \ {HashAt(i) : i \in S} |-> tt[h]] BY DEF Clear
<1>2. /\ DOMAIN cc = DOMAIN tt \ {HashAt(i) : i \in S}
      /\ \A h \in DOMAIN cc : cc[h] = tt[h]
  BY <1>1
<1>3. DOMAIN tt \subseteq Slots /\ \A h \in DOMAIN tt : tt[h] \in Nat BY TableHas
<1>4. cc \in [DOMAIN cc -> Nat] BY <1>1, <1>2, <1>3
<1>5. DOMAIN cc \subseteq Slots BY <1>2, <1>3
<1> HIDE DEF cc
<1>6. cc \in Tables BY <1>4, <1>5, TableIs
<1> QED BY <1>2, <1>6 DEF cc

(* What a look-up gives: what was put there, or what an empty bucket reads. *)
LEMMA LookupIs ==
  ASSUME NEW tt \in Tables, NEW h, NEW empty
  PROVE  \/ h \in DOMAIN tt /\ Lookup(tt, h, empty) = tt[h] /\ tt[h] \in Nat
         \/ h \notin DOMAIN tt /\ Lookup(tt, h, empty) = empty
BY TableHas DEF Lookup

(* A candidate is an index. *)
LEMMA CandidateInt ==
  ASSUME NEW tt \in Tables, NEW i, job.start \in Int, job.dictTable \in Tables, job.dictOffset \in Int
  PROVE  Candidate(tt, i) \in Int
<1>1. NULL \in Int BY Numbers DEF NULL
<1>2. OwnCandidate(tt, i) \in Int
  <2>1. (IF job.type = "byPtr" THEN NULL ELSE 0) \in Int BY <1>1
  <2>2. \A n \in Nat : n \in Int OBVIOUS
  <2> QED BY <2>1, <2>2, LookupIs DEF OwnCandidate
<1>3. Lookup(job.dictTable, HashAt(i), 0) \in Int BY LookupIs
<1> QED BY <1>2, <1>3 DEF Candidate

(* A clean stream. *)
LEMMA NewContextIs ==
  /\ NewContext \in Contexts
  /\ NewContext.currentOffset = 0 /\ NewContext.tableType = "cleared" /\ NewContext.table = <<>>
  /\ NewContext.dictSize = 0 /\ NewContext.dictCtx = FALSE /\ NewContext.dictionary = NULL_ADDRESS
BY EmptyTable DEF NewContext, Contexts, Kinds, NULL_ADDRESS

(* When LZ4_prepareTable clears the table. *)
StaleIn(c, size, type) ==
  /\ c.tableType # "cleared"
  /\ \/ c.tableType # type
     \/ type = "byU16" /\ c.currentOffset + size >= KB64 - 1
     \/ type = "byU32" /\ c.currentOffset > GB1
     \/ type = "byPtr"
     \/ size >= KB4

(* What LZ4_prepareTable leaves. *)
LEMMA PrepareTableIs ==
  ASSUME NEW c \in Contexts, NEW size \in Int, NEW type
  PROVE  LET p == PrepareTable(c, size, type)
         IN /\ p \in Contexts /\ p.dictSize = 0 /\ p.dictCtx = FALSE
            /\ StaleIn(c, size, type) =>
                 p.currentOffset = 0 /\ p.table = <<>> /\ p.tableType = "cleared"
            /\ ~StaleIn(c, size, type) =>
                 /\ p.currentOffset = Gap(c.currentOffset, type)
                 /\ p.table = c.table /\ p.tableType = c.tableType
<1> DEFINE stale == StaleIn(c, size, type)
           kept  == IF stale THEN [c EXCEPT !.table = <<>>, !.currentOffset = 0, !.tableType = "cleared"]
                             ELSE c
           p == [kept EXCEPT !.currentOffset = Gap(@, type), !.dictCtx = FALSE,
                             !.dictionary = NULL_ADDRESS, !.dictSize = 0]
           o == IF stale THEN 0 ELSE c.currentOffset
<1>1. PrepareTable(c, size, type) = p BY DEF PrepareTable, StaleIn
<1>2. /\ kept \in Contexts /\ kept.currentOffset = o
      /\ kept.table = (IF stale THEN <<>> ELSE c.table)
      /\ kept.tableType = (IF stale THEN "cleared" ELSE c.tableType)
  <2> HIDE DEF stale
  <2> QED BY EmptyTable DEF Contexts, Kinds
<1>3. o \in Nat BY DEF Contexts
<1>4. Gap(o, type) \in Nat /\ (o = 0 => Gap(o, type) = 0)
  <2> HIDE DEF o
  <2>1. o + KB64 \in Nat BY <1>3, Numbers
  <2>2. U32(o + KB64) \in Nat BY <2>1, U32Is
  <2> QED BY <1>3, <2>2 DEF Gap
<1>5. /\ p \in Contexts /\ p.dictSize = 0 /\ p.dictCtx = FALSE
      /\ p.currentOffset = Gap(o, type)
      /\ p.table = kept.table /\ p.tableType = kept.tableType
  <2> HIDE DEF kept, o, p
  <2>1. Gap(kept.currentOffset, type) = Gap(o, type) BY <1>2
  <2>2. p = [kept EXCEPT !.currentOffset = Gap(o, type), !.dictCtx = FALSE,
                         !.dictionary = NULL_ADDRESS, !.dictSize = 0]
    BY <2>1 DEF p
  <2>3. NULL_ADDRESS \in Int /\ 0 \in Nat BY DEF NULL_ADDRESS
  <2> QED BY <1>2, <1>4, <2>2, <2>3 DEF Contexts
<1> HIDE DEF kept, o, p, stale
<1>6. /\ p \in Contexts /\ p.dictSize = 0 /\ p.dictCtx = FALSE
      /\ p.currentOffset = Gap(o, type) /\ (o = 0 => p.currentOffset = 0)
      /\ p.table = (IF stale THEN <<>> ELSE c.table)
      /\ p.tableType = (IF stale THEN "cleared" ELSE c.tableType)
  BY <1>2, <1>4, <1>5
<1>7. stale => o = 0 BY DEF o
<1>8. ~stale => o = c.currentOffset BY DEF o
<1>9. /\ p \in Contexts /\ p.dictSize = 0 /\ p.dictCtx = FALSE
      /\ stale => p.currentOffset = 0 /\ p.table = <<>> /\ p.tableType = "cleared"
      /\ ~stale => /\ p.currentOffset = Gap(c.currentOffset, type)
                   /\ p.table = c.table /\ p.tableType = c.tableType
  BY <1>6, <1>7, <1>8
<1> QED BY <1>1, <1>9 DEF stale

(* The table of LZ4_loadDict. *)
LEMMA LoadedIs ==
  ASSUME NEW p \in Int, NEW n \in Nat, n <= KB64, NEW slow \in BOOLEAN
  PROVE  /\ Loaded(p, n, slow) \in Tables
         /\ \A h \in DOMAIN Loaded(p, n, slow) :
              Loaded(p, n, slow)[h] = 0 \/ Loaded(p, n, slow)[h] \in (KB64 - n)..(KB64 - HASH_UNIT)
<1> DEFINE index(a) == KB64 - n + (a - p)
           all   == p .. (p + n - HASH_UNIT)
           third == {a \in all : (a - p) % 3 = 0}
           last(h)  == index(Max({a \in third : DictHash(a) = h}))
           taken == {h \in {DictHash(a) : a \in third} : ~slow \/ last(h) > 0}
           some(h) == {a \in all : DictHash(a) = h /\ index(a) > 0}
           first(h) == IF some(h) = {} THEN 0 ELSE index(Min(some(h)))
           dom == {DictHash(a) : a \in IF slow THEN all ELSE third}
           table == Loaded(p, n, slow)
<1>1. table = [h \in dom |-> IF h \in taken THEN last(h) ELSE first(h)] BY DEF Loaded
<1>2. \A a \in all : a \in Int /\ p <= a /\ a <= p + n - 8 BY DEF HASH_UNIT
<1>3. \A a \in all : index(a) \in (KB64 - n)..(KB64 - HASH_UNIT) BY <1>2, Numbers
<1>4. \A a \in all : DictHash(a) \in Slots BY BucketIs DEF DictHash
<1>5. dom \subseteq Slots
  <2> HIDE DEF all
  <2> QED BY <1>4
<1>6. ASSUME NEW h \in taken
      PROVE  last(h) \in (KB64 - n)..(KB64 - HASH_UNIT)
  <2> DEFINE T == {a \in third : DictHash(a) = h}
  <2>1. T # {} OBVIOUS
  <2>2. T \in SUBSET Int /\ (\A x \in T : x <= p + n - 8) /\ T \subseteq all
    <3> HIDE DEF all
    <3> QED BY <1>2
  <2>3. Max(T) \in T
    <3>1. p + n - 8 \in Int OBVIOUS
    <3> HIDE DEF T
    <3> QED BY <2>1, <2>2, <3>1, MaxIs
  <2>4. Max(T) \in all
    <3> HIDE DEF T, all
    <3> QED BY <2>2, <2>3
  <2>5. last(h) = index(Max(T)) OBVIOUS
  <2> HIDE DEF T, all, last
  <2> QED BY <1>3, <2>4, <2>5
<1>7. ASSUME NEW h
      PROVE  first(h) = 0 \/ first(h) \in (KB64 - n)..(KB64 - HASH_UNIT)
  <2> DEFINE T == some(h)
  <2>1. CASE T # {}
    <3>1. T \subseteq all OBVIOUS
    <3>2. T \in SUBSET Int /\ \A x \in T : p <= x
      <4> HIDE DEF T, all
      <4> QED BY <1>2, <3>1
    <3>3. Min(T) \in T
      <4> HIDE DEF T
      <4> QED BY <2>1, <3>2, MinIs
    <3>4. first(h) = index(Min(T)) BY <2>1
    <3> HIDE DEF T, all, first
    <3> QED BY <1>3, <3>1, <3>3, <3>4
  <2>2. CASE T = {} BY <2>2
  <2> QED BY <2>1, <2>2
<1> HIDE DEF dom, taken, last, first, table
<1>8. DOMAIN table = dom BY <1>1
<1>9. \A h \in DOMAIN table : table[h] = 0 \/ table[h] \in (KB64 - n)..(KB64 - HASH_UNIT)
  <2> DEFINE R == (KB64 - n)..(KB64 - HASH_UNIT)
  <2>1. (\A h \in taken : last(h) \in R) /\ \A h : first(h) = 0 \/ first(h) \in R
    BY <1>6, <1>7
  <2> HIDE DEF R
  <2>2. \A h \in DOMAIN table : table[h] = 0 \/ table[h] \in R BY <1>1, <1>8, <2>1
  <2> QED BY <2>2 DEF R
<1>10. \A h \in DOMAIN table : table[h] \in Nat
  <2>1. \A k \in (KB64 - n)..(KB64 - HASH_UNIT) : k \in Nat BY Numbers
  <2>2. 0 \in Nat OBVIOUS
  <2> QED BY <1>9, <2>1, <2>2
<1>11. table \in [DOMAIN table -> Nat] BY <1>1, <1>8, <1>10
<1>12. table \in Tables BY <1>5, <1>8, <1>11, TableIs
<1> QED BY <1>9, <1>12 DEF table

(* What LZ4_loadDict leaves. *)
LEMMA LoadDictIs ==
  ASSUME NEW dictionary \in Int, NEW size \in Int, NEW slow \in BOOLEAN
  PROVE  LET c == LoadDict(dictionary, size, slow)
         IN /\ c \in Contexts /\ c.currentOffset = KB64 /\ c.dictCtx = FALSE
            /\ size < HASH_UNIT => c.dictSize = 0 /\ c.tableType = "cleared" /\ c.table = <<>>
            /\ size >= HASH_UNIT =>
                 /\ c.dictSize = (IF size > KB64 THEN KB64 ELSE size) /\ c.tableType = "byU32"
                 /\ \A h \in DOMAIN c.table :
                      c.table[h] = 0 \/ c.table[h] \in (KB64 - c.dictSize)..(KB64 - HASH_UNIT)
<1> DEFINE c == LoadDict(dictionary, size, slow)
           n == Min({size, KB64})
           p == dictionary + size - n
<1>1. n = (IF size <= KB64 THEN size ELSE KB64) BY SmallerOf, Numbers
<1>2. CASE size < HASH_UNIT
  <2>1. c = [NewContext EXCEPT !.currentOffset = KB64] BY <1>2 DEF LoadDict
  <2>2. /\ c \in Contexts /\ c.currentOffset = KB64 /\ c.dictCtx = FALSE
        /\ c.dictSize = 0 /\ c.tableType = "cleared" /\ c.table = <<>>
    <3> HIDE DEF c
    <3> QED BY <2>1, NewContextIs, Numbers DEF Contexts
  <2> HIDE DEF c
  <2> QED BY SMTT(60), <1>2, <2>2, Numbers DEF c
<1>3. CASE size >= HASH_UNIT
  <2>1. n \in Nat /\ n <= KB64 /\ p \in Int /\ n = (IF size > KB64 THEN KB64 ELSE size)
    <3>1. n \in Nat /\ n <= KB64 /\ n = (IF size > KB64 THEN KB64 ELSE size)
      <4> HIDE DEF n
      <4> QED BY <1>1, <1>3, Numbers
    <3>2. p \in Int
      <4> HIDE DEF n
      <4> QED BY <3>1
    <3> QED BY <3>1, <3>2
  <2> DEFINE table == Loaded(p, n, slow)
  <2>2. ~(size < HASH_UNIT) BY <1>3, Numbers
  <2>3. c = [NewContext EXCEPT !.currentOffset = KB64, !.tableType = "byU32", !.dictionary = p,
                               !.dictSize = n, !.table = table]
    BY <2>2 DEF LoadDict
  <2>4. /\ table \in Tables
        /\ \A h \in DOMAIN table : table[h] = 0 \/ table[h] \in (KB64 - n)..(KB64 - HASH_UNIT)
    <3> HIDE DEF n, p
    <3> QED BY <2>1, LoadedIs
  <2> HIDE DEF table, n, p, c
  <2>5. /\ c \in Contexts /\ c.currentOffset = KB64 /\ c.dictCtx = FALSE
        /\ c.dictSize = n /\ c.tableType = "byU32" /\ c.table = table
    BY <2>1, <2>3, <2>4, NewContextIs, Numbers DEF Contexts, Kinds
  <2>6. \A h \in DOMAIN c.table :
          c.table[h] = 0 \/ c.table[h] \in (KB64 - c.dictSize)..(KB64 - HASH_UNIT)
    BY <2>4, <2>5
  <2> QED BY <2>1, <2>2, <2>5, <2>6 DEF c
<1>4. size < HASH_UNIT \/ size >= HASH_UNIT BY Numbers
<1> QED BY <1>2, <1>3, <1>4

(* What LZ4_attach_dictionary leaves. *)
LEMMA AttachIs ==
  ASSUME ctx \in Contexts, NEW yes \in BOOLEAN
  PROVE  /\ Attach(yes) \in Contexts
         /\ Attach(yes).table = ctx.table /\ Attach(yes).tableType = ctx.tableType
         /\ Attach(yes).dictSize = ctx.dictSize
         /\ Attach(yes).dictCtx = (yes /\ lib.dictSize # 0)
         /\ Attach(yes).currentOffset =
              (IF yes /\ ctx.currentOffset = 0 THEN KB64 ELSE ctx.currentOffset)
<1>1. CASE ~yes BY <1>1 DEF Attach, Contexts
<1>2. CASE yes
  <2> DEFINE o == IF ctx.currentOffset = 0 THEN KB64 ELSE ctx.currentOffset
  <2>1. o \in Nat BY Numbers DEF Contexts
  <2>2. Attach(yes) = [ctx EXCEPT !.currentOffset = o, !.dictCtx = lib.dictSize # 0]
    BY <1>2 DEF Attach
  <2>3. (lib.dictSize # 0) \in BOOLEAN OBVIOUS
  <2> HIDE DEF o
  <2>4. /\ Attach(yes) \in Contexts
        /\ Attach(yes).table = ctx.table /\ Attach(yes).tableType = ctx.tableType
        /\ Attach(yes).dictSize = ctx.dictSize
        /\ Attach(yes).dictCtx = (lib.dictSize # 0)
        /\ Attach(yes).currentOffset = o
    BY <2>1, <2>2, <2>3 DEF Contexts
  <2> QED BY <1>2, <2>4 DEF o
<1> QED BY <1>1, <1>2

(* The size that LZ4_saveDict saves. *)
LEMMA SavedSizeIs ==
  ASSUME ctx \in Contexts, NEW n \in Nat
  PROVE  /\ SavedSize(n) \in Nat /\ SavedSize(n) \in {n, KB64, ctx.dictSize}
         /\ SavedSize(n) <= n /\ SavedSize(n) <= KB64 /\ SavedSize(n) <= ctx.dictSize
<1>1. n \in Int /\ KB64 \in Int /\ ctx.dictSize \in Int /\ ctx.dictSize \in Nat
  BY Numbers DEF Contexts
<1>2. SavedSize(n) = Min({n, KB64, ctx.dictSize}) BY DEF SavedSize
<1>3. /\ SavedSize(n) \in {n, KB64, ctx.dictSize}
      /\ SavedSize(n) <= n /\ SavedSize(n) <= KB64 /\ SavedSize(n) <= ctx.dictSize
  <2> DEFINE m == Min({n, KB64, ctx.dictSize})
  <2>1. m \in {n, KB64, ctx.dictSize} /\ m <= n /\ m <= KB64 /\ m <= ctx.dictSize
    BY <1>1, SmallestOf
  <2> HIDE DEF m
  <2> QED BY <1>2, <2>1 DEF m
<1>4. SavedSize(n) \in Nat BY <1>1, <1>3, Numbers
<1> QED BY <1>3, <1>4

(* What LZ4_renormDictT leaves. *)
LEMMA RenormIs ==
  ASSUME NEW c \in Contexts, NEW next \in Nat
  PROVE  LET d     == RenormDict(c, next)
             late  == U32(c.currentOffset + next) > IndexLimit
             delta == c.currentOffset - KB64
         IN /\ d \in Contexts /\ d.tableType = c.tableType /\ d.dictCtx = c.dictCtx
            /\ d.currentOffset = (IF late THEN KB64 ELSE c.currentOffset)
            /\ d.dictSize = (IF late /\ c.dictSize > KB64 THEN KB64 ELSE c.dictSize)
            /\ d.dictionary + d.dictSize = c.dictionary + c.dictSize
            /\ ~late => d.table = c.table
            /\ late => /\ DOMAIN d.table = DOMAIN c.table
                       /\ \A h \in DOMAIN c.table :
                            d.table[h] = (IF c.table[h] < delta THEN 0 ELSE c.table[h] - delta)
<1> DEFINE d     == RenormDict(c, next)
           late  == U32(c.currentOffset + next) > IndexLimit
           delta == c.currentOffset - KB64
           n     == Min({c.dictSize, KB64})
           table == [h \in DOMAIN c.table |-> IF c.table[h] < delta THEN 0 ELSE c.table[h] - delta]
<1>1. c.currentOffset \in Nat /\ c.dictSize \in Nat /\ c.dictionary \in Int /\ c.table \in Tables
  BY DEF Contexts
<1>2. n = (IF c.dictSize <= KB64 THEN c.dictSize ELSE KB64) BY <1>1, Numbers, SmallerOf
<1>3. n \in Nat /\ n = (IF c.dictSize > KB64 THEN KB64 ELSE c.dictSize)
  <2> HIDE DEF n
  <2> QED BY <1>1, <1>2, Numbers
<1>4. delta \in Int BY <1>1, Numbers
<1>5. table \in Tables /\ DOMAIN table = DOMAIN c.table
      /\ \A h \in DOMAIN c.table :
           table[h] = (IF c.table[h] < delta THEN 0 ELSE c.table[h] - delta)
  <2> HIDE DEF delta
  <2>1. DOMAIN c.table \subseteq Slots /\ \A h \in DOMAIN c.table : c.table[h] \in Nat
    BY <1>1, TableHas
  <2>2. \A h \in DOMAIN c.table : (IF c.table[h] < delta THEN 0 ELSE c.table[h] - delta) \in Nat
    BY <1>4, <2>1
  <2>3. DOMAIN table = DOMAIN c.table OBVIOUS
  <2>4. table \in [DOMAIN table -> Nat] BY <2>2
  <2>5. \A h \in DOMAIN c.table :
           table[h] = (IF c.table[h] < delta THEN 0 ELSE c.table[h] - delta)
    OBVIOUS
  <2> HIDE DEF table
  <2> QED BY <2>1, <2>3, <2>4, <2>5, TableIs
<1>6. CASE late
  <2>0. U32(c.currentOffset + next) \in Nat
    <3>1. c.currentOffset + next \in Nat BY <1>1
    <3> QED BY <3>1, U32Is
  <2>1. ~(U32(c.currentOffset + next) <= IndexLimit) BY <1>6, <2>0, Numbers
  <2>2. d = [c EXCEPT !.table = table, !.currentOffset = KB64, !.dictSize = n,
                      !.dictionary = c.dictionary + c.dictSize - n]
    BY <2>1 DEF RenormDict
  <2>3. c.dictionary + c.dictSize - n \in Int
        /\ (c.dictionary + c.dictSize - n) + n = c.dictionary + c.dictSize
    <3> HIDE DEF n
    <3> QED BY <1>1, <1>3
  <2> HIDE DEF d, table, n
  <2>4. /\ d \in Contexts /\ d.tableType = c.tableType /\ d.dictCtx = c.dictCtx
        /\ d.currentOffset = KB64 /\ d.dictSize = n /\ d.table = table
        /\ d.dictionary = c.dictionary + c.dictSize - n
    BY <1>1, <1>3, <1>5, <2>2, <2>3, Numbers DEF Contexts
  <2>5. d.dictionary + d.dictSize = c.dictionary + c.dictSize BY <2>3, <2>4
  <2> HIDE DEF delta
  <2>6. \A h \in DOMAIN c.table :
           d.table[h] = (IF c.table[h] < delta THEN 0 ELSE c.table[h] - delta)
    BY <1>5, <2>4
  <2>7. DOMAIN d.table = DOMAIN c.table BY <1>5, <2>4
  <2>8. d.dictSize = (IF late /\ c.dictSize > KB64 THEN KB64 ELSE c.dictSize)
    BY <1>3, <1>6, <2>4
  <2> QED BY <1>6, <2>4, <2>5, <2>6, <2>7, <2>8 DEF d, delta
<1>7. CASE ~late
  <2>0. U32(c.currentOffset + next) \in Nat
    <3>1. c.currentOffset + next \in Nat BY <1>1
    <3> QED BY <3>1, U32Is
  <2>1. U32(c.currentOffset + next) <= IndexLimit BY <1>7, <2>0, Numbers
  <2>2. d = c BY <2>1 DEF RenormDict
  <2> QED BY <1>7, <2>2
<1> QED BY <1>6, <1>7

(* What LZ4_compress_fast_continue leaves of the history. *)
LEMMA TrimIs ==
  ASSUME ctx \in Contexts, w.src \in Nat, w.size \in Nat
  PROVE  LET c == Trim(Uncut)
             d == RenormDict(ctx, w.size)
         IN /\ c \in Contexts /\ c.currentOffset = d.currentOffset /\ c.table = d.table
            /\ c.tableType = ctx.tableType /\ c.dictCtx = ctx.dictCtx
            /\ \/ c.dictSize = d.dictSize
               \/ /\ c.dictSize < d.dictSize /\ c.dictSize <= KB64
                  /\ c.dictSize = 0 \/ c.dictSize >= MINMATCH
            /\ HistoryEnd # w.src /\ w.size > 0 /\ ~ctx.dictCtx /\ c.dictSize > 0 =>
                 c.dictSize >= MINMATCH
<1> DEFINE c == Trim(Uncut)
           d == RenormDict(ctx, w.size)
           u == Uncut
           sourceEnd == w.src + w.size
           left == Min({HistoryEnd - sourceEnd, KB64})
           n    == IF left < MINMATCH THEN 0 ELSE left
<1>1. /\ d \in Contexts /\ d.tableType = ctx.tableType /\ d.dictCtx = ctx.dictCtx
      /\ d.dictSize = ctx.dictSize \/ (d.dictSize = KB64 /\ ctx.dictSize > KB64)
      /\ d.dictionary + d.dictSize = ctx.dictionary + ctx.dictSize
  BY RenormIs
<1>2. ctx.dictSize \in Nat /\ d.dictSize \in Nat /\ d.dictionary \in Int BY <1>1 DEF Contexts
<1>3. sourceEnd \in Nat OBVIOUS
<1>4. CASE Tiny
  <2>1. u = [d EXCEPT !.dictSize = 0, !.dictionary = w.src] BY <1>4 DEF Uncut
  <2>2. HistoryEnd = w.src /\ w.size > 0 BY <1>4 DEF HistoryEnd, Tiny
  <2>3. ~(sourceEnd < HistoryEnd) BY <2>2
  <2>4. c = u BY <2>3 DEF Trim
  <2> HIDE DEF c, d, u
  <2>5. /\ c \in Contexts /\ c.currentOffset = d.currentOffset /\ c.table = d.table
        /\ c.tableType = d.tableType /\ c.dictCtx = d.dictCtx /\ c.dictSize = 0
    <3>1. w.src \in Int /\ 0 \in Nat OBVIOUS
    <3> QED BY <1>1, <2>1, <2>4, <3>1 DEF Contexts
  <2>6. c.dictSize = d.dictSize \/ c.dictSize < d.dictSize BY <1>2, <2>5
  <2> QED BY <1>1, <2>2, <2>5, <2>6, Numbers DEF c, d
<1>5. CASE ~Tiny
  <2>1. u = d BY <1>5 DEF Uncut
  <2>2. HistoryEnd = (IF ctx.dictSize = 0 THEN NULL_ADDRESS ELSE ctx.dictionary + ctx.dictSize)
    BY <1>5 DEF HistoryEnd, DictEnd
  <2>3. HistoryEnd \in Int BY <1>2, <2>2 DEF NULL_ADDRESS, Contexts
  <2>4. HistoryEnd # w.src /\ w.size > 0 /\ ~ctx.dictCtx => d.dictSize >= 4
    <3>1. HistoryEnd = DictEnd BY <1>5 DEF HistoryEnd
    <3>2. HistoryEnd # w.src /\ w.size > 0 /\ ~ctx.dictCtx => ~(ctx.dictSize < 4)
      BY <1>5, <3>1 DEF Tiny, MINMATCH
    <3> HIDE DEF d
    <3> QED BY <1>1, <1>2, <3>2, Numbers
  <2>5. CASE d.dictionary < sourceEnd /\ sourceEnd < HistoryEnd
    <3>1. c = [d EXCEPT !.dictSize = n, !.dictionary = HistoryEnd - n]
      BY <2>1, <2>5 DEF Trim
    <3>2. HistoryEnd = d.dictionary + d.dictSize
      <4> HIDE DEF d
      <4> QED BY <1>1, <1>3, <2>2, <2>5 DEF NULL_ADDRESS
    <3>3. left = (IF HistoryEnd - sourceEnd <= KB64 THEN HistoryEnd - sourceEnd ELSE KB64)
      <4>1. HistoryEnd - sourceEnd \in Int BY <1>3, <2>3
      <4> QED BY <4>1, SmallerOf, Numbers
    <3>4. n \in Nat /\ n < d.dictSize /\ n <= KB64 /\ (n = 0 \/ n >= 4)
      <4> HIDE DEF left, d, sourceEnd
      <4> QED BY <1>2, <1>3, <2>3, <2>5, <3>2, <3>3, Numbers
    <3>5. HistoryEnd - n \in Int
      <4> HIDE DEF n
      <4> QED BY <2>3, <3>4
    <3> HIDE DEF c, d, n
    <3>6. /\ c \in Contexts /\ c.currentOffset = d.currentOffset /\ c.table = d.table
          /\ c.tableType = d.tableType /\ c.dictCtx = d.dictCtx /\ c.dictSize = n
      BY <1>1, <3>1, <3>4, <3>5 DEF Contexts
    <3>7. c.dictSize > 0 => c.dictSize >= MINMATCH BY <3>4, <3>6, Numbers
    <3>8. /\ c.dictSize < d.dictSize /\ c.dictSize <= KB64
          /\ c.dictSize = 0 \/ c.dictSize >= MINMATCH
      BY <3>4, <3>6, Numbers
    <3> QED BY <1>1, <3>6, <3>7, <3>8 DEF c, d
  <2>6. CASE ~(d.dictionary < sourceEnd /\ sourceEnd < HistoryEnd)
    <3>1. c = d BY <2>1, <2>6 DEF Trim
    <3> HIDE DEF d, c
    <3>2. HistoryEnd # w.src /\ w.size > 0 /\ ~ctx.dictCtx => d.dictSize >= MINMATCH
      BY <2>4, Numbers
    <3> QED BY <1>1, <3>1, <3>2 DEF c, d
  <2> QED BY <2>5, <2>6
<1> QED BY <1>4, <1>5

(* The parameters of a call. *)
LEMMA JobIs ==
  ASSUME NEW c, NEW d, NEW small, NEW type, NEW limit
  PROVE  LET j == Job(c, d, small, type, limit)
             from == IF d = "context" THEN lib ELSE c
         IN /\ j.start = c.currentOffset /\ j.size = w.size /\ j.dict = d
            /\ j.dictSize = from.dictSize /\ j.small = small /\ j.type = type
            /\ j.limit = limit /\ j.cap = (IF limit = "none" THEN 0 ELSE w.cap)
            /\ j.accel = Acceleration
            /\ j.dictTable = from.table /\ j.dictOffset = from.currentOffset
BY DEF Job
-----------------------------------------------------------------------------
(* What holds of the compressor at every stage.                            *)

AllCalls == UNION {CallsOf(p) : p \in Plans}
Stages   == {"idle", "begin", "search", "literals", "match", "next", "last", "done"}
Working  == stage \in {"search", "literals", "match", "next", "last"}

JobTyped ==
  /\ job.start \in Nat /\ job.size \in Int /\ job.dict \in {"none", "prefix", "external", "context"}
  /\ job.dictSize \in Nat /\ job.small \in BOOLEAN /\ job.type \in {"byU16", "byU32", "byPtr"}
  /\ job.limit \in {"none", "limited", "fill"} /\ job.cap \in Nat
  /\ job.accel \in Nat /\ job.accel >= 1 /\ job.dictTable \in Tables /\ job.dictOffset \in Nat

PlacesTyped ==
  /\ at \in Int /\ anchor \in Int /\ found \in Int /\ inDict \in BOOLEAN /\ filled \in Int
  /\ probe.next \in Int /\ probe.step \in Int /\ probe.nb \in Int
  /\ IsList(out) /\ tok \in Int /\ high \in Int /\ res.size \in Nat /\ res.consumed \in Int

Typed == /\ work \in Seq(AllCalls) /\ ctx \in Contexts /\ lib \in Contexts /\ stage \in Stages
         /\ JobTyped /\ PlacesTyped

(* Where the positions are: in order, in the block, and twelve bytes before *)
(* its end wherever a match is looked for.                                  *)
Along ==
  /\ stage = "begin" => Len(out) = 0 /\ high = 0
  /\ Working => /\ job.size \in 1..MAX_INPUT_SIZE /\ (job.limit = "fill" => job.cap >= 1)
                /\ job.start <= anchor /\ anchor <= stop
  /\ stage \in {"search", "literals", "match", "next"} => job.size >= 13
  /\ stage = "search" => anchor < probe.next /\ probe.step >= 1 /\ probe.nb >= 64
  /\ stage = "literals" => anchor < at /\ at = filled /\ at + 12 <= stop
  /\ stage = "match" => anchor <= at /\ at + 12 <= stop
  /\ stage = "next" => at = anchor /\ at + 12 <= stop /\ job.start + 4 <= at

(* How much is written: never more than the bound of what it stands for,    *)
(* nor so much that what must follow finds no place.                        *)
Capacity == IF job.limit = "none" THEN CompressBound(job.size) ELSE job.cap

Grown ==
  /\ stage # "idle" => high <= Capacity /\ Len(out) <= Capacity
  /\ stage \in {"search", "literals", "next", "last"} /\ job.limit # "fill" =>
       Len(out) <= Bound(anchor - job.start)
  /\ stage \in {"search", "literals", "last"} /\ job.limit = "fill" => Len(out) + 1 <= job.cap
  /\ stage = "match" =>
       /\ tok \in 1..Len(out)
       /\ job.limit # "fill" =>
            Len(out) <= Bound(anchor - job.start) + 1 + (at - anchor) + More(at - anchor)
       /\ job.limit = "limited" => Len(out) + 2 <= job.cap
       /\ job.limit = "fill" => tok <= job.cap
  /\ stage = "next" /\ job.limit # "none" => Len(out) + 6 <= job.cap
  /\ stage = "done" /\ job.size \in 1..MAX_INPUT_SIZE =>
       /\ job.limit = "none" \/ job.cap >= CompressBound(job.size) => res.size > 0
       /\ job.limit = "fill" /\ job.cap > 0 => res.size > 0
       /\ res.size > 0 /\ job.limit # "fill" => res.consumed = job.size

FInv == Typed /\ Along /\ Grown

(* Which is more than what is promised. *)
LEMMA FInvFits ==
  ASSUME FInv
  PROVE  Fits
BY DEF FInv, Grown, Fits, Capacity

(* A state like it is as good. *)
LEMMA SameFInv == FInv /\ UNCHANGED <<compVars, work, lib>> => FInv'
<1> SUFFICES ASSUME FInv, UNCHANGED <<compVars, work, lib>> PROVE FInv' OBVIOUS
<1>1. UNCHANGED <<job, ctx, stage, at, anchor, found, inDict, probe, filled, out, tok, high, res, work, lib>>
  BY DEF compVars
<1>2. Typed' BY <1>1 DEF FInv, Typed, JobTyped, PlacesTyped
<1>3. Along' BY <1>1 DEF FInv, Along, Working, stop
<1>4. Grown' BY <1>1 DEF FInv, Grown, Capacity
<1> QED BY <1>2, <1>3, <1>4 DEF FInv

(* The room there is. *)
LEMMA CapacityIs ==
  ASSUME JobTyped
  PROVE  /\ Capacity \in Nat /\ CompressBound(job.size) \in Nat
         /\ job.size \in 0..MAX_INPUT_SIZE => CompressBound(job.size) = Bound(job.size) + 16
<1>1. CASE job.size \in 0..MAX_INPUT_SIZE
  <2>1. job.size \in Nat BY <1>1
  <2>2. Bound(job.size) \in Nat BY ZenonT(60), <2>1, Quotient
  <2>3. CompressBound(job.size) = Bound(job.size) + 16 BY <1>1 DEF CompressBound, Bound
  <2> QED BY <2>2, <2>3 DEF Capacity, JobTyped
<1>2. CASE job.size \notin 0..MAX_INPUT_SIZE
  BY <1>2 DEF Capacity, CompressBound, JobTyped
<1> QED BY <1>1, <1>2

(* The bound of a part of the block, and of one more part.                  *)
LEMMA PartBound ==
  ASSUME NEW a \in Nat, NEW b \in Nat, NEW n \in Nat, a + b <= n
  PROVE  Bound(a) + Bound(b) <= Bound(n) /\ Bound(a) \in Nat /\ Bound(b) \in Nat /\ Bound(n) \in Nat
         /\ Bound(a + b) <= Bound(n) /\ Bound(a + b) \in Nat
<1>1. Bound(a) \in Nat /\ Bound(b) \in Nat /\ Bound(n) \in Nat BY Quotient
<1>2. a + b \in Nat /\ n - (a + b) \in Nat /\ (a + b) + (n - (a + b)) = n OBVIOUS
<1>3. Bound(a + b) \in Nat /\ Bound(n - (a + b)) \in Nat BY <1>2, Quotient
<1>4. Bound(a + b) + Bound(n - (a + b)) <= Bound((a + b) + (n - (a + b))) BY <1>2, BoundAdds
<1>5. Bound((a + b) + (n - (a + b))) = Bound(n) BY <1>2
<1>6. Bound(a + b) <= Bound(n)
  <2> DEFINE x == Bound(a + b)
             y == Bound(n - (a + b))
             z == Bound(n)
  <2>1. x \in Nat /\ y \in Nat /\ z \in Nat /\ x + y <= z BY <1>1, <1>3, <1>4, <1>5
  <2> HIDE DEF x, y, z
  <2>2. x <= z BY <2>1
  <2> QED BY <2>2 DEF x, z
<1>7. Bound(a) + Bound(b) <= Bound(a + b) BY BoundAdds
<1>8. Bound(a) + Bound(b) <= Bound(n)
  <2> HIDE DEF Bound
  <2> QED BY <1>1, <1>3, <1>6, <1>7
<1> QED BY <1>1, <1>3, <1>6, <1>8

(* The larger of the old and the new place that was touched.                *)
LEMMA HighIs ==
  ASSUME NEW end \in Int, high \in Int, Wrote(end), NEW n \in Int, high <= n, end <= n
  PROVE  high' \in Int /\ high' <= n
BY GreaterOf DEF Wrote
-----------------------------------------------------------------------------
(* The steps of the compressor.                                            *)

(* A refused input. *)
LEMMA RefuseFits ==
  ASSUME FInv, RefuseInput, UNCHANGED <<work, lib>>
  PROVE  FInv'
<1>1. /\ stage = "begin" /\ stage' = "done" /\ res' = [size |-> 0, consumed |-> 0]
      /\ UNCHANGED <<job, ctx, at, anchor, found, inDict, probe, filled, out, tok, high, work, lib>>
      /\ \/ job.size \notin 0..MAX_INPUT_SIZE
         \/ job.size = 0 /\ job.limit # "none" /\ job.cap <= 0
         \/ job.size > 0 /\ job.limit = "fill" /\ job.cap < 1
  BY DEF RefuseInput, Deliver
<1>2. Typed' BY <1>1 DEF FInv, Typed, JobTyped, PlacesTyped, Stages
<1>3. Along' BY <1>1 DEF FInv, Along, Working, stop
<1>4. job.size \in 1..MAX_INPUT_SIZE => job.limit = "fill" /\ job.cap < 1
  BY <1>1, Numbers DEF FInv, Typed, JobTyped
<1>5. job.cap \in Nat /\ CompressBound(job.size) \in Nat
      /\ (job.size \in 1..MAX_INPUT_SIZE => CompressBound(job.size) >= 16)
  <2>1. JobTyped /\ job.cap \in Nat BY DEF FInv, Typed, JobTyped
  <2>2. job.size \in 1..MAX_INPUT_SIZE => job.size \in 0..MAX_INPUT_SIZE /\ job.size \in Nat
    BY Numbers
  <2>3. job.size \in Nat => Bound(job.size) \in Nat BY ZenonT(60), Quotient
  <2> QED BY <2>1, <2>2, <2>3, CapacityIs
<1>6. Grown' BY <1>1, <1>4, <1>5 DEF FInv, Grown, Capacity
<1> QED BY <1>2, <1>3, <1>6 DEF FInv

(* An empty block. *)
LEMMA EmptyFits ==
  ASSUME FInv, EmptyBlock, UNCHANGED <<work, lib>>
  PROVE  FInv'
<1>1. /\ stage = "begin" /\ stage' = "done" /\ res' = [size |-> 1, consumed |-> 0]
      /\ job.size = 0 /\ (job.limit = "none" \/ job.cap > 0) /\ out' = <<0>> /\ Wrote(1)
      /\ UNCHANGED <<job, ctx, at, anchor, found, inDict, probe, filled, tok, work, lib>>
  BY DEF EmptyBlock, Deliver
<1>2. JobTyped /\ high = 0 /\ high \in Int BY <1>1 DEF FInv, Typed, Along
<1>3. Capacity \in Nat /\ Capacity >= 1
  <2>1. job.size \in 0..MAX_INPUT_SIZE BY <1>1, Numbers
  <2>2. CompressBound(job.size) >= 16
    <3>1. Bound(job.size) \in Nat BY <1>1, Quotient
    <3> QED BY <1>2, <2>1, <3>1, CapacityIs
  <2> QED BY <1>1, <1>2, <2>2, CapacityIs DEF Capacity, JobTyped
<1>4. high' \in Int /\ high' <= Capacity BY <1>1, <1>2, <1>3, HighIs
<1>5. IsList(out') /\ Len(out') = 1
  <2>1. IsList(<<0>>) /\ Len(<<0>>) = 1 BY DEF IsList
  <2> QED BY <1>1, <2>1
<1>6. Typed' BY <1>1, <1>4, <1>5 DEF FInv, Typed, JobTyped, PlacesTyped, Stages
<1>7. Along' BY <1>1 DEF FInv, Along, Working, stop
<1>8. Capacity' = Capacity BY <1>1 DEF Capacity
<1>9. Grown' BY <1>1, <1>3, <1>4, <1>5, <1>8 DEF FInv, Grown
<1> QED BY <1>6, <1>7, <1>9 DEF FInv

(* The stream that moves on before a block is compressed.                   *)
Moved == [ctx EXCEPT
            !.dictCtx       = @ /\ job.dict # "context",
            !.dictSize      = IF job.dict = "context" THEN job.size ELSE @ + job.size,
            !.currentOffset = @ + job.size,
            !.tableType     = job.type]

(* It is a stream, a block further. *)
LEMMA MovedIs ==
  ASSUME Typed, job.size \in Nat
  PROVE  /\ Moved \in Contexts /\ Moved.table = ctx.table /\ Moved.tableType = job.type
         /\ Moved.currentOffset = ctx.currentOffset + job.size
         /\ Moved.dictSize = (IF job.dict = "context" THEN job.size ELSE ctx.dictSize + job.size)
         /\ Moved.dictCtx = (ctx.dictCtx /\ job.dict # "context")
<1> DEFINE d == ctx.dictCtx /\ job.dict # "context"
           n == IF job.dict = "context" THEN job.size ELSE ctx.dictSize + job.size
           o == ctx.currentOffset + job.size
           m == Moved
<1>1. m = [ctx EXCEPT !.dictCtx = d, !.dictSize = n, !.currentOffset = o, !.tableType = job.type]
  BY DEF Moved
<1>2. d \in BOOLEAN /\ n \in Nat /\ o \in Nat /\ job.type \in Kinds /\ ctx \in Contexts
  <2>1. /\ ctx \in Contexts /\ ctx.currentOffset \in Nat /\ ctx.dictSize \in Nat
        /\ ctx.dictCtx \in BOOLEAN
    BY DEF Typed, Contexts
  <2>2. job.type \in Kinds BY DEF Typed, JobTyped, Kinds
  <2>3. n \in Nat /\ o \in Nat BY <2>1
  <2>4. d \in BOOLEAN OBVIOUS
  <2> QED BY <2>1, <2>2, <2>3, <2>4
<1> HIDE DEF d, n, o, m
<1>3. /\ m \in Contexts /\ m.table = ctx.table /\ m.tableType = job.type
      /\ m.currentOffset = o /\ m.dictSize = n /\ m.dictCtx = d
  BY <1>1, <1>2 DEF Contexts
<1> QED BY <1>3 DEF d, n, o, m

(* A stream with another table. *)
LEMMA WithTable ==
  ASSUME NEW c \in Contexts, NEW tt \in Tables
  PROVE  LET d == [c EXCEPT !.table = tt]
         IN /\ d \in Contexts /\ d.table = tt /\ d.tableType = c.tableType
            /\ d.currentOffset = c.currentOffset /\ d.dictSize = c.dictSize /\ d.dictCtx = c.dictCtx
BY DEF Contexts

(* What the start of a block changes. *)
LEMMA BeginIs ==
  ASSUME FInv, BeginBlock
  PROVE  /\ job.size \in 1..MAX_INPUT_SIZE /\ job.size \in Nat /\ (job.limit = "fill" => job.cap >= 1)
         /\ anchor' = job.start /\ at' = job.start
         /\ UNCHANGED <<job, found, inDict, filled, out, tok, high, res>>
         /\ ctx' \in Contexts
         /\ \/ job.size < 13 /\ stage' = "last" /\ probe' = probe /\ ctx' = Moved
            \/ /\ job.size >= 13 /\ stage' = "search"
               /\ probe' = [next |-> job.start + 1, step |-> 1, nb |-> job.accel * 64]
               /\ ctx' = [Moved EXCEPT !.table = Put(ctx.table, job.start)]
<1>1. job.size \in 1..MAX_INPUT_SIZE /\ job.size \in Nat BY Numbers DEF BeginBlock
<1>2. Moved \in Contexts /\ Moved.table = ctx.table BY <1>1, MovedIs DEF FInv
<1>3. 2^skipTrigger = 64 BY DEF skipTrigger
<1>4. Put(ctx.table, job.start) \in Tables
  <2>1. ctx.table \in Tables /\ job.start \in Nat BY DEF FInv, Typed, Contexts, JobTyped
  <2> QED BY <2>1, PutIs
<1>5. [Moved EXCEPT !.table = Put(@, job.start)] = [Moved EXCEPT !.table = Put(ctx.table, job.start)]
  BY <1>2
<1>6. \/ job.size < minLength /\ stage' = "last" /\ probe' = probe /\ ctx' = Moved
      \/ /\ ~(job.size < minLength) /\ stage' = "search" /\ SearchFrom(job.start + 1)
         /\ ctx' = [Moved EXCEPT !.table = Put(@, job.start)]
  BY DEF BeginBlock, Moved
<1>7. ctx' \in Contexts BY <1>2, <1>4, <1>5, <1>6, WithTable
<1>8. \/ job.size < 13 /\ stage' = "last" /\ probe' = probe /\ ctx' = Moved
      \/ /\ job.size >= 13 /\ stage' = "search"
         /\ probe' = [next |-> job.start + 1, step |-> 1, nb |-> job.accel * 64]
         /\ ctx' = [Moved EXCEPT !.table = Put(ctx.table, job.start)]
  BY <1>1, <1>3, <1>5, <1>6, Numbers DEF SearchFrom
<1>9. /\ anchor' = job.start /\ at' = job.start /\ (job.limit = "fill" => job.cap >= 1)
      /\ UNCHANGED <<job, found, inDict, filled, out, tok, high, res>>
  BY DEF BeginBlock
<1> QED BY <1>1, <1>7, <1>8, <1>9

(* The start of a block. *)
LEMMA BeginFits ==
  ASSUME FInv, BeginBlock, UNCHANGED <<work, lib>>
  PROVE  FInv'
<1>1. /\ job.size \in 1..MAX_INPUT_SIZE /\ job.size \in Nat /\ (job.limit = "fill" => job.cap >= 1)
      /\ anchor' = job.start /\ at' = job.start
      /\ UNCHANGED <<job, found, inDict, filled, out, tok, high, res>>
      /\ ctx' \in Contexts
  BY BeginIs
<1>2. \/ job.size < 13 /\ stage' = "last" /\ probe' = probe
      \/ /\ job.size >= 13 /\ stage' = "search"
         /\ probe' = [next |-> job.start + 1, step |-> 1, nb |-> job.accel * 64]
  BY BeginIs
<1>3. /\ stage = "begin" /\ Len(out) = 0 /\ high = 0
  BY DEF BeginBlock, FInv, Along
<1>4. job.start \in Nat /\ job.accel \in Nat /\ job.accel >= 1 /\ JobTyped
  BY DEF FInv, Typed, JobTyped
<1>5. /\ probe'.next \in Int /\ probe'.step \in Int /\ probe'.nb \in Int
      /\ stage' = "search" => job.start < probe'.next /\ probe'.step >= 1 /\ probe'.nb >= 64
  <2>1. CASE probe' = probe /\ stage' = "last" BY <2>1 DEF FInv, Typed, PlacesTyped
  <2>2. CASE probe' = [next |-> job.start + 1, step |-> 1, nb |-> job.accel * 64]
    <3>1. job.accel * 64 \in Int /\ job.accel * 64 >= 64 BY <1>4
    <3> QED BY <1>4, <2>2, <3>1
  <2> QED BY <1>2, <2>1, <2>2
<1>6. Typed'
  <2>1. stage' \in Stages BY <1>2 DEF Stages
  <2>2. job.start \in Int BY <1>4
  <2> QED BY <1>1, <1>5, <2>1, <2>2 DEF FInv, Typed, JobTyped, PlacesTyped
<1>7. Along'
  <2>1. job.start <= job.start + job.size BY <1>1, <1>4
  <2> QED BY <1>1, <1>2, <1>4, <1>5, <2>1 DEF Along, Working, stop
<1>8. Grown'
  <2>1. Capacity \in Nat /\ Capacity' = Capacity BY <1>1, <1>4, CapacityIs DEF Capacity
  <2>2. Bound(anchor' - job'.start) \in Nat
    <3>1. anchor' - job'.start = 0 BY <1>1, <1>4
    <3>2. 0 \in Nat OBVIOUS
    <3>3. Bound(0) \in Nat BY <3>2, Quotient
    <3> QED BY <3>1, <3>3
  <2>3. high' = 0 /\ Len(out') = 0 BY <1>1, <1>3
  <2>4. job' = job BY <1>1
  <2>5. stage' \in {"search", "last"} BY <1>2
  <2> HIDE DEF Bound
  <2> QED BY <1>1, <2>1, <2>2, <2>3, <2>4, <2>5 DEF Grown
<1> QED BY <1>6, <1>7, <1>8 DEF FInv

(* The end of the search. *)
LEMMA SearchEndsFits ==
  ASSUME FInv, SearchEnds, UNCHANGED <<work, lib>>
  PROVE  FInv'
<1>1. /\ stage = "search" /\ stage' = "last"
      /\ UNCHANGED <<job, ctx, at, anchor, found, inDict, probe, filled, out, tok, high, res, work, lib>>
  BY DEF SearchEnds
<1>2. Typed' BY <1>1 DEF FInv, Typed, JobTyped, PlacesTyped, Stages
<1>3. Along' BY <1>1 DEF FInv, Along, Working, stop
<1>4. Grown' BY <1>1 DEF FInv, Grown, Capacity
<1> QED BY <1>2, <1>3, <1>4 DEF FInv

(* A position that is looked up. *)
LEMMA ProbedIs ==
  ASSUME FInv, Probed
  PROVE  /\ stage = "search" /\ probe.next \in Nat /\ job.start < probe.next
         /\ probe.next + probe.step + 11 <= stop /\ probe.next + 12 <= stop
         /\ ctx' = [ctx EXCEPT !.table = Put(ctx.table, probe.next)] /\ ctx' \in Contexts
         /\ ctx.table \in Tables
<1>1. /\ stage = "search" /\ job.start \in Nat /\ probe.next \in Int /\ probe.step \in Int
      /\ job.start <= anchor /\ anchor < probe.next /\ probe.step >= 1 /\ anchor \in Int
      /\ stop \in Int
  BY SMTT(60) DEF Probed, FInv, Typed, JobTyped, PlacesTyped, Along, Working, stop
<1>2. probe.next + probe.step + 11 <= stop
  <2>1. ~(probe.next + probe.step > stop - MFLIMIT + 1)
    BY DEF Probed, LastProbe, mflimitPlusOne
  <2> QED BY <1>1, <2>1, Numbers
<1>3. probe.next \in Nat BY <1>1
<1>4. ctx.table \in Tables /\ ctx \in Contexts BY DEF FInv, Typed, Contexts
<1>5. Put(ctx.table, probe.next) \in Tables BY <1>3, <1>4, PutIs
<1>6. ctx' = [ctx EXCEPT !.table = Put(ctx.table, probe.next)] BY DEF Probed
<1>7. ctx' \in Contexts BY <1>4, <1>5, <1>6, WithTable
<1> QED BY <1>1, <1>2, <1>3, <1>4, <1>6, <1>7

(* A position without a match. *)
LEMMA MissFits ==
  ASSUME FInv, Miss, UNCHANGED <<work, lib>>
  PROVE  FInv'
<1>1. /\ probe.next \in Nat /\ ctx' \in Contexts /\ stage = "search" BY ProbedIs DEF Miss
<1>2. /\ probe' = [next |-> probe.next + probe.step, step |-> probe.nb \div 2^skipTrigger,
                   nb |-> probe.nb + 1]
      /\ UNCHANGED <<job, stage, at, anchor, found, inDict, filled, out, tok, high, res, work, lib>>
  BY DEF Miss, Advance
<1>3. /\ probe.step \in Int /\ probe.step >= 1 /\ probe.nb \in Int /\ probe.nb >= 64
      /\ anchor < probe.next /\ anchor \in Int
  BY <1>1 DEF FInv, Typed, PlacesTyped, Along
<1>4. probe.nb \div 2^skipTrigger \in Int /\ probe.nb \div 2^skipTrigger >= 1
  <2>1. 2^skipTrigger = 64 BY DEF skipTrigger
  <2>2. \A n \in Nat : n >= 64 => n \div 64 \in Int /\ n \div 64 >= 1 OBVIOUS
  <2> QED BY <1>3, <2>1, <2>2
<1>5. /\ probe'.next \in Int /\ probe'.step \in Int /\ probe'.nb \in Int
      /\ anchor < probe'.next /\ probe'.step >= 1 /\ probe'.nb >= 64
  BY <1>1, <1>2, <1>3, <1>4
<1>6. Typed' BY <1>1, <1>2, <1>5 DEF FInv, Typed, JobTyped, PlacesTyped
<1>7. Along' BY <1>1, <1>2, <1>5 DEF FInv, Along, Working, stop
<1>8. Grown' BY <1>1, <1>2 DEF FInv, Grown, Capacity
<1> QED BY <1>6, <1>7, <1>8 DEF FInv

(* A match. *)
LEMMA HitFits ==
  ASSUME FInv, Hit, UNCHANGED <<work, lib>>
  PROVE  FInv'
<1>1. /\ probe.next \in Nat /\ ctx' \in Contexts /\ stage = "search" /\ probe.next + 12 <= stop
      /\ ctx.table \in Tables
  BY ProbedIs DEF Hit
<1>2. /\ at' = probe.next /\ filled' = probe.next /\ found' = Candidate(ctx.table, probe.next)
      /\ inDict' = Elsewhere(found') /\ stage' = "literals"
      /\ UNCHANGED <<job, anchor, probe, out, tok, high, res, work, lib>>
  BY DEF Hit
<1>3. job.start \in Int /\ job.dictTable \in Tables /\ job.dictOffset \in Int
  BY DEF FInv, Typed, JobTyped
<1>4. found' \in Int BY <1>1, <1>2, <1>3, CandidateInt
<1>5. inDict' \in BOOLEAN BY <1>2 DEF Elsewhere
<1>6. Typed' BY <1>1, <1>2, <1>4, <1>5 DEF FInv, Typed, JobTyped, PlacesTyped, Stages
<1>7. anchor < probe.next BY <1>1 DEF FInv, Along
<1>8. Along' BY <1>1, <1>2, <1>7 DEF FInv, Along, Working, stop
<1>9. Grown' BY <1>1, <1>2 DEF FInv, Grown, Capacity
<1> QED BY <1>6, <1>8, <1>9 DEF FInv

(* A compression that is given up for lack of room.                         *)
LEMMA GiveUpFits ==
  ASSUME FInv, Working, Deliver(0, 0), UNCHANGED <<work, lib>>, high' \in Int, high' <= Capacity,
         UNCHANGED <<job, ctx, at, anchor, found, inDict, probe, filled, out, tok>>,
         job.limit = "limited", job.cap < CompressBound(job.size)
  PROVE  FInv'
<1>1. stage' = "done" /\ res' = [size |-> 0, consumed |-> 0] /\ stage # "idle"
  BY DEF Deliver, Working
<1>2. Typed' BY <1>1 DEF FInv, Typed, JobTyped, PlacesTyped, Stages
<1>3. Along' BY <1>1 DEF FInv, Along, Working, stop
<1>4. Capacity' = Capacity BY DEF Capacity
<1>5. job.cap \in Nat /\ CompressBound(job.size) \in Nat
  BY CapacityIs DEF FInv, Typed, JobTyped
<1>6. Grown' BY <1>1, <1>4, <1>5 DEF FInv, Grown
<1> QED BY <1>2, <1>3, <1>6 DEF FInv

(* A token, the further bytes of a length and the literals. *)
LEMMA LiteralsWritten ==
  ASSUME NEW ss, IsList(ss), NEW i \in Int, NEW n \in Nat
  PROVE  LET written == ss \o <<16 * Bits(n, RUN_MASK)>> \o MoreBytes(n, RUN_MASK) \o Text(i, n)
         IN IsList(written) /\ Len(written) = Len(ss) + 1 + More(n) + n
<1> DEFINE t1 == <<16 * Bits(n, RUN_MASK)>>
           t2 == MoreBytes(n, RUN_MASK)
           t3 == Text(i, n)
<1>1. IsList(t1) /\ Len(t1) = 1 BY ListOne
<1>2. IsList(t2) /\ Len(t2) = More(n) /\ More(n) \in Nat BY MoreBytesIs, Numbers
<1>3. IsList(t3) /\ Len(t3) = n
  <2>1. t3 = [k \in 1..n |-> t3[k]] BY DEF Text
  <2> HIDE DEF t3
  <2> QED BY <2>1, ListMade
<1> HIDE DEF t1, t2, t3
<1>4. IsList(ss \o t1) /\ Len(ss \o t1) = Len(ss) + 1 BY <1>1, ListConcat
<1>5. IsList(ss \o t1 \o t2) /\ Len(ss \o t1 \o t2) = Len(ss) + 1 + More(n)
  BY <1>2, <1>4, ListConcat
<1>6. IsList(ss \o t1 \o t2 \o t3) /\ Len(ss \o t1 \o t2 \o t3) = Len(ss) + 1 + More(n) + n
  BY <1>3, <1>5, ListConcat
<1> QED BY <1>6 DEF t1, t2, t3

(* The literals of a sequence fit where no limit is checked, and where the  *)
(* checks are passed; with room for the bound they are passed.              *)
LEMMA LiteralsFit ==
  ASSUME NEW len \in Nat, NEW past \in Nat, NEW run \in Nat, NEW n \in Nat, past + run + 12 <= n,
         NEW cap \in Nat
  PROVE  /\ len <= Bound(past) => /\ len + 1 + More(run) + run <= Bound(past) + 1 + run + More(run)
                                  /\ len + 1 + More(run) + run + 8 <= Bound(n) + 16
                                  /\ len + 1 + run + 8 + run \div 255 <= Bound(n) + 16
         /\ len + 1 + run + 8 + run \div 255 <= cap =>
                /\ len + 1 + More(run) + run + 2 <= cap
                /\ len + 1 + More(run) + Wide(run) <= cap
<1> DEFINE x == Bound(past)
           y == Bound(run)
           z == Bound(n)
           m == More(run)
           d == run \div 255
           v == Wide(run)
<1>1. x \in Nat /\ y \in Nat /\ z \in Nat /\ x + y <= z
  <2>1. past + run <= n OBVIOUS
  <2> QED BY <2>1, PartBound
<1>2. run + m <= y + 1 /\ (run < 15 => m = 0) /\ m <= d + 1 BY LiteralsBound
<1>3. m \in Nat /\ d \in Nat /\ y = run + d BY Quotient DEF Bound
<1>4. v \in Nat /\ v <= run + 8 /\ (run > 0 => v <= run + 7) BY Overshoot
<1> HIDE DEF x, y, z, m, d, v
<1>5. len <= x => /\ len + 1 + m + run <= x + 1 + run + m
                  /\ len + 1 + m + run + 8 <= z + 16
                  /\ len + 1 + run + 8 + d <= z + 16
  BY <1>1, <1>2, <1>3
<1>6. ASSUME len + 1 + run + 8 + d <= cap
      PROVE  len + 1 + m + run + 2 <= cap /\ len + 1 + m + v <= cap
  <2>1. CASE run = 0
    <3>1. m = 0 BY <1>2, <2>1
    <3> QED BY <1>3, <1>4, <1>6, <2>1, <3>1
  <2>2. CASE run > 0 BY <1>2, <1>3, <1>4, <1>6, <2>2
  <2> QED BY <2>1, <2>2
<1> QED BY <1>5, <1>6 DEF x, z, m, d, v

(* The places of the literals. *)
LEMMA LiteralsPlaces ==
  ASSUME FInv, stage = "literals"
  PROVE  LET run == at - CatchUp - anchor
         IN /\ run \in Nat /\ anchor - job.start \in Nat /\ job.size \in Nat
            /\ (anchor - job.start) + run + 12 <= job.size
            /\ at - CatchUp \in Int /\ found - CatchUp \in Int /\ anchor <= at - CatchUp
            /\ at - CatchUp + 12 <= stop /\ at - CatchUp - anchor = run
<1>1. /\ at \in Int /\ anchor \in Int /\ found \in Int /\ job.start \in Nat /\ job.size \in Int
      /\ anchor < at /\ at + 12 <= stop /\ job.start <= anchor /\ stop = job.start + job.size
  BY DEF FInv, Typed, JobTyped, PlacesTyped, Along, Working, stop
<1>2. CatchUp \in Nat /\ CatchUp <= at - anchor BY <1>1, CatchUpIs
<1> HIDE DEF stop
<1> QED BY <1>1, <1>2

(* The literals of a sequence. *)
LEMMA LiteralsFits ==
  ASSUME FInv, EncodeLiterals, UNCHANGED <<work, lib>>
  PROVE  FInv'
<1> DEFINE run  == at - CatchUp - anchor
           past == anchor - job.start
           op1  == Len(out) + 1
           wide == Wide(run)
           d == run \div 255
           m == More(run)
           b == Bound(past)
           z == Bound(job.size)
           n == Len(out)
<1>1. /\ run \in Nat /\ past \in Nat /\ job.size \in Nat /\ past + run + 12 <= job.size
      /\ at - CatchUp \in Int /\ found - CatchUp \in Int /\ anchor <= at - CatchUp
      /\ at - CatchUp + 12 <= stop /\ at - CatchUp - anchor = run
  BY LiteralsPlaces DEF EncodeLiterals
<1>2. /\ stage = "literals" /\ Working /\ JobTyped /\ job.cap \in Nat /\ Len(out) \in Nat
      /\ job.size \in 0..MAX_INPUT_SIZE /\ high \in Int /\ high <= Capacity
      /\ job.limit \in {"none", "limited", "fill"} /\ IsList(out) /\ job.size >= 13
      /\ job.limit # "fill" => Len(out) <= Bound(past)
  BY SMTT(60), <1>1, ListPlaces
     DEF EncodeLiterals, FInv, Typed, JobTyped, PlacesTyped, Along, Grown, Working
<1>3. /\ n <= b => /\ n + 1 + m + run <= b + 1 + run + m
                   /\ n + 1 + m + run + 8 <= z + 16
                   /\ n + 1 + run + 8 + d <= z + 16
      /\ n + 1 + run + 8 + d <= job.cap => n + 1 + m + run + 2 <= job.cap /\ n + 1 + m + wide <= job.cap
  <2> HIDE DEF run, past, n
  <2>1. n \in Nat /\ past \in Nat /\ run \in Nat /\ job.size \in Nat /\ job.cap \in Nat
        /\ past + run + 12 <= job.size
    BY <1>1, <1>2 DEF n
  <2> QED BY ZenonT(60), <2>1, LiteralsFit
<1>4. /\ Capacity \in Nat /\ CompressBound(job.size) = z + 16
      /\ Capacity = IF job.limit = "none" THEN z + 16 ELSE job.cap
  BY <1>2, CapacityIs DEF Capacity
<1>5. m \in Nat /\ d \in Nat /\ (run + 240) \div 255 = m /\ z \in Nat
      /\ wide \in Nat /\ wide <= run + 8
  <2> HIDE DEF run
  <2>1. m \in Nat /\ d \in Nat /\ z \in Nat BY ZenonT(60), <1>1, Quotient
  <2>2. (run + 240) \div 255 = m BY DEF More
  <2> QED BY ZenonT(60), <1>1, <2>1, <2>2, Overshoot
<1>6. \/ /\ job.limit = "limited" /\ op1 + run + (2 + 1 + LASTLITERALS) + run \div 255 > job.cap
         /\ GiveUp
      \/ /\ job.limit = "fill"
         /\ stage' = "last"
         /\ UNCHANGED <<job, ctx, at, anchor, found, inDict, probe, filled, out, tok, high, res>>
      \/ /\ ~(job.limit = "limited" /\ op1 + run + (2 + 1 + LASTLITERALS) + run \div 255 > job.cap)
         /\ ~(job.limit = "fill" /\ op1 + (run + 240) \div 255 + run + 2 + 1 + MFLIMIT - MINMATCH > job.cap)
         /\ at' = at - CatchUp /\ found' = found - CatchUp
         /\ out' = out \o <<16 * Bits(run, RUN_MASK)>> \o MoreBytes(run, RUN_MASK)
                       \o Text(anchor, run)
         /\ tok' = op1 /\ Wrote(Len(out') - run + wide) /\ stage' = "match"
         /\ UNCHANGED <<job, ctx, anchor, inDict, probe, filled, res>>
  BY SMTT(60) DEF EncodeLiterals, Wide
<1> HIDE DEF run, past, wide
<1>7. CASE /\ job.limit = "limited" /\ op1 + run + (2 + 1 + LASTLITERALS) + run \div 255 > job.cap
           /\ GiveUp
  <2>1. job.cap < CompressBound(job.size)
    <3>1. n + 1 + run + (2 + 1 + 5) + d > job.cap BY <1>7, Numbers
    <3>2. n <= b BY <1>2, <1>7
    <3>3. n \in Nat /\ job.cap \in Nat BY <1>2
    <3> HIDE DEF n, b, d, z, m
    <3> QED BY <1>1, <1>3, <1>4, <1>5, <3>1, <3>2, <3>3
  <2>2. /\ Deliver(0, 0)
        /\ UNCHANGED <<job, ctx, at, anchor, found, inDict, probe, filled, out, tok, high>>
    BY <1>7 DEF GiveUp
  <2>3. high' \in Int /\ high' <= Capacity BY <1>2, <2>2
  <2> QED BY <1>2, <1>7, <2>1, <2>2, <2>3, GiveUpFits
<1>8. CASE /\ job.limit = "fill"
           /\ stage' = "last"
           /\ UNCHANGED <<job, ctx, at, anchor, found, inDict, probe, filled, out, tok, high, res>>
  <2>1. Typed' BY <1>8 DEF FInv, Typed, JobTyped, PlacesTyped, Stages
  <2>2. Along' BY <1>2, <1>8 DEF FInv, Along, Working, stop
  <2>3. Grown' BY <1>2, <1>8 DEF FInv, Grown, Capacity
  <2> QED BY <2>1, <2>2, <2>3 DEF FInv
<1>9. CASE /\ ~(job.limit = "limited" /\ op1 + run + (2 + 1 + LASTLITERALS) + run \div 255 > job.cap)
           /\ ~(job.limit = "fill" /\ op1 + (run + 240) \div 255 + run + 2 + 1 + MFLIMIT - MINMATCH > job.cap)
           /\ at' = at - CatchUp /\ found' = found - CatchUp
           /\ out' = out \o <<16 * Bits(run, RUN_MASK)>> \o MoreBytes(run, RUN_MASK)
                         \o Text(anchor, run)
           /\ tok' = op1 /\ Wrote(Len(out') - run + wide) /\ stage' = "match"
           /\ UNCHANGED <<job, ctx, anchor, inDict, probe, filled, res>>
  <2>1. IsList(out') /\ Len(out') = Len(out) + 1 + More(run) + run
    <3>1. anchor \in Int BY DEF FInv, Typed, PlacesTyped
    <3> QED BY ZenonT(60), <1>1, <1>2, <1>9, <3>1, LiteralsWritten
  <2> DEFINE n2 == Len(out')
  <2>2. /\ m \in Nat /\ d \in Nat /\ z \in Nat /\ n \in Nat /\ n2 = n + 1 + m + run /\ wide \in Nat
        /\ run \in Nat /\ wide <= run + 8 /\ job.cap \in Nat
        /\ Capacity = (IF job.limit = "none" THEN z + 16 ELSE job.cap)
        /\ job.limit # "fill" => n2 <= b + 1 + run + m /\ n2 + 8 <= z + 16
        /\ job.limit \in {"none", "limited", "fill"}
    BY <1>1, <1>2, <1>3, <1>4, <1>5, <2>1
  <2>3. job.limit = "limited" => n2 + 2 <= job.cap /\ n + 1 + m + wide <= job.cap
    <3>1. job.limit = "limited" => n + 1 + run + 8 + d <= job.cap
      <4>1. job.limit = "limited" => ~(n + 1 + run + (2 + 1 + 5) + d > job.cap) BY <1>9, Numbers
      <4> HIDE DEF n, d
      <4> QED BY SMTT(60), <2>2, <4>1
    <3> QED BY <1>2, <1>3, <2>2, <3>1
  <2>4. job.limit = "fill" => n + 1 + m + run + 11 <= job.cap
    <3>1. job.limit = "fill" => ~(n + 1 + m + run + 2 + 1 + 12 - 4 > job.cap) BY <1>5, <1>9, Numbers
    <3> HIDE DEF n, m
    <3> QED BY <2>2, <3>1
  <2>5. n2 - run + wide <= Capacity /\ n2 <= Capacity /\ n + 1 \in 1..n2 /\ n2 - run + wide \in Int
        /\ (job.limit = "fill" => n + 1 <= job.cap)
    <3> HIDE DEF n, n2, m, d, b, z
    <3>1. CASE job.limit = "none" BY <2>2, <3>1
    <3>2. CASE job.limit = "limited" BY <2>2, <2>3, <3>2
    <3>3. CASE job.limit = "fill" BY <2>2, <2>4, <3>3
    <3> QED BY <2>2, <3>1, <3>2, <3>3
  <2>50. high' \in Int /\ high' <= Capacity BY SMTT(60), <1>2, <1>4, <1>9, <2>5, HighIs
  <2>6. tok' \in 1..Len(out') /\ tok' \in Int BY <1>9, <2>5
  <2>7. Typed' BY <1>1, <1>9, <2>1, <2>50, <2>6 DEF FInv, Typed, JobTyped, PlacesTyped, Stages
  <2>8. Along' BY <1>1, <1>2, <1>9 DEF FInv, Along, Working, stop
  <2>9. Capacity' = Capacity BY <1>9 DEF Capacity
  <2>10. at' - anchor' = run /\ anchor' - job'.start = past BY <1>1, <1>9 DEF past
  <2>11. job.limit = "limited" => Len(out') + 2 <= job.cap
    BY <2>3
  <2>12. job.limit = "fill" => tok' <= job.cap BY <1>9, <2>5
  <2>13. job.limit # "fill" => Len(out') <= Bound(past) + 1 + run + More(run)
    BY <2>2
  <2>14. stage' = "match" /\ job' = job BY <1>9
  <2>15. Grown'
    <3> HIDE DEF op1
    <3> QED BY <2>5, <2>50, <2>6, <2>9, <2>10, <2>11, <2>12, <2>13, <2>14 DEF Grown
  <2> QED BY <2>7, <2>8, <2>15 DEF FInv
<1> QED BY <1>6, <1>7, <1>8, <1>9

(* The token that is taken back. *)
LEMMA RewindFits ==
  ASSUME FInv, Rewind, UNCHANGED <<work, lib>>
  PROVE  FInv'
<1>1. /\ stage = "match" /\ job.limit = "fill" /\ out' = SubSeq(out, 1, tok - 1) /\ stage' = "last"
      /\ UNCHANGED <<job, ctx, at, anchor, found, inDict, probe, filled, tok, high, res, work, lib>>
  BY DEF Rewind, TooClose
<1>2. /\ IsList(out) /\ Len(out) \in Nat /\ tok \in 1..Len(out) /\ tok <= job.cap /\ job.cap \in Nat
      /\ Len(out) <= Capacity
  BY <1>1, ListPlaces DEF FInv, Typed, PlacesTyped, JobTyped, Grown
<1>3. tok - 1 \in Nat /\ tok - 1 <= Len(out) BY <1>2
<1>4. IsList(out') /\ Len(out') = tok - 1 BY <1>1, <1>2, <1>3, ListCut
<1>5. Typed' BY <1>1, <1>4 DEF FInv, Typed, JobTyped, PlacesTyped, Stages
<1>6. Along' BY <1>1 DEF FInv, Along, Working, stop
<1>7. Len(out') + 1 <= job.cap /\ Capacity = job.cap BY <1>1, <1>2, <1>3, <1>4 DEF Capacity
<1>8. Capacity' = Capacity /\ Len(out') <= job.cap BY <1>1, <1>2, <1>3, <1>4, <1>7 DEF Capacity
<1>9. Grown' BY <1>1, <1>7, <1>8 DEF FInv, Grown
<1> QED BY <1>5, <1>6, <1>9 DEF FInv

(* The places of a match. *)
LEMMA MatchPlaces ==
  ASSUME FInv, stage = "match"
  PROVE  /\ at - anchor \in Nat /\ anchor - job.start \in Nat /\ job.size \in Nat
         /\ MatchCode \in Nat /\ at + 4 + MatchCode <= stop - 5
         /\ at \in Nat /\ job.start \in Nat /\ stop = job.start + job.size /\ at + 12 <= stop
         /\ (anchor - job.start) + (at - anchor) = at - job.start
         /\ job.size \in 0..MAX_INPUT_SIZE /\ stop \in Nat
<1>1. /\ at \in Int /\ anchor \in Int /\ found \in Int /\ job.start \in Nat /\ job.size \in Int
      /\ anchor <= at /\ at + 12 <= stop /\ job.start <= anchor /\ stop = job.start + job.size
      /\ inDict \in BOOLEAN /\ job.size \in 1..MAX_INPUT_SIZE
  BY DEF FInv, Typed, JobTyped, PlacesTyped, Along, Working, stop
<1>2. MatchCode \in Nat /\ at + 4 + MatchCode <= stop - 5 BY <1>1, MatchCodeIs
<1> HIDE DEF stop
<1>3. job.size \in Nat /\ job.size \in 0..MAX_INPUT_SIZE BY <1>1, Numbers
<1> QED BY <1>1, <1>2, <1>3

(* A match that is cut to fit is shorter than the one that was found, and   *)
(* leaves room for the last literals.                                       *)
LEMMA ReducedIs ==
  ASSUME FInv, stage = "match", job.limit = "fill", ~TooClose, Tight(Len(out) + 2)
  PROVE  /\ Reduced(Len(out) + 2) \in Nat /\ Reduced(Len(out) + 2) >= 15
         /\ Reduced(Len(out) + 2) < MatchCode
         /\ Len(out) + 2 + More(Reduced(Len(out) + 2)) + 6 = job.cap
<1> DEFINE n == Len(out)
           k == job.cap - n - 8
           r == Reduced(n + 2)
           m == More(MatchCode)
           x == More(r)
<1>1. MatchCode \in Nat BY MatchPlaces
<1>2. n \in Nat /\ job.cap \in Nat BY ListPlaces DEF FInv, Typed, PlacesTyped, JobTyped
<1>3. k \in Nat /\ k >= 3
  <2>1. ~(n + 2 + 1 + 12 - 4 > job.cap) BY Numbers DEF TooClose
  <2> HIDE DEF n
  <2> QED BY <1>2, <2>1
<1>4. r = 14 + k * 255
  <2>1. r = 15 - 1 + (job.cap - (n + 2) - 1 - 5) * 255 BY Numbers DEF Reduced
  <2>2. job.cap - (n + 2) - 1 - 5 = k
    <3> HIDE DEF n
    <3> QED BY SMTT(60), <1>2
  <2> HIDE DEF k
  <2> QED BY <1>3, <2>1, <2>2
<1>5. (n + 2) + (1 + 5) + m > job.cap
  <2>1. (MatchCode + 240) \div 255 = m BY DEF More
  <2> QED BY <2>1, Numbers DEF Tight
<1>6. m \in Nat /\ 255 * m <= MatchCode + 240 BY ZenonT(60), <1>1, Quotient
<1>7. r \in Nat
  <2> HIDE DEF k, r
  <2> QED BY <1>3, <1>4
<1>8. x \in Nat /\ 255 * x <= r + 240 /\ r + 240 < 255 * x + 255
  <2> HIDE DEF r, n, k, m
  <2> QED BY ZenonT(60), <1>7, MoreIs
<1>9. n = job.cap - k - 8
  <2> HIDE DEF n
  <2> QED BY <1>2
<1> HIDE DEF n, k, r, m, x
<1>10. m >= k + 1
  <2>1. m \in Nat BY <1>6
  <2>2. \A a, b, c, d \in Nat : (a + 2) + (1 + 5) + c > d /\ a = d - b - 8 => c >= b + 1
    OBVIOUS
  <2> QED BY <1>2, <1>3, <1>5, <1>9, <2>1, <2>2
<1>11. r < MatchCode BY <1>1, <1>3, <1>4, <1>6, <1>10
<1>12. x = k BY <1>3, <1>4, <1>8
<1>13. n + 2 + x + 6 = job.cap
  <2>1. k \in Int /\ job.cap \in Int BY <1>2, <1>3
  <2> QED BY SMTT(60), <1>9, <1>12, <2>1
<1>14. r >= 15 BY <1>3, <1>4
<1> QED BY <1>7, <1>11, <1>13, <1>14 DEF n, r, x

(* What a sequence with its match adds. *)
LEMMA MatchBound ==
  ASSUME NEW len \in Nat, NEW past \in Nat, NEW run \in Nat, NEW code \in Nat, NEW n \in Nat,
         past + run + 4 + code <= n, len <= Bound(past) + 1 + run + More(run)
  PROVE  /\ len + 2 + More(code) <= Bound(past + run + 4 + code)
         /\ len + 2 + More(code) <= Bound(n)
<1> DEFINE part == run + 4 + code
           x == Bound(past)
           y == Bound(part)
           s == Bound(past + part)
           z == Bound(n)
           m == More(run)
           c == More(code)
<1>1. part \in Nat /\ past + part <= n /\ past + run + 4 + code = past + part OBVIOUS
<1>2. 1 + run + m + 2 + c <= y
  <2>1. y = Bound(run + MINMATCH + code) BY Numbers
  <2> QED BY <2>1, SequenceBound
<1>3. x \in Nat /\ y \in Nat /\ s \in Nat /\ z \in Nat /\ s <= z
  <2> HIDE DEF part
  <2> QED BY <1>1, PartBound
<1>4. x + y <= s
  <2> HIDE DEF part
  <2> QED BY <1>1, BoundAdds
<1>5. m \in Nat /\ c \in Nat BY ZenonT(60), Quotient
<1>6. Bound(past + run + 4 + code) = s BY <1>1
<1>7. len <= x + 1 + run + m OBVIOUS
<1> HIDE DEF x, y, s, z, m, c, part
<1>8. len + 2 + c <= s BY <1>2, <1>3, <1>4, <1>5, <1>7
<1>9. len + 2 + c <= z BY <1>3, <1>5, <1>8
<1> QED BY <1>6, <1>8, <1>9 DEF c, z

(* The token, the offset and the further bytes of a match.                  *)
LEMMA MatchWritten ==
  ASSUME NEW ss, IsList(ss), NEW k \in 1..Len(ss), NEW v, NEW d \in Int, NEW n \in Nat
  PROVE  LET written == [ss EXCEPT ![k] = v] \o OffsetBytes(d) \o MoreBytes(n, ML_MASK)
         IN IsList(written) /\ Len(written) = Len(ss) + 2 + More(n)
<1> DEFINE t1 == [ss EXCEPT ![k] = v]
           t2 == OffsetBytes(d)
           t3 == MoreBytes(n, ML_MASK)
<1>1. IsList(t1) /\ Len(t1) = Len(ss) BY ListExcept
<1>2. IsList(t2) /\ Len(t2) = 2
  <2>1. t2 = <<d % 256, d \div 256>> BY DEF OffsetBytes
  <2> QED BY <2>1, ListTwo
<1>3. IsList(t3) /\ Len(t3) = More(n) BY MoreBytesIs, Numbers
<1>4. Len(ss) \in Nat /\ More(n) \in Nat BY ZenonT(60), ListPlaces, Quotient
<1> HIDE DEF t1, t2, t3
<1>5. IsList(t1 \o t2) /\ Len(t1 \o t2) = Len(ss) + 2 BY <1>1, <1>2, ListConcat
<1>6. IsList(t1 \o t2 \o t3) /\ Len(t1 \o t2 \o t3) = Len(ss) + 2 + More(n)
  BY <1>3, <1>5, ListConcat
<1> QED BY <1>6 DEF t1, t2, t3

(* What the end of a match changes, when it is not given up.                *)
Coded == IF Tight(Len(out) + 2) THEN Reduced(Len(out) + 2) ELSE MatchCode

(* A match code is a number, its match ends five bytes before the block.    *)
LEMMA CodedIs ==
  ASSUME FInv, stage = "match", ~TooClose, ~(Tight(Len(out) + 2) /\ job.limit = "limited")
  PROVE  /\ Coded \in Nat /\ at + 4 + Coded <= stop - 5
         /\ job.limit # "none" => Len(out) + 2 + More(Coded) + 6 <= job.cap
<1>1. /\ MatchCode \in Nat /\ at + 4 + MatchCode <= stop - 5 /\ at \in Nat /\ stop \in Nat
  BY MatchPlaces
<1>2. Len(out) \in Nat /\ job.cap \in Nat /\ job.limit \in {"none", "limited", "fill"}
  BY ListPlaces DEF FInv, Typed, PlacesTyped, JobTyped
<1>3. CASE Tight(Len(out) + 2)
  <2>1. job.limit = "fill" BY <1>2, <1>3 DEF Tight
  <2>2. /\ Reduced(Len(out) + 2) \in Nat /\ Reduced(Len(out) + 2) < MatchCode
        /\ Len(out) + 2 + More(Reduced(Len(out) + 2)) + 6 = job.cap
    BY <1>3, <2>1, ReducedIs
  <2>3. Coded = Reduced(Len(out) + 2) BY <1>3 DEF Coded
  <2>4. Coded \in Nat /\ Coded < MatchCode /\ Len(out) + 2 + More(Coded) + 6 = job.cap
    BY <2>2, <2>3
  <2> QED BY <1>1, <1>2, <2>4
<1>4. CASE ~Tight(Len(out) + 2)
  <2>1. Coded = MatchCode BY <1>4 DEF Coded
  <2>2. job.limit # "none" => ~((Len(out) + 2) + (1 + 5) + More(MatchCode) > job.cap)
    BY <1>4, Numbers DEF Tight, More
  <2>3. More(MatchCode) \in Nat BY <1>1, MoreIs
  <2> DEFINE m == More(MatchCode)
             n == Len(out)
  <2>4. job.limit # "none" => n + 2 + m + 6 <= job.cap
    <3>1. n \in Nat /\ m \in Nat /\ (job.limit # "none" => ~((n + 2) + (1 + 5) + m > job.cap))
      BY <1>2, <2>2, <2>3
    <3> HIDE DEF m, n
    <3> QED BY <1>2, <3>1
  <2> QED BY <1>1, <2>1, <2>4
<1> QED BY <1>3, <1>4

(* A match. *)
LEMMA MatchFits ==
  ASSUME FInv, EncodeMatch, UNCHANGED <<work, lib>>
  PROVE  FInv'
<1> DEFINE n    == Len(out)
           run  == at - anchor
           past == anchor - job.start
           end  == at + 4 + Coded
           b    == Bound(past)
           z    == Bound(job.size)
           code == Coded
           wide == IF code >= ML_MASK THEN n + 2 + 4 * ((code - ML_MASK) \div (4 * 255)) + 4 ELSE n + 2
<1>1. /\ stage = "match" /\ ~TooClose /\ Working /\ JobTyped /\ n \in Nat /\ job.cap \in Nat
      /\ job.limit \in {"none", "limited", "fill"} /\ IsList(out) /\ tok \in 1..Len(out)
      /\ high \in Int /\ high <= Capacity /\ at \in Int /\ found \in Int
      /\ job.limit # "fill" => n <= b + 1 + run + More(run)
      /\ job.limit = "limited" => n + 2 <= job.cap
  BY ListPlaces
     DEF EncodeMatch, FInv, Typed, JobTyped, PlacesTyped, Along, Grown, Working
<1>2. /\ run \in Nat /\ past \in Nat /\ job.size \in Nat /\ MatchCode \in Nat
      /\ at + 4 + MatchCode <= stop - 5 /\ at \in Nat /\ job.start \in Nat
      /\ stop = job.start + job.size /\ past + run = at - job.start
      /\ job.size \in 0..MAX_INPUT_SIZE /\ stop \in Nat
  BY <1>1, MatchPlaces
<1>3. /\ Capacity \in Nat /\ CompressBound(job.size) = z + 16 /\ z \in Nat /\ b \in Nat
      /\ Capacity = IF job.limit = "none" THEN z + 16 ELSE job.cap
  <2>1. Capacity \in Nat /\ CompressBound(job.size) = z + 16 BY <1>1, <1>2, CapacityIs
  <2>2. z \in Nat /\ b \in Nat
    <3> HIDE DEF past
    <3> QED BY ZenonT(60), <1>2, Quotient
  <2>3. Capacity = IF job.limit = "none" THEN z + 16 ELSE job.cap BY <2>1 DEF Capacity
  <2> QED BY <2>1, <2>2, <2>3
<1>4. \/ /\ Tight(n + 2) /\ job.limit = "limited" /\ Deliver(0, 0) /\ Wrote(n + 2)
         /\ UNCHANGED <<job, ctx, at, anchor, found, inDict, probe, filled, out, tok>>
      \/ /\ ~(Tight(n + 2) /\ job.limit = "limited")
         /\ out' = [out EXCEPT ![tok] = @ + Bits(code, ML_MASK)]
                         \o OffsetBytes(at - found) \o MoreBytes(code, ML_MASK)
         /\ \/ ctx' = ctx
            \/ ctx' = [ctx EXCEPT !.table = Clear(@, end..filled)]
         /\ Wrote(wide)
         /\ at' = end /\ anchor' = end
         /\ stage' = IF end >= mflimitPlusOne THEN "last" ELSE "next"
         /\ UNCHANGED <<job, found, inDict, probe, filled, tok, res>>
  BY Numbers DEF EncodeMatch, Coded
<1>5. CASE /\ Tight(n + 2) /\ job.limit = "limited" /\ Deliver(0, 0) /\ Wrote(n + 2)
           /\ UNCHANGED <<job, ctx, at, anchor, found, inDict, probe, filled, out, tok>>
  <2>1. high' \in Int /\ high' <= Capacity
    <3>1. n + 2 \in Int /\ n + 2 <= Capacity /\ Wrote(n + 2) BY <1>1, <1>3, <1>5
    <3> HIDE DEF n
    <3> QED BY SMTT(60), <1>1, <1>3, <3>1, HighIs
  <2>2. n + 2 + More(MatchCode) <= z
    <3>1. past + run + 4 + MatchCode <= job.size
      <4> HIDE DEF past, run
      <4> QED BY <1>2
    <3>2. n <= b + 1 + run + More(run) BY <1>1, <1>5
    <3> HIDE DEF past, run, n
    <3> QED BY <1>1, <1>2, <3>1, <3>2, MatchBound
  <2>3. job.cap < CompressBound(job.size)
    <3> DEFINE m == More(MatchCode)
    <3>1. (n + 2) + (1 + 5) + m > job.cap BY <1>5, Numbers DEF Tight, More
    <3>2. m \in Nat BY ZenonT(60), <1>2, MoreIs
    <3>3. n + 2 + m <= z BY <2>2
    <3>4. n \in Nat BY <1>1
    <3> HIDE DEF n, m, z
    <3> QED BY <1>1, <1>3, <3>1, <3>2, <3>3, <3>4
  <2> QED BY <1>1, <1>5, <2>1, <2>3, GiveUpFits
<1>6. CASE /\ ~(Tight(n + 2) /\ job.limit = "limited")
           /\ out' = [out EXCEPT ![tok] = @ + Bits(code, ML_MASK)]
                         \o OffsetBytes(at - found) \o MoreBytes(code, ML_MASK)
           /\ \/ ctx' = ctx
              \/ ctx' = [ctx EXCEPT !.table = Clear(@, end..filled)]
           /\ Wrote(wide)
           /\ at' = end /\ anchor' = end
           /\ stage' = IF end >= mflimitPlusOne THEN "last" ELSE "next"
           /\ UNCHANGED <<job, found, inDict, probe, filled, tok, res>>
  <2> DEFINE m  == More(code)
             n2 == Len(out')
  <2>1. code \in Nat /\ end <= stop - 5 /\ (job.limit # "none" => n + 2 + m + 6 <= job.cap)
    BY <1>1, <1>6, CodedIs
  <2>2. IsList(out') /\ n2 = n + 2 + m
    <3> DEFINE d == at - found
               v == out[tok] + Bits(code, ML_MASK)
    <3>1. d \in Int BY <1>1
    <3>2. out' = [out EXCEPT ![tok] = v] \o OffsetBytes(d) \o MoreBytes(code, ML_MASK)
      <4> HIDE DEF code
      <4> QED BY <1>6
    <3>3. IsList(out) /\ tok \in 1..Len(out) /\ code \in Nat BY <1>1, <2>1
    <3> HIDE DEF code, d, v
    <3>4. LET s == [out EXCEPT ![tok] = v] \o OffsetBytes(d) \o MoreBytes(code, ML_MASK)
          IN IsList(s) /\ Len(s) = Len(out) + 2 + More(code)
      BY ZenonT(60), <3>1, <3>3, MatchWritten
    <3> QED BY <3>2, <3>4
  <2>3. m \in Nat
    <3> HIDE DEF code
    <3> QED BY ZenonT(60), <2>1, MoreIs
  <2>4. job.limit # "fill" => n2 <= Bound(end - job.start) /\ n2 <= z
    <3>1. past + run + 4 + code <= job.size /\ past + run + 4 + code = end - job.start
      <4>1. end = at + 4 + code OBVIOUS
      <4> HIDE DEF past, run, code, end
      <4> QED BY SMTT(60), <1>2, <2>1, <4>1
    <3>2. job.limit # "fill" => n <= b + 1 + run + More(run) BY <1>1
    <3> HIDE DEF past, run, n, code, end, n2
    <3> QED BY <1>1, <1>2, <2>1, <2>2, <3>1, <3>2, MatchBound
  <2>5. wide \in Int /\ wide <= n2 + 3 /\ n2 + 3 <= Capacity
    <3>1. n2 + 3 <= Capacity
      <4>1. n \in Nat BY <1>1
      <4> HIDE DEF n, m, n2, z
      <4> QED BY SMTT(60), <1>1, <1>3, <2>1, <2>2, <2>3, <2>4, <4>1
    <3>2. CASE code >= 15
      <4> DEFINE v == 4 * ((code - 15) \div (4 * 255)) + 4
      <4>1. v \in Nat /\ v <= m + 3
        <5> HIDE DEF code
        <5> QED BY ZenonT(60), <2>1, <3>2, Overshoot
      <4>2. wide = n + 2 + v
        <5>1. wide = n + 2 + 4 * ((code - 15) \div (4 * 255)) + 4 BY <3>2, Numbers
        <5>2. (code - 15) \div (4 * 255) \in Int
          <6> HIDE DEF code
          <6> QED BY <2>1, <3>2
        <5>3. n \in Nat BY <1>1
        <5> DEFINE y == (code - 15) \div (4 * 255)
        <5>4. y \in Int /\ wide = n + 2 + 4 * y + 4 /\ v = 4 * y + 4 BY <5>1, <5>2
        <5> HIDE DEF y, wide, v, n
        <5> QED BY <5>3, <5>4
      <4>3. n \in Nat BY <1>1
      <4> HIDE DEF n, m, n2, v, wide
      <4> QED BY <2>2, <2>3, <3>1, <4>1, <4>2, <4>3
    <3>3. CASE ~(code >= 15)
      <4>1. wide = n + 2 /\ n \in Nat BY <1>1, <3>3, Numbers
      <4> HIDE DEF n, m, n2, wide
      <4> QED BY <2>2, <2>3, <3>1, <4>1
    <3> QED BY <3>2, <3>3
  <2>6. high' \in Int /\ high' <= Capacity
    <3>1. wide <= Capacity /\ n2 \in Nat
      <4>1. n2 \in Nat BY <2>2, ListPlaces
      <4> HIDE DEF wide, n2
      <4> QED BY <1>3, <2>5, <4>1
    <3> HIDE DEF wide
    <3> QED BY SMTT(60), <1>1, <1>3, <1>6, <2>5, <3>1, HighIs
  <2>7. ctx' \in Contexts
    <3>1. ctx \in Contexts /\ ctx.table \in Tables BY DEF FInv, Typed, Contexts
    <3>2. Clear(ctx.table, end..filled) \in Tables
      <4> HIDE DEF end
      <4> QED BY <3>1, ClearIs
    <3> HIDE DEF end
    <3> QED BY <1>6, <3>1, <3>2, WithTable
  <2>8. end \in Int /\ end >= job.start + 4 /\ end <= stop /\ (stage' = "next" => end + 12 <= stop)
        /\ stage' \in {"last", "next"} /\ n2 \in Nat /\ at' = end /\ anchor' = end
    <3>1. end = at + 4 + code /\ at >= job.start
      <4>1. end = at + 4 + code OBVIOUS
      <4>2. run \in Nat /\ past \in Nat /\ past + run = at - job.start BY <1>2
      <4> HIDE DEF run, past, end, code
      <4> QED BY <1>2, <4>1, <4>2
    <3>2. end \in Int /\ end >= job.start + 4 /\ end <= stop
      <4> HIDE DEF end, code
      <4> QED BY SMTT(60), <1>2, <2>1, <3>1
    <3>3. stage' = "next" => ~(end >= stop - 12 + 1) BY <1>6, Numbers DEF mflimitPlusOne
    <3>4. stage' = "next" => end + 12 <= stop
      <4> HIDE DEF end
      <4> QED BY <1>2, <3>2, <3>3
    <3> QED BY <1>6, <2>2, <3>2, <3>4, ListPlaces
  <2> HIDE DEF end, wide, code
  <2>9. Typed' BY <1>6, <2>2, <2>6, <2>7, <2>8 DEF FInv, Typed, JobTyped, PlacesTyped, Stages
  <2>10. stop' = stop /\ Capacity' = Capacity BY <1>6 DEF stop, Capacity
  <2>11. Along'
    <3>1. job.size \in 1..MAX_INPUT_SIZE /\ (job.limit = "fill" => job.cap >= 1) /\ job.size >= 13
      BY <1>1 DEF FInv, Along, Working
    <3>2. job.start <= end
      <4> HIDE DEF n2
      <4> QED BY <1>2, <2>8
    <3> QED BY <1>6, <2>8, <2>10, <3>1, <3>2 DEF Along, Working
  <2>12. n2 <= Capacity
    <3> HIDE DEF n2
    <3> QED BY <1>3, <2>5, <2>8
  <2>13. job.limit # "none" => n2 + 6 <= job.cap
    <3>1. n \in Nat BY <1>1
    <3> HIDE DEF n, m, n2
    <3> QED BY <1>1, <2>1, <2>2, <2>3, <3>1
  <2>14. job.limit = "fill" => n2 + 1 <= job.cap
    <3> HIDE DEF n2
    <3> QED BY <1>1, <2>8, <2>13
  <2>15. job' = job BY <1>6
  <2>16. Grown' BY <2>4, <2>6, <2>8, <2>10, <2>12, <2>13, <2>14, <2>15 DEF Grown
  <2> QED BY <2>9, <2>11, <2>16 DEF FInv
<1> QED BY <1>4, <1>5, <1>6

(* The position after a match.                                              *)
LEMMA TestNextIs ==
  ASSUME FInv, TestNext
  PROVE  /\ stage = "next" /\ at \in Nat /\ at - 2 \in Nat /\ job.start + 4 <= at /\ at + 12 <= stop
         /\ at = anchor /\ ctx.table \in Tables /\ Filled \in Tables
         /\ ctx' = [ctx EXCEPT !.table = Put(Filled, at)] /\ ctx' \in Contexts
         /\ Candidate(Filled, at) \in Int
<1>1. /\ stage = "next" /\ job.start \in Nat /\ at \in Int /\ job.start + 4 <= at /\ at + 12 <= stop
      /\ at = anchor /\ ctx \in Contexts /\ ctx.table \in Tables /\ job.dictTable \in Tables
      /\ job.dictOffset \in Int /\ job.start \in Int
  <2>1. stage = "next" BY DEF TestNext
  <2>2. JobTyped /\ PlacesTyped /\ Along /\ ctx \in Contexts BY DEF FInv, Typed
  <2>3. ctx.table \in Tables BY <2>2 DEF Contexts
  <2> QED BY <2>1, <2>2, <2>3 DEF JobTyped, PlacesTyped, Along
<1>2. at \in Nat /\ at - 2 \in Nat
  <2> HIDE DEF stop
  <2> QED BY <1>1
<1>3. Filled \in Tables BY <1>1, <1>2, PutIs DEF Filled
<1>4. Put(Filled, at) \in Tables BY <1>2, <1>3, PutIs
<1>5. ctx' = [ctx EXCEPT !.table = Put(Filled, at)] BY DEF TestNext
<1>6. ctx' \in Contexts BY <1>1, <1>4, <1>5, WithTable
<1>7. Candidate(Filled, at) \in Int BY <1>1, <1>3, CandidateInt
<1> QED BY <1>1, <1>2, <1>3, <1>5, <1>6, <1>7

(* The test of the position after a match. *)
LEMMA TestNextFits ==
  ASSUME FInv, TestNext, UNCHANGED <<work, lib>>
  PROVE  FInv'
<1> DEFINE n == Len(out)
           b == Bound(anchor - job.start)
           z == Bound(job.size)
<1>1. /\ stage = "next" /\ at \in Nat /\ at = anchor /\ at + 12 <= stop /\ ctx' \in Contexts
      /\ job.start + 4 <= at /\ Candidate(Filled, at) \in Int
  BY TestNextIs
<1>2. /\ n \in Nat /\ IsList(out) /\ high \in Int /\ high <= Capacity /\ n <= Capacity
      /\ (job.limit # "fill" => n <= b) /\ (job.limit # "none" => n + 6 <= job.cap)
      /\ job.cap \in Nat /\ job.start \in Nat /\ JobTyped /\ job.size \in 1..MAX_INPUT_SIZE
      /\ job.accel \in Nat /\ job.accel >= 1 /\ job.limit \in {"none", "limited", "fill"}
      /\ stop = job.start + job.size /\ anchor \in Int
  BY <1>1, ListPlaces DEF FInv, Typed, JobTyped, PlacesTyped, Grown, Along, Working, stop
<1>3. /\ z \in Nat /\ b \in Nat /\ b <= z
      /\ Capacity = (IF job.limit = "none" THEN z + 16 ELSE job.cap)
  <2> DEFINE past == anchor - job.start
  <2>0. job.size \in Nat /\ job.size \in 0..MAX_INPUT_SIZE BY <1>2, Numbers
  <2>1. past \in Nat /\ job.size \in Nat /\ past + 0 <= job.size /\ 0 \in Nat
        /\ job.size \in 0..MAX_INPUT_SIZE
    <3>1. anchor = at /\ at \in Nat /\ at + 12 <= stop /\ stop = job.start + job.size
          /\ job.start + 4 <= at /\ job.start \in Nat
      BY <1>1, <1>2
    <3> QED BY <2>0, <3>1
  <2> HIDE DEF past
  <2>2. Bound(past + 0) <= Bound(job.size) /\ Bound(past) \in Nat /\ Bound(job.size) \in Nat
    BY <2>1, PartBound
  <2>3. past + 0 = past BY <2>1
  <2>4. CompressBound(job.size) = Bound(job.size) + 16 BY <1>2, <2>1, CapacityIs
  <2> QED BY <2>2, <2>3, <2>4 DEF Capacity, past
<1>4. \/ /\ found' = Candidate(Filled, at) /\ inDict' = Elsewhere(Candidate(Filled, at))
         /\ out' = Append(out, 0) /\ tok' = Len(out') /\ Wrote(Len(out'))
         /\ stage' = "match" /\ UNCHANGED <<at, probe>>
      \/ /\ at' = at + 1 /\ SearchFrom(at + 1)
         /\ stage' = "search" /\ UNCHANGED <<found, inDict, out, tok, high>>
  BY DEF TestNext
<1>5. UNCHANGED <<job, anchor, filled, res, work, lib>> BY DEF TestNext
<1>6. CASE /\ found' = Candidate(Filled, at) /\ inDict' = Elsewhere(Candidate(Filled, at))
           /\ out' = Append(out, 0) /\ tok' = Len(out') /\ Wrote(Len(out'))
           /\ stage' = "match" /\ UNCHANGED <<at, probe>>
  <2>1. IsList(out') /\ Len(out') = n + 1
    <3>1. out' = out \o <<0>>
      <4>1. out \in Seq({out[k] : k \in DOMAIN out}) BY <1>2 DEF IsList
      <4> QED BY <1>6, <4>1
    <3> QED BY <1>2, <3>1, ListOne, ListConcat
  <2>2. n + 1 <= Capacity /\ Capacity \in Int /\ n + 1 \in Int
    <3> HIDE DEF n, b, z
    <3> QED BY <1>2, <1>3
  <2>3. high' \in Int /\ high' <= Capacity
    <3>1. Wrote(n + 1) BY <1>6, <2>1
    <3> HIDE DEF n
    <3> QED BY <1>2, <2>2, <3>1, HighIs
  <2>4. inDict' \in BOOLEAN BY <1>6 DEF Elsewhere
  <2>5. tok' = n + 1 /\ tok' \in 1..Len(out') /\ tok' \in Int BY <1>2, <1>6, <2>1
  <2>6. Typed' BY <1>1, <1>5, <1>6, <2>1, <2>3, <2>4, <2>5 DEF FInv, Typed, JobTyped, PlacesTyped, Stages
  <2>7. Along' BY <1>1, <1>5, <1>6 DEF FInv, Along, Working, stop
  <2>8. Capacity' = Capacity BY <1>5 DEF Capacity
  <2>9. at' - anchor' = 0 /\ More(0) \in Nat
    <3>1. 0 \in Nat OBVIOUS
    <3> QED BY <1>1, <1>5, <1>6, <3>1, MoreIs
  <2>10. job.limit # "fill" => n + 1 <= b + 1 + 0 + More(0)
    <3> DEFINE y == More(0)
    <3>1. y \in Nat /\ n \in Nat /\ b \in Nat /\ (job.limit # "fill" => n <= b)
      BY <1>2, <1>3, <2>9
    <3> HIDE DEF n, b, y
    <3>2. job.limit # "fill" => n + 1 <= b + 1 + 0 + y BY <3>1
    <3> QED BY <3>2 DEF y
  <2>11. /\ job.limit = "limited" => (n + 1) + 2 <= job.cap
         /\ job.limit = "fill" => n + 1 <= job.cap
    <3> HIDE DEF n
    <3> QED BY <1>2
  <2>12. Grown'
    <3> HIDE DEF n
    <3> QED BY <1>5, <1>6, <2>1, <2>2, <2>3, <2>5, <2>8, <2>9, <2>10, <2>11 DEF Grown
  <2> QED BY <2>6, <2>7, <2>12 DEF FInv
<1>7. CASE /\ at' = at + 1 /\ SearchFrom(at + 1)
           /\ stage' = "search" /\ UNCHANGED <<found, inDict, out, tok, high>>
  <2>1. probe' = [next |-> at + 1, step |-> 1, nb |-> job.accel * 64]
    <3>1. 2^skipTrigger = 64 BY DEF skipTrigger
    <3> QED BY <1>7, <3>1 DEF SearchFrom
  <2>2. job.accel * 64 \in Int /\ job.accel * 64 >= 64 BY SMTT(60), <1>2
  <2>3. /\ probe'.next \in Int /\ probe'.step \in Int /\ probe'.nb \in Int
        /\ anchor < probe'.next /\ probe'.step >= 1 /\ probe'.nb >= 64 /\ at' \in Int
    BY <1>1, <1>7, <2>1, <2>2
  <2>4. Typed' BY <1>1, <1>5, <1>7, <2>3 DEF FInv, Typed, JobTyped, PlacesTyped, Stages
  <2>5. Along' BY <1>1, <1>5, <1>7, <2>3 DEF FInv, Along, Working, stop
  <2>6. job.limit = "fill" => n + 1 <= job.cap
    <3> HIDE DEF n
    <3> QED BY <1>2
  <2>7. Capacity' = Capacity BY <1>5 DEF Capacity
  <2>8. Grown' BY <1>2, <1>5, <1>7, <2>6, <2>7 DEF Grown
  <2> QED BY <2>4, <2>5, <2>8 DEF FInv
<1> QED BY <1>4, <1>6, <1>7

(* What fits into the room that is left: literals, with their length.       *)
LEMMA FilledUp ==
  ASSUME NEW room \in Nat
  PROVE  LET n == room - (room + 241) \div 256
         IN n \in Nat /\ n + More(n) <= room
<1> DEFINE x == (room + 241) \div 256
           n == room - x
           y == More(n)
<1>1. x \in Nat /\ 256 * x <= room + 241 /\ room + 241 < 256 * x + 256 OBVIOUS
<1> HIDE DEF x
<1>2. n \in Nat BY <1>1
<1>3. n = room - x OBVIOUS
<1> HIDE DEF n
<1>4. y \in Nat /\ 255 * y <= n + 240 BY <1>2, MoreIs
<1> HIDE DEF y
<1>5. n + y <= room BY SMTT(60), <1>1, <1>2, <1>3, <1>4
<1> QED BY <1>2, <1>5 DEF x, n, y

(* The last literals. *)
LEMMA EncodeLastFits ==
  ASSUME FInv, EncodeLast, UNCHANGED <<work, lib>>
  PROVE  FInv'
<1> DEFINE n     == Len(out)
           all   == stop - anchor
           past  == anchor - job.start
           b     == Bound(past)
           z     == Bound(job.size)
           c     == Bound(all)
           m     == More(all)
           tight == job.limit # "none" /\ n + all + 1 + m > job.cap
           room  == job.cap - n - 1
           run   == IF tight THEN room - (room + 241) \div 256 ELSE all
<1>1. /\ stage = "last" /\ Working /\ IsList(out) /\ n \in Nat /\ job.cap \in Nat /\ JobTyped
      /\ job.limit \in {"none", "limited", "fill"} /\ job.start \in Nat /\ anchor \in Int
      /\ job.size \in 1..MAX_INPUT_SIZE /\ stop = job.start + job.size
      /\ job.start <= anchor /\ anchor <= stop /\ high \in Int /\ high <= Capacity
      /\ (job.limit # "fill" => n <= b) /\ (job.limit = "fill" => n + 1 <= job.cap)
  BY ListPlaces DEF EncodeLast, FInv, Typed, JobTyped, PlacesTyped, Grown, Along, Working, stop
<1>2. job.size \in Nat /\ job.size \in 0..MAX_INPUT_SIZE BY <1>1, Numbers
<1>3. all \in Nat /\ past \in Nat /\ past + all = job.size /\ anchor + all - job.start = job.size
  <2>1. job.start \in Nat /\ anchor \in Int /\ stop = job.start + job.size
        /\ job.start <= anchor /\ anchor <= stop
    BY <1>1
  <2> QED BY <1>2, <2>1
<1>4. /\ b \in Nat /\ c \in Nat /\ z \in Nat /\ b + c <= z /\ m \in Nat /\ all + m <= c + 1
      /\ CompressBound(job.size) = z + 16
      /\ Capacity = (IF job.limit = "none" THEN z + 16 ELSE job.cap)
  <2>1. CompressBound(job.size) = z + 16 BY <1>1, <1>2, CapacityIs
  <2> HIDE DEF all, past
  <2>2. past + all <= job.size BY <1>2, <1>3
  <2>3. b \in Nat /\ c \in Nat /\ z \in Nat /\ b + c <= z BY <1>2, <1>3, <2>2, PartBound
  <2>4. m \in Nat /\ all + m <= c + 1 BY <1>3, LiteralsBound, MoreIs
  <2> QED BY <2>1, <2>3, <2>4 DEF Capacity
<1>5. \/ tight /\ job.limit = "limited" /\ GiveUp
      \/ /\ ~(tight /\ job.limit = "limited")
         /\ out' = out \o <<16 * Bits(run, RUN_MASK)>> \o MoreBytes(run, RUN_MASK) \o Text(anchor, run)
         /\ Wrote(Len(out')) /\ Deliver(Len(out'), anchor + run - job.start)
         /\ UNCHANGED <<job, ctx, at, anchor, found, inDict, probe, filled, tok>>
  <2>1. (all + 255 - RUN_MASK) \div 255 = m
    <3>1. all + 255 - RUN_MASK = all + 240
      <4> HIDE DEF all
      <4> QED BY <1>3, Numbers
    <3> QED BY <3>1 DEF More
  <2>2. room + 256 - RUN_MASK = room + 241
    <3>1. room \in Int BY <1>1
    <3> HIDE DEF room
    <3> QED BY <3>1, Numbers
  <2> HIDE DEF m
  <2> QED BY SMTT(60), <2>1, <2>2 DEF EncodeLast
<1>6. CASE tight /\ job.limit = "limited" /\ GiveUp
  <2>1. job.cap < CompressBound(job.size)
    <3>1. n + all + 1 + m > job.cap /\ n <= b BY <1>1, <1>6
    <3> HIDE DEF n, all, m, b, c, z
    <3> QED BY <1>1, <1>3, <1>4, <3>1
  <2>2. /\ Deliver(0, 0)
        /\ UNCHANGED <<job, ctx, at, anchor, found, inDict, probe, filled, out, tok, high>>
    BY <1>6 DEF GiveUp
  <2>3. high' \in Int /\ high' <= Capacity BY <1>1, <2>2
  <2> QED BY <1>1, <1>6, <2>1, <2>2, <2>3, GiveUpFits
<1>7. CASE /\ ~(tight /\ job.limit = "limited")
           /\ out' = out \o <<16 * Bits(run, RUN_MASK)>> \o MoreBytes(run, RUN_MASK) \o Text(anchor, run)
           /\ Wrote(Len(out')) /\ Deliver(Len(out'), anchor + run - job.start)
           /\ UNCHANGED <<job, ctx, at, anchor, found, inDict, probe, filled, tok>>
  <2> DEFINE k == n + 1 + More(run) + run
  <2>1. /\ run \in Nat /\ k \in Nat /\ k <= Capacity /\ k >= 1
        /\ job.limit # "fill" => run = all
    <3>1. CASE tight
      <4>1. job.limit = "fill" /\ run = room - (room + 241) \div 256 BY SMTT(60), <1>1, <1>7, <3>1
      <4>2. room \in Nat
        <5>1. n + 1 <= job.cap BY <1>1, <4>1
        <5> HIDE DEF n
        <5> QED BY <1>1, <5>1
      <4>3. run \in Nat /\ run + More(run) <= room
        <5>1. run = room - (room + 241) \div 256 BY <4>1
        <5> HIDE DEF room, run
        <5> QED BY <4>2, <5>1, FilledUp
      <4>4. More(run) \in Nat
        <5> HIDE DEF run
        <5> QED BY <4>3, MoreIs
      <4>5. Capacity = job.cap BY <4>1 DEF Capacity
      <4> DEFINE y == More(run)
      <4>6. room = job.cap - n - 1 /\ k = n + 1 + y + run OBVIOUS
      <4> HIDE DEF n, y, run, room, k
      <4> QED BY SMTT(60), <1>1, <4>1, <4>2, <4>3, <4>4, <4>5, <4>6 DEF y
    <3>2. CASE ~tight
      <4>1. run = all /\ (job.limit # "none" => ~(n + all + 1 + m > job.cap)) BY <3>2
      <4>2. k = n + 1 + m + all BY <4>1
      <4>3. job.limit # "fill" => n <= b BY <1>1
      <4> HIDE DEF n, m, all, b, c, z, run, k
      <4> QED BY <1>1, <1>3, <1>4, <4>1, <4>2, <4>3
    <3> QED BY <3>1, <3>2
  <2>2. IsList(out') /\ Len(out') = k
    <3> HIDE DEF run
    <3> QED BY <1>1, <1>7, <2>1, LiteralsWritten
  <2> HIDE DEF k, run
  <2>3. high' \in Int /\ high' <= Capacity
    <3>1. Wrote(k) BY <1>7, <2>2
    <3>2. k \in Int /\ Capacity \in Int
      <4> HIDE DEF z
      <4> QED BY SMTT(60), <1>1, <1>4, <2>1
    <3> QED BY <1>1, <2>1, <3>1, <3>2, HighIs
  <2>4. stage' = "done" /\ res' = [size |-> k, consumed |-> anchor + run - job.start]
    BY <1>7, <2>2 DEF Deliver
  <2>5. res'.size = k /\ res'.size > 0 /\ res'.size \in Nat /\ res'.consumed \in Int
        /\ res'.consumed = anchor + run - job.start
    BY <1>1, <2>1, <2>4
  <2>6. job.limit # "fill" => res'.consumed = job.size BY <1>3, <2>1, <2>5
  <2>7. Typed' BY <1>1, <1>7, <2>2, <2>3, <2>4, <2>5 DEF FInv, Typed, JobTyped, PlacesTyped, Stages
  <2>8. Along' BY <2>4 DEF Along, Working
  <2>9. Capacity' = Capacity BY <1>7 DEF Capacity
  <2>10. Grown' BY <1>7, <2>1, <2>2, <2>3, <2>4, <2>5, <2>6, <2>9 DEF Grown
  <2> QED BY <2>7, <2>8, <2>10 DEF FInv
<1> QED BY ZenonT(60), <1>5, <1>6, <1>7

(* A step of the compressor. *)
LEMMA CompressFits ==
  ASSUME FInv, CompressStep, UNCHANGED <<work, lib>>
  PROVE  FInv'
BY RefuseFits, EmptyFits, BeginFits, SearchEndsFits, MissFits, HitFits, LiteralsFits, RewindFits,
   MatchFits, TestNextFits, EncodeLastFits
   DEF CompressStep
-----------------------------------------------------------------------------
(* The calls.                                                              *)

(* A block is at work for the call at the head of the list.                 *)
Serving ==
  stage # "idle" =>
    /\ work # <<>> /\ w.fn \in Compressors /\ job.size = w.size
    /\ job.dict = "none" <=> w.fn \notin Chained
    /\ job.dict = "none" => job.dictSize = 0 /\ (job.type = "byU16" <=> job.size < Limit64K)
    /\ job.dict # "none" => job.type = "byU32" /\ job.size \in 0..MAX_INPUT_SIZE
    /\ job.limit = "fill" => job.start = 0 /\ job.dict = "none"
    /\ job.dict = "context" => /\ job.dictTable = lib.table /\ job.dictOffset = lib.currentOffset
                               /\ job.dictSize = lib.dictSize /\ ~job.small

(* A call that is still to be made is one that a user makes.                *)
LEMMA WorkIs ==
  ASSUME FInv, work # <<>>
  PROVE  w \in AllCalls /\ IsCall(w) /\ Tail(work) \in Seq(AllCalls)
<1>1. work \in Seq(AllCalls) BY DEF FInv, Typed
<1>2. w \in AllCalls /\ Tail(work) \in Seq(AllCalls) BY <1>1 DEF w
<1>3. PICK p \in Plans : w \in CallsOf(p) BY <1>2 DEF AllCalls
<1>4. IsCall(w) BY <1>3, PlansAssumption
<1> QED BY <1>2, <1>4

(* Between blocks nothing is asked but that the streams are streams.        *)
LEMMA BetweenFits ==
  ASSUME FInv, Between, ctx' \in Contexts, lib' \in Contexts
  PROVE  FInv' /\ Serving'
<1>1. /\ stage = "idle" /\ work # <<>> /\ work' = Tail(work)
      /\ UNCHANGED <<job, stage, at, anchor, found, inDict, probe, filled, out, tok, high, res>>
  BY DEF Between
<1>2. work' \in Seq(AllCalls) BY <1>1, WorkIs
<1>3. Typed' BY <1>1, <1>2 DEF FInv, Typed, JobTyped, PlacesTyped
<1>4. Along' BY <1>1 DEF FInv, Along, Working
<1>5. Grown' BY <1>1 DEF FInv, Grown
<1>6. Serving' BY <1>1 DEF Serving
<1> QED BY <1>3, <1>4, <1>5, <1>6 DEF FInv

(* The calls between blocks. *)
LEMMA CallsFit ==
  ASSUME FInv,
         InitStream \/ ResetStreamFast \/ Load \/ AttachDictionary \/ SaveDict \/ NewInput \/ TellDecoder
  PROVE  FInv' /\ Serving'
<1>1. ctx \in Contexts /\ lib \in Contexts BY DEF FInv, Typed
<1>2. CASE InitStream BY <1>1, <1>2, BetweenFits, NewContextIs DEF InitStream
<1>3. CASE ResetStreamFast
  <2>1. 0 \in Int OBVIOUS
  <2>2. PrepareTable(ctx, 0, "byU32") \in Contexts BY <1>1, <2>1, PrepareTableIs
  <2> QED BY <1>1, <1>3, <2>2, BetweenFits DEF ResetStreamFast
<1>4. CASE Load
  <2>1. Between /\ w.fn = "load" BY <1>4 DEF Load
  <2>2. IsCall(w) BY <2>1, WorkIs DEF Between
  <2>3. w.dictionary \in Int /\ w.size \in Int /\ w.slow \in BOOLEAN
    BY <2>1, <2>2, Numbers DEF IsCall, Sizes, Address
  <2>4. LoadDict(w.dictionary, w.size, w.slow) \in Contexts BY <2>3, LoadDictIs
  <2>5. \/ lib' = LoadDict(w.dictionary, w.size, w.slow) /\ ctx' = ctx
        \/ ctx' = LoadDict(w.dictionary, w.size, w.slow) /\ lib' = lib
    BY <1>4 DEF Load
  <2> QED BY <1>1, <2>1, <2>4, <2>5, BetweenFits
<1>5. CASE AttachDictionary
  <2>1. Between /\ w.fn = "attach" /\ ctx' = Attach(w.dictionary) /\ lib' = lib
    BY <1>5 DEF AttachDictionary
  <2>2. w.dictionary \in BOOLEAN BY <2>1, WorkIs DEF Between, IsCall
  <2>3. ctx' \in Contexts BY <1>1, <2>1, <2>2, AttachIs
  <2> QED BY <1>1, <2>1, <2>3, BetweenFits
<1>6. CASE SaveDict
  <2>1. Between /\ w.fn = "save" /\ lib' = lib
        /\ ctx' = [ctx EXCEPT !.dictionary = w.buffer, !.dictSize = SavedSize(w.size)]
    BY <1>6 DEF SaveDict
  <2>2. w.buffer \in Int /\ w.size \in Nat BY <2>1, WorkIs DEF Between, IsCall, Address
  <2>3. SavedSize(w.size) \in Nat BY <1>1, <2>2, SavedSizeIs
  <2>4. ctx' \in Contexts BY <1>1, <2>1, <2>2, <2>3 DEF Contexts
  <2> QED BY <1>1, <2>1, <2>4, BetweenFits
<1>7. CASE NewInput BY <1>1, <1>7, BetweenFits DEF NewInput
<1>8. CASE TellDecoder BY <1>1, <1>8, BetweenFits DEF TellDecoder
<1> QED BY <1>2, <1>3, <1>4, <1>5, <1>6, <1>7, <1>8

(* What is left of the acceleration. *)
LEMMA AccelerationIs ==
  ASSUME w.accel \in Int
  PROVE  Acceleration \in Nat /\ Acceleration >= 1
<1>1. ACCELERATION_MAX \in Int /\ ACCELERATION_MAX >= 1 BY DEF ACCELERATION_MAX
<1>2. Min({w.accel, ACCELERATION_MAX}) = (IF w.accel <= ACCELERATION_MAX THEN w.accel ELSE ACCELERATION_MAX)
  BY <1>1, SmallerOf
<1> QED BY <1>1, <1>2 DEF Acceleration

(* The room of a call is a number, whatever it is. *)
LEMMA RoomNow == JobTyped => Capacity \in Nat
BY CapacityIs

(* The same of the next call. *)
LEMMA RoomNext == (JobTyped => Capacity \in Nat)'
BY RoomNow, PTL

(* The start of a call. *)
LEMMA StartingFits ==
  ASSUME FInv, stage = "idle", work # <<>>, w.fn \in Compressors,
         NEW c \in Contexts, NEW d \in {"none", "prefix", "external", "context"},
         NEW small \in BOOLEAN, NEW type \in {"byU16", "byU32", "byPtr"},
         NEW limit \in {"none", "limited", "fill"}, Starting(c, d, small, type, limit),
         d = "none" <=> w.fn \notin Chained,
         d = "none" => c.dictSize = 0 /\ (type = "byU16" <=> w.size < Limit64K),
         d # "none" => type = "byU32" /\ limit # "fill",
         limit = "fill" => c.currentOffset = 0,
         d = "context" => ~small
  PROVE  FInv' /\ Serving'
<1> DEFINE j == Job(c, d, small, type, limit)
<1>1. /\ ctx' = c /\ job' = j /\ stage' = "begin" /\ work' = work /\ lib' = lib
      /\ at' = 0 /\ anchor' = 0 /\ found' = 0 /\ inDict' = FALSE /\ filled' = 0
      /\ probe' = [next |-> 0, step |-> 0, nb |-> 0]
      /\ out' = <<>> /\ tok' = 0 /\ high' = 0 /\ res' = [size |-> 0, consumed |-> 0]
  BY DEF Starting, Resting, NoResult
<1>2. IsCall(w) /\ work \in Seq(AllCalls) /\ lib \in Contexts BY WorkIs DEF FInv, Typed
<1>3. /\ w.size \in Int /\ w.cap \in Nat /\ w.accel \in Int
      /\ (w.fn \in Chained => w.size \in 0..MAX_INPUT_SIZE)
  BY <1>2, Numbers DEF IsCall, Sizes
<1>4. /\ j.start = c.currentOffset /\ j.size = w.size /\ j.dict = d
      /\ j.dictSize = (IF d = "context" THEN lib ELSE c).dictSize /\ j.small = small /\ j.type = type
      /\ j.limit = limit /\ j.cap = (IF limit = "none" THEN 0 ELSE w.cap)
      /\ j.accel = Acceleration
      /\ j.dictTable = (IF d = "context" THEN lib ELSE c).table
      /\ j.dictOffset = (IF d = "context" THEN lib ELSE c).currentOffset
  BY JobIs
<1> HIDE DEF j
<1>5. JobTyped'
  <2>1. (IF d = "context" THEN lib ELSE c) \in Contexts BY <1>2
  <2>2. /\ c.currentOffset \in Nat /\ (IF d = "context" THEN lib ELSE c).dictSize \in Nat
        /\ (IF d = "context" THEN lib ELSE c).table \in Tables
        /\ (IF d = "context" THEN lib ELSE c).currentOffset \in Nat
    BY <2>1 DEF Contexts
  <2>3. Acceleration \in Nat /\ Acceleration >= 1 BY <1>3, AccelerationIs
  <2>4. (IF limit = "none" THEN 0 ELSE w.cap) \in Nat BY <1>3
  <2> QED BY <1>1, <1>3, <1>4, <2>2, <2>3, <2>4 DEF JobTyped
<1>6. IsList(out') /\ Len(out') = 0 BY <1>1 DEF IsList
<1>7. Typed'
  <2>1. /\ probe'.next \in Int /\ probe'.step \in Int /\ probe'.nb \in Int
        /\ res'.size \in Nat /\ res'.consumed \in Int
    BY <1>1
  <2>2. PlacesTyped'
    <3>1. inDict' \in BOOLEAN BY <1>1
    <3>2. /\ at' \in Int /\ anchor' \in Int /\ found' \in Int /\ filled' \in Int /\ tok' \in Int
          /\ high' \in Int
      BY <1>1
    <3> QED BY <1>6, <2>1, <3>1, <3>2 DEF PlacesTyped
  <2>3. stage' \in Stages BY <1>1 DEF Stages
  <2> QED BY <1>1, <1>2, <1>5, <2>2, <2>3 DEF Typed
<1>8. Along' BY <1>1, <1>6 DEF Along, Working
<1>9. Capacity' \in Nat
  BY <1>5, RoomNext
<1>10. Grown' BY <1>1, <1>6, <1>9 DEF Grown
<1>11. Serving'
  <2>1. w' = w BY <1>1 DEF w
  <2> QED BY <1>1, <1>3, <1>4, <2>1 DEF Serving
<1> QED BY <1>7, <1>8, <1>10, <1>11 DEF FInv

(* The types of table there are for a size. *)
LEMMA TypeForIs ==
  ASSUME w.size \in Int
  PROVE  TypeFor \in {"byU16", "byU32", "byPtr"} /\ (TypeFor = "byU16" <=> w.size < Limit64K)
BY DEF TypeFor

(* The functions that compress. *)
LEMMA CompressorsFit ==
  ASSUME FInv,
         CompressFast \/ CompressFastReset \/ CompressDestSize \/ CompressContinue \/ CompressForceExtDict
  PROVE  FInv' /\ Serving'
<1>1. ctx \in Contexts /\ lib \in Contexts BY DEF FInv, Typed
<1>2. stage = "idle" /\ work # <<>> /\ w.fn \in Compressors
  BY DEF CompressFast, CompressFastReset, CompressDestSize, CompressContinue, CompressForceExtDict,
         Compresses, Compressors, Chained
<1>3. IsCall(w) BY <1>2, WorkIs
<1>4. w.size \in Int /\ w.src \in Nat /\ (w.fn \in Chained => w.size \in 0..MAX_INPUT_SIZE /\ w.size \in Nat)
  BY <1>2, <1>3, Numbers DEF IsCall, Sizes
<1>5. TypeFor \in {"byU16", "byU32", "byPtr"} /\ (TypeFor = "byU16" <=> w.size < Limit64K)
  BY <1>4, TypeForIs
<1>6. Limit \in {"none", "limited", "fill"} /\ Limit # "fill" BY DEF Limit
<1>7. CASE CompressFast
  <2>1. w.fn = "fast" /\ w.fn \notin Chained BY <1>7 DEF CompressFast, Compresses, Chained
  <2>2. Starting(NewContext, "none", FALSE, TypeFor, Limit) BY <1>7 DEF CompressFast
  <2> QED BY <1>2, <1>5, <1>6, <2>1, <2>2, NewContextIs, StartingFits
<1>8. CASE CompressFastReset
  <2> DEFINE c == PrepareTable(ctx, w.size, TypeFor)
             small == TypeFor = "byU16" /\ c.currentOffset # 0
  <2>1. w.fn = "fastReset" /\ w.fn \notin Chained BY <1>8 DEF CompressFastReset, Compresses, Chained
  <2>2. Starting(c, "none", small, TypeFor, Limit) BY <1>8 DEF CompressFastReset
  <2>3. c \in Contexts /\ c.dictSize = 0
    <3>1. w.size \in Int /\ ctx \in Contexts /\ TypeFor \in {"byU16", "byU32", "byPtr"}
      BY <1>1, <1>4, <1>5
    <3> QED BY <3>1, PrepareTableIs
  <2>4. small \in BOOLEAN OBVIOUS
  <2> HIDE DEF c, small
  <2> QED BY <1>2, <1>5, <1>6, <2>1, <2>2, <2>3, <2>4, StartingFits
<1>9. CASE CompressDestSize
  <2> DEFINE limit == IF Guaranteed THEN "none" ELSE "fill"
  <2>1. w.fn = "destSize" /\ w.fn \notin Chained BY <1>9 DEF CompressDestSize, Compresses, Chained
  <2>2. Starting(NewContext, "none", FALSE, TypeFor, limit) BY <1>9 DEF CompressDestSize
  <2>3. limit \in {"none", "limited", "fill"} OBVIOUS
  <2> HIDE DEF limit
  <2> QED BY <1>2, <1>5, <2>1, <2>2, <2>3, NewContextIs, StartingFits
<1>10. CASE CompressContinue
  <2>1. w.fn = "continue" /\ w.fn \in Chained BY <1>10 DEF CompressContinue, Compresses, Chained
  <2> DEFINE c == Trim(Uncut)
  <2>2. c \in Contexts BY <1>1, <1>4, <2>1, TrimIs
  <2>3. \/ Starting(c, "prefix", Short(c), "byU32", "limited")
        \/ Starting(lib, "external", FALSE, "byU32", "limited")
        \/ Starting(c, "context", FALSE, "byU32", "limited")
        \/ Starting(c, "external", Short(c), "byU32", "limited")
    BY <1>10 DEF CompressContinue
  <2> HIDE DEF c
  <2>4. Short(c) \in BOOLEAN BY DEF Short
  <2> DEFINE s == Short(c)
  <2>5. s \in BOOLEAN BY <2>4
  <2>6. \/ Starting(c, "prefix", s, "byU32", "limited")
        \/ Starting(lib, "external", FALSE, "byU32", "limited")
        \/ Starting(c, "context", FALSE, "byU32", "limited")
        \/ Starting(c, "external", s, "byU32", "limited")
    BY <2>3
  <2> HIDE DEF s
  <2>7. CASE Starting(c, "prefix", s, "byU32", "limited")
    BY <1>2, <2>1, <2>2, <2>5, <2>7, StartingFits
  <2>8. CASE Starting(lib, "external", FALSE, "byU32", "limited")
    BY <1>1, <1>2, <2>1, <2>8, StartingFits
  <2>9. CASE Starting(c, "context", FALSE, "byU32", "limited")
    BY <1>2, <2>1, <2>2, <2>9, StartingFits
  <2>10. CASE Starting(c, "external", s, "byU32", "limited")
    BY <1>2, <2>1, <2>2, <2>5, <2>10, StartingFits
  <2> QED BY <2>6, <2>7, <2>8, <2>9, <2>10
<1>11. CASE CompressForceExtDict
  <2> DEFINE c == RenormDict(ctx, w.size)
             s == Short(c)
  <2>1. w.fn = "forceExtDict" /\ w.fn \in Chained BY <1>11 DEF CompressForceExtDict, Compresses, Chained
  <2>2. c \in Contexts BY <1>1, <1>4, <2>1, RenormIs
  <2>3. Starting(c, "external", s, "byU32", "none") BY <1>11 DEF CompressForceExtDict
  <2>4. s \in BOOLEAN BY SMTT(60) DEF Short
  <2> HIDE DEF c, s
  <2> QED BY <1>2, <2>1, <2>2, <2>3, <2>4, StartingFits
<1> QED BY <1>7, <1>8, <1>9, <1>10, <1>11

(* A step of the compressor is made for a block at work, and for the same.  *)
LEMMA AtWorkStill ==
  ASSUME CompressStep
  PROVE  job' = job /\ stage \notin {"idle", "done"}
BY DEF CompressStep, RefuseInput, EmptyBlock, BeginBlock, SearchEnds, Miss, Hit, Probed, EncodeLiterals,
       GiveUp, Rewind, EncodeMatch, TestNext, EncodeLast

(* A step of the compressor. *)
LEMMA CompressServes ==
  ASSUME Serving, CompressStep, UNCHANGED <<work, lib>>
  PROVE  Serving'
<1>1. job' = job /\ stage # "idle" BY AtWorkStill
<1>2. w' = w BY DEF w
<1> QED BY <1>1, <1>2 DEF Serving

(* The end of a block. *)
LEMMA BlockDoneFits ==
  ASSUME FInv, Serving, BlockDone
  PROVE  FInv' /\ Serving'
<1>1. /\ stage = "done" /\ stage' = "idle" /\ lib' = lib
      /\ job' = NoJob /\ at' = 0 /\ anchor' = 0 /\ found' = 0 /\ inDict' = FALSE /\ filled' = 0
      /\ probe' = [next |-> 0, step |-> 0, nb |-> 0]
      /\ out' = <<>> /\ tok' = 0 /\ high' = 0 /\ res' = [size |-> 0, consumed |-> 0]
      /\ work' = <<>> \/ work' = Tail(work)
  BY DEF BlockDone, Resting, NoResult
<1>2. IsCall(w) /\ Tail(work) \in Seq(AllCalls) /\ w.fn \in Compressors
  BY <1>1, WorkIs DEF Serving
<1>3. work' \in Seq(AllCalls)
  <2>1. <<>> \in Seq(AllCalls) OBVIOUS
  <2> QED BY <1>1, <1>2, <2>1
<1>4. ctx \in Contexts /\ lib \in Contexts BY DEF FInv, Typed
<1>5. w.src \in Int /\ (w.fn \in Chained => w.size \in Nat) BY SMTT(60), <1>2, Numbers DEF IsCall
<1>6. ctx' \in Contexts
  <2>1. \/ ctx' = NewContext \/ ctx' = ctx
        \/ w.fn \in Chained /\ ctx' = [ctx EXCEPT !.dictionary = w.src, !.dictSize = w.size]
    BY DEF BlockDone
  <2>2. CASE w.fn \in Chained /\ ctx' = [ctx EXCEPT !.dictionary = w.src, !.dictSize = w.size]
    <3>1. w.size \in Nat BY <1>5, <2>2
    <3> QED BY <1>4, <1>5, <2>2, <3>1 DEF Contexts
  <2> QED BY <1>4, <2>1, <2>2, NewContextIs
<1>7. JobTyped'
  <2>1. <<>> \in Tables /\ 0 \in Nat BY EmptyTable
  <2> QED BY <1>1, <2>1 DEF JobTyped, NoJob
<1>8. IsList(out') BY <1>1 DEF IsList
<1>9. PlacesTyped'
  <2>1. /\ probe'.next \in Int /\ probe'.step \in Int /\ probe'.nb \in Int
        /\ res'.size \in Nat /\ res'.consumed \in Int
    BY <1>1
  <2>2. /\ at' \in Int /\ anchor' \in Int /\ found' \in Int /\ inDict' \in BOOLEAN
        /\ filled' \in Int /\ tok' \in Int /\ high' \in Int
    <3>1. inDict' \in BOOLEAN BY <1>1
    <3>2. /\ at' \in Int /\ anchor' \in Int /\ found' \in Int /\ filled' \in Int /\ tok' \in Int
          /\ high' \in Int
      BY <1>1
    <3> QED BY <3>1, <3>2
  <2> QED BY <1>8, <2>1, <2>2 DEF PlacesTyped
<1>10. stage' \in Stages BY <1>1 DEF Stages
<1>11. Typed' BY <1>1, <1>3, <1>4, <1>6, <1>7, <1>9, <1>10 DEF Typed
<1>12. Along' BY <1>1 DEF Along, Working
<1>13. Grown' BY <1>1 DEF Grown
<1>14. Serving' BY <1>1 DEF Serving
<1> QED BY <1>11, <1>12, <1>13, <1>14 DEF FInv

(* At the start nothing is at work. *)
LEMMA InitFits ==
  ASSUME CodecInit
  PROVE  FInv /\ Serving
<1>1. /\ ctx = NewContext /\ lib = NewContext /\ job = NoJob /\ stage = "idle"
      /\ at = 0 /\ anchor = 0 /\ found = 0 /\ inDict = FALSE
      /\ probe = [next |-> 0, step |-> 0, nb |-> 0] /\ filled = 0
      /\ out = <<>> /\ tok = 0 /\ high = 0 /\ res = [size |-> 0, consumed |-> 0]
  BY DEF CodecInit, EncoderRests, NoResult
<1>2. work \in Seq(AllCalls)
  <2>1. <<>> \in Seq(AllCalls) OBVIOUS
  <2>2. ASSUME NEW p \in Plans PROVE p.work \in Seq(AllCalls)
    <3>1. p.work \in Seq(CallsOf(p)) BY PlansAssumption
    <3>2. CallsOf(p) \subseteq AllCalls BY DEF AllCalls
    <3> QED BY <3>1, <3>2
  <2> QED BY <2>1, <2>2 DEF CodecInit
<1>3. JobTyped
  <2>1. <<>> \in Tables /\ 0 \in Nat BY EmptyTable
  <2> QED BY <1>1, <2>1 DEF JobTyped, NoJob
<1>4. IsList(out) BY <1>1 DEF IsList
<1>5. PlacesTyped
  <2>1. /\ probe.next \in Int /\ probe.step \in Int /\ probe.nb \in Int
        /\ res.size \in Nat /\ res.consumed \in Int
    BY <1>1
  <2>2. /\ at \in Int /\ anchor \in Int /\ found \in Int /\ inDict \in BOOLEAN
        /\ filled \in Int /\ tok \in Int /\ high \in Int
    <3>1. inDict \in BOOLEAN BY <1>1
    <3>2. /\ at \in Int /\ anchor \in Int /\ found \in Int /\ filled \in Int /\ tok \in Int /\ high \in Int
      BY <1>1
    <3> QED BY <3>1, <3>2
  <2> QED BY <1>4, <2>1, <2>2 DEF PlacesTyped
<1>6. Typed BY <1>1, <1>2, <1>3, <1>5, NewContextIs DEF Typed, Stages
<1>7. Along /\ Grown /\ Serving BY <1>1 DEF Along, Grown, Working, Serving
<1> QED BY <1>6, <1>7 DEF FInv

(* A step of the decoder, and none at all.                                  *)
LEMMA OthersServe ==
  ASSUME Serving, UNCHANGED <<compVars, work, lib>>
  PROVE  Serving'
BY DEF Serving, compVars, w

(* Every step keeps what holds of the compressor. *)
LEMMA NextFits ==
  ASSUME FInv, Serving, [CodecNext]_codecVars
  PROVE  FInv' /\ Serving'
<1>1. CASE InitStream \/ ResetStreamFast \/ Load \/ AttachDictionary \/ SaveDict \/ NewInput \/ TellDecoder
  BY <1>1, CallsFit
<1>2. CASE CompressFast \/ CompressFastReset \/ CompressDestSize \/ CompressContinue \/ CompressForceExtDict
  BY <1>2, CompressorsFit
<1>3. CASE Compress BY <1>3, CompressFits, CompressServes DEF Compress
<1>4. CASE BlockDone BY <1>4, BlockDoneFits
<1>5. CASE UNCHANGED <<compVars, work, lib>> BY <1>5, SameFInv, OthersServe
<1>6. CASE Decode \/ Over \/ UNCHANGED codecVars BY <1>5, <1>6 DEF Decode, Over, codecVars
<1> QED BY <1>1, <1>2, <1>3, <1>4, <1>6 DEF CodecNext, Encode

(* In every mode and for every sequence of calls the compressor writes no   *)
(* further than it may, the bytes that its copies in steps of eight touch   *)
(* included, and where no limit is checked no further than                  *)
(* LZ4_compressBound; it fails only where less than that bound is given,    *)
(* and it leaves out nothing of the input unless it is to fill the output.  *)
THEOREM FitsTheorem == CodecSpec => []Fits
<1>1. CodecInit => FInv /\ Serving BY InitFits
<1>2. FInv /\ Serving /\ [CodecNext]_codecVars => FInv' /\ Serving' BY NextFits
<1>3. FInv => Fits BY FInvFits
<1> QED BY <1>1, <1>2, <1>3, PTL DEF CodecSpec
-----------------------------------------------------------------------------
(* The stream by its indexes.                                              *)

(* There are no more entries than buckets. *)
LEMMA EntriesIs ==
  ASSUME NEW c \in Contexts
  PROVE  /\ Entries(c) \subseteq Nat \ {0} /\ IsFiniteSet(Entries(c))
         /\ Cardinality(Entries(c)) <= Buckets
<1> DEFINE D == DOMAIN c.table
           V == {c.table[h] : h \in D}
<1>1. c.table \in Tables BY DEF Contexts
<1>2. D \subseteq Slots /\ c.table \in [D -> Nat] BY <1>1, TableHas
<1>3. IsFiniteSet(Slots) /\ Cardinality(Slots) = Buckets
  <2>1. 0 \in Int /\ Buckets - 1 \in Int BY Numbers
  <2> QED BY <2>1, FS_Interval, Numbers DEF Slots
<1>4. D \in SUBSET Slots BY <1>2
<1>5. IsFiniteSet(D) /\ Cardinality(D) <= Buckets
  <2> HIDE DEF D
  <2> QED BY <1>3, <1>4, FS_Subset
<1>6. c.table \in Surjection(D, V) BY <1>2 DEF Surjection
<1>7. IsFiniteSet(V) /\ Cardinality(V) <= Cardinality(D)
  <2> HIDE DEF D, V
  <2> QED BY <1>5, <1>6, FS_Surjection
<1>8. Entries(c) \in SUBSET V /\ Entries(c) \subseteq Nat \ {0} BY <1>2 DEF Entries
<1>9. IsFiniteSet(Entries(c)) /\ Cardinality(Entries(c)) <= Cardinality(V)
  <2> HIDE DEF V
  <2> QED BY <1>7, <1>8, FS_Subset
<1>10. Cardinality(D) \in Nat /\ Cardinality(V) \in Nat /\ Cardinality(Entries(c)) \in Nat
  BY <1>5, <1>7, <1>9, FS_CardinalityType
<1> HIDE DEF D, V
<1> QED BY <1>5, <1>7, <1>8, <1>9, <1>10, Numbers

(* What is read in a table, but for the zeros of an empty bucket, is an     *)
(* entry.                                                                   *)
LEMMA EntryOf ==
  ASSUME NEW c, NEW e
  PROVE  e \in Entries(c) <=> e # 0 /\ \E h \in DOMAIN c.table : e = c.table[h]
BY DEF Entries

(* A position that is put into the table takes the place of another one.    *)
LEMMA PutEntries ==
  ASSUME NEW c \in Contexts, NEW d \in Contexts, NEW i \in Nat, d.table = Put(c.table, i)
  PROVE  Entries(d) \subseteq Entries(c) \cup {Stored(i)}
<1> DEFINE tt == c.table
           pp == Put(tt, i)
<1>1. tt \in Tables BY DEF Contexts
<1>2. \A h \in DOMAIN pp : pp[h] = Stored(i) \/ (h \in DOMAIN tt /\ pp[h] = tt[h])
  <2> HIDE DEF tt
  <2> QED BY <1>1, PutIs
<1> HIDE DEF pp
<1>3. ASSUME NEW e \in Entries(d) PROVE e \in Entries(c) \cup {Stored(i)}
  <2>0. d.table = pp BY DEF pp
  <2>1. PICK h \in DOMAIN pp : e = pp[h] /\ e # 0 BY <2>0, EntryOf
  <2> QED BY <1>2, <2>1, EntryOf
<1> QED BY <1>3

(* A bucket that is cleared takes entries away. *)
LEMMA ClearEntries ==
  ASSUME NEW c \in Contexts, NEW d \in Contexts, NEW S, d.table = Clear(c.table, S)
  PROVE  Entries(d) \subseteq Entries(c)
<1> DEFINE tt == c.table
           cc == Clear(tt, S)
<1>1. tt \in Tables BY DEF Contexts
<1>2. DOMAIN cc \subseteq DOMAIN tt /\ \A h \in DOMAIN cc : cc[h] = tt[h]
  <2> HIDE DEF tt
  <2>1. DOMAIN cc = DOMAIN tt \ {HashAt(i) : i \in S} BY <1>1, ClearIs
  <2>2. DOMAIN cc \subseteq DOMAIN tt BY <2>1
  <2>3. \A h \in DOMAIN cc : cc[h] = tt[h] BY <1>1, ClearIs
  <2> QED BY <2>2, <2>3
<1> HIDE DEF cc
<1>3. ASSUME NEW e \in Entries(d) PROVE e \in Entries(c)
  <2>0. d.table = cc BY DEF cc
  <2>1. PICK h \in DOMAIN cc : e = cc[h] /\ e # 0 BY <2>0, EntryOf
  <2> QED BY <1>2, <2>1, EntryOf
<1> QED BY <1>3

(* Streams with the same table have the same entries. *)
LEMMA SameEntries ==
  ASSUME NEW c, NEW d, d.table = c.table
  PROVE  Entries(d) = Entries(c)
BY DEF Entries

(* The clear table has none. *)
LEMMA NoEntries ==
  ASSUME NEW c, c.table = <<>>
  PROVE  Entries(c) = {}
BY DEF Entries

(* The numbers of the abstract stream are those of the program.             *)
LEMMA AbstractNumbers ==
  /\ Indexes!HASH_UNIT = 8 /\ Indexes!MINMATCH = 4 /\ Indexes!MFLIMIT = 12 /\ Indexes!minLength = 13
  /\ Indexes!Limit64K = KB64 + 11 /\ \A S : Indexes!Cardinality(S) = Cardinality(S)
  /\ \A i : Indexes!U32(i) = U32(i)
<1>1. \A S : Indexes!Cardinality(S) = Cardinality(S) BY DEF Indexes!Cardinality, Cardinality
<1>2. \A i : Indexes!U32(i) = U32(i) BY DEF Indexes!U32, U32
<1> QED BY <1>1, <1>2
     DEF Indexes!HASH_UNIT, Indexes!MINMATCH, Indexes!MFLIMIT, Indexes!minLength, Indexes!Limit64K

-----------------------------------------------------------------------------
(* The steps, as the abstract stream makes them.                           *)

(* Between blocks no block is at work; the other stream has nothing         *)
(* attached, and is what is attached only when it holds a dictionary.  The  *)
(* indexes of a block are numbers of 32 bits.                               *)
Settled == /\ stage = "idle" => job = NoJob
           /\ lib.dictCtx = FALSE /\ (lib.dictSize # 0 => lib.tableType = "byU32")
           /\ lib.currentOffset <= KB64
           /\ ctx.dictCtx => lib.dictSize # 0
           /\ started \in BOOLEAN
           /\ stage # "idle" /\ job.size <= MAX_INPUT_SIZE => job.start + job.size < IndexSpan

(* What is kept of the compressor and of its streams. *)
Kept == FInv /\ Serving /\ Settled

(* Between blocks there is none. *)
LEMMA BetweenView ==
  ASSUME Settled, Between
  PROVE  /\ Indexes!Idle /\ UNCHANGED BlockView
         /\ stage = "idle" /\ work # <<>> /\ stage' = stage /\ job' = job
<1>1. stage = "idle" /\ work # <<>> /\ stage' = stage /\ job' = job BY DEF Between
<1>2. BlockView.stage = "none" BY <1>1 DEF BlockView
<1>3. BlockView' = BlockView BY <1>1 DEF BlockView, Begun
<1> QED BY <1>1, <1>2, <1>3 DEF Indexes!Idle

(* A clean stream. *)
LEMMA ClearedIs ==
  ASSUME ctx' = NewContext
  PROVE  Indexes!Cleared
<1>1. Entries(ctx') = {} BY NewContextIs, NoEntries
<1> QED BY <1>1, NewContextIs DEF Indexes!Cleared

(* LZ4_initStream. *)
LEMMA InitStreamSimulates ==
  ASSUME Kept, InitStream
  PROVE  Indexes!InitStream /\ Settled'
<1>1. Between /\ ctx' = NewContext /\ lib' = lib /\ started' = TRUE BY DEF InitStream
<1>2. Indexes!Idle /\ UNCHANGED BlockView /\ stage' = stage /\ job' = job
  BY <1>1, BetweenView DEF Kept
<1>3. Indexes!Cleared BY <1>1, ClearedIs
<1>4. UNCHANGED Indexes!dict BY <1>1 DEF Indexes!dict
<1>5. Settled' BY <1>1, <1>2, NewContextIs DEF Kept, Settled
<1> QED BY <1>1, <1>2, <1>3, <1>4, <1>5 DEF Indexes!InitStream

(* LZ4_resetStream_fast and LZ4_prepareTable. *)
LEMMA PreparedIs ==
  ASSUME ctx \in Contexts, NEW size \in Int, NEW type, ctx' = PrepareTable(ctx, size, type)
  PROVE  Indexes!PrepareTable(size, type) /\ ctx'.dictCtx = FALSE /\ ctx'.dictSize = 0
<1> DEFINE p == PrepareTable(ctx, size, type)
           s == StaleIn(ctx, size, type)
<1>1. /\ p \in Contexts /\ p.dictSize = 0 /\ p.dictCtx = FALSE
      /\ s => p.currentOffset = 0 /\ p.table = <<>> /\ p.tableType = "cleared"
      /\ ~s => /\ p.currentOffset = Gap(ctx.currentOffset, type)
               /\ p.table = ctx.table /\ p.tableType = ctx.tableType
  BY PrepareTableIs
<1>2. Indexes!Stale(size, type) <=> s BY DEF Indexes!Stale, StaleIn
<1>8. Gap(ctx.currentOffset, type) = Indexes!Gap(ctx.currentOffset, type)
  BY AbstractNumbers DEF Gap, Indexes!Gap
<1>3. ctx' = p OBVIOUS
<1>4. s => Entries(ctx') = {} BY <1>1, <1>3, NoEntries
<1>5. ~s => Entries(ctx') = Entries(ctx) BY <1>1, <1>3, SameEntries
<1> HIDE DEF p, s
<1>6. CASE s
  <2>1. ctx'.currentOffset = 0 /\ ctx'.tableType = "cleared" /\ ctx'.dictSize = 0
        /\ ctx'.dictCtx = FALSE
    BY <1>1, <1>3, <1>6
  <2> QED BY <1>2, <1>4, <1>6, <2>1 DEF Indexes!PrepareTable
<1>7. CASE ~s
  <2>1. /\ ctx'.currentOffset = Indexes!Gap(ctx.currentOffset, type)
        /\ ctx'.tableType = ctx.tableType /\ ctx'.dictSize = 0 /\ ctx'.dictCtx = FALSE
    BY <1>1, <1>3, <1>7, <1>8
  <2> QED BY <1>2, <1>5, <1>7, <2>1 DEF Indexes!PrepareTable
<1> QED BY <1>6, <1>7

(* LZ4_resetStream_fast. *)
LEMMA ResetSimulates ==
  ASSUME Kept, ResetStreamFast
  PROVE  Indexes!ResetStreamFast /\ Settled'
<1>1. Between /\ ctx' = PrepareTable(ctx, 0, "byU32") /\ lib' = lib /\ started' = TRUE
  BY DEF ResetStreamFast
<1>2. Indexes!Idle /\ UNCHANGED BlockView /\ stage = "idle" /\ work # <<>> /\ stage' = stage /\ job' = job
  BY <1>1, BetweenView DEF Kept
<1>3. ctx \in Contexts /\ 0 \in Int BY DEF Kept, FInv, Typed
<1>5. Indexes!PrepareTable(0, "byU32") /\ ctx'.dictCtx = FALSE BY <1>1, <1>3, PreparedIs
<1>6. UNCHANGED Indexes!dict BY <1>1 DEF Indexes!dict
<1>7. Settled' BY <1>1, <1>2, <1>5 DEF Kept, Settled
<1> QED BY <1>1, <1>2, <1>5, <1>6, <1>7 DEF Indexes!ResetStreamFast

(* What LZ4_loadDict puts into a stream. *)
LEMMA LoadedEntries ==
  ASSUME NEW dictionary \in Int, NEW size \in Int, NEW slow \in BOOLEAN
  PROVE  LET c == LoadDict(dictionary, size, slow)
         IN /\ c \in Contexts /\ c.currentOffset = KB64 /\ c.dictSize = Indexes!Held(size)
            /\ c.dictCtx = FALSE /\ Indexes!Loads(size, Entries(c))
            /\ Indexes!Held(size) = 0 => c.tableType = "cleared"
            /\ Indexes!Held(size) # 0 => c.tableType = "byU32"
<1> DEFINE c == LoadDict(dictionary, size, slow)
<1>1. /\ c \in Contexts /\ c.currentOffset = KB64 /\ c.dictCtx = FALSE
      /\ size < HASH_UNIT => c.dictSize = 0 /\ c.tableType = "cleared" /\ c.table = <<>>
      /\ size >= HASH_UNIT =>
           /\ c.dictSize = (IF size > KB64 THEN KB64 ELSE size) /\ c.tableType = "byU32"
           /\ \A h \in DOMAIN c.table :
                c.table[h] = 0 \/ c.table[h] \in (KB64 - c.dictSize)..(KB64 - HASH_UNIT)
  BY LoadDictIs
<1> HIDE DEF c
<1>2. /\ Entries(c) \subseteq Nat \ {0} /\ Indexes!Cardinality(Entries(c)) <= Buckets
  BY <1>1, EntriesIs, AbstractNumbers
<1>3. Indexes!Held(size) = (IF size < 8 THEN 0 ELSE IF size > KB64 THEN KB64 ELSE size)
  BY AbstractNumbers DEF Indexes!Held
<1>4. CASE size < 8
  <2>1. Entries(c) = {} BY <1>1, <1>4, NoEntries, Numbers
  <2>2. Indexes!Held(size) = 0 BY <1>3, <1>4
  <2>3. Indexes!Loads(size, Entries(c)) BY <1>2, <2>1, <2>2 DEF Indexes!Loads
  <2> QED BY <1>1, <1>4, <2>2, <2>3, Numbers DEF c
<1>5. CASE size >= 8
  <2>1. /\ c.dictSize = Indexes!Held(size) /\ Indexes!Held(size) # 0 /\ c.tableType = "byU32"
    BY <1>1, <1>3, <1>5, Numbers
  <2>2. ASSUME NEW e \in Entries(c)
        PROVE  e \in (KB64 - c.dictSize)..(KB64 - HASH_UNIT)
    <3>1. PICK h \in DOMAIN c.table : e = c.table[h] /\ e # 0 BY EntryOf
    <3> QED BY <1>1, <1>5, <3>1, Numbers
  <2>3. Indexes!HASH_UNIT = HASH_UNIT BY AbstractNumbers, Numbers
  <2>4. Indexes!Loads(size, Entries(c)) BY <1>2, <2>1, <2>2, <2>3 DEF Indexes!Loads
  <2> QED BY <1>1, <2>1, <2>4 DEF c
<1>6. size < 8 \/ size >= 8 OBVIOUS
<1> QED BY <1>4, <1>5, <1>6 DEF c

(* LZ4_loadDict, of either stream. *)
LEMMA LoadSimulates ==
  ASSUME Kept, Careful, Load
  PROVE  (Indexes!LoadDict \/ Indexes!LoadOther) /\ Settled'
<1> DEFINE c == LoadDict(w.dictionary, w.size, w.slow)
<1>1. Between /\ w.fn = "load" BY DEF Load
<1>2. Indexes!Idle /\ UNCHANGED BlockView /\ stage = "idle" /\ work # <<>> /\ stage' = stage /\ job' = job
  BY <1>1, BetweenView DEF Kept
<1>3. IsCall(w) BY <1>2, WorkIs DEF Kept
<1>4. w.dictionary \in Int /\ w.size \in Int /\ w.size \in Sizes /\ w.slow \in BOOLEAN
  BY <1>1, <1>3, Numbers DEF IsCall, Sizes, Address
<1>5. /\ c \in Contexts /\ c.currentOffset = KB64 /\ c.dictSize = Indexes!Held(w.size)
      /\ c.dictCtx = FALSE /\ Indexes!Loads(w.size, Entries(c))
      /\ Indexes!Held(w.size) = 0 => c.tableType = "cleared"
      /\ Indexes!Held(w.size) # 0 => c.tableType = "byU32"
  BY <1>4, LoadedEntries
<1>6. CASE w.lib
  <2>1. lib' = c /\ ctx' = ctx /\ started' = started BY <1>6 DEF Load
  <2>2. ~ctx.dictCtx BY <1>1, <1>2, <1>6 DEF Careful
  <2> HIDE DEF c
  <2>3. /\ lib'.currentOffset = KB64 /\ lib'.dictSize = Indexes!Held(w.size)
        /\ Indexes!Loads(w.size, Entries(lib'))
    BY <1>5, <2>1
  <2>4. UNCHANGED Indexes!ctx BY <2>1 DEF Indexes!ctx
  <2>5. Indexes!LoadOther BY <1>2, <1>4, <2>1, <2>2, <2>3, <2>4 DEF Indexes!LoadOther
  <2>6. Settled' BY <1>2, <1>5, <2>1, <2>2, Numbers DEF Settled, Kept
  <2> QED BY <2>5, <2>6
<1>7. CASE ~w.lib
  <2>1. ctx' = c /\ lib' = lib /\ started' = TRUE BY <1>7 DEF Load
  <2> HIDE DEF c
  <2>2. /\ ctx'.currentOffset = KB64 /\ ctx'.dictSize = Indexes!Held(w.size)
        /\ ctx'.dictCtx = FALSE /\ Indexes!Loads(w.size, Entries(ctx'))
        /\ Indexes!Held(w.size) = 0 => ctx'.tableType = "cleared"
        /\ Indexes!Held(w.size) # 0 => ctx'.tableType = "byU32"
    BY <1>5, <2>1
  <2>3. UNCHANGED Indexes!dict BY <2>1 DEF Indexes!dict
  <2>4. Indexes!LoadDict BY <1>2, <1>4, <2>1, <2>2, <2>3 DEF Indexes!LoadDict
  <2>5. Settled' BY <1>2, <2>1, <2>2 DEF Settled, Kept
  <2> QED BY <2>4, <2>5
<1> QED BY <1>6, <1>7

(* LZ4_attach_dictionary. *)
LEMMA AttachSimulates ==
  ASSUME Kept, AttachDictionary
  PROVE  (Indexes!AttachDictionary \/ Indexes!DetachDictionary) /\ Settled'
<1>1. Between /\ w.fn = "attach" /\ ctx' = Attach(w.dictionary) /\ lib' = lib /\ started' = started
  BY DEF AttachDictionary
<1>2. Indexes!Idle /\ UNCHANGED BlockView /\ stage' = stage /\ job' = job /\ work # <<>>
  BY <1>1, BetweenView DEF Kept
<1>3. w.dictionary \in BOOLEAN BY <1>1, <1>2, WorkIs DEF Kept, IsCall
<1>4. ctx \in Contexts BY DEF Kept, FInv, Typed
<1>5. /\ ctx'.table = ctx.table /\ ctx'.tableType = ctx.tableType /\ ctx'.dictSize = ctx.dictSize
      /\ ctx'.dictCtx = (w.dictionary /\ lib.dictSize # 0)
      /\ ctx'.currentOffset =
           (IF w.dictionary /\ ctx.currentOffset = 0 THEN KB64 ELSE ctx.currentOffset)
  BY <1>1, <1>3, <1>4, AttachIs
<1>6. Entries(ctx') = Entries(ctx) BY <1>5, SameEntries
<1>7. UNCHANGED Indexes!dict BY <1>1 DEF Indexes!dict
<1>8. CASE w.dictionary = TRUE
  <2>1. Indexes!AttachDictionary
    BY <1>1, <1>2, <1>5, <1>6, <1>7, <1>8 DEF Indexes!AttachDictionary
  <2>2. Settled' BY <1>1, <1>2, <1>5 DEF Settled, Kept
  <2> QED BY <2>1, <2>2
<1>9. CASE w.dictionary = FALSE
  <2>1. Indexes!DetachDictionary
    BY <1>1, <1>2, <1>5, <1>6, <1>7, <1>9 DEF Indexes!DetachDictionary
  <2>2. Settled' BY <1>1, <1>2, <1>5 DEF Settled, Kept
  <2> QED BY <2>1, <2>2
<1> QED BY <1>3, <1>8, <1>9

(* LZ4_saveDict. *)
LEMMA SaveSimulates ==
  ASSUME Kept, SaveDict
  PROVE  Indexes!SaveDict /\ Settled'
<1>1. /\ Between /\ w.fn = "save" /\ lib' = lib /\ started' = started
      /\ ctx' = [ctx EXCEPT !.dictionary = w.buffer, !.dictSize = SavedSize(w.size)]
  BY DEF SaveDict
<1>2. Indexes!Idle /\ UNCHANGED BlockView /\ stage' = stage /\ job' = job /\ work # <<>>
  BY <1>1, BetweenView DEF Kept
<1>3. w.size \in Sizes \cap Nat BY <1>1, <1>2, WorkIs DEF Kept, IsCall
<1>4. ctx \in Contexts /\ w.size \in Nat BY <1>3 DEF Kept, FInv, Typed
<1>5. /\ SavedSize(w.size) \in {w.size, KB64, ctx.dictSize}
      /\ SavedSize(w.size) <= w.size /\ SavedSize(w.size) <= KB64
      /\ SavedSize(w.size) <= ctx.dictSize
  BY <1>4, SavedSizeIs
<1>6. /\ ctx'.table = ctx.table /\ ctx'.tableType = ctx.tableType /\ ctx'.dictCtx = ctx.dictCtx
      /\ ctx'.currentOffset = ctx.currentOffset /\ ctx'.dictSize = SavedSize(w.size)
  BY <1>1, <1>4 DEF Contexts
<1>7. Entries(ctx') = Entries(ctx) BY <1>6, SameEntries
<1>8. UNCHANGED Indexes!dict BY <1>1 DEF Indexes!dict
<1>9. Indexes!SaveDict
  BY <1>1, <1>2, <1>3, <1>5, <1>6, <1>7, <1>8 DEF Indexes!SaveDict
<1>10. Settled' BY <1>1, <1>2, <1>6 DEF Settled, Kept
<1> QED BY <1>9, <1>10

(* A state in which nothing is different that the abstract stream knows of. *)
LEMMA SameView ==
  ASSUME UNCHANGED <<ctx, lib, BlockView, started>>
  PROVE  UNCHANGED Indexes!vars
BY DEF Indexes!vars, Indexes!ctx, Indexes!dict

(* The user's own work. *)
LEMMA UserSimulates ==
  ASSUME Kept, NewInput \/ TellDecoder
  PROVE  UNCHANGED Indexes!vars /\ Settled'
<1>1. Between /\ ctx' = ctx /\ lib' = lib /\ started' = started BY DEF NewInput, TellDecoder
<1>2. UNCHANGED BlockView /\ stage' = stage /\ job' = job
  BY <1>1, BetweenView DEF Kept
<1>3. Settled' BY <1>1, <1>2 DEF Settled, Kept
<1> QED BY <1>1, <1>2, <1>3, SameView

(* A block that is called for. *)
LEMMA StartingView ==
  ASSUME Settled, stage = "idle", NEW c, NEW d, NEW small, NEW type, NEW limit,
         Starting(c, d, small, type, limit), c.dictCtx => lib.dictSize # 0,
         w.size <= MAX_INPUT_SIZE => c.currentOffset + w.size < IndexSpan
  PROVE  /\ Indexes!Idle /\ ctx' = c /\ lib' = lib /\ Settled' /\ UNCHANGED Indexes!dict
         /\ started' = (started /\ w.fn \in Chained)
         /\ BlockView' = Indexes!Called(c.currentOffset, w.size, type, d, small,
                                        IF d = "context" THEN lib.dictSize ELSE c.dictSize)
<1> DEFINE j == Job(c, d, small, type, limit)
<1>1. /\ ctx' = c /\ lib' = lib /\ job' = j /\ stage' = "begin"
      /\ started' = (started /\ w.fn \in Chained)
  BY DEF Starting, Resting
<1>2. /\ j.start = c.currentOffset /\ j.size = w.size /\ j.dict = d /\ j.small = small /\ j.type = type
      /\ j.dictSize = (IF d = "context" THEN lib ELSE c).dictSize
  BY JobIs
<1> HIDE DEF j
<1>3. j.dictSize = (IF d = "context" THEN lib.dictSize ELSE c.dictSize) BY <1>2
<1>4. BlockView' = [stage |-> "called", start |-> j.start, size |-> j.size, type |-> j.type,
                    dict |-> j.dict, small |-> j.small, hist |-> j.dictSize]
  BY <1>1 DEF BlockView, Begun
<1>5. Indexes!Idle BY DEF Indexes!Idle, BlockView
<1>6. Settled'
  <2>1. started' \in BOOLEAN BY <1>1
  <2> QED BY <1>1, <1>2, <2>1 DEF Settled
<1>7. UNCHANGED Indexes!dict BY <1>1 DEF Indexes!dict
<1> QED BY <1>1, <1>2, <1>3, <1>4, <1>5, <1>6, <1>7 DEF Indexes!Called

(* The tables there are for a size. *)
LEMMA TypesForIs ==
  ASSUME w.size \in Int
  PROVE  TypeFor \in Indexes!TypesFor(w.size)
BY AbstractNumbers, Numbers DEF TypeFor, Indexes!TypesFor

(* LZ4_compress_fast_extState and LZ4_compress_destSize_extState. *)
LEMMA FastSimulates ==
  ASSUME Kept, CompressFast \/ CompressDestSize
  PROVE  Indexes!CompressFast /\ Settled'
<1>1. PICK limit : Starting(NewContext, "none", FALSE, TypeFor, limit)
  BY DEF CompressFast, CompressDestSize
<1>2. stage = "idle" /\ work # <<>> /\ w.fn \in Compressors /\ w.fn \notin Chained
  BY DEF CompressFast, CompressDestSize, Compresses, Compressors, Chained
<1>3. w.size \in Sizes BY <1>2, WorkIs DEF Kept, IsCall
<1>4. w.size \in Int BY <1>3, Numbers DEF Sizes
<1>5. /\ Indexes!Idle /\ ctx' = NewContext /\ Settled' /\ UNCHANGED Indexes!dict /\ started' = FALSE
      /\ BlockView' = Indexes!Called(0, w.size, TypeFor, "none", FALSE, 0)
  <2>1. ~NewContext.dictCtx BY NewContextIs
  <2>2. Settled BY DEF Kept
  <2>4. w.size <= MAX_INPUT_SIZE => NewContext.currentOffset + w.size < IndexSpan
    BY <1>4, NewContextIs, Numbers
  <2>3. /\ Indexes!Idle /\ ctx' = NewContext /\ Settled' /\ UNCHANGED Indexes!dict
        /\ started' = (started /\ w.fn \in Chained)
        /\ BlockView' = Indexes!Called(NewContext.currentOffset, w.size, TypeFor, "none", FALSE,
                                       IF "none" = "context" THEN lib.dictSize ELSE NewContext.dictSize)
    BY <1>1, <1>2, <2>1, <2>2, <2>4, StartingView
  <2> QED BY <1>2, <2>3, NewContextIs
<1>6. Indexes!Cleared BY <1>5, ClearedIs
<1>7. TypeFor \in Indexes!TypesFor(w.size) BY <1>4, TypesForIs
<1> QED BY <1>3, <1>5, <1>6, <1>7 DEF Indexes!CompressFast

(* LZ4_compress_fast_extState_fastReset. *)
LEMMA FastResetSimulates ==
  ASSUME Kept, Careful, CompressFastReset
  PROVE  Indexes!CompressFastReset /\ Settled'
<1> DEFINE c == PrepareTable(ctx, w.size, TypeFor)
           small == TypeFor = "byU16" /\ c.currentOffset # 0
<1>1. Starting(c, "none", small, TypeFor, Limit) BY DEF CompressFastReset
<1>2. /\ stage = "idle" /\ work # <<>> /\ w.fn = "fastReset" /\ w.fn \in Compressors
      /\ w.fn \notin Chained
  BY DEF CompressFastReset, Compresses, Compressors, Chained
<1>3. w.size \in Sizes /\ w.size >= 0 BY <1>2, WorkIs DEF Kept, IsCall
<1>4. w.size \in Int /\ ctx \in Contexts BY <1>3, Numbers DEF Sizes, Kept, FInv, Typed
<1>5. w.size <= MAX_INPUT_SIZE => c.currentOffset + w.size < IndexSpan
  BY <1>2 DEF Careful, Start
<1>6. c.dictSize = 0 /\ c.dictCtx = FALSE BY <1>4, PrepareTableIs
<1>7. /\ Indexes!Idle /\ ctx' = c /\ Settled' /\ UNCHANGED Indexes!dict /\ started' = FALSE
      /\ BlockView' = Indexes!Called(c.currentOffset, w.size, TypeFor, "none", small, 0)
  <2> HIDE DEF c, small
  <2>1. ~c.dictCtx /\ Settled BY <1>6 DEF Kept
  <2>2. /\ Indexes!Idle /\ ctx' = c /\ Settled' /\ UNCHANGED Indexes!dict
        /\ started' = (started /\ w.fn \in Chained)
        /\ BlockView' = Indexes!Called(c.currentOffset, w.size, TypeFor, "none", small,
                                       IF "none" = "context" THEN lib.dictSize ELSE c.dictSize)
    BY <1>1, <1>2, <1>5, <2>1, StartingView
  <2> QED BY <1>2, <1>6, <2>2
<1>8. Indexes!PrepareTable(w.size, TypeFor) BY <1>4, <1>7, PreparedIs
<1>9. TypeFor \in Indexes!TypesFor(w.size) BY <1>4, TypesForIs
<1>10. BlockView' = Indexes!Called(ctx'.currentOffset, w.size, TypeFor, "none",
                                   TypeFor = "byU16" /\ ctx'.currentOffset # 0, 0)
  BY <1>7
<1> QED BY <1>3, <1>7, <1>8, <1>9, <1>10 DEF Indexes!CompressFastReset

(* A rescaled table. *)
LEMMA RescaledIs ==
  ASSUME ctx \in Contexts, NEW n \in 0..MAX_INPUT_SIZE, NEW d, d = RenormDict(ctx, n)
  PROVE  /\ d \in Contexts /\ d.tableType = ctx.tableType /\ d.dictCtx = ctx.dictCtx
         /\ d.currentOffset = Indexes!RescaledOff(n) /\ d.dictSize = Indexes!RescaledHist(n)
         /\ Entries(d) = Indexes!RescaledEntries(n)
<1> DEFINE late  == U32(ctx.currentOffset + n) > IndexLimit
           delta == ctx.currentOffset - KB64
<1>0. n \in Nat /\ n <= MAX_INPUT_SIZE BY Numbers
<1>1. /\ d \in Contexts /\ d.tableType = ctx.tableType /\ d.dictCtx = ctx.dictCtx
      /\ d.currentOffset = (IF late THEN KB64 ELSE ctx.currentOffset)
      /\ d.dictSize = (IF late /\ ctx.dictSize > KB64 THEN KB64 ELSE ctx.dictSize)
      /\ ~late => d.table = ctx.table
      /\ late => /\ DOMAIN d.table = DOMAIN ctx.table
                 /\ \A h \in DOMAIN ctx.table :
                      d.table[h] = (IF ctx.table[h] < delta THEN 0 ELSE ctx.table[h] - delta)
  BY <1>0, RenormIs
<1>2. Indexes!Rescaled(n) <=> late BY AbstractNumbers DEF Indexes!Rescaled
<1>3. d.currentOffset = Indexes!RescaledOff(n) /\ d.dictSize = Indexes!RescaledHist(n)
  BY <1>1, <1>2 DEF Indexes!RescaledOff, Indexes!RescaledHist
<1>4. CASE ~late
  <2>1. Entries(d) = Entries(ctx) BY <1>1, <1>4, SameEntries
  <2> QED BY <1>1, <1>2, <1>3, <1>4, <2>1 DEF Indexes!RescaledEntries
<1>5. CASE late
  <2>1. ctx.currentOffset \in Nat /\ KB64 \in Nat /\ delta \in Nat /\ delta >= 1
    <3>1. ctx.currentOffset \in Nat BY DEF Contexts
    <3>2. ctx.currentOffset + n \in Nat BY <1>0, <3>1
    <3>3. U32(ctx.currentOffset + n) \in Nat /\ U32(ctx.currentOffset + n) <= ctx.currentOffset + n
      BY <3>2, U32Is
    <3>4. ctx.currentOffset + n > IndexLimit BY <1>5, <3>2, <3>3, Numbers
    <3> QED BY <1>0, <3>1, <3>4, Numbers
  <2>2. \A e \in Entries(ctx) : e \in Nat BY EntriesIs
  <2>3. \A h \in DOMAIN ctx.table : ctx.table[h] \in Nat BY TableHas DEF Contexts
  <2> DEFINE R == {e - delta : e \in Entries(ctx)} \ (-ctx.currentOffset .. 0)
  <2>4. ASSUME NEW x \in Entries(d) PROVE x \in R
    <3>1. PICK h \in DOMAIN d.table : x = d.table[h] /\ x # 0 BY EntryOf
    <3>2. h \in DOMAIN ctx.table /\ ctx.table[h] \in Nat /\ x = ctx.table[h] - delta
          /\ ctx.table[h] >= delta
      BY <1>1, <1>5, <2>1, <2>3, <3>1
    <3>3. ctx.table[h] # 0 BY <2>1, <3>2
    <3>4. ctx.table[h] \in Entries(ctx) BY <3>2, <3>3, EntryOf
    <3>5. x \notin (-ctx.currentOffset .. 0) BY <2>1, <3>1, <3>2
    <3> QED BY <3>2, <3>4, <3>5
  <2>5. ASSUME NEW x \in R PROVE x \in Entries(d)
    <3>1. PICK e \in Entries(ctx) : x = e - delta /\ x \notin (-ctx.currentOffset .. 0) OBVIOUS
    <3>2. PICK h \in DOMAIN ctx.table : e = ctx.table[h] /\ e # 0 BY EntryOf
    <3>3. e \in Nat /\ x \in Int /\ x # 0 /\ e >= delta
      <4>1. e \in Nat BY <2>2
      <4>2. ~(x <= 0) BY <2>1, <3>1, <4>1
      <4> QED BY <2>1, <3>1, <4>1, <4>2
    <3>4. h \in DOMAIN d.table /\ d.table[h] = x BY <1>1, <1>5, <2>1, <3>1, <3>2, <3>3
    <3> QED BY <3>3, <3>4, EntryOf
  <2>6. Entries(d) = R
    <3> HIDE DEF R
    <3> QED BY <2>4, <2>5
  <2> QED BY <1>1, <1>2, <1>3, <1>5, <2>6 DEF Indexes!RescaledEntries
<1> QED BY <1>4, <1>5

(* LZ4_compress_fast_continue. *)
LEMMA ContinueSimulates ==
  ASSUME Kept, Careful, CompressContinue
  PROVE  /\ Indexes!CompressContinue \/ Indexes!CompressCopied \/ Indexes!CompressAttached
         /\ Settled'
<1> DEFINE c == Trim(Uncut)
           d == RenormDict(ctx, w.size)
           s == Short(c)
           n == w.size
<1>1. stage = "idle" /\ work # <<>> /\ w.fn = "continue" /\ w.fn \in Chained /\ w.fn \in Compressors
  BY DEF CompressContinue, Compresses, Chained, Compressors
<1>2. IsCall(w) BY <1>1, WorkIs DEF Kept
<1>3. n \in 0..MAX_INPUT_SIZE /\ n \in Nat /\ n \in Sizes /\ w.src \in Nat
  BY <1>1, <1>2, Numbers DEF IsCall
<1>4. ctx \in Contexts /\ lib \in Contexts /\ Settled BY DEF Kept, FInv, Typed
<1>5. /\ c \in Contexts /\ c.currentOffset = d.currentOffset /\ c.table = d.table
      /\ c.tableType = ctx.tableType /\ c.dictCtx = ctx.dictCtx
      /\ \/ c.dictSize = d.dictSize
         \/ /\ c.dictSize < d.dictSize /\ c.dictSize <= KB64
            /\ c.dictSize = 0 \/ c.dictSize >= MINMATCH
      /\ HistoryEnd # w.src /\ n > 0 /\ ~ctx.dictCtx /\ c.dictSize > 0 => c.dictSize >= MINMATCH
  BY <1>3, <1>4, TrimIs
<1>6. /\ d.currentOffset = Indexes!RescaledOff(n) /\ d.dictSize = Indexes!RescaledHist(n)
      /\ Entries(d) = Indexes!RescaledEntries(n)
  BY <1>3, <1>4, RescaledIs
<1>7. \/ HistoryEnd = w.src /\ Starting(c, "prefix", s, "byU32", "limited")
      \/ HistoryEnd # w.src /\ c.dictCtx /\ n > KB4 /\ Starting(lib, "external", FALSE, "byU32", "limited")
      \/ HistoryEnd # w.src /\ c.dictCtx /\ n <= KB4 /\ Starting(c, "context", FALSE, "byU32", "limited")
      \/ HistoryEnd # w.src /\ ~c.dictCtx /\ Starting(c, "external", s, "byU32", "limited")
  BY DEF CompressContinue
<1>8. s = Indexes!Short(c.currentOffset, c.dictSize) BY DEF Short, Indexes!Short
<1> HIDE DEF c, d, s
<1>9. /\ c.currentOffset = Indexes!RescaledOff(n) /\ Entries(c) = Indexes!RescaledEntries(n)
      /\ c.dictSize \in Nat /\ c.dictSize \in Indexes!Left(n)
  <2>1. Entries(c) = Entries(d) BY <1>5, SameEntries
  <2>2. c.dictSize \in Nat BY <1>5 DEF Contexts
  <2>3. c.dictSize = d.dictSize \/ c.dictSize \in Sizes
    BY <1>5, <2>2, CodecAssumption, Numbers DEF Sizes
  <2> QED BY <1>5, <1>6, <2>1, <2>2, <2>3, AbstractNumbers, Numbers DEF Indexes!Left
<1>10. n \in Indexes!Accepted BY <1>3 DEF Indexes!Accepted
<1>11. c.dictCtx => lib.dictSize # 0 BY <1>4, <1>5 DEF Settled
<1>17. started /\ started \in BOOLEAN BY <1>1, <1>4 DEF Careful, Settled
<1>18. c.currentOffset + n < IndexSpan
  <2>1. Start = d.currentOffset BY <1>1 DEF Start, d
  <2>2. n <= MAX_INPUT_SIZE BY <1>3, Numbers
  <2> QED BY <1>1, <1>5, <2>1, <2>2 DEF Careful
<1>19. lib.currentOffset + n < IndexSpan
  <2>1. lib.currentOffset \in Nat /\ lib.currentOffset <= KB64 BY <1>4 DEF Contexts, Settled
  <2> QED BY <1>3, <2>1, Numbers
<1>12. ASSUME NEW e \in {"prefix", "external"}, Starting(c, e, s, "byU32", "limited"),
              e = "external" => HistoryEnd # w.src /\ ~c.dictCtx
       PROVE  Indexes!CompressContinue /\ Settled'
  <2>1. /\ Indexes!Idle /\ ctx' = c /\ Settled' /\ UNCHANGED Indexes!dict
        /\ started' = (started /\ w.fn \in Chained)
        /\ BlockView' = Indexes!Called(c.currentOffset, n, "byU32", e, s,
                                       IF e = "context" THEN lib.dictSize ELSE c.dictSize)
    BY <1>1, <1>4, <1>11, <1>12, <1>18, StartingView
  <2>5. started' = started BY <1>1, <1>17, <2>1
  <2>2. e = "external" /\ n > 0 /\ c.dictSize > 0 => c.dictSize >= Indexes!MINMATCH
    BY <1>5, <1>12, AbstractNumbers, Numbers
  <2>3. BlockView' = Indexes!Called(ctx'.currentOffset, n, "byU32", e,
                       Indexes!Short(ctx'.currentOffset, c.dictSize), c.dictSize)
    BY <1>8, <2>1
  <2>4. UNCHANGED <<ctx.tableType, ctx.dictCtx>> BY <1>5, <2>1
  <2> QED BY <1>9, <1>10, <1>17, <2>1, <2>2, <2>3, <2>4, <2>5 DEF Indexes!CompressContinue
<1>13. CASE HistoryEnd # w.src /\ c.dictCtx /\ n > KB4 /\ Starting(lib, "external", FALSE, "byU32", "limited")
  <2>1. lib.dictCtx = FALSE /\ lib.tableType = "byU32" /\ ctx.dictCtx
    BY <1>4, <1>5, <1>11, <1>13 DEF Settled
  <2>2. /\ Indexes!Idle /\ ctx' = lib /\ Settled' /\ UNCHANGED Indexes!dict
        /\ started' = (started /\ w.fn \in Chained)
        /\ BlockView' = Indexes!Called(lib.currentOffset, n, "byU32", "external", FALSE,
                                       IF "external" = "context" THEN lib.dictSize ELSE lib.dictSize)
    BY <1>1, <1>4, <1>13, <1>19, <2>1, StartingView
  <2>4. started' = started BY <1>1, <1>17, <2>2
  <2>3. BlockView' = Indexes!Called(ctx'.currentOffset, n, "byU32", "external", FALSE, ctx'.dictSize)
    BY <2>2
  <2> QED BY <1>10, <1>13, <1>17, <2>1, <2>2, <2>3, <2>4 DEF Indexes!CompressCopied
<1>14. CASE HistoryEnd # w.src /\ c.dictCtx /\ n <= KB4 /\ Starting(c, "context", FALSE, "byU32", "limited")
  <2>1. /\ Indexes!Idle /\ ctx' = c /\ Settled' /\ UNCHANGED Indexes!dict
        /\ started' = (started /\ w.fn \in Chained)
        /\ BlockView' = Indexes!Called(c.currentOffset, n, "byU32", "context", FALSE,
                                       IF "context" = "context" THEN lib.dictSize ELSE c.dictSize)
    BY <1>1, <1>4, <1>11, <1>14, <1>18, StartingView
  <2>4. started' = started BY <1>1, <1>17, <2>1
  <2>2. BlockView' = Indexes!Called(ctx'.currentOffset, n, "byU32", "context", FALSE, lib.dictSize)
    BY <2>1
  <2>3. UNCHANGED <<ctx.tableType, ctx.dictCtx>> /\ ctx.dictCtx BY <1>5, <1>14, <2>1
  <2> QED BY <1>9, <1>10, <1>14, <1>17, <2>1, <2>2, <2>3, <2>4 DEF Indexes!CompressAttached
<1>15. CASE HistoryEnd = w.src /\ Starting(c, "prefix", s, "byU32", "limited") BY <1>12, <1>15
<1>16. CASE HistoryEnd # w.src /\ ~c.dictCtx /\ Starting(c, "external", s, "byU32", "limited")
  BY <1>12, <1>16
<1> QED BY <1>7, <1>13, <1>14, <1>15, <1>16

(* LZ4_compress_forceExtDict. *)
LEMMA ForceExtDictSimulates ==
  ASSUME Kept, Careful, CompressForceExtDict
  PROVE  Indexes!CompressContinue /\ Settled'
<1> DEFINE d == RenormDict(ctx, w.size)
           s == Short(d)
           n == w.size
<1>1. /\ stage = "idle" /\ work # <<>> /\ w.fn = "forceExtDict" /\ w.fn \in Chained
      /\ w.fn \in Compressors
  BY DEF CompressForceExtDict, Compresses, Chained, Compressors
<1>2. IsCall(w) BY <1>1, WorkIs DEF Kept
<1>3. n \in 0..MAX_INPUT_SIZE /\ n \in Nat /\ n \in Sizes
  BY <1>1, <1>2, Numbers DEF IsCall
<1>4. ctx \in Contexts /\ Settled BY DEF Kept, FInv, Typed
<1>5. /\ d \in Contexts /\ d.tableType = ctx.tableType /\ d.dictCtx = ctx.dictCtx
      /\ d.currentOffset = Indexes!RescaledOff(n) /\ d.dictSize = Indexes!RescaledHist(n)
      /\ Entries(d) = Indexes!RescaledEntries(n)
  BY <1>3, <1>4, RescaledIs
<1>6. Starting(d, "external", s, "byU32", "none") BY DEF CompressForceExtDict
<1>7. n > 0 => d.dictSize \notin 1..(MINMATCH - 1) BY <1>1 DEF Careful
<1>8. s = Indexes!Short(d.currentOffset, d.dictSize) BY DEF Short, Indexes!Short
<1> HIDE DEF d, s
<1>9. d.dictCtx => lib.dictSize # 0 BY <1>4, <1>5 DEF Settled
<1>15. started /\ started \in BOOLEAN BY <1>1, <1>4 DEF Careful, Settled
<1>16. d.currentOffset + n < IndexSpan
  <2>1. Start = d.currentOffset BY <1>1 DEF Start, d
  <2>2. n <= MAX_INPUT_SIZE BY <1>3, Numbers
  <2> QED BY <1>1, <2>1, <2>2 DEF Careful
<1>10. /\ Indexes!Idle /\ ctx' = d /\ Settled' /\ UNCHANGED Indexes!dict
       /\ started' = (started /\ w.fn \in Chained)
       /\ BlockView' = Indexes!Called(d.currentOffset, n, "byU32", "external", s,
                                      IF "external" = "context" THEN lib.dictSize ELSE d.dictSize)
  BY <1>1, <1>4, <1>6, <1>9, <1>16, StartingView
<1>17. started' = started BY <1>1, <1>10, <1>15
<1>11. BlockView' = Indexes!Called(ctx'.currentOffset, n, "byU32", "external",
                      Indexes!Short(ctx'.currentOffset, d.dictSize), d.dictSize)
  BY <1>8, <1>10
<1>12. n > 0 /\ d.dictSize > 0 => d.dictSize >= Indexes!MINMATCH
  <2>1. d.dictSize \in Nat BY <1>5 DEF Contexts
  <2> QED BY <1>7, <2>1, AbstractNumbers, Numbers
<1>13. n \in Indexes!Accepted /\ d.dictSize \in Indexes!Left(n)
  BY <1>3, <1>5 DEF Indexes!Accepted, Indexes!Left
<1>14. UNCHANGED <<ctx.tableType, ctx.dictCtx>> BY <1>5, <1>10
<1> QED BY <1>5, <1>10, <1>11, <1>12, <1>13, <1>14, <1>15, <1>17 DEF Indexes!CompressContinue

-----------------------------------------------------------------------------
(* The block.                                                              *)

(* A block at work, as the abstract stream sees it. *)
LEMMA OpenView ==
  ASSUME FInv, Working
  PROVE  /\ Begun /\ BlockView.stage = "open" /\ BlockView.start = job.start
         /\ BlockView.size = job.size /\ BlockView.type = job.type /\ BlockView.dict = job.dict
<1>1. Begun BY DEF FInv, Along, Working, Begun
<1>2. stage # "idle" BY DEF Working
<1> QED BY <1>1, <1>2 DEF BlockView

(* It is at work until it is done. *)
LEMMA StillOpen ==
  ASSUME FInv, Working, job' = job, stage' \notin {"idle", "begin"}
  PROVE  UNCHANGED BlockView
<1>1. Begun /\ stage # "idle" BY OpenView DEF Working
<1>2. Begun' BY <1>1 DEF Begun
<1> QED BY <1>1, <1>2 DEF BlockView

(* The streams stay as they are attached. *)
LEMMA StaysSettled ==
  ASSUME Settled, stage # "idle", stage' # "idle", lib' = lib, ctx'.dictCtx => ctx.dictCtx,
         job' = job, started' = started
  PROVE  Settled'
BY DEF Settled

(* What enters the table. *)
LEMMA EntersIs ==
  ASSUME stage # "idle", ctx' \in Contexts, NEW I,
         Entries(ctx') \subseteq Entries(ctx) \cup {Stored(i) : i \in I}
  PROVE  Indexes!Enters(I)
<1>1. BlockView.type = job.type BY DEF BlockView
<1>2. \A i : Stored(i) = Indexes!Stored(i) BY <1>1 DEF Stored, Indexes!Stored
<1>3. {Stored(i) : i \in I} = {Indexes!Stored(i) : i \in I} BY <1>2
<1>4. Entries(ctx') \subseteq Nat \ {0} /\ Cardinality(Entries(ctx')) <= Buckets BY EntriesIs
<1>5. Indexes!Cardinality(Entries(ctx')) <= Buckets BY <1>4, AbstractNumbers
<1>6. Entries(ctx)' = Entries(ctx') BY DEF Entries
<1> QED BY <1>3, <1>4, <1>5, <1>6 DEF Indexes!Enters

(* Where positions are looked up. *)
LEMMA PositionsAre ==
  ASSUME FInv, Working, job.size >= 13, NEW i \in Int, job.start <= i, i + 12 <= stop
  PROVE  i \in Indexes!Positions
<1>1. BlockView.start = job.start /\ BlockView.size = job.size BY OpenView
<1>2. job.start \in Int /\ job.size \in Int BY DEF FInv, Typed, JobTyped
<1> QED BY <1>1, <1>2, AbstractNumbers DEF Indexes!Positions, stop

(* A look-up at one position. *)
LEMMA LookupIs1 ==
  ASSUME FInv, Working, Settled, lib' = lib, started' = started, job' = job, stage' \notin {"idle", "begin"},
         NEW I, ctx' \in Contexts, NEW tt, ctx' = [ctx EXCEPT !.table = tt],
         Entries(ctx') \subseteq Entries(ctx) \cup {Stored(i) : i \in I},
         \/ \E i \in Indexes!Positions : I = {i}
         \/ \E i \in Indexes!Positions : i - 2 \in Indexes!Positions /\ I = {i, i - 2}
  PROVE  Indexes!Lookup /\ Settled'
<1>1. ctx \in Contexts /\ stage # "idle" BY DEF FInv, Typed, Working
<1>2. /\ ctx'.currentOffset = ctx.currentOffset /\ ctx'.tableType = ctx.tableType
      /\ ctx'.dictSize = ctx.dictSize /\ ctx'.dictCtx = ctx.dictCtx
  BY <1>1 DEF Contexts
<1>3. BlockView.stage = "open" /\ UNCHANGED BlockView BY OpenView, StillOpen
<1>4. Indexes!Enters(I) BY <1>1, EntersIs
<1>5. UNCHANGED Indexes!dict BY DEF Indexes!dict
<1>6. \E i \in Indexes!Positions : Indexes!Enters({i}) \/ Indexes!Enters({i, i - 2} \cap Indexes!Positions)
  <2>1. CASE \E i \in Indexes!Positions : I = {i} BY <1>4, <2>1
  <2>2. CASE \E i \in Indexes!Positions : i - 2 \in Indexes!Positions /\ I = {i, i - 2}
    <3>1. PICK i \in Indexes!Positions : i - 2 \in Indexes!Positions /\ I = {i, i - 2} BY <2>2
    <3>2. {i, i - 2} \cap Indexes!Positions = I BY <3>1
    <3> QED BY <1>4, <3>2
  <2> QED BY <2>1, <2>2
<1>7. Settled' BY <1>1, <1>2, StaysSettled
<1> QED BY <1>2, <1>3, <1>5, <1>6, <1>7 DEF Indexes!Lookup

(* The start of LZ4_compress_generic. *)
LEMMA BeginSimulates ==
  ASSUME Kept, BeginBlock, lib' = lib, started' = started
  PROVE  Indexes!Begin /\ Settled'
<1>1. FInv /\ Settled /\ ctx \in Contexts /\ Typed /\ stage = "begin" BY DEF Kept, FInv, Typed, BeginBlock
<1>2. /\ job.size \in 1..MAX_INPUT_SIZE /\ job.size \in Nat /\ (job.limit = "fill" => job.cap >= 1)
      /\ job' = job /\ ctx' \in Contexts
      /\ \/ job.size < 13 /\ stage' = "last" /\ ctx' = Moved
         \/ /\ job.size >= 13 /\ stage' = "search"
            /\ ctx' = [Moved EXCEPT !.table = Put(ctx.table, job.start)]
  BY <1>1, BeginIs
<1>3. /\ Moved \in Contexts /\ Moved.table = ctx.table /\ Moved.tableType = job.type
      /\ Moved.currentOffset = ctx.currentOffset + job.size
      /\ Moved.dictSize = (IF job.dict = "context" THEN job.size ELSE ctx.dictSize + job.size)
      /\ Moved.dictCtx = (ctx.dictCtx /\ job.dict # "context")
  BY <1>1, <1>2, MovedIs
<1>4. job.start \in Nat /\ ctx.dictSize \in Nat BY <1>1 DEF Typed, JobTyped, Contexts
<1> HIDE DEF Moved
<1>5. /\ ctx'.currentOffset = ctx.currentOffset + job.size /\ ctx'.tableType = job.type
      /\ ctx'.dictSize = (IF job.dict = "context" THEN 0 ELSE ctx.dictSize) + job.size
      /\ ctx'.dictCtx = (ctx.dictCtx /\ job.dict # "context")
  <2>1. /\ ctx'.currentOffset = Moved.currentOffset /\ ctx'.tableType = Moved.tableType
        /\ ctx'.dictSize = Moved.dictSize /\ ctx'.dictCtx = Moved.dictCtx
    BY <1>2, <1>3 DEF Contexts
  <2>2. Moved.dictSize = (IF job.dict = "context" THEN 0 ELSE ctx.dictSize) + job.size
    BY <1>2, <1>3, <1>4
  <2> QED BY <1>3, <2>1, <2>2
<1>6. ~Begun /\ Begun'
  <2>1. ~Begun BY <1>1 DEF Begun
  <2>2. Begun' BY <1>2 DEF Begun
  <2> QED BY <2>1, <2>2
<1>7. /\ BlockView.stage = "called" /\ BlockView.start = job.start /\ BlockView.size = job.size
      /\ BlockView.type = job.type /\ BlockView.dict = job.dict
      /\ BlockView' = [BlockView EXCEPT !.stage = "open"]
  BY <1>1, <1>2, <1>6 DEF BlockView
<1>8. Indexes!Enters(Indexes!Positions \cap {job.start})
  <2>1. CASE job.size < 13
    <3>1. Indexes!Positions = {} BY <1>7, <2>1, AbstractNumbers DEF Indexes!Positions
    <3>2. Entries(ctx') = Entries(ctx) BY <1>2, <1>3, <2>1, SameEntries
    <3> QED BY <1>1, <1>2, <3>1, <3>2, EntersIs
  <2>2. CASE job.size >= 13
    <3>1. job.start \in Indexes!Positions
      BY <1>2, <1>4, <1>7, <2>2, AbstractNumbers DEF Indexes!Positions
    <3>2. ctx'.table = Put(ctx.table, job.start)
      BY <1>2, <1>3, <2>2 DEF Contexts
    <3>3. Entries(ctx') \subseteq Entries(ctx) \cup {Stored(job.start)}
      BY <1>1, <1>2, <1>4, <3>2, PutEntries
    <3>4. Indexes!Positions \cap {job.start} = {job.start} BY <3>1
    <3>5. {Stored(i) : i \in {job.start}} = {Stored(job.start)} OBVIOUS
    <3> QED BY <1>1, <1>2, <3>3, <3>4, <3>5, EntersIs
  <2> QED BY <1>2, <2>1, <2>2
<1>9. UNCHANGED Indexes!dict BY DEF Indexes!dict
<1>10. Settled' BY <1>1, <1>2, <1>5, StaysSettled
<1>11. ~Indexes!Overrun
  <2>1. job.start + job.size < IndexSpan BY <1>1, <1>2, Numbers DEF Settled
  <2>2. job.start + job.size \in Nat BY <1>2, <1>4
  <2> QED BY <1>7, <2>1, <2>2, Numbers DEF Indexes!Overrun
<1> QED BY <1>2, <1>5, <1>7, <1>8, <1>9, <1>10, <1>11, Numbers DEF Indexes!Begin

(* What is refused, and what is written, looks no position up. *)
LEMMA WrittenSimulates ==
  ASSUME Kept, lib' = lib, started' = started,
         RefuseInput \/ EmptyBlock \/ SearchEnds \/ EncodeLiterals \/ Rewind \/ EncodeLast
  PROVE  UNCHANGED Indexes!vars /\ Settled'
<1>1. FInv /\ Settled /\ Typed /\ JobTyped /\ Along BY SMTT(60) DEF Kept, FInv, Typed
<1>2. job' = job /\ ctx' = ctx /\ stage # "idle" /\ stage' \notin {"idle", "begin"}
  BY DEF RefuseInput, EmptyBlock, SearchEnds, EncodeLiterals, Rewind, EncodeLast, Deliver, GiveUp
<1>3. UNCHANGED BlockView
  <2>1. CASE RefuseInput \/ EmptyBlock
    <3>1. stage = "begin" BY <2>1 DEF RefuseInput, EmptyBlock
    <3>2. \/ job.size \notin 1..MAX_INPUT_SIZE
          \/ job.limit = "fill" /\ ~(job.cap >= 1)
      <4>1. job.cap \in Nat BY <1>1 DEF JobTyped
      <4> QED BY <2>1, <4>1, Numbers DEF RefuseInput, EmptyBlock
    <3>3. ~Begun /\ ~Begun' BY <1>2, <3>1, <3>2 DEF Begun
    <3> QED BY <1>2, <3>1, <3>3 DEF BlockView
  <2>2. CASE SearchEnds \/ EncodeLiterals \/ Rewind \/ EncodeLast
    <3>1. Working BY <2>2 DEF SearchEnds, EncodeLiterals, Rewind, EncodeLast, Working
    <3> QED BY SMTT(60), <1>1, <1>2, <3>1, StillOpen
  <2> QED BY <2>1, <2>2
<1>4. Settled' BY <1>1, <1>2, StaysSettled
<1> QED BY <1>2, <1>3, <1>4, SameView

(* A position is looked up, with a match or without. *)
LEMMA ProbeSimulates ==
  ASSUME Kept, lib' = lib, started' = started, Miss \/ Hit
  PROVE  Indexes!Lookup /\ Settled'
<1>1. FInv /\ Settled /\ Typed /\ Along /\ ctx \in Contexts /\ Probed BY DEF Kept, FInv, Typed, Miss, Hit
<1>2. /\ stage = "search" /\ probe.next \in Nat /\ job.start < probe.next /\ probe.next + 12 <= stop
      /\ ctx' = [ctx EXCEPT !.table = Put(ctx.table, probe.next)] /\ ctx' \in Contexts
  BY <1>1, ProbedIs
<1>3. job' = job /\ stage' \notin {"idle", "begin"} BY <1>2 DEF Miss, Hit
<1>4. Working /\ job.size >= 13 BY <1>1, <1>2 DEF Working, Along
<1>5. probe.next \in Indexes!Positions
  <2>1. job.start \in Nat BY <1>1 DEF Typed, JobTyped
  <2>2. probe.next \in Int /\ job.start <= probe.next BY <1>2, <2>1
  <2> QED BY <1>1, <1>2, <1>4, <2>2, PositionsAre
<1>6. ctx'.table = Put(ctx.table, probe.next) BY <1>1, <1>2 DEF Contexts
<1>7. Entries(ctx') \subseteq Entries(ctx) \cup {Stored(probe.next)} BY <1>1, <1>2, <1>6, PutEntries
<1>8. {Stored(i) : i \in {probe.next}} = {Stored(probe.next)} OBVIOUS
<1>9. Entries(ctx') \subseteq Entries(ctx) \cup {Stored(i) : i \in {probe.next}} BY <1>7, <1>8
<1>10. \E i \in Indexes!Positions : {probe.next} = {i} BY <1>5
<1> DEFINE I == {probe.next}
           tt == Put(ctx.table, probe.next)
<1>11. Entries(ctx') \subseteq Entries(ctx) \cup {Stored(i) : i \in I} BY <1>9
<1>12. \E i \in Indexes!Positions : I = {i} BY <1>10
<1>13. ctx' = [ctx EXCEPT !.table = tt] BY <1>2
<1> HIDE DEF I, tt
<1> QED BY <1>1, <1>2, <1>3, <1>4, <1>11, <1>12, <1>13, LookupIs1

(* The match: of the positions behind it some are taken out again. *)
LEMMA MatchSimulates ==
  ASSUME Kept, lib' = lib, started' = started, EncodeMatch
  PROVE  (Indexes!Lookup \/ UNCHANGED Indexes!vars) /\ Settled'
<1>1. FInv /\ Settled /\ Typed /\ Along /\ ctx \in Contexts BY DEF Kept, FInv, Typed
<1>2. /\ stage = "match" /\ job' = job /\ stage' \notin {"idle", "begin"}
      /\ ctx' = ctx \/ \E S : ctx' = [ctx EXCEPT !.table = Clear(ctx.table, S)]
  BY DEF EncodeMatch, Deliver
<1>3. Working /\ job.size >= 13 BY <1>1, <1>2 DEF Working, Along
<1>4. CASE ctx' = ctx
  <2>1. UNCHANGED BlockView BY <1>1, <1>2, <1>3, StillOpen
  <2>2. Settled' BY <1>1, <1>2, <1>4, StaysSettled
  <2> QED BY <1>4, <2>1, <2>2, SameView
<1>5. CASE \E S : ctx' = [ctx EXCEPT !.table = Clear(ctx.table, S)]
  <2>1. PICK S : ctx' = [ctx EXCEPT !.table = Clear(ctx.table, S)] BY <1>5
  <2> DEFINE tt == Clear(ctx.table, S)
             i == job.start
             I == {i}
  <2>2. ctx.table \in Tables BY <1>1 DEF Contexts
  <2>3. tt \in Tables BY <2>2, ClearIs
  <2>4. ctx' = [ctx EXCEPT !.table = tt] BY <2>1
  <2>5. ctx'.table = tt /\ ctx' \in Contexts
    <3> HIDE DEF tt
    <3> QED BY <1>1, <2>3, <2>4, WithTable DEF Contexts
  <2>6. Entries(ctx') \subseteq Entries(ctx) BY <1>1, <2>5, ClearEntries
  <2>7. Entries(ctx') \subseteq Entries(ctx) \cup {Stored(k) : k \in I} BY <2>6
  <2>8. i \in Indexes!Positions
    <3>1. i \in Nat /\ stop = i + job.size /\ job.size \in Int BY <1>1 DEF Typed, JobTyped, stop
    <3>2. i \in Int /\ i <= i /\ i + 12 <= stop BY <1>3, <3>1
    <3> QED BY <1>1, <1>3, <3>2, PositionsAre
  <2>9. \E k \in Indexes!Positions : I = {k} BY <2>8
  <2> HIDE DEF tt, i, I
  <2> QED BY <1>1, <1>2, <1>3, <2>4, <2>5, <2>7, <2>9, LookupIs1
<1> QED BY <1>2, <1>4, <1>5

(* The position after the match, and the one two before. *)
LEMMA TestSimulates ==
  ASSUME Kept, lib' = lib, started' = started, TestNext
  PROVE  Indexes!Lookup /\ Settled'
<1>1. FInv /\ Settled /\ Typed /\ Along /\ ctx \in Contexts BY DEF Kept, FInv, Typed
<1>2. /\ stage = "next" /\ at \in Nat /\ at - 2 \in Nat /\ job.start + 4 <= at /\ at + 12 <= stop
      /\ Filled \in Tables
      /\ ctx' = [ctx EXCEPT !.table = Put(Filled, at)] /\ ctx' \in Contexts
  BY <1>1, TestNextIs
<1>3. job' = job /\ stage' \notin {"idle", "begin"} BY DEF TestNext
<1>4. Working /\ job.size >= 13 BY <1>1, <1>2 DEF Working, Along
<1>5. at \in Indexes!Positions /\ at - 2 \in Indexes!Positions
  <2>1. job.start \in Nat /\ stop \in Int BY <1>1 DEF Typed, JobTyped, stop
  <2>2. /\ at \in Int /\ job.start <= at /\ at - 2 \in Int /\ job.start <= at - 2
        /\ (at - 2) + 12 <= stop
    BY <1>2, <2>1
  <2> QED BY <1>1, <1>2, <1>4, <2>2, PositionsAre
<1> DEFINE e == [ctx EXCEPT !.table = Filled]
           tt == Put(Filled, at)
           I == {at, at - 2}
<1>6. e \in Contexts /\ e.table = Filled BY <1>1, <1>2, WithTable DEF Contexts
<1>7. Entries(e) \subseteq Entries(ctx) \cup {Stored(at - 2)}
  <2>1. e.table = Put(ctx.table, at - 2) BY <1>6 DEF Filled
  <2> HIDE DEF e
  <2> QED BY <1>1, <1>2, <1>6, <2>1, PutEntries
<1>8. ctx'.table = tt /\ ctx' = [ctx EXCEPT !.table = tt] BY <1>1, <1>2 DEF Contexts
<1>9. Entries(ctx') \subseteq Entries(e) \cup {Stored(at)}
  <2>1. ctx'.table = Put(e.table, at) BY <1>6, <1>8
  <2> HIDE DEF e
  <2> QED BY ZenonT(60), <1>2, <1>6, <2>1, PutEntries
<1>10. Entries(ctx') \subseteq Entries(ctx) \cup {Stored(i) : i \in I} BY <1>7, <1>9
<1>11. \E i \in Indexes!Positions : i - 2 \in Indexes!Positions /\ I = {i, i - 2} BY <1>5
<1> HIDE DEF e, tt, I
<1> QED BY <1>1, <1>2, <1>3, <1>4, <1>8, <1>10, <1>11, LookupIs1

(* LZ4_compress_generic. *)
LEMMA CompressSimulates ==
  ASSUME Kept, Compress
  PROVE  (Indexes!Begin \/ Indexes!Lookup \/ UNCHANGED Indexes!vars) /\ Settled'
<1>1. lib' = lib /\ started' = started /\ CompressStep BY DEF Compress
<1> QED BY <1>1, WrittenSimulates, ProbeSimulates, MatchSimulates, TestSimulates, BeginSimulates
     DEF CompressStep

(* The end of a block. *)
LEMMA DoneSimulates ==
  ASSUME Kept, BlockDone
  PROVE  Indexes!Done /\ Settled'
<1>1. Settled /\ Typed /\ JobTyped /\ ctx \in Contexts /\ Serving BY DEF Kept, FInv, Typed
<1>2. /\ stage = "done" /\ stage' = "idle" /\ lib' = lib /\ job' = NoJob /\ started' = started
      /\ ctx' = CASE w.fn = "destSize" -> NewContext
                  [] w.fn \in Chained /\ job.dict # "prefix" ->
                       [ctx EXCEPT !.dictionary = w.src, !.dictSize = w.size]
                  [] OTHER -> ctx
  BY DEF BlockDone, Resting
<1>3. /\ work # <<>> /\ job.size = w.size /\ (job.dict = "none" <=> w.fn \notin Chained)
      /\ job.dict # "none" => job.size \in 0..MAX_INPUT_SIZE
      /\ job.limit = "fill" => job.dict = "none"
  BY <1>1, <1>2 DEF Serving
<1>4. BlockView.dict = job.dict /\ BlockView.size = job.size BY DEF BlockView
<1>5. BlockView.stage = "open" \/ (BlockView.stage = "called" /\ (job.size = 0 \/ job.dict = "none"))
  <2>1. Begun \/ job.size = 0 \/ job.dict = "none" BY SMTT(60), <1>2, <1>3, Numbers DEF Begun
  <2> QED BY <1>2, <2>1 DEF BlockView
<1>6. BlockView' = Indexes!NoBlock BY <1>2 DEF BlockView, NoJob, Indexes!NoBlock
<1>7. UNCHANGED Indexes!dict BY <1>2 DEF Indexes!dict
<1>8. ctx'.dictCtx => ctx.dictCtx
  <2>1. [ctx EXCEPT !.dictionary = w.src, !.dictSize = w.size].dictCtx = ctx.dictCtx
    BY <1>1 DEF Contexts
  <2> QED BY <1>2, <2>1, NewContextIs
<1>9. Settled' BY <1>1, <1>2, <1>8 DEF Settled
<1>10. CASE job.dict \in {"external", "context"}
  <2>1. w.fn \in Chained /\ w.fn # "destSize" BY <1>3, <1>10 DEF Chained
  <2>2. ctx' = [ctx EXCEPT !.dictionary = w.src, !.dictSize = w.size] BY <1>2, <1>10, <2>1
  <2>3. /\ ctx'.dictSize = job.size /\ ctx'.currentOffset = ctx.currentOffset
        /\ ctx'.tableType = ctx.tableType /\ ctx'.dictCtx = ctx.dictCtx /\ ctx'.table = ctx.table
    BY <1>1, <1>3, <2>2 DEF Contexts
  <2>4. Entries(ctx') = Entries(ctx) BY <2>3, SameEntries
  <2> QED BY <1>2, <1>4, <1>5, <1>6, <1>7, <1>9, <1>10, <2>3, <2>4 DEF Indexes!Done
<1>11. CASE job.dict \notin {"external", "context"}
  <2>1. ctx' = ctx \/ (job.dict = "none" /\ ctx' = NewContext)
    BY <1>1, <1>2, <1>3, <1>11 DEF JobTyped, Chained
  <2>2. CASE ctx' = ctx
    <3>1. UNCHANGED Indexes!ctx BY <2>2 DEF Indexes!ctx
    <3> QED BY <1>2, <1>4, <1>5, <1>6, <1>7, <1>9, <1>11, <3>1 DEF Indexes!Done
  <2>3. CASE job.dict = "none" /\ ctx' = NewContext
    BY <1>2, <1>4, <1>5, <1>6, <1>7, <1>9, <1>11, <2>3, ClearedIs DEF Indexes!Done
  <2> QED BY <2>1, <2>2, <2>3
<1> QED BY <1>10, <1>11

(* At the start both are clear. *)
LEMMA InitSimulates ==
  ASSUME CodecInit
  PROVE  Indexes!Init /\ Kept
<1>1. ctx = NewContext /\ lib = NewContext /\ started = TRUE /\ job = NoJob /\ stage = "idle"
  BY DEF CodecInit, EncoderRests
<1>2. Entries(ctx) = {} /\ Entries(lib) = {} BY <1>1, NewContextIs, NoEntries
<1>3. BlockView = Indexes!NoBlock BY <1>1 DEF BlockView, NoJob, Indexes!NoBlock
<1>4. Indexes!Init BY <1>1, <1>2, <1>3, NewContextIs DEF Indexes!Init
<1>5. Settled BY <1>1, NewContextIs, Numbers DEF Settled
<1> QED BY <1>4, <1>5, InitFits DEF Kept

(* Every step of the program is one of the abstract stream, or none. *)
LEMMA NextSimulates ==
  ASSUME Kept, Careful, [CodecNext]_codecVars
  PROVE  [Indexes!Next]_Indexes!vars /\ Kept'
<1>1. FInv' /\ Serving' BY NextFits DEF Kept
<1>2. CASE InitStream \/ ResetStreamFast \/ Load \/ AttachDictionary \/ SaveDict
  BY <1>1, <1>2, InitStreamSimulates, ResetSimulates, LoadSimulates, AttachSimulates, SaveSimulates
     DEF Indexes!Next, Kept
<1>3. CASE NewInput \/ TellDecoder BY <1>1, <1>3, UserSimulates DEF Kept
<1>4. CASE CompressFast \/ CompressFastReset \/ CompressDestSize
  BY <1>1, <1>4, FastSimulates, FastResetSimulates DEF Indexes!Next, Kept
<1>5. CASE CompressContinue \/ CompressForceExtDict
  BY <1>1, <1>5, ContinueSimulates, ForceExtDictSimulates DEF Indexes!Next, Kept
<1>6. CASE Compress BY <1>1, <1>6, CompressSimulates DEF Indexes!Next, Kept
<1>7. CASE BlockDone BY <1>1, <1>7, DoneSimulates DEF Indexes!Next, Kept
<1>8. CASE UNCHANGED <<compVars, lib, started>>
  <2>1. UNCHANGED <<ctx, lib, stage, job, started>> BY <1>8 DEF compVars
  <2>2. UNCHANGED BlockView BY <2>1 DEF BlockView, Begun
  <2>3. Settled' BY <2>1 DEF Kept, Settled
  <2> QED BY <1>1, <2>1, <2>2, <2>3, SameView DEF Kept
<1>9. CASE Decode \/ Over \/ UNCHANGED codecVars BY <1>8, <1>9 DEF Decode, Over, codecVars
<1> QED BY <1>2, <1>3, <1>4, <1>5, <1>6, <1>7, <1>9 DEF CodecNext, Encode

(* As long as its user is careful the compressor is the stream that         *)
(* Lz4Stream describes, step for step: what it does to its index, its       *)
(* history and its table when it is reset, gets a dictionary, starts,       *)
(* searches and ends a block is one of the steps described there, or does   *)
(* not show.  So the invariants proved of that stream hold of the compressor.*)
THEOREM ImplementsIndexesTheorem == CodecSpec /\ []Careful => ImplementsIndexes
<1>1. CodecInit => Indexes!Init /\ Kept BY InitSimulates
<1>2. Kept /\ Careful /\ [CodecNext]_codecVars => [Indexes!Next]_Indexes!vars /\ Kept'
  BY NextSimulates
<1> QED BY <1>1, <1>2, PTL DEF CodecSpec, ImplementsIndexes, Indexes!Spec
-----------------------------------------------------------------------------
(* What is read for a candidate.                                            *)

Stream == INSTANCE Lz4Proofs WITH
  block <- BlockView,
  off <- ctx.currentOffset, kind <- ctx.tableType, entries <- Entries(ctx),
  hist <- ctx.dictSize, attached <- ctx.dictCtx,
  dictOff <- lib.currentOffset, dictHist <- lib.dictSize, dictEntries <- Entries(lib)

(* What the proofs about the stream assume of its constants is so here. *)
LEMMA StreamAssumptions ==
  /\ Sizes \subseteq Int /\ Buckets \in Nat
  /\ KB64 \in Nat /\ DISTANCE_MAX \in 1..(KB64 - 1)
  /\ KB4 \in 1..KB64 /\ GB1 \in Nat /\ IndexLimit \in Nat /\ MAX_INPUT_SIZE \in Nat
  /\ KB64 + MAX_INPUT_SIZE <= IndexLimit /\ GB1 + KB64 <= IndexLimit
  /\ IndexSpan \in Nat /\ IndexLimit + MAX_INPUT_SIZE < IndexSpan /\ IndexSpan % KB64 = 0
BY WindowAssumption, SizesAssumption, CodecAssumption DEF Sizes

(* At the start the stream is in order. *)
LEMMA StreamStarts ==
  ASSUME CodecInit
  PROVE  Stream!IInv
<1>1. Indexes!Init BY InitSimulates
<1>2. Stream!Init BY SMTT(60), <1>1 DEF Indexes!Init, Indexes!NoBlock, Stream!Init, Stream!NoBlock
<1> QED BY <1>2, Stream!InitIInv, StreamAssumptions, WindowAssumption, SizesAssumption

(* The stream of the proofs about Lz4Stream is the one the compressor       *)
(* implements, definition for definition.                                   *)
LEMMA SameStream == [Indexes!Next]_Indexes!vars => [Stream!Next]_Stream!vars
BY DEF Indexes!vars, Stream!vars,
  Indexes!ctx, Stream!ctx,
  Indexes!dict, Stream!dict,
  Indexes!HASH_UNIT, Stream!HASH_UNIT,
  Indexes!NoBlock, Stream!NoBlock,
  Indexes!Idle, Stream!Idle,
  Indexes!Accepted, Stream!Accepted,
  Indexes!Cleared, Stream!Cleared,
  Indexes!InitStream, Stream!InitStream,
  Indexes!Stale, Stream!Stale,
  Indexes!Gap, Stream!Gap,
  Indexes!PrepareTable, Stream!PrepareTable,
  Indexes!ResetStreamFast, Stream!ResetStreamFast,
  Indexes!Held, Stream!Held,
  Indexes!Loads, Stream!Loads,
  Indexes!LoadDict, Stream!LoadDict,
  Indexes!LoadOther, Stream!LoadOther,
  Indexes!AttachDictionary, Stream!AttachDictionary,
  Indexes!DetachDictionary, Stream!DetachDictionary,
  Indexes!SaveDict, Stream!SaveDict,
  Indexes!TypesFor, Stream!TypesFor,
  Indexes!CompressFast, Stream!CompressFast,
  Indexes!CompressFastReset, Stream!CompressFastReset,
  Indexes!Rescaled, Stream!Rescaled,
  Indexes!RescaledOff, Stream!RescaledOff,
  Indexes!RescaledEntries, Stream!RescaledEntries,
  Indexes!RescaledHist, Stream!RescaledHist,
  Indexes!Short, Stream!Short,
  Indexes!Left, Stream!Left,
  Indexes!CompressContinue, Stream!CompressContinue,
  Indexes!CompressAttached, Stream!CompressAttached,
  Indexes!CompressCopied, Stream!CompressCopied,
  Indexes!U32, Stream!U32,
  Indexes!Overrun, Stream!Overrun,
  Indexes!Abandon, Stream!Abandon,
  Indexes!Positions, Stream!Positions,
  Indexes!Stored, Stream!Stored,
  Indexes!Enters, Stream!Enters,
  Indexes!Begin, Stream!Begin,
  Indexes!Lookup, Stream!Lookup,
  Indexes!Done, Stream!Done,
  Indexes!Next, Stream!Next,
  Indexes!Called, Stream!Called,
  Indexes!Cardinality, Stream!Cardinality,
  Indexes!MINMATCH, Stream!MINMATCH,
  Indexes!MFLIMIT, Stream!MFLIMIT,
  Indexes!minLength, Stream!minLength,
  Indexes!Limit64K, Stream!Limit64K

(* So it stays in order. *)
LEMMA StreamStays ==
  ASSUME Kept, Careful, Stream!IInv, [CodecNext]_codecVars
  PROVE  Stream!IInv'
<1>1. [Stream!Next]_Stream!vars BY NextSimulates, SameStream
<1> QED BY <1>1, Stream!NextKeepsIInv, StreamAssumptions, WindowAssumption, SizesAssumption

(* What the order of the stream says where a block is called for: it starts *)
(* at the index of the stream, and every entry is older.                    *)
LEMMA CalledOrder ==
  ASSUME FInv, Stream!IInv, stage = "begin"
  PROVE  /\ ctx.currentOffset = job.start
         /\ \A e \in Entries(ctx) : e + 8 <= job.start
<1>1. BlockView.stage = "called" /\ BlockView.start = job.start BY DEF BlockView, Begun
<1>2. ctx.currentOffset = job.start BY <1>1 DEF Stream!IInv, Stream!BlockOK
<1>3. \A e \in Entries(ctx) : e + 8 <= ctx.currentOffset
  BY DEF Stream!IInv, Stream!CtxOK, Stream!HASH_UNIT
<1> QED BY <1>2, <1>3

(* The tests of the program are those of the stream. *)
LEMMA SameTests ==
  ASSUME FInv, Working, NEW c \in Int, NEW i \in Int, Admitted(c, i)
  PROVE  Stream!Admitted(c, i)
<1>1. /\ BlockView.start = job.start /\ BlockView.type = job.type /\ BlockView.small = job.small
      /\ BlockView.hist = job.dictSize
  BY DEF BlockView, Working
<1>2. job.small => c >= job.start - job.dictSize BY DEF Admitted, prefixIdxLimit
<1>3. (job.type = "byU16" /\ DISTANCE_MAX = KB64 - 1) \/ c + DISTANCE_MAX >= i
  <2>1. DISTANCE_MAX <= KB64 - 1 /\ DISTANCE_MAX \in Int /\ KB64 \in Int BY Numbers
  <2>2. \/ job.type = "byU16" /\ ~(DISTANCE_MAX < KB64 - 1)
        \/ ~(c + DISTANCE_MAX < i)
    BY DEF Admitted, TooFar
  <2> QED BY <2>1, <2>2
<1> QED BY <1>1, <1>2, <1>3 DEF Stream!Admitted

(* What the stream says of a candidate that passes the tests: the own table *)
(* of the stream, or that of the attached one.                              *)
LEMMA CandidateIs ==
  ASSUME FInv, Stream!IInv, Working, job.size >= 13,
         NEW i \in Int, job.start <= i, i + 12 <= stop, NEW c \in Int, Admitted(c, i),
         \/ c \in Entries(ctx) \cup {0} /\ (job.dict # "context" \/ c >= job.start)
         \/ /\ job.dict = "context"
            /\ \E e \in Entries(lib) \cup {0} : c = e + (job.start - lib.currentOffset)
  PROVE  /\ c >= prefixIdxLimit /\ i - c <= DISTANCE_MAX
         /\ c < job.start /\ job.dict # "prefix" => c + 4 <= job.start
<1>1. /\ BlockView.stage = "open" /\ BlockView.start = job.start /\ BlockView.size = job.size
      /\ BlockView.dict = job.dict
  BY OpenView
<1>2. BlockView.hist = job.dictSize BY DEF BlockView
<1>3. i \in Stream!Positions
  <2>1. job.start \in Int /\ job.size \in Int BY DEF FInv, Typed, JobTyped
  <2> QED BY <1>1, <2>1 DEF Stream!Positions, Stream!minLength, Stream!MFLIMIT, stop
<1>4. c \in Stream!Candidates BY <1>1 DEF Stream!Candidates
<1>5. Stream!Admitted(c, i) BY SameTests
<1>6. Stream!CandidatesInHistory
  BY Stream!InvariantCandidates, StreamAssumptions, WindowAssumption, SizesAssumption
<1> QED BY <1>1, <1>2, <1>3, <1>4, <1>5, <1>6
     DEF Stream!CandidatesInHistory, Stream!AtWork, Stream!MINMATCH, prefixIdxLimit

(* What it says of a table of 16 bits: the block has no history and either  *)
(* its positions fit, or candidates are tested against its start.           *)
LEMMA NarrowIs ==
  ASSUME FInv, Stream!IInv, Working, job.type = "byU16"
  PROVE  /\ job.dict = "none" /\ job.dictSize = 0 /\ job.size < KB64 + 11
         /\ job.start = 0 \/ job.start + job.size < KB64 \/ (job.start >= KB64 /\ job.small)
<1>1. /\ BlockView.stage = "open" /\ BlockView.start = job.start /\ BlockView.size = job.size
      /\ BlockView.dict = job.dict /\ BlockView.type = job.type
  BY OpenView
<1>2. BlockView.hist = job.dictSize /\ BlockView.small = job.small BY DEF BlockView
<1>3. job.start \in Nat /\ job.small \in BOOLEAN BY DEF FInv, Typed, JobTyped
<1>4. /\ job.dict = "none" /\ job.dictSize = 0 /\ job.size < KB64 + 11
      /\ job.start = 0 \/ job.start >= KB64 \/ job.start + job.size < KB64
  BY <1>1, <1>2 DEF Stream!IInv, Stream!BlockOK, Stream!Limit64K, Stream!MFLIMIT
<1>5. job.small \/ job.start = 0
  BY <1>1, <1>2, <1>3, <1>4, Numbers DEF Stream!IInv, Stream!Reach
<1> QED BY <1>3, <1>4, <1>5

(* What it says of the attached dictionary and of the seam.                 *)
LEMMA OrderIs ==
  ASSUME FInv, Stream!IInv, Working
  PROVE  /\ job.dict = "context" => /\ lib.currentOffset = KB64
                                    /\ \A e \in Entries(lib) : e + 8 <= KB64
         /\ job.dict # "none" => \A e \in Entries(ctx) : e < job.start => e + 4 <= job.start
<1>1. /\ BlockView.stage = "open" /\ BlockView.start = job.start /\ BlockView.dict = job.dict
  BY OpenView
<1>2. job.dict = "context" => lib.dictSize # 0 BY <1>1 DEF Stream!IInv, Stream!BlockOK
<1>3. lib.dictSize # 0 => lib.currentOffset = KB64 BY DEF Stream!IInv, Stream!DictOK
<1>4. \A e \in Entries(lib) : e + 8 <= KB64 BY DEF Stream!IInv, Stream!DictOK, Stream!HASH_UNIT
<1>5. job.dict # "none" => \A e \in Entries(ctx) : e < job.start => e + 4 <= job.start
  BY <1>1 DEF Stream!IInv, Stream!Seam, Stream!MINMATCH
<1> QED BY <1>2, <1>3, <1>4, <1>5

-----------------------------------------------------------------------------
(* The candidates of the program.                                          *)

(* A block elsewhere starts at the index 0 or where four bytes fit before.  *)
Apart == stage # "idle" /\ job.dict = "external" /\ job.size > 0 => job.start = 0 \/ job.start >= 4

(* Where a candidate is from. *)
LEMMA CandidateFrom ==
  ASSUME NEW tt \in Tables, NEW i, JobTyped
  PROVE  LET c == Candidate(tt, i)
         IN /\ c \in Int
            /\ \/ c = NULL /\ job.type = "byPtr"
               \/ /\ c = 0 \/ \E h \in DOMAIN tt : c = tt[h]
                  /\ job.dict # "context" \/ c >= job.start
               \/ /\ job.dict = "context"
                  /\ \E e \in Nat : /\ e = 0 \/ \E h \in DOMAIN job.dictTable : e = job.dictTable[h]
                                    /\ c = e + (job.start - job.dictOffset)
<1> DEFINE own == OwnCandidate(tt, i)
           moved == Lookup(job.dictTable, HashAt(i), 0)
           c == Candidate(tt, i)
<1>1. job.start \in Nat /\ job.dictTable \in Tables /\ job.dictOffset \in Nat BY DEF JobTyped
<1>2. c \in Int
  <2>1. job.start \in Int /\ job.dictTable \in Tables /\ job.dictOffset \in Int BY <1>1
  <2> QED BY <2>1, CandidateInt
<1>3. (own = NULL /\ job.type = "byPtr") \/ own = 0 \/ \E h \in DOMAIN tt : own = tt[h]
  BY LookupIs DEF OwnCandidate
<1>4. moved \in Nat /\ (moved = 0 \/ \E h \in DOMAIN job.dictTable : moved = job.dictTable[h])
  <2>1. 0 \in Nat OBVIOUS
  <2> QED BY <1>1, <2>1, LookupIs
<1>5. c = IF job.dict = "context" /\ own < job.start THEN moved + (job.start - job.dictOffset) ELSE own
  BY DEF Candidate
<1> HIDE DEF own, moved, c
<1>6. CASE job.dict = "context" /\ own < job.start BY <1>2, <1>4, <1>5, <1>6 DEF c
<1>7. CASE ~(job.dict = "context" /\ own < job.start)
  <2>1. c = own BY <1>5, <1>7
  <2>2. job.dict # "context" \/ c >= job.start BY <1>1, <1>2, <1>7, <2>1
  <2> QED BY <1>2, <1>3, <2>1, <2>2 DEF c
<1> QED BY <1>6, <1>7

(* The entry of the position two before. *)
LEMMA TwoBefore ==
  ASSUME FInv, Stream!IInv, Working, job.size >= 13,
         NEW i \in Int, job.start + 2 <= i, i + 12 <= stop
  PROVE  /\ Stored(i - 2) \in Nat /\ Stored(i - 2) < i
         /\ job.dict # "none" => Stored(i - 2) = i - 2
         /\ Admitted(Stored(i - 2), i) => Stored(i - 2) = i - 2 /\ 2 <= DISTANCE_MAX
<1> DEFINE c == Stored(i - 2)
<1>1. /\ job.start \in Nat /\ job.size \in Nat /\ stop = job.start + job.size /\ job.small \in BOOLEAN
      /\ job.dictSize \in Nat
  BY DEF FInv, Typed, JobTyped, Along, Working, stop
<1>2. i - 2 \in Nat /\ i \in Nat BY <1>1
<1>3. c \in Nat /\ c <= i - 2 /\ (job.type # "byU16" => c = i - 2) BY <1>2, StoredIs
<1>4. job.type = "byU16" => c = (i - 2) % KB64 BY DEF Stored
<1>5. CASE job.type # "byU16"
  <2>1. Admitted(c, i) => ~(c + DISTANCE_MAX < i) BY <1>5 DEF Admitted, TooFar
  <2> HIDE DEF c
  <2>2. c < i /\ c = i - 2 /\ (Admitted(c, i) => 2 <= DISTANCE_MAX)
    BY <1>2, <1>3, <1>5, <2>1, Numbers
  <2> QED BY <1>3, <2>2 DEF c
<1>6. CASE job.type = "byU16"
  <2>1. /\ job.dict = "none" /\ job.dictSize = 0 /\ job.size < KB64 + 11
        /\ job.start = 0 \/ job.start + job.size < KB64 \/ (job.start >= KB64 /\ job.small)
    BY <1>6, NarrowIs
  <2>2. Admitted(c, i) => /\ job.small => c >= job.start
                          /\ ~(DISTANCE_MAX < KB64 - 1) \/ ~(c + DISTANCE_MAX < i)
    <3>1. Admitted(c, i) => (job.small => c >= prefixIdxLimit) BY DEF Admitted
    <3>2. prefixIdxLimit = job.start BY <1>1, <2>1 DEF prefixIdxLimit
    <3>3. Admitted(c, i) => ~(DISTANCE_MAX < KB64 - 1) \/ ~(c + DISTANCE_MAX < i)
      BY <1>6 DEF Admitted, TooFar
    <3> QED BY <3>1, <3>2, <3>3
  <2>3. c < KB64 BY <1>2, <1>4, <1>6, Numbers
  <2>4. i - 2 < KB64 => c = i - 2 BY <1>2, <1>4, <1>6, Numbers
  <2> HIDE DEF c
  <2>5. Admitted(c, i) => i - 2 < KB64
    <3>1. job.start = 0 => i - 2 < KB64 BY <1>1, <1>2, <2>1, Numbers
    <3>2. job.start + job.size < KB64 => i - 2 < KB64 BY <1>1, <1>2, Numbers
    <3>3. job.start >= KB64 /\ job.small => ~Admitted(c, i) BY <1>1, <1>3, <2>2, <2>3, Numbers
    <3> QED BY <2>1, <3>1, <3>2, <3>3
  <2>6. Admitted(c, i) => 2 <= DISTANCE_MAX BY <1>2, <2>2, <2>4, <2>5, Numbers
  <2>7. c < i BY <1>2, <1>3
  <2> QED BY <1>3, <2>1, <2>4, <2>5, <2>6, <2>7 DEF c
<1> QED BY <1>5, <1>6

(* What a position may find: something older, and if it passes the tests    *)
(* something near enough in the history or the block, not across the seam.  *)
LEMMA Reads ==
  ASSUME FInv, Serving, Stream!IInv, Apart, Working, job.size >= 13,
         NEW i \in Int, job.start < i, i + 12 <= stop, NEW tt \in Tables,
         \A h \in DOMAIN tt : \/ tt[h] = 0
                              \/ tt[h] \in Entries(ctx) /\ tt[h] < i
                              \/ tt[h] = Stored(i - 2) /\ job.start + 2 <= i
  PROVE  LET c == Candidate(tt, i)
         IN /\ c \in Int /\ c < i
            /\ Admitted(c, i) => /\ c >= prefixIdxLimit /\ i - c <= DISTANCE_MAX
                                 /\ c < job.start /\ job.dict # "prefix" => c + 4 <= job.start
            /\ job.dict = "external" /\ c < job.start => job.start - c >= 4
<1> DEFINE c == Candidate(tt, i)
<1>1. /\ job.start \in Nat /\ job.dictSize \in Nat /\ JobTyped /\ job.size > 0 /\ stage # "idle"
      /\ job.size \in Nat
  BY DEF FInv, Typed, JobTyped, Along, Working
<1>2. /\ job.dict # "none" => job.type = "byU32"
      /\ job.dict = "context" => job.dictTable = lib.table /\ job.dictOffset = lib.currentOffset
  BY <1>1 DEF Serving
<1>3. /\ c \in Int
      /\ \/ c = NULL /\ job.type = "byPtr"
         \/ /\ c = 0 \/ \E h \in DOMAIN tt : c = tt[h]
            /\ job.dict # "context" \/ c >= job.start
         \/ /\ job.dict = "context"
            /\ \E e \in Nat : /\ e = 0 \/ \E h \in DOMAIN job.dictTable : e = job.dictTable[h]
                              /\ c = e + (job.start - job.dictOffset)
  BY <1>1, CandidateFrom
<1>4. /\ job.dict = "context" => lib.currentOffset = KB64 /\ \A e \in Entries(lib) : e + 8 <= KB64
      /\ job.dict # "none" => \A e \in Entries(ctx) : e < job.start => e + 4 <= job.start
  BY OrderIs
<1> HIDE DEF c
<1> DEFINE Good == /\ c \in Int /\ c < i
                   /\ Admitted(c, i) => /\ c >= prefixIdxLimit /\ i - c <= DISTANCE_MAX
                                        /\ c < job.start /\ job.dict # "prefix" => c + 4 <= job.start
                   /\ job.dict = "external" /\ c < job.start => job.start - c >= 4
<1>5. CASE c = NULL /\ job.type = "byPtr"
  <2>1. c + DISTANCE_MAX = -1 /\ c < 0 BY <1>5, Numbers DEF NULL
  <2>2. ~Admitted(c, i)
    <3>1. c + DISTANCE_MAX < i BY <1>1, <2>1
    <3> QED BY <1>5, <3>1 DEF Admitted, TooFar
  <2>3. c < i /\ job.dict # "external" BY <1>1, <1>2, <1>3, <1>5, <2>1
  <2> QED BY <1>3, <2>2, <2>3 DEF c
<1>6. CASE /\ c = 0 \/ (c \in Entries(ctx) /\ c < i)
           /\ job.dict # "context" \/ c >= job.start
  <2>1. c < i BY <1>1, <1>6
  <2>2. c \in Entries(ctx) \cup {0} BY <1>6
  <2>3. Admitted(c, i) => /\ c >= prefixIdxLimit /\ i - c <= DISTANCE_MAX
                          /\ c < job.start /\ job.dict # "prefix" => c + 4 <= job.start
    <3>1. job.start <= i BY <1>1
    <3> QED BY <1>3, <1>6, <2>2, <3>1, CandidateIs
  <2>4. job.dict = "external" /\ c < job.start => job.start - c >= 4
    <3>1. CASE c = 0 BY <1>1, <3>1 DEF Apart
    <3>2. CASE c \in Entries(ctx) BY <1>1, <1>3, <1>4, <3>2
    <3> QED BY <2>2, <3>1, <3>2
  <2> QED BY <1>3, <2>1, <2>3, <2>4 DEF c
<1>7. CASE c = Stored(i - 2) /\ job.start + 2 <= i
  <2>1. /\ c < i /\ (job.dict # "none" => c = i - 2)
        /\ Admitted(c, i) => c = i - 2 /\ 2 <= DISTANCE_MAX
    BY <1>7, TwoBefore
  <2>2. Admitted(c, i) => /\ c >= prefixIdxLimit /\ i - c <= DISTANCE_MAX
                          /\ c < job.start /\ job.dict # "prefix" => c + 4 <= job.start
    <3>1. c = i - 2 => c >= job.start - job.dictSize /\ ~(c < job.start) /\ i - c = 2
      BY <1>1, <1>7
    <3> QED BY <2>1, <3>1 DEF prefixIdxLimit
  <2>3. job.dict = "external" => ~(c < job.start) BY <1>1, <1>7, <2>1
  <2> QED BY <1>3, <2>1, <2>2, <2>3 DEF c
<1>8. CASE /\ job.dict = "context"
           /\ \E e \in Nat : /\ e = 0 \/ \E h \in DOMAIN job.dictTable : e = job.dictTable[h]
                             /\ c = e + (job.start - job.dictOffset)
  <2>1. PICK e \in Nat : /\ e = 0 \/ \E h \in DOMAIN job.dictTable : e = job.dictTable[h]
                         /\ c = e + (job.start - job.dictOffset)
    BY <1>8
  <2>2. e \in Entries(lib) \cup {0} BY <1>2, <1>8, <2>1, EntryOf
  <2>3. c = e + (job.start - lib.currentOffset) /\ lib.currentOffset = KB64 BY <1>2, <1>4, <1>8, <2>1
  <2>4. e + 8 <= KB64 BY <1>4, <1>8, <2>2, Numbers
  <2>5. c < job.start /\ c < i BY <1>1, <2>1, <2>3, <2>4, Numbers
  <2>6. Admitted(c, i) => /\ c >= prefixIdxLimit /\ i - c <= DISTANCE_MAX
                          /\ c < job.start /\ job.dict # "prefix" => c + 4 <= job.start
    <3>1. job.start <= i BY <1>1
    <3>2. \E x \in Entries(lib) \cup {0} : c = x + (job.start - lib.currentOffset) BY <2>2, <2>3
    <3> QED BY <1>3, <1>8, <3>1, <3>2, CandidateIs
  <2> QED BY <1>3, <1>8, <2>5, <2>6 DEF c
<1>9. \/ c = NULL /\ job.type = "byPtr"
      \/ /\ c = 0 \/ (c \in Entries(ctx) /\ c < i)
         /\ job.dict # "context" \/ c >= job.start
      \/ c = Stored(i - 2) /\ job.start + 2 <= i
      \/ /\ job.dict = "context"
         /\ \E e \in Nat : /\ e = 0 \/ \E h \in DOMAIN job.dictTable : e = job.dictTable[h]
                           /\ c = e + (job.start - job.dictOffset)
  BY <1>3
<1> QED BY <1>5, <1>6, <1>7, <1>8, <1>9

-----------------------------------------------------------------------------
(* The order of the table and of the match while a block is at work.        *)

(* Each entry is in the bucket of the position it stands for. *)
Homed(tt) == \A h \in DOMAIN tt : tt[h] # 0 => HashAt(tt[h]) = h

(* Every entry is older than the position that is looked up next; a match   *)
(* may begin before positions already entered.  While an output is filled,  *)
(* which is when entries are taken back, each is in its own bucket.         *)
Sorted ==
  /\ stage = "search"   => \A e \in Entries(ctx) : e < probe.next
  /\ stage = "literals" => \A e \in Entries(ctx) : e <= at
  /\ stage = "match"    => \A e \in Entries(ctx) : e <= at \/ e <= filled
  /\ stage = "next"     => \A e \in Entries(ctx) : e < at
  /\ Working /\ job.limit = "fill" => Homed(ctx.table)

(* The match lies in the history, four bytes of it agree and are in one     *)
(* segment.  It goes beyond the last position entered, which the search     *)
(* found it at, unless it starts behind that or there is no room for it;    *)
(* and only a match cut short, with no room behind it, ends before that.    *)
Agreed ==
  /\ stage \in {"literals", "match"} =>
       /\ found < at /\ at - found <= DISTANCE_MAX /\ found >= lowLimit
       /\ inDict => found + 4 <= job.start
       /\ Same(at, found, 4)
  /\ stage = "match" =>
       \/ filled < at
       \/ TooClose
       \/ /\ filled + 12 <= stop /\ Same(at, found, filled - at + 4)
          /\ inDict => found + (filled - at) + 4 <= job.start
  /\ stage = "next" => filled < at \/ (job.limit = "fill" /\ Len(out) + 6 >= job.cap)

(* A position that is looked for lies twelve bytes before the end, or one   *)
(* behind.                                                                  *)
Ahead == stage = "search" => probe.next + 11 <= stop

(* A stream with a history has it somewhere, and so has a block that looks  *)
(* into one: unless forceExtDict is called without any.                     *)
Grounded ==
  /\ lib.dictSize # 0 => Address(lib.dictionary)
  /\ stage = "idle" /\ started /\ ctx.dictSize # 0 => Address(ctx.dictionary)
  /\ stage # "idle" /\ started => w.fn \in Chained
  /\ stage # "idle" /\ started /\ job.dict = "prefix" => Address(ctx.dictionary)
  /\ stage # "idle" /\ job.dict = "external" /\ job.size > 0
       /\ (w.fn = "continue" \/ job.dictSize # 0) => Address(ctx.dictionary)

(* What is kept, together. *)
Ready == Kept /\ Stream!IInv /\ Apart /\ Sorted /\ Agreed /\ Ahead /\ Grounded

(* The order of the table in the next state, said in this one.              *)
LEMMA SortedNext ==
  ASSUME job' = job,
         stage' = "search" => \A e \in Entries(ctx') : e < probe'.next,
         stage' = "literals" => \A e \in Entries(ctx') : e <= at',
         stage' = "match" => \A e \in Entries(ctx') : e <= at' \/ e <= filled',
         stage' = "next" => \A e \in Entries(ctx') : e < at',
         stage' \in {"search", "literals", "match", "next", "last"} /\ job.limit = "fill" =>
           Homed(ctx'.table)
  PROVE  Sorted'
<1>1. Entries(ctx)' = Entries(ctx') BY DEF Entries
<1>2. Homed(ctx'.table) => Homed(ctx.table)' BY DEF Homed, HashAt, ByteAt
<1>3. Working' => stage' \in {"search", "literals", "match", "next", "last"} BY DEF Working
<1> QED BY <1>1, <1>2, <1>3 DEF Sorted

(* The same of the match. *)
LEMMA AgreedNext ==
  ASSUME job' = job,
         stage' \in {"literals", "match"} =>
           /\ found' < at' /\ at' - found' <= DISTANCE_MAX
           /\ found' >= (IF job.dict = "prefix" \/ inDict' THEN prefixIdxLimit ELSE job.start)
           /\ inDict' => found' + 4 <= job.start
           /\ Same(at', found', 4),
         stage' = "match" =>
           \/ filled' < at'
           \/ job.limit = "fill" /\ Len(out') + 11 > job.cap
           \/ /\ filled' + 12 <= stop /\ Same(at', found', filled' - at' + 4)
              /\ inDict' => found' + (filled' - at') + 4 <= job.start,
         stage' = "next" => filled' < at' \/ (job.limit = "fill" /\ Len(out') + 6 >= job.cap),
         Len(out') \in Nat, job.cap \in Nat
  PROVE  Agreed'
<1>1. Same(at', found', 4) => Same(at, found, 4)' BY DEF Same, ByteAt
<1>2. Same(at', found', filled' - at' + 4) => Same(at, found, filled - at + 4)' BY DEF Same, ByteAt
<1>3. lowLimit' = IF job.dict = "prefix" \/ inDict' THEN prefixIdxLimit ELSE job.start
  BY DEF lowLimit, prefixIdxLimit
<1>4. stop' = stop BY DEF stop
<1>5. job.limit = "fill" /\ Len(out') + 11 > job.cap => TooClose'
  <2> DEFINE n == Len(out')
  <2>1. n \in Nat /\ job.cap \in Nat OBVIOUS
  <2>2. TooClose' <=> job.limit = "fill" /\ n + 2 + 1 + 12 - 4 > job.cap BY Numbers DEF TooClose
  <2> HIDE DEF n
  <2>3. n + 11 > job.cap => n + 2 + 1 + 12 - 4 > job.cap BY <2>1
  <2> QED BY <2>2, <2>3 DEF n
<1> QED BY <1>1, <1>2, <1>3, <1>4, <1>5 DEF Agreed

(* A position that is put into its bucket. *)
LEMMA PutHomed ==
  ASSUME NEW tt \in Tables, NEW i \in Nat, Homed(tt), Stored(i) = i
  PROVE  Homed(Put(tt, i))
<1> DEFINE pp == Put(tt, i)
<1>1. \A h \in DOMAIN pp : \/ h = HashAt(i) /\ pp[h] = Stored(i)
                           \/ h # HashAt(i) /\ h \in DOMAIN tt /\ pp[h] = tt[h]
  BY PutIs
<1> HIDE DEF pp
<1>2. Homed(pp) BY <1>1 DEF Homed
<1> QED BY <1>2 DEF pp

(* An output is filled from a clean stream, whose indexes are positions.    *)
LEMMA FillStores ==
  ASSUME FInv, Serving, Stream!IInv, Working, job.limit = "fill",
         NEW i \in Nat, i + 12 <= stop
  PROVE  Stored(i) = i
<1>1. job.start = 0 /\ stop = job.start + job.size /\ job.size \in Int
  BY DEF Serving, Working, FInv, Typed, JobTyped, stop
<1>2. CASE job.type # "byU16" BY <1>2 DEF Stored
<1>3. CASE job.type = "byU16"
  <2>1. job.size < KB64 + 11 BY <1>3, NarrowIs
  <2>2. i < KB64 BY <1>1, <2>1, Numbers
  <2> QED BY <1>3, <2>2, Numbers DEF Stored
<1> QED BY <1>2, <1>3

(* A step that leaves nothing more to be found. *)
LEMMA EndsReady ==
  ASSUME Ready, job' = job, stage' \in {"last", "done"}, Working,
         ctx' = ctx, Len(out') \in Nat
  PROVE  Sorted' /\ Agreed'
<1>1. Sorted /\ job.cap \in Nat BY DEF Ready, Kept, FInv, Typed, JobTyped
<1>2. job.limit = "fill" => Homed(ctx'.table) BY <1>1 DEF Sorted
<1>3. Sorted' BY <1>2, SortedNext
<1>4. Agreed' BY <1>1, AgreedNext
<1> QED BY <1>3, <1>4

(* The start. *)
LEMMA BeginReady ==
  ASSUME Ready, BeginBlock, UNCHANGED <<work, lib>>
  PROVE  Sorted' /\ Agreed'
<1>1. FInv /\ Serving /\ Stream!IInv /\ Typed /\ JobTyped /\ PlacesTyped /\ stage = "begin"
      /\ ctx \in Contexts /\ FInv'
  BY BeginFits DEF Ready, Kept, FInv, Typed, BeginBlock
<1>2. /\ job.size \in Nat /\ job' = job /\ out' = out /\ ctx' \in Contexts
      /\ \/ job.size < 13 /\ stage' = "last" /\ ctx' = Moved
         \/ /\ job.size >= 13 /\ stage' = "search"
            /\ probe' = [next |-> job.start + 1, step |-> 1, nb |-> job.accel * 64]
            /\ ctx' = [Moved EXCEPT !.table = Put(ctx.table, job.start)]
  BY <1>1, BeginIs
<1>3. Moved \in Contexts /\ Moved.table = ctx.table /\ ctx.table \in Tables
  BY <1>1, <1>2, MovedIs DEF Contexts
<1>4. job.start \in Nat /\ job.cap \in Nat /\ Len(out') \in Nat
  BY <1>1, <1>2, ListPlaces DEF JobTyped, PlacesTyped
<1>5. ctx.currentOffset = job.start /\ \A e \in Entries(ctx) : e \in Nat /\ e + 8 <= job.start
  BY <1>1, CalledOrder, EntriesIs
<1> HIDE DEF Moved
<1>6. job.limit = "fill" => Homed(ctx.table) /\ job.start = 0
  <2> SUFFICES ASSUME job.limit = "fill" PROVE Homed(ctx.table) /\ job.start = 0 OBVIOUS
  <2>1. job.start = 0 BY <1>1 DEF Serving
  <2>2. ASSUME NEW h \in DOMAIN ctx.table, ctx.table[h] # 0 PROVE FALSE
    <3>1. ctx.table[h] \in Entries(ctx) BY <2>2, EntryOf
    <3> QED BY <1>5, <2>1, <3>1
  <2> QED BY <2>1, <2>2 DEF Homed
<1>7. stage' \notin {"literals", "match", "next"} BY <1>2
<1>8. Agreed' BY <1>2, <1>4, <1>7, AgreedNext
<1>9. CASE job.size < 13 /\ stage' = "last" /\ ctx' = Moved
  BY <1>2, <1>3, <1>6, <1>8, <1>9, SortedNext
<1>10. CASE /\ job.size >= 13 /\ stage' = "search"
            /\ probe' = [next |-> job.start + 1, step |-> 1, nb |-> job.accel * 64]
            /\ ctx' = [Moved EXCEPT !.table = Put(ctx.table, job.start)]
  <2>1. ctx'.table = Put(ctx.table, job.start) BY <1>3, <1>10 DEF Contexts
  <2>2. Entries(ctx') \subseteq Entries(ctx) \cup {Stored(job.start)}
    BY <1>1, <1>2, <1>4, <2>1, PutEntries
  <2>3. Stored(job.start) \in Nat /\ Stored(job.start) <= job.start BY <1>4, StoredIs
  <2>4. probe'.next = job.start + 1 BY <1>10
  <2>5. \A e \in Entries(ctx') : e < probe'.next BY <1>4, <1>5, <2>2, <2>3, <2>4
  <2>6. job.limit = "fill" => Homed(ctx'.table)
    <3> SUFFICES ASSUME job.limit = "fill" PROVE Homed(Put(ctx.table, job.start)) BY <2>1
    <3>1. job.start = 0 /\ Homed(ctx.table) BY <1>6
    <3>2. Stored(job.start) = job.start BY <2>3, <3>1
    <3> QED BY <1>3, <1>4, <3>1, <3>2, PutHomed
  <2>7. Sorted' BY <1>2, <1>10, <2>5, <2>6, SortedNext
  <2> QED BY <1>8, <2>7
<1> QED BY <1>2, <1>9, <1>10

(* The search: what it may find, whether it takes it or not. *)
LEMMA SearchReads ==
  ASSUME Ready, stage = "search", ~LastProbe
  PROVE  LET c == Candidate(ctx.table, probe.next)
         IN /\ c \in Int /\ c < probe.next
            /\ Admitted(c, probe.next) =>
                 /\ c >= prefixIdxLimit /\ probe.next - c <= DISTANCE_MAX
                 /\ c < job.start /\ job.dict # "prefix" => c + 4 <= job.start
            /\ job.dict = "external" /\ c < job.start => job.start - c >= 4
<1>1. /\ FInv /\ Serving /\ Stream!IInv /\ Apart /\ Sorted /\ Working /\ job.size >= 13
      /\ ctx.table \in Tables
  BY DEF Ready, Kept, FInv, Typed, Contexts, Along, Working
<1>2. /\ job.start \in Nat /\ probe.next \in Int /\ probe.step \in Int /\ probe.step >= 1
      /\ job.start <= anchor /\ anchor < probe.next /\ anchor \in Int /\ job.size \in Int
  BY <1>1 DEF FInv, Typed, JobTyped, PlacesTyped, Along, Working
<1>3. probe.next + 12 <= stop
  <2>1. ~(probe.next + probe.step > stop - MFLIMIT + 1) BY DEF LastProbe, mflimitPlusOne
  <2>2. stop \in Int BY <1>2 DEF stop
  <2> QED BY <1>2, <2>1, <2>2, Numbers
<1>4. job.start < probe.next BY <1>2
<1>5. \A h \in DOMAIN ctx.table :
        \/ ctx.table[h] = 0
        \/ ctx.table[h] \in Entries(ctx) /\ ctx.table[h] < probe.next
  BY <1>1, EntryOf DEF Sorted
<1> QED BY <1>1, <1>2, <1>3, <1>4, <1>5, Reads

(* The position after a match, when the one two before has been entered.    *)
LEMMA NextReads ==
  ASSUME Ready, stage = "next"
  PROVE  LET c == Candidate(Filled, at)
         IN /\ c \in Int /\ c < at
            /\ Admitted(c, at) => /\ c >= prefixIdxLimit /\ at - c <= DISTANCE_MAX
                                  /\ c < job.start /\ job.dict # "prefix" => c + 4 <= job.start
            /\ job.dict = "external" /\ c < job.start => job.start - c >= 4
<1>1. /\ FInv /\ Serving /\ Stream!IInv /\ Apart /\ Sorted /\ Working /\ job.size >= 13
      /\ ctx.table \in Tables
  BY DEF Ready, Kept, FInv, Typed, Contexts, Along, Working
<1>2. at \in Int /\ job.start \in Nat /\ at + 12 <= stop /\ job.start + 4 <= at
  BY <1>1 DEF FInv, Typed, JobTyped, PlacesTyped, Along
<1>3. at - 2 \in Nat /\ job.start < at /\ job.start + 2 <= at
  <2> HIDE DEF stop
  <2> QED BY <1>2
<1>4. Filled \in Tables
      /\ \A h \in DOMAIN Filled : \/ Filled[h] = Stored(at - 2)
                                  \/ h \in DOMAIN ctx.table /\ Filled[h] = ctx.table[h]
  BY <1>1, <1>3, PutIs DEF Filled
<1>5. \A h \in DOMAIN Filled :
        \/ Filled[h] = 0
        \/ Filled[h] \in Entries(ctx) /\ Filled[h] < at
        \/ Filled[h] = Stored(at - 2) /\ job.start + 2 <= at
  BY <1>1, <1>3, <1>4, EntryOf DEF Sorted
<1> QED BY <1>1, <1>2, <1>3, <1>4, <1>5, Reads

(* A candidate that is taken. *)
LEMMA TakenIs ==
  ASSUME Ready, stage # "idle", NEW i \in Int, NEW c \in Int, Matches(c, i),
         Admitted(c, i) => /\ c >= prefixIdxLimit /\ i - c <= DISTANCE_MAX
                           /\ c < job.start /\ job.dict # "prefix" => c + 4 <= job.start
  PROVE  /\ i - c <= DISTANCE_MAX
         /\ c >= (IF job.dict = "prefix" \/ Elsewhere(c) THEN prefixIdxLimit ELSE job.start)
         /\ Elsewhere(c) => c + 4 <= job.start
         /\ Same(i, c, 4)
<1>1. /\ job.dict \in {"none", "prefix", "external", "context"} /\ job.start \in Nat
      /\ job.dict = "none" => job.dictSize = 0
  BY DEF Ready, Kept, FInv, Typed, JobTyped, Serving
<1>2. Admitted(c, i) /\ Same(c, i, 4) BY Numbers DEF Matches
<1>3. Same(i, c, 4) BY <1>2 DEF Same
<1>4. Elsewhere(c) <=> job.dict \in {"external", "context"} /\ c < job.start
  BY DEF Elsewhere, maybe_extMem
<1>5. job.dict = "none" => prefixIdxLimit = job.start BY <1>1 DEF prefixIdxLimit
<1> QED BY <1>1, <1>2, <1>3, <1>4, <1>5

(* A position without a match. *)
LEMMA MissReady ==
  ASSUME Ready, Miss
  PROVE  Sorted' /\ Agreed'
<1>1. /\ FInv /\ Serving /\ Stream!IInv /\ Sorted /\ Probed /\ Typed /\ PlacesTyped /\ Along
      /\ ctx \in Contexts /\ job.cap \in Nat
  BY DEF Ready, Kept, FInv, Typed, JobTyped, Miss
<1>2. /\ stage = "search" /\ probe.next \in Nat /\ probe.next + 12 <= stop
      /\ ctx' = [ctx EXCEPT !.table = Put(ctx.table, probe.next)] /\ ctx' \in Contexts
      /\ ctx.table \in Tables
  BY <1>1, ProbedIs
<1>3. job' = job /\ stage' = "search" /\ out' = out /\ probe'.next = probe.next + probe.step
  BY <1>2 DEF Miss, Advance
<1>4. probe.step \in Int /\ probe.step >= 1 /\ Len(out') \in Nat /\ Working
  BY <1>1, <1>2, <1>3, ListPlaces DEF PlacesTyped, Along, Working
<1>5. ctx'.table = Put(ctx.table, probe.next) BY <1>1, <1>2 DEF Contexts
<1>6. Entries(ctx') \subseteq Entries(ctx) \cup {Stored(probe.next)} BY <1>1, <1>2, <1>5, PutEntries
<1>7. \A e \in Entries(ctx) : e \in Nat /\ e < probe.next BY <1>1, <1>2, EntriesIs DEF Sorted
<1>8. Stored(probe.next) \in Nat /\ Stored(probe.next) <= probe.next BY <1>2, StoredIs
<1>9. \A e \in Entries(ctx') : e < probe'.next BY SMTT(60), <1>2, <1>3, <1>4, <1>6, <1>7, <1>8
<1>10. job.limit = "fill" => Homed(ctx'.table)
  BY <1>1, <1>2, <1>4, <1>5, PutHomed, FillStores DEF Sorted
<1>11. Sorted' BY <1>3, <1>9, <1>10, SortedNext
<1>12. Agreed' BY <1>1, <1>3, <1>4, AgreedNext
<1> QED BY <1>11, <1>12

(* A match. *)
LEMMA HitReady ==
  ASSUME Ready, Hit
  PROVE  Sorted' /\ Agreed'
<1> DEFINE c == Candidate(ctx.table, probe.next)
<1>1. /\ FInv /\ Serving /\ Stream!IInv /\ Sorted /\ Probed /\ Typed /\ PlacesTyped /\ Along
      /\ ctx \in Contexts /\ job.cap \in Nat /\ ~LastProbe
  BY DEF Ready, Kept, FInv, Typed, JobTyped, Hit, Probed
<1>2. /\ stage = "search" /\ probe.next \in Nat /\ probe.next \in Int /\ probe.next + 12 <= stop
      /\ ctx' = [ctx EXCEPT !.table = Put(ctx.table, probe.next)] /\ ctx' \in Contexts
      /\ ctx.table \in Tables
  <2>1. probe.next \in Int BY <1>1 DEF PlacesTyped
  <2> QED BY <1>1, <2>1, ProbedIs
<1>3. /\ job' = job /\ stage' = "literals" /\ out' = out /\ at' = probe.next
      /\ found' = c /\ inDict' = Elsewhere(c) /\ Matches(c, probe.next)
  BY DEF Hit
<1>4. Len(out') \in Nat /\ Working
  BY <1>1, <1>2, <1>3, ListPlaces DEF PlacesTyped, Working
<1>5. ctx'.table = Put(ctx.table, probe.next) BY <1>1, <1>2 DEF Contexts
<1>6. Entries(ctx') \subseteq Entries(ctx) \cup {Stored(probe.next)} BY <1>1, <1>2, <1>5, PutEntries
<1>7. \A e \in Entries(ctx) : e \in Nat /\ e < probe.next BY <1>1, <1>2, EntriesIs DEF Sorted
<1>8. Stored(probe.next) \in Nat /\ Stored(probe.next) <= probe.next BY <1>2, StoredIs
<1>9. \A e \in Entries(ctx') : e <= at' BY <1>2, <1>3, <1>6, <1>7, <1>8
<1>10. job.limit = "fill" => Homed(ctx'.table)
  BY <1>1, <1>2, <1>4, <1>5, PutHomed, FillStores DEF Sorted
<1>11. Sorted' BY <1>3, <1>9, <1>10, SortedNext
<1>12. /\ c \in Int /\ c < probe.next
       /\ Admitted(c, probe.next) =>
            /\ c >= prefixIdxLimit /\ probe.next - c <= DISTANCE_MAX
            /\ c < job.start /\ job.dict # "prefix" => c + 4 <= job.start
  BY <1>1, <1>2, SearchReads
<1> HIDE DEF c
<1>13. /\ probe.next - c <= DISTANCE_MAX
       /\ c >= (IF job.dict = "prefix" \/ Elsewhere(c) THEN prefixIdxLimit ELSE job.start)
       /\ Elsewhere(c) => c + 4 <= job.start
       /\ Same(probe.next, c, 4)
  BY <1>2, <1>3, <1>12, TakenIs
<1>14. Agreed' BY <1>1, <1>3, <1>4, <1>12, <1>13, AgreedNext
<1> QED BY <1>11, <1>14

(* Where two stretches agree one after the other. *)
LEMMA SameJoins ==
  ASSUME NEW i \in Int, NEW j \in Int, NEW n \in Nat, Same(i, j, n), Same(i + n, j + n, 4)
  PROVE  Same(i, j, n + 4)
<1>1. SUFFICES ASSUME NEW k \in 0..(n + 3) PROVE ByteAt(i + k) = ByteAt(j + k)
  <2>1. (n + 4) - 1 = n + 3 OBVIOUS
  <2> QED BY <2>1 DEF Same
<1>2. CASE k < n
  <2>1. k \in 0..(n - 1) BY <1>2
  <2> QED BY <2>1 DEF Same
<1>3. CASE k >= n
  <2>1. k - n \in 0..(4 - 1) /\ (i + n) + (k - n) = i + k /\ (j + n) + (k - n) = j + k BY <1>3
  <2>2. ByteAt((i + n) + (k - n)) = ByteAt((j + n) + (k - n)) BY <2>1 DEF Same
  <2> QED BY <2>1, <2>2
<1> QED BY <1>2, <1>3

(* What agrees from the start on agrees after four bytes. *)
LEMMA SameAfter ==
  ASSUME NEW i \in Int, NEW j \in Int, NEW n \in Nat, Same(i, j, n + 4)
  PROVE  Same(i + 4, j + 4, n)
<1>1. SUFFICES ASSUME NEW k \in 0..(n - 1) PROVE ByteAt((i + 4) + k) = ByteAt((j + 4) + k)
  BY DEF Same
<1>2. k + 4 \in 0..((n + 4) - 1) /\ (i + 4) + k = i + (k + 4) /\ (j + 4) + k = j + (k + 4) OBVIOUS
<1>3. ByteAt(i + (k + 4)) = ByteAt(j + (k + 4)) BY <1>2 DEF Same
<1> QED BY <1>2, <1>3

(* The literals, and a match that starts earlier. *)
LEMMA LiteralsReady ==
  ASSUME Ready, EncodeLiterals, UNCHANGED <<work, lib>>
  PROVE  Sorted' /\ Agreed'
<1> DEFINE k == CatchUp
<1>1. /\ FInv /\ Serving /\ Sorted /\ Agreed /\ Typed /\ PlacesTyped /\ Along
      /\ job.cap \in Nat /\ stage = "literals" /\ Working /\ FInv' /\ job.start \in Nat
  BY LiteralsFits DEF Ready, Kept, FInv, Typed, JobTyped, EncodeLiterals, Working
<1>2. /\ at \in Int /\ anchor \in Int /\ found \in Int /\ anchor < at /\ at = filled
      /\ at + 12 <= stop /\ inDict \in BOOLEAN
  BY <1>1 DEF PlacesTyped, Along
<1>3. Len(out') \in Nat
  <2>1. IsList(out') BY <1>1 DEF FInv, Typed, PlacesTyped
  <2> QED BY <2>1, ListPlaces
<1>4. \/ job' = job /\ ctx' = ctx /\ stage' \in {"done", "last"}
      \/ /\ at' = at - k /\ found' = found - k /\ stage' = "match"
         /\ UNCHANGED <<job, ctx, inDict, filled>>
  BY DEF EncodeLiterals, GiveUp, Deliver
<1>5. /\ k \in Nat /\ k <= at - anchor
      /\ k = 0 \/ (found - k >= lowLimit /\ Same(at - k, found - k, k))
  BY <1>2, CatchUpIs
<1> HIDE DEF k
<1>6. CASE job' = job /\ ctx' = ctx /\ stage' \in {"done", "last"} BY <1>1, <1>3, <1>6, EndsReady
<1>7. CASE /\ at' = at - k /\ found' = found - k /\ stage' = "match"
           /\ UNCHANGED <<job, ctx, inDict, filled>>
  <2>1. \A e \in Entries(ctx') : e <= filled' BY <1>1, <1>2, <1>7 DEF Sorted
  <2>2. job.limit = "fill" => Homed(ctx'.table) BY <1>1, <1>7 DEF Sorted
  <2>3. Sorted' BY <1>7, <2>1, <2>2, SortedNext
  <2>4. /\ found < at /\ at - found <= DISTANCE_MAX /\ found >= lowLimit
        /\ inDict => found + 4 <= job.start
        /\ Same(at, found, 4)
    BY <1>1 DEF Agreed
  <2>5. Same(at - k, found - k, k + 4)
    <3>1. Same(at - k, found - k, k)
      <4>1. CASE k = 0 BY <4>1 DEF Same
      <4> QED BY <1>5, <4>1
    <3>2. at - k \in Int /\ found - k \in Int /\ (at - k) + k = at /\ (found - k) + k = found
      BY <1>2, <1>5
    <3>3. Same((at - k) + k, (found - k) + k, 4) BY <2>4, <3>2
    <3> QED BY <1>5, <3>1, <3>2, <3>3, SameJoins
  <2>6. Same(at - k, found - k, 4)
    <3>1. 0..(4 - 1) \subseteq 0..((k + 4) - 1) BY <1>5
    <3> QED BY <2>5, <3>1 DEF Same
  <2>7. found' < at' /\ at' - found' <= DISTANCE_MAX /\ (inDict' => found' + 4 <= job.start)
    BY <1>1, <1>2, <1>5, <1>7, <2>4, Numbers
  <2>8. found' >= (IF job.dict = "prefix" \/ inDict' THEN prefixIdxLimit ELSE job.start)
    <3>1. found - k >= lowLimit
      <4>1. CASE k = 0 BY <1>2, <2>4, <4>1
      <4> QED BY <1>5, <4>1
    <3> QED BY <1>7, <3>1 DEF lowLimit
  <2>9. /\ filled' + 12 <= stop /\ filled' - at' + 4 = k + 4
        /\ inDict' => found' + (filled' - at') + 4 <= job.start
    BY <1>1, <1>2, <1>5, <1>7, <2>4
  <2>10. Agreed' BY <1>1, <1>3, <1>7, <2>5, <2>6, <2>7, <2>8, <2>9, AgreedNext
  <2> QED BY <2>3, <2>10
<1> QED BY <1>4, <1>6, <1>7


(* Buckets that are cleared leave the others where they are. *)
LEMMA ClearHomed ==
  ASSUME NEW tt \in Tables, NEW S, Homed(tt)
  PROVE  Homed(Clear(tt, S))
<1> DEFINE cc == Clear(tt, S)
<1>1. DOMAIN cc = DOMAIN tt \ {HashAt(i) : i \in S} BY ClearIs
<1>2. \A h \in DOMAIN cc : cc[h] = tt[h] BY ClearIs
<1> HIDE DEF cc
<1>3. Homed(cc) BY <1>1, <1>2 DEF Homed
<1> QED BY <1>3 DEF cc

(* Nothing is left of the positions whose buckets are cleared, where each   *)
(* entry is in its own bucket.                                              *)
LEMMA ClearedOf ==
  ASSUME NEW c \in Contexts, NEW d \in Contexts, NEW S, d.table = Clear(c.table, S),
         Homed(c.table)
  PROVE  \A e \in Entries(d) : e \in Entries(c) /\ e \notin S
<1> DEFINE tt == c.table
           cc == Clear(tt, S)
<1>1. tt \in Tables BY DEF Contexts
<1>2. DOMAIN cc = DOMAIN tt \ {HashAt(i) : i \in S} /\ \A h \in DOMAIN cc : cc[h] = tt[h]
  <2> HIDE DEF tt
  <2> QED BY <1>1, ClearIs
<1> HIDE DEF cc
<1>3. ASSUME NEW e \in Entries(d) PROVE e \in Entries(c) /\ e \notin S
  <2>0. d.table = cc BY DEF cc
  <2>1. PICK h \in DOMAIN cc : e = cc[h] /\ e # 0 BY <2>0, EntryOf
  <2>2. h \in DOMAIN tt /\ e = tt[h] /\ h \notin {HashAt(i) : i \in S} BY <1>2, <2>1
  <2>3. HashAt(e) = h BY <2>1, <2>2 DEF Homed
  <2> QED BY <2>1, <2>2, <2>3, EntryOf
<1> QED BY <1>3

(* The end of a match. *)
LEMMA MatchReady ==
  ASSUME Ready, EncodeMatch, UNCHANGED <<work, lib>>
  PROVE  Sorted' /\ Agreed'
<1> DEFINE n    == Len(out)
           code == Coded
           end  == at + 4 + Coded
           m    == filled - at
<1>1. /\ FInv /\ Serving /\ Sorted /\ Agreed /\ Typed /\ PlacesTyped /\ ctx \in Contexts
      /\ ctx.table \in Tables
      /\ job.cap \in Nat /\ stage = "match" /\ ~TooClose /\ Working /\ FInv' /\ ctx' \in Contexts
  BY MatchFits DEF Ready, Kept, FInv, Typed, JobTyped, EncodeMatch, Working, Contexts
<1>2. /\ at \in Int /\ found \in Int /\ filled \in Int /\ inDict \in BOOLEAN /\ at + 12 <= stop
      /\ job.start \in Int /\ job.size \in Int /\ n \in Nat /\ IsList(out) /\ tok \in 1..Len(out)
      /\ job.limit \in {"none", "limited", "fill"}
  <2>1. JobTyped /\ PlacesTyped /\ Along /\ Grown /\ stage = "match" BY <1>1 DEF FInv, Typed
  <2>2. tok \in 1..Len(out) BY <2>1 DEF Grown
  <2>3. at + 12 <= stop BY <2>1 DEF Along
  <2> QED BY <2>1, <2>2, <2>3, ListPlaces DEF JobTyped, PlacesTyped
<1>3. Len(out') \in Nat
  <2>1. IsList(out') BY <1>1 DEF FInv, Typed, PlacesTyped
  <2> QED BY <2>1, ListPlaces
<1>4. \/ job' = job /\ ctx' = ctx /\ stage' = "done"
      \/ /\ ~(Tight(n + 2) /\ job.limit = "limited")
         /\ out' = [out EXCEPT ![tok] = @ + Bits(code, ML_MASK)]
                         \o OffsetBytes(at - found) \o MoreBytes(code, ML_MASK)
         /\ ctx' = IF Tight(n + 2) /\ end <= filled
                     THEN [ctx EXCEPT !.table = Clear(ctx.table, end..filled)] ELSE ctx
         /\ at' = end /\ stage' \in {"last", "next"}
         /\ UNCHANGED <<job, found, inDict, filled>>
  BY Numbers DEF EncodeMatch, Coded, Deliver
<1>5. CASE job' = job /\ ctx' = ctx /\ stage' = "done" BY <1>1, <1>3, <1>5, EndsReady
<1>6. CASE /\ ~(Tight(n + 2) /\ job.limit = "limited")
           /\ out' = [out EXCEPT ![tok] = @ + Bits(code, ML_MASK)]
                         \o OffsetBytes(at - found) \o MoreBytes(code, ML_MASK)
           /\ ctx' = IF Tight(n + 2) /\ end <= filled
                       THEN [ctx EXCEPT !.table = Clear(ctx.table, end..filled)] ELSE ctx
           /\ at' = end /\ stage' \in {"last", "next"}
           /\ UNCHANGED <<job, found, inDict, filled>>
  <2>1. code \in Nat BY <1>1, <1>2, <1>6, CodedIs
  <2>2. end \in Int /\ end > at
    <3>1. end = at + 4 + code OBVIOUS
    <3> HIDE DEF end, code
    <3> QED BY <1>2, <2>1, <3>1
  <2>3. MatchCode \in Nat BY <1>2, MatchCodeIs
  <2>4. filled < at \/ (m \in Nat /\ m <= MatchCode)
    <3>1. CASE filled < at BY <3>1
    <3>2. CASE ~(filled < at)
      <4>1. /\ filled + 12 <= stop /\ Same(at, found, m + 4)
            /\ inDict => found + m + 4 <= job.start
        BY <1>1, <3>2 DEF Agreed
      <4>2. m \in Nat BY <1>2, <3>2
      <4>3. stop \in Int BY <1>2 DEF stop
      <4>4. at + m = filled BY <1>2
      <4> HIDE DEF m
      <4>5. Same(at + 4, found + 4, m) BY <1>2, <4>1, <4>2, SameAfter
      <4>6. at + 4 + m <= stop - 5 BY <1>2, <4>1, <4>2, <4>3, <4>4
      <4>7. inDict => found + 4 + m <= job.start BY <1>2, <4>1, <4>2
      <4>8. m <= MatchCode BY <1>2, <4>2, <4>5, <4>6, <4>7, MatchCodeIs
      <4> QED BY <4>2, <4>8
    <3> QED BY <3>1, <3>2
  <2>5. CASE ~Tight(n + 2)
    <3>1. code = MatchCode BY <2>5 DEF Coded
    <3>2. filled < end /\ ctx' = ctx
      <4>1. end = at + 4 + code OBVIOUS
      <4>2. ctx' = ctx BY <1>6, <2>5
      <4> HIDE DEF end, code
      <4> QED BY <1>2, <2>1, <2>3, <2>4, <3>1, <4>1, <4>2
    <3> HIDE DEF end
    <3>3. \A e \in Entries(ctx') : e < at'
      <4>1. \A e \in Entries(ctx) : e \in Int /\ (e <= at \/ e <= filled)
        BY <1>1, EntriesIs DEF Sorted
      <4>2. at' = end /\ Entries(ctx') = Entries(ctx) BY <1>6, <3>2
      <4>3. at \in Int /\ filled \in Int BY <1>2
      <4> QED BY <2>2, <3>2, <4>1, <4>2, <4>3
    <3>4. job.limit = "fill" => Homed(ctx'.table) BY <1>1, <3>2 DEF Sorted
    <3>5. Sorted' BY <1>6, <3>3, <3>4, SortedNext
    <3>6. Agreed' BY <1>1, <1>3, <1>6, <3>2, AgreedNext
    <3> QED BY <3>5, <3>6
  <2>6. CASE Tight(n + 2)
    <3>1. job.limit = "fill" BY <1>2, <1>6, <2>6 DEF Tight
    <3>2. Len(out') + 6 = job.cap
      <4>1. Len(out) + 2 + More(code) + 6 = job.cap
        <5>1. code = Reduced(Len(out) + 2) BY <2>6 DEF Coded
        <5> QED BY <1>1, <2>6, <3>1, <5>1, ReducedIs
      <4> DEFINE d == at - found
                 v == out[tok] + Bits(code, ML_MASK)
      <4>2. d \in Int BY <1>2
      <4>3. out' = [out EXCEPT ![tok] = v] \o OffsetBytes(d) \o MoreBytes(code, ML_MASK)
        <5> HIDE DEF code
        <5> QED BY <1>6
      <4> HIDE DEF code, d, v
      <4>4. IsList(out) /\ tok \in 1..Len(out) /\ code \in Nat BY <1>2, <2>1
      <4>5. LET s == [out EXCEPT ![tok] = v] \o OffsetBytes(d) \o MoreBytes(code, ML_MASK)
            IN IsList(s) /\ Len(s) = Len(out) + 2 + More(code)
        BY ZenonT(60), <4>2, <4>4, MatchWritten
      <4> QED BY <4>1, <4>3, <4>5
    <3> HIDE DEF end
    <3>3. Homed(ctx.table) BY <1>1, <3>1 DEF Sorted
    <3>4. \A e \in Entries(ctx) : e \in Int /\ (e <= at \/ e <= filled)
      BY <1>1, EntriesIs DEF Sorted
    <3>5. CASE end <= filled
      <4>1. ctx' = [ctx EXCEPT !.table = Clear(ctx.table, end..filled)] BY <1>6, <2>6, <3>5
      <4>2. ctx'.table = Clear(ctx.table, end..filled) BY <1>1, <4>1 DEF Contexts
      <4>3. \A e \in Entries(ctx') : e \in Entries(ctx) /\ e \notin end..filled
        BY <1>1, <3>3, <4>2, ClearedOf
      <4>4. \A e \in Entries(ctx') : e < at' BY SMTT(60), <1>2, <1>6, <2>2, <3>4, <4>3
      <4>5. Homed(ctx'.table) BY <1>1, <3>3, <4>2, ClearHomed
      <4>6. Sorted' BY <1>6, <4>4, <4>5, SortedNext
      <4>7. Len(out') + 6 >= job.cap BY <1>1, <3>2
      <4>8. Agreed' BY <1>1, <1>3, <1>6, <3>1, <4>7, AgreedNext
      <4> QED BY <4>6, <4>8
    <3>6. CASE ~(end <= filled)
      <4>1. ctx' = ctx BY <1>6, <3>6
      <4>2. \A e \in Entries(ctx') : e < at' BY SMTT(60), <1>2, <1>6, <2>2, <3>4, <3>6, <4>1
      <4>3. Sorted' BY <1>6, <3>3, <4>1, <4>2, SortedNext
      <4>4. filled' < at' BY <1>2, <1>6, <2>2, <3>6
      <4>5. Agreed' BY <1>1, <1>3, <1>6, <4>4, AgreedNext
      <4> QED BY <4>3, <4>5
    <3> QED BY <3>5, <3>6
  <2> QED BY <2>5, <2>6
<1> QED BY <1>4, <1>5, <1>6

(* The position after a match. *)
LEMMA TestReady ==
  ASSUME Ready, TestNext, UNCHANGED <<work, lib>>
  PROVE  Sorted' /\ Agreed'
<1> DEFINE c == Candidate(Filled, at)
           old == at - 2
           n == Len(out)
<1>1. /\ FInv /\ Serving /\ Stream!IInv /\ Sorted /\ Agreed /\ Typed /\ PlacesTyped /\ ctx \in Contexts
      /\ job.cap \in Nat /\ stage = "next" /\ Working /\ stage # "idle"
  BY DEF Ready, Kept, FInv, Typed, JobTyped, TestNext, Working
<1>2. /\ at \in Nat /\ old \in Nat /\ at + 12 <= stop /\ ctx.table \in Tables /\ Filled \in Tables
      /\ ctx' = [ctx EXCEPT !.table = Put(Filled, at)] /\ ctx' \in Contexts /\ c \in Int
  BY <1>1, TestNextIs
<1>3. /\ filled \in Int /\ n \in Nat /\ IsList(out) /\ job.start \in Int /\ job.size \in Int
  BY <1>1, ListPlaces DEF Typed, JobTyped, PlacesTyped
<1>4. /\ c \in Int /\ c < at
      /\ Admitted(c, at) => /\ c >= prefixIdxLimit /\ at - c <= DISTANCE_MAX
                            /\ c < job.start /\ job.dict # "prefix" => c + 4 <= job.start
  BY <1>1, NextReads
<1>5. \/ /\ Matches(c, at) /\ found' = c /\ inDict' = Elsewhere(c) /\ out' = Append(out, 0)
         /\ stage' = "match" /\ at' = at
      \/ at' = at + 1 /\ SearchFrom(at + 1) /\ stage' = "search" /\ out' = out
  BY DEF TestNext
<1>6. job' = job /\ filled' = filled BY DEF TestNext
<1> HIDE DEF c
<1>7. Stored(old) \in Nat /\ Stored(old) <= old /\ Stored(at) \in Nat /\ Stored(at) <= at
  <2> HIDE DEF old
  <2> QED BY <1>2, StoredIs
<1>8. \A e \in Entries(ctx) : e \in Nat /\ e < at BY <1>1, EntriesIs DEF Sorted
<1>9. \A e \in Entries(ctx') : e \in Nat /\ e <= at
  <2> DEFINE mid == [ctx EXCEPT !.table = Filled]
  <2>1. mid \in Contexts /\ mid.table = Filled BY <1>1, <1>2, WithTable DEF Contexts
  <2>2. mid.table = Put(ctx.table, old) BY <2>1 DEF Filled
  <2>3. ctx'.table = Put(mid.table, at) BY <1>1, <1>2, <2>1 DEF Contexts
  <2> HIDE DEF mid
  <2>4. Entries(mid) \subseteq Entries(ctx) \cup {Stored(old)}
    <3> HIDE DEF old
    <3> QED BY <1>1, <1>2, <2>1, <2>2, PutEntries
  <2>5. Entries(ctx') \subseteq Entries(mid) \cup {Stored(at)} BY ZenonT(60), <1>2, <2>1, <2>3, PutEntries
  <2>6. old <= at BY <1>2
  <2>7. \A e \in Entries(mid) : e \in Nat /\ e <= at BY <1>2, <1>7, <1>8, <2>4, <2>6
  <2> QED BY <1>7, <2>5, <2>7
<1>10. job.limit = "fill" => Homed(ctx'.table)
  <2> SUFFICES ASSUME job.limit = "fill" PROVE Homed(ctx'.table) OBVIOUS
  <2>1. Homed(ctx.table) BY <1>1 DEF Sorted
  <2>2. old + 12 <= stop
    <3>1. stop \in Int BY <1>3 DEF stop
    <3> QED BY <1>2, <3>1
  <2>3. Stored(old) = old /\ Stored(at) = at
    <3> HIDE DEF old
    <3> QED BY <1>1, <1>2, <2>2, FillStores
  <2>4. Homed(Filled)
    <3>1. Filled = Put(ctx.table, old) BY DEF Filled
    <3> HIDE DEF old
    <3> QED BY <1>2, <2>1, <2>3, <3>1, PutHomed
  <2>5. ctx'.table = Put(Filled, at) BY <1>1, <1>2 DEF Contexts
  <2> QED BY <1>2, <2>3, <2>4, <2>5, PutHomed
<1>11. CASE /\ Matches(c, at) /\ found' = c /\ inDict' = Elsewhere(c) /\ out' = Append(out, 0)
            /\ stage' = "match" /\ at' = at
  <2>1. Sorted' BY <1>6, <1>9, <1>10, <1>11, SortedNext
  <2>2. /\ at - c <= DISTANCE_MAX
        /\ c >= (IF job.dict = "prefix" \/ Elsewhere(c) THEN prefixIdxLimit ELSE job.start)
        /\ Elsewhere(c) => c + 4 <= job.start
        /\ Same(at, c, 4)
    <3>1. at \in Int BY <1>2
    <3> QED BY <1>1, <1>4, <1>11, <3>1, TakenIs
  <2>3. Len(out') = n + 1
    <3>1. out \in Seq({out[k] : k \in DOMAIN out}) BY <1>3 DEF IsList
    <3>2. out' = out \o <<0>> BY <1>11, <3>1
    <3> QED BY <1>3, <3>2, ListOne, ListConcat
  <2>4. filled < at \/ (job.limit = "fill" /\ Len(out') + 11 > job.cap)
    <3>1. filled < at \/ (job.limit = "fill" /\ n + 6 >= job.cap) BY <1>1 DEF Agreed
    <3> HIDE DEF n
    <3> QED BY <1>1, <1>3, <2>3, <3>1
  <2>5. Len(out') \in Nat
    <3> HIDE DEF n
    <3> QED BY <1>3, <2>3
  <2>6. Agreed' BY <1>1, <1>4, <1>6, <1>11, <2>2, <2>4, <2>5, AgreedNext
  <2> QED BY <2>1, <2>6
<1>12. CASE at' = at + 1 /\ SearchFrom(at + 1) /\ stage' = "search" /\ out' = out
  <2>1. probe'.next = at + 1 BY <1>12 DEF SearchFrom
  <2>2. \A e \in Entries(ctx') : e < probe'.next BY <1>2, <1>9, <2>1
  <2>3. Sorted' BY <1>6, <1>10, <1>12, <2>2, SortedNext
  <2>4. Agreed' BY <1>1, <1>3, <1>6, <1>12, AgreedNext
  <2> QED BY <2>3, <2>4
<1> QED BY <1>5, <1>11, <1>12


(* Where nothing is looked up there is nothing to be kept. *)
LEMMA RestsReady ==
  ASSUME stage' \in {"idle", "begin", "done"}
  PROVE  Sorted' /\ Agreed'
BY DEF Sorted, Agreed, Working

(* A step of the compressor. *)
LEMMA CompressReady ==
  ASSUME Ready, CompressStep, UNCHANGED <<work, lib>>
  PROVE  Sorted' /\ Agreed' /\ Apart'
<1>1. FInv /\ FInv' /\ Apart BY CompressFits DEF Ready, Kept
<1>2. Len(out') \in Nat
  <2>1. IsList(out') BY <1>1 DEF FInv, Typed, PlacesTyped
  <2> QED BY <2>1, ListPlaces
<1>3. job' = job /\ stage \notin {"idle", "done"} BY AtWorkStill
<1>4. Apart' BY <1>1, <1>3 DEF Apart
<1>5. CASE RefuseInput \/ EmptyBlock
  <2>1. stage' = "done" BY <1>5 DEF RefuseInput, EmptyBlock, Deliver
  <2> QED BY <1>4, <2>1, RestsReady
<1>6. CASE SearchEnds \/ Rewind \/ EncodeLast
  <2>1. stage' \in {"last", "done"} /\ ctx' = ctx /\ Working
    BY <1>6 DEF SearchEnds, Rewind, EncodeLast, GiveUp, Deliver, Working
  <2> QED BY SMTT(60), <1>2, <1>3, <1>4, <2>1, EndsReady
<1> QED BY <1>4, <1>5, <1>6, BeginReady, MissReady, HitReady, LiteralsReady, MatchReady, TestReady
        DEF CompressStep

(* The next position is one that is left. *)
LEMMA AheadStays ==
  ASSUME Ready, CompressStep, UNCHANGED <<work, lib>>
  PROVE  Ahead'
<1>1. FInv /\ Typed /\ JobTyped /\ PlacesTyped /\ Along BY DEF Ready, Kept, FInv, Typed
<1>2. job' = job BY AtWorkStill
<1>3. job.start \in Nat /\ job.size \in Int BY <1>1 DEF JobTyped
<1>4. stop' = stop /\ stop = job.start + job.size BY <1>2 DEF stop
<1>5. CASE BeginBlock
  <2>1. stage' = "search" => job.size >= 13 /\ probe'.next = job.start + 1
    BY <1>1, <1>5, BeginIs
  <2>2. stage' = "search" => probe'.next + 11 <= stop BY <1>3, <1>4, <2>1
  <2> QED BY <1>4, <2>2 DEF Ahead
<1>6. CASE Miss
  <2>1. probe'.next = probe.next + probe.step /\ ~LastProbe
    BY <1>6 DEF Miss, Probed, Advance
  <2>2. probe.next \in Int /\ probe.step \in Int BY <1>1 DEF PlacesTyped
  <2>3. ~(probe.next + probe.step > stop - MFLIMIT + 1) BY <2>1 DEF LastProbe, mflimitPlusOne
  <2>4. stop \in Int BY <1>3, <1>4
  <2> HIDE DEF stop
  <2>5. probe'.next + 11 <= stop BY <2>1, <2>2, <2>3, <2>4, Numbers
  <2> QED BY <1>4, <2>5 DEF Ahead
<1>7. CASE TestNext
  <2>1. stage = "next" /\ (stage' = "search" => probe'.next = at + 1)
    BY <1>7 DEF TestNext, SearchFrom
  <2>2. at + 12 <= stop /\ at \in Int BY <1>1, <2>1 DEF Along, PlacesTyped
  <2>3. stop \in Int BY <1>3, <1>4
  <2> HIDE DEF stop
  <2>4. stage' = "search" => probe'.next + 11 <= stop BY <2>1, <2>2, <2>3
  <2> QED BY <1>4, <2>4 DEF Ahead
<1>8. CASE RefuseInput \/ EmptyBlock \/ SearchEnds \/ Hit \/ EncodeLiterals \/ Rewind \/ EncodeMatch
           \/ EncodeLast
  <2>1. stage' # "search"
    BY <1>8 DEF RefuseInput, EmptyBlock, SearchEnds, Hit, EncodeLiterals, GiveUp, Deliver, Rewind,
                EncodeMatch, EncodeLast
  <2> QED BY <2>1 DEF Ahead
<1> QED BY <1>5, <1>6, <1>7, <1>8 DEF CompressStep

(* No step of the compressor moves the dictionary. *)
LEMMA SameDictionary ==
  ASSUME Typed, CompressStep
  PROVE  ctx'.dictionary = ctx.dictionary
<1>1. ctx \in Contexts BY DEF Typed
<1>2. \A tt : [ctx EXCEPT !.table = tt].dictionary = ctx.dictionary BY <1>1 DEF Contexts
<1>3. CASE BeginBlock
  <2>1. ctx' = Moved \/ \E tt : ctx' = [Moved EXCEPT !.table = tt] BY <1>3 DEF BeginBlock, Moved
  <2>2. DOMAIN ctx = {"currentOffset", "tableType", "table", "dictionary", "dictSize", "dictCtx"}
    BY <1>1 DEF Contexts
  <2>3. Moved.dictionary = ctx.dictionary /\ DOMAIN Moved = DOMAIN ctx BY <2>2 DEF Moved
  <2> HIDE DEF Moved
  <2>4. \A tt : [Moved EXCEPT !.table = tt].dictionary = Moved.dictionary BY <2>2, <2>3
  <2> QED BY <2>1, <2>3, <2>4
<1>4. CASE Miss \/ Hit \/ TestNext
  <2>1. \E tt : ctx' = [ctx EXCEPT !.table = tt] BY <1>4 DEF Miss, Hit, Probed, TestNext
  <2> QED BY <1>2, <2>1
<1>5. CASE EncodeMatch
  <2>1. ctx' = ctx \/ \E tt : ctx' = [ctx EXCEPT !.table = tt] BY <1>5 DEF EncodeMatch
  <2> QED BY <1>2, <2>1
<1>6. CASE RefuseInput \/ EmptyBlock \/ SearchEnds \/ EncodeLiterals \/ Rewind \/ EncodeLast
  BY <1>6 DEF RefuseInput, EmptyBlock, SearchEnds, EncodeLiterals, GiveUp, Rewind, EncodeLast
<1> QED BY <1>3, <1>4, <1>5, <1>6 DEF CompressStep

(* So a block has its history where it had it. *)
LEMMA CompressGrounded ==
  ASSUME Ready, Compress
  PROVE  Grounded'
<1>1. Typed /\ Grounded BY DEF Ready, Kept, FInv
<1>2. CompressStep /\ UNCHANGED <<work, lib, started>> BY DEF Compress
<1>3. job' = job /\ stage # "idle" /\ stage' # "idle"
  BY <1>2 DEF CompressStep, RefuseInput, EmptyBlock, BeginBlock, SearchEnds, Miss, Hit, Probed,
    EncodeLiterals, GiveUp, Deliver, Rewind, EncodeMatch, TestNext, EncodeLast
<1>4. ctx'.dictionary = ctx.dictionary BY <1>1, <1>2, SameDictionary
<1>5. w' = w BY <1>2 DEF w
<1> QED BY <1>1, <1>2, <1>3, <1>4, <1>5 DEF Grounded

(* An address and what lies behind it. *)
LEMMA AddressIs == \A a \in Int, b \in Int : Address(a) /\ a <= b => Address(b)
BY DEF Address, NULL_ADDRESS

(* The dictionary of LZ4_loadDict is at an address. *)
LEMMA LoadGrounded ==
  ASSUME NEW dictionary \in Int, Address(dictionary), NEW size \in Int, NEW slow,
         LoadDict(dictionary, size, slow).dictSize # 0
  PROVE  Address(LoadDict(dictionary, size, slow).dictionary)
<1> DEFINE n == Min({size, KB64})
           p == dictionary + size - n
<1>1. NewContext.dictSize = 0 /\ NewContext \in Contexts BY NewContextIs
<1>2. ~(size < HASH_UNIT)
  <2>1. [NewContext EXCEPT !.currentOffset = KB64].dictSize = 0 BY <1>1 DEF Contexts
  <2> QED BY <2>1 DEF LoadDict
<1>3. LoadDict(dictionary, size, slow).dictionary = p BY <1>1, <1>2 DEF LoadDict, Contexts
<1>4. n = (IF size <= KB64 THEN size ELSE KB64) BY SmallerOf, Numbers
<1> HIDE DEF n
<1>5. p \in Int /\ dictionary <= p BY <1>4, Numbers
<1> QED BY <1>3, <1>5, AddressIs

(* The calls between blocks. *)
LEMMA BetweenGrounded ==
  ASSUME Ready,
         InitStream \/ ResetStreamFast \/ Load \/ AttachDictionary \/ SaveDict \/ NewInput \/ TellDecoder
  PROVE  Grounded'
<1>1. FInv /\ ctx \in Contexts /\ lib \in Contexts /\ Grounded BY DEF Ready, Kept, FInv, Typed
<1>2. Between /\ stage = "idle" /\ stage' = "idle" /\ work # <<>>
  BY DEF InitStream, ResetStreamFast, Load, AttachDictionary, SaveDict, NewInput, TellDecoder, Between
<1>3. IsCall(w) BY <1>1, <1>2, WorkIs
<1>4. SUFFICES /\ lib'.dictSize # 0 => Address(lib'.dictionary)
               /\ started' /\ ctx'.dictSize # 0 => Address(ctx'.dictionary)
  BY <1>2 DEF Grounded
<1>5. CASE InitStream BY <1>1, <1>5, NewContextIs DEF InitStream, Grounded
<1>6. CASE ResetStreamFast
  <2>1. 0 \in Int OBVIOUS
  <2>2. PrepareTable(ctx, 0, "byU32").dictSize = 0 BY <1>1, <2>1, PrepareTableIs
  <2> QED BY <1>1, <1>6, <2>2 DEF ResetStreamFast, Grounded
<1>7. CASE Load
  <2> DEFINE c == LoadDict(w.dictionary, w.size, w.slow)
  <2>1. w.fn = "load" BY <1>7 DEF Load
  <2>2. Address(w.dictionary) /\ w.dictionary \in Int /\ w.size \in Int
    BY <1>3, <2>1, Numbers DEF IsCall, Address, Sizes
  <2>3. c.dictSize # 0 => Address(c.dictionary) BY <2>2, LoadGrounded
  <2>4. \/ lib' = c /\ ctx' = ctx /\ started' = started
        \/ ctx' = c /\ lib' = lib
    BY <1>7 DEF Load
  <2> HIDE DEF c
  <2> QED BY <1>1, <1>2, <2>3, <2>4 DEF Grounded
<1>8. CASE AttachDictionary
  <2>1. ctx' = Attach(w.dictionary) /\ lib' = lib /\ started' = started BY <1>8 DEF AttachDictionary
  <2>2. ctx'.dictSize = ctx.dictSize /\ ctx'.dictionary = ctx.dictionary
    BY <1>1, <2>1 DEF Attach, Contexts
  <2> QED BY <1>1, <1>2, <2>1, <2>2 DEF Grounded
<1>9. CASE SaveDict
  <2>1. w.fn = "save" /\ lib' = lib
        /\ ctx' = [ctx EXCEPT !.dictionary = w.buffer, !.dictSize = SavedSize(w.size)]
    BY <1>9 DEF SaveDict
  <2>2. Address(w.buffer) BY <1>3, <2>1 DEF IsCall
  <2>3. ctx'.dictionary = w.buffer BY <1>1, <2>1 DEF Contexts
  <2> QED BY <1>1, <2>1, <2>2, <2>3 DEF Grounded
<1>10. CASE NewInput \/ TellDecoder
  <2>1. ctx' = ctx /\ lib' = lib /\ started' = started BY <1>10 DEF NewInput, TellDecoder
  <2> QED BY <1>1, <1>2, <2>1 DEF Grounded
<1> QED BY <1>5, <1>6, <1>7, <1>8, <1>9, <1>10

(* A history that is rescaled and cut stays at an address. *)
LEMMA TrimGrounded ==
  ASSUME ctx \in Contexts, w.src \in Nat, w.size \in Nat,
         ctx.dictSize # 0 => Address(ctx.dictionary)
  PROVE  /\ RenormDict(ctx, w.size).dictSize # 0 => Address(RenormDict(ctx, w.size).dictionary)
         /\ Tiny \/ ctx.dictSize # 0 => Address(Trim(Uncut).dictionary)
<1> DEFINE c == Trim(Uncut)
           d == RenormDict(ctx, w.size)
           sourceEnd == w.src + w.size
           left == Min({HistoryEnd - sourceEnd, KB64})
           n    == IF left < MINMATCH THEN 0 ELSE left
<1>1. /\ d \in Contexts
      /\ d.dictSize = ctx.dictSize \/ (d.dictSize = KB64 /\ ctx.dictSize > KB64)
      /\ d.dictionary + d.dictSize = ctx.dictionary + ctx.dictSize
  BY RenormIs
<1>2. /\ ctx.dictSize \in Nat /\ d.dictSize \in Nat /\ d.dictionary \in Int
      /\ ctx.dictionary \in Int
  BY <1>1 DEF Contexts
<1>3. ctx.dictSize # 0 => Address(d.dictionary)
  <2> HIDE DEF d
  <2>1. ctx.dictionary <= d.dictionary BY <1>1, <1>2, Numbers
  <2> QED BY <1>2, <2>1, AddressIs
<1>4. d.dictSize # 0 => Address(d.dictionary)
  <2> HIDE DEF d
  <2>1. d.dictSize # 0 => ctx.dictSize # 0 BY <1>1, <1>2, Numbers
  <2> QED BY <1>3, <2>1
<1>5. sourceEnd \in Nat OBVIOUS
<1>6. ASSUME Tiny PROVE Address(c.dictionary)
  <2>1. Uncut = [d EXCEPT !.dictSize = 0, !.dictionary = w.src] BY <1>6 DEF Uncut
  <2>2. HistoryEnd = w.src BY <1>6 DEF HistoryEnd
  <2>3. ~(sourceEnd < HistoryEnd) BY <2>2
  <2>4. c = Uncut BY <2>3 DEF Trim
  <2> HIDE DEF c, d
  <2>5. c.dictionary = w.src BY <1>1, <2>1, <2>4 DEF Contexts
  <2>6. Address(w.src) BY DEF Address, NULL_ADDRESS
  <2> QED BY <2>5, <2>6
<1>7. ASSUME ~Tiny, ctx.dictSize # 0 PROVE Address(c.dictionary)
  <2>1. Uncut = d BY <1>7 DEF Uncut
  <2>2. HistoryEnd = ctx.dictionary + ctx.dictSize BY <1>7 DEF HistoryEnd, DictEnd
  <2>3. CASE d.dictionary < sourceEnd /\ sourceEnd < HistoryEnd
    <3>1. c = [d EXCEPT !.dictSize = n, !.dictionary = HistoryEnd - n] BY <2>1, <2>3 DEF Trim
    <3>2. left = (IF HistoryEnd - sourceEnd <= KB64 THEN HistoryEnd - sourceEnd ELSE KB64)
      <4>1. HistoryEnd - sourceEnd \in Int BY <1>2, <1>5, <2>2
      <4> QED BY <4>1, SmallerOf, Numbers
    <3>3. c.dictionary = HistoryEnd - n
      <4> HIDE DEF c, d, n
      <4> QED BY <1>1, <3>1 DEF Contexts
    <3>4. HistoryEnd - n \in Int /\ 0 <= HistoryEnd - n
      <4>1. HistoryEnd \in Int BY <1>2, <2>2
      <4>2. sourceEnd < HistoryEnd BY <2>3
      <4> HIDE DEF left, sourceEnd
      <4>3. n \in Int /\ n <= HistoryEnd - sourceEnd BY <1>5, <3>2, <4>1, <4>2, Numbers
      <4> HIDE DEF n
      <4> QED BY <1>5, <4>1, <4>3
    <3>5. Address(0) BY DEF Address, NULL_ADDRESS
    <3> HIDE DEF c, n
    <3> QED BY <3>3, <3>4, <3>5, AddressIs
  <2>4. CASE ~(d.dictionary < sourceEnd /\ sourceEnd < HistoryEnd)
    <3>1. c = d BY <2>1, <2>4 DEF Trim
    <3> HIDE DEF c, d
    <3> QED BY <1>3, <1>7, <3>1
  <2> QED BY <2>3, <2>4
<1> QED BY <1>4, <1>6, <1>7

(* A block that is called for knows where its history is. *)
LEMMA StartsGrounded ==
  ASSUME Grounded, NEW c, NEW d, NEW small, NEW type, NEW limit,
         Starting(c, d, small, type, limit), started' => w.fn \in Chained,
         d = "prefix" => Address(c.dictionary),
         d = "external" /\ w.size > 0 /\ (w.fn = "continue" \/ c.dictSize # 0) => Address(c.dictionary)
  PROVE  Grounded'
<1>1. /\ job' = Job(c, d, small, type, limit) /\ stage' = "begin" /\ ctx' = c /\ lib' = lib
      /\ work' = work
  BY DEF Starting, Resting
<1>2. job'.size = w.size /\ job'.dict = d BY <1>1, JobIs
<1>3. d = "external" => job'.dictSize = c.dictSize BY <1>1, JobIs
<1>4. w' = w BY <1>1 DEF w
<1> QED BY <1>1, <1>2, <1>3, <1>4 DEF Grounded

(* The functions that compress. *)
LEMMA CallsGrounded ==
  ASSUME Ready, Careful,
         CompressFast \/ CompressFastReset \/ CompressDestSize \/ CompressContinue \/ CompressForceExtDict
  PROVE  Grounded'
<1>1. FInv /\ Settled /\ Grounded /\ ctx \in Contexts /\ lib \in Contexts
  BY DEF Ready, Kept, FInv, Typed
<1>2. stage = "idle" /\ work # <<>> /\ w.fn \in Compressors
  BY DEF CompressFast, CompressFastReset, CompressDestSize, CompressContinue, CompressForceExtDict,
         Compresses, Compressors, Chained
<1>3. IsCall(w) BY <1>1, <1>2, WorkIs
<1>4. w.src \in Nat /\ (w.fn \in Chained => w.size \in Nat)
  BY <1>2, <1>3, Numbers DEF IsCall
<1>5. started' => w.fn \in Chained
  BY DEF CompressFast, CompressFastReset, CompressDestSize, CompressContinue, CompressForceExtDict,
         Starting
<1>6. CASE CompressFast \/ CompressFastReset \/ CompressDestSize
  <2>1. CASE CompressFast BY <1>1, <1>5, <2>1, StartsGrounded DEF CompressFast
  <2>2. CASE CompressFastReset BY <1>1, <1>5, <2>2, StartsGrounded DEF CompressFastReset
  <2>3. CASE CompressDestSize BY <1>1, <1>5, <2>3, StartsGrounded DEF CompressDestSize
  <2> QED BY <1>6, <2>1, <2>2, <2>3
<1>7. CASE CompressContinue
  <2> DEFINE c == Trim(Uncut)
             s == Short(c)
  <2>1. w.fn \in Chained BY <1>7 DEF CompressContinue, Compresses, Chained
  <2>2. w.size \in Nat /\ started BY <1>2, <1>4, <2>1 DEF Careful
  <2>3. ctx.dictSize # 0 => Address(ctx.dictionary) BY <1>1, <1>2, <2>2 DEF Grounded
  <2>4. Tiny \/ ctx.dictSize # 0 => Address(c.dictionary) BY <1>1, <1>4, <2>2, <2>3, TrimGrounded
  <2>5. c.dictCtx = ctx.dictCtx BY <1>1, <1>4, <2>2, TrimIs
  <2>6. \/ HistoryEnd = w.src /\ Starting(c, "prefix", s, "byU32", "limited")
        \/ HistoryEnd # w.src /\ c.dictCtx /\ Starting(lib, "external", FALSE, "byU32", "limited")
        \/ HistoryEnd # w.src /\ c.dictCtx /\ Starting(c, "context", FALSE, "byU32", "limited")
        \/ HistoryEnd # w.src /\ ~c.dictCtx /\ Starting(c, "external", s, "byU32", "limited")
    BY <1>7 DEF CompressContinue
  <2> HIDE DEF c, s
  <2>7. HistoryEnd = w.src => Address(c.dictionary)
    <3>1. HistoryEnd = w.src => Tiny \/ ctx.dictSize # 0
      BY <1>4 DEF HistoryEnd, DictEnd, NULL_ADDRESS
    <3> QED BY <2>4, <3>1
  <2>8. c.dictCtx => Address(lib.dictionary) BY <1>1, <2>5 DEF Settled, Grounded
  <2>9. HistoryEnd # w.src /\ ~c.dictCtx /\ w.size > 0 => Address(c.dictionary)
    <3>1. HistoryEnd # w.src /\ ~ctx.dictCtx /\ w.size > 0 => ~(ctx.dictSize < MINMATCH)
      BY DEF HistoryEnd, Tiny
    <3>2. HistoryEnd # w.src /\ ~ctx.dictCtx /\ w.size > 0 => ctx.dictSize # 0
      BY <1>1, <3>1, Numbers DEF Contexts
    <3> QED BY <2>4, <2>5, <3>2
  <2> QED BY <1>1, <1>5, <2>6, <2>7, <2>8, <2>9, StartsGrounded
<1>8. CASE CompressForceExtDict
  <2> DEFINE d == RenormDict(ctx, w.size)
  <2>1. w.fn = "forceExtDict" /\ w.fn \in Chained BY <1>8 DEF CompressForceExtDict, Compresses, Chained
  <2>2. w.size \in Nat /\ started BY <1>2, <1>4, <2>1 DEF Careful
  <2>3. ctx.dictSize # 0 => Address(ctx.dictionary) BY <1>1, <1>2, <2>2 DEF Grounded
  <2>4. d.dictSize # 0 => Address(d.dictionary) BY <1>1, <1>4, <2>2, <2>3, TrimGrounded
  <2>5. Starting(d, "external", Short(d), "byU32", "none") BY <1>8 DEF CompressForceExtDict
  <2> HIDE DEF d
  <2> QED BY <1>1, <1>5, <2>1, <2>4, <2>5, StartsGrounded
<1> QED BY <1>6, <1>7, <1>8

(* The end of a block. *)
LEMMA DoneGrounded ==
  ASSUME Ready, BlockDone
  PROVE  Grounded'
<1>1. FInv /\ Typed /\ JobTyped /\ Serving /\ Grounded /\ ctx \in Contexts
  BY DEF Ready, Kept, FInv, Typed
<1>2. /\ stage = "done" /\ stage' = "idle" /\ lib' = lib /\ started' = started
      /\ ctx' = CASE w.fn = "destSize" -> NewContext
                  [] w.fn \in Chained /\ job.dict # "prefix" ->
                       [ctx EXCEPT !.dictionary = w.src, !.dictSize = w.size]
                  [] OTHER -> ctx
  BY DEF BlockDone
<1>3. work # <<>> /\ w.fn \in Compressors BY <1>1, <1>2 DEF Serving
<1>4. w.src \in Nat
  <2>1. IsCall(w) BY <1>1, <1>3, WorkIs
  <2> QED BY <1>3, <2>1 DEF IsCall
<1>5. Address(w.src) BY <1>4 DEF Address, NULL_ADDRESS
<1>6. started => w.fn \in Chained /\ w.fn # "destSize"
  <2>1. started => w.fn \in Chained BY <1>1, <1>2 DEF Grounded
  <2> QED BY <2>1 DEF Chained
<1>7. ASSUME started PROVE Address(ctx'.dictionary)
  <2>1. CASE job.dict = "prefix"
    <3>1. ctx' = ctx BY <1>2, <1>6, <1>7, <2>1
    <3> QED BY <1>1, <1>2, <1>7, <2>1, <3>1 DEF Grounded
  <2>2. CASE job.dict # "prefix"
    <3>1. ctx' = [ctx EXCEPT !.dictionary = w.src, !.dictSize = w.size] BY <1>2, <1>6, <1>7, <2>2
    <3>2. ctx'.dictionary = w.src BY <1>1, <3>1 DEF Contexts
    <3> QED BY <1>5, <3>2
  <2> QED BY <2>1, <2>2
<1> QED BY <1>1, <1>2, <1>7 DEF Grounded

(* A call is for a block that starts at the index of its stream. *)
LEMMA StartsReady ==
  ASSUME NEW c, NEW d, NEW small, NEW type, NEW limit, Starting(c, d, small, type, limit),
         d = "external" /\ w.size > 0 => c.currentOffset = 0 \/ c.currentOffset >= 4
  PROVE  Sorted' /\ Agreed' /\ Apart'
<1>1. job' = Job(c, d, small, type, limit) /\ stage' = "begin" BY DEF Starting, Resting
<1>2. job'.start = c.currentOffset /\ job'.size = w.size /\ job'.dict = d BY <1>1, JobIs
<1> QED BY <1>1, <1>2, RestsReady DEF Apart

(* The functions that compress: what is used from elsewhere is long enough  *)
(* for a match, so the index of the stream is at least as high.             *)
LEMMA CallsReady ==
  ASSUME Ready, Careful,
         CompressFast \/ CompressFastReset \/ CompressDestSize \/ CompressContinue \/ CompressForceExtDict
  PROVE  Sorted' /\ Agreed' /\ Apart'
<1>1. /\ FInv /\ Settled /\ ctx \in Contexts /\ lib \in Contexts
      /\ Stream!CtxOK /\ Stream!DictOK
  BY DEF Ready, Kept, FInv, Typed, Stream!IInv
<1>2. stage = "idle" /\ work # <<>> /\ w.fn \in Compressors
  BY DEF CompressFast, CompressFastReset, CompressDestSize, CompressContinue, CompressForceExtDict,
         Compresses, Compressors, Chained
<1>3. IsCall(w) BY <1>1, <1>2, WorkIs
<1>4. w.src \in Nat /\ (w.fn \in Chained => w.size \in Nat)
  BY <1>2, <1>3, Numbers DEF IsCall
<1>5. CASE CompressFast \/ CompressFastReset \/ CompressDestSize
  <2>1. CASE CompressFast BY <2>1, StartsReady DEF CompressFast
  <2>2. CASE CompressFastReset BY <2>2, StartsReady DEF CompressFastReset
  <2>3. CASE CompressDestSize BY <2>3, StartsReady DEF CompressDestSize
  <2> QED BY <1>5, <2>1, <2>2, <2>3
<1>6. CASE CompressContinue
  <2> DEFINE c == Trim(Uncut)
             d == RenormDict(ctx, w.size)
             s == Short(c)
  <2>1. w.size \in Nat BY <1>4, <1>6 DEF CompressContinue, Compresses, Chained
  <2>2. c.currentOffset = d.currentOffset /\ c.dictCtx = ctx.dictCtx
    BY <1>1, <1>4, <2>1, TrimIs
  <2>3. d.currentOffset = KB64 \/ d.currentOffset = ctx.currentOffset BY <1>1, <2>1, RenormIs
  <2>4. \/ HistoryEnd = w.src /\ Starting(c, "prefix", s, "byU32", "limited")
        \/ HistoryEnd # w.src /\ c.dictCtx /\ Starting(lib, "external", FALSE, "byU32", "limited")
        \/ HistoryEnd # w.src /\ c.dictCtx /\ Starting(c, "context", FALSE, "byU32", "limited")
        \/ HistoryEnd # w.src /\ ~c.dictCtx /\ Starting(c, "external", s, "byU32", "limited")
    BY <1>6 DEF CompressContinue
  <2> HIDE DEF c, d, s
  <2>5. c.dictCtx => lib.currentOffset >= 4
    <3>1. c.dictCtx => lib.dictSize # 0 BY <1>1, <2>2 DEF Settled
    <3>2. lib.dictSize # 0 => lib.currentOffset = KB64 BY <1>1 DEF Stream!DictOK
    <3> QED BY <3>1, <3>2, Numbers
  <2>6. HistoryEnd # w.src /\ ~c.dictCtx /\ w.size > 0 => c.currentOffset >= 4
    <3> SUFFICES ASSUME HistoryEnd # w.src, ~ctx.dictCtx, w.size > 0 PROVE c.currentOffset >= 4
      BY <2>2
    <3>1. ~Tiny /\ DictEnd # w.src BY DEF HistoryEnd
    <3>2. ctx.dictSize \in Nat /\ ctx.currentOffset \in Nat /\ ctx.dictSize <= ctx.currentOffset
      BY <1>1 DEF Stream!CtxOK
    <3>3. ctx.dictSize >= 4 BY <3>1, <3>2, Numbers DEF Tiny
    <3> QED BY <2>2, <2>3, <3>2, <3>3, Numbers
  <2> QED BY <2>4, <2>5, <2>6, StartsReady
<1>7. CASE CompressForceExtDict
  <2> DEFINE d == RenormDict(ctx, w.size)
  <2>1. w.fn = "forceExtDict" BY <1>7 DEF CompressForceExtDict, Compresses
  <2>2. w.size \in Nat BY <1>4, <2>1 DEF Chained
  <2>3. d.currentOffset \in Nat BY <1>1, <2>2, RenormIs DEF Contexts
  <2>4. w.size > 0 => d.currentOffset \notin 1..(MINMATCH - 1) BY <1>2, <2>1 DEF Careful
  <2>5. Starting(d, "external", Short(d), "byU32", "none") BY <1>7 DEF CompressForceExtDict
  <2> HIDE DEF d
  <2>6. w.size > 0 => d.currentOffset = 0 \/ d.currentOffset >= 4 BY <2>3, <2>4, Numbers
  <2> QED BY <2>5, <2>6, StartsReady
<1> QED BY <1>5, <1>6, <1>7

(* Without a step of the compressor nothing changes. *)
LEMMA StillReady ==
  ASSUME Ready, UNCHANGED compVars
  PROVE  Sorted' /\ Agreed' /\ Apart'
<1>1. /\ UNCHANGED <<job, ctx, stage, at, anchor, found, inDict, probe, filled, out>>
      /\ Sorted /\ Agreed /\ Apart /\ job.cap \in Nat /\ Len(out) \in Nat
  <2>1. JobTyped /\ IsList(out) BY DEF Ready, Kept, FInv, Typed, PlacesTyped
  <2> QED BY <2>1, ListPlaces DEF Ready, compVars, JobTyped
<1>2. Apart' BY <1>1 DEF Apart
<1>3. Sorted'
  <2>1. Working' = Working BY <1>1 DEF Working
  <2>2. Homed(ctx.table)' <=> Homed(ctx.table) BY <1>1 DEF Homed, HashAt, ByteAt
  <2>3. Entries(ctx)' = Entries(ctx) BY <1>1 DEF Entries
  <2> QED BY <1>1, <2>1, <2>2, <2>3 DEF Sorted
<1>4. Agreed'
  <2>1. lowLimit' = lowLimit /\ stop' = stop /\ (TooClose' <=> TooClose)
    BY <1>1 DEF lowLimit, prefixIdxLimit, stop, TooClose
  <2>2. /\ Same(at, found, 4)' <=> Same(at, found, 4)
        /\ Same(at, found, filled - at + 4)' <=> Same(at, found, filled - at + 4)
    BY <1>1 DEF Same, ByteAt
  <2> QED BY <1>1, <2>1, <2>2 DEF Agreed
<1> QED BY <1>2, <1>3, <1>4

(* Every step looks ahead and has its history at an address. *)
LEMMA NextGrounded ==
  ASSUME Ready, Careful, [CodecNext]_codecVars
  PROVE  Ahead' /\ Grounded'
<1>1. CASE InitStream \/ ResetStreamFast \/ Load \/ AttachDictionary \/ SaveDict \/ NewInput
           \/ TellDecoder
  <2>1. stage' = "idle"
    BY <1>1 DEF InitStream, ResetStreamFast, Load, AttachDictionary, SaveDict, NewInput,
                TellDecoder, Between
  <2> QED BY <1>1, <2>1, BetweenGrounded DEF Ahead
<1>2. CASE CompressFast \/ CompressFastReset \/ CompressDestSize \/ CompressContinue
           \/ CompressForceExtDict
  <2>1. stage' = "begin"
    BY <1>2 DEF CompressFast, CompressFastReset, CompressDestSize, CompressContinue,
                CompressForceExtDict, Starting
  <2> QED BY <1>2, <2>1, CallsGrounded DEF Ahead
<1>3. CASE Compress BY <1>3, AheadStays, CompressGrounded DEF Compress
<1>4. CASE BlockDone
  <2>1. stage' = "idle" BY <1>4 DEF BlockDone
  <2> QED BY <1>4, <2>1, DoneGrounded DEF Ahead
<1>5. CASE Decode \/ Over \/ UNCHANGED codecVars
  <2>1. UNCHANGED <<compVars, work, lib, started>> BY <1>5 DEF Decode, Over, codecVars
  <2>2. UNCHANGED <<stage, probe, job, ctx, work, lib, started>> BY <2>1 DEF compVars
  <2>3. w' = w /\ stop' = stop BY <2>2 DEF w, stop
  <2> QED BY <2>2, <2>3 DEF Ready, Ahead, Grounded
<1> QED BY <1>1, <1>2, <1>3, <1>4, <1>5 DEF CodecNext, Encode

(* Every step keeps all of it. *)
LEMMA NextReady ==
  ASSUME Ready, Careful, [CodecNext]_codecVars
  PROVE  Ready'
<1>1. Kept /\ Stream!IInv BY DEF Ready
<1>2. Kept' /\ Stream!IInv' BY <1>1, NextSimulates, StreamStays
<1>3. Sorted' /\ Agreed' /\ Apart'
  <2>1. CASE InitStream \/ ResetStreamFast \/ Load \/ AttachDictionary \/ SaveDict \/ NewInput
             \/ TellDecoder
    <3>1. stage' = stage /\ stage = "idle"
      BY <2>1 DEF InitStream, ResetStreamFast, Load, AttachDictionary, SaveDict, NewInput,
                  TellDecoder, Between
    <3>2. Apart' BY <3>1 DEF Apart
    <3> QED BY <3>1, <3>2, RestsReady
  <2>2. CASE CompressFast \/ CompressFastReset \/ CompressDestSize \/ CompressContinue
             \/ CompressForceExtDict
    BY <2>2, CallsReady
  <2>3. CASE Compress BY <2>3, CompressReady DEF Compress
  <2>4. CASE BlockDone
    <3>1. stage' = "idle" BY <2>4 DEF BlockDone
    <3>2. Apart' BY <3>1 DEF Apart
    <3> QED BY <3>1, <3>2, RestsReady
  <2>5. CASE Decode \/ Over \/ UNCHANGED codecVars
    <3>1. UNCHANGED compVars BY <2>5 DEF Decode, Over, codecVars
    <3> QED BY <3>1, StillReady
  <2> QED BY <2>1, <2>2, <2>3, <2>4, <2>5 DEF CodecNext, Encode
<1> QED BY <1>2, <1>3, NextGrounded DEF Ready

(* At the start it holds. *)
LEMMA InitReady ==
  ASSUME CodecInit
  PROVE  Ready
<1>1. Kept /\ Stream!IInv BY InitSimulates, StreamStarts
<1>2. stage = "idle" /\ ctx = NewContext /\ lib = NewContext BY DEF CodecInit, EncoderRests
<1>3. Grounded BY <1>2, NewContextIs DEF Grounded
<1> QED BY <1>1, <1>2, <1>3 DEF Ready, Apart, Sorted, Agreed, Working, Ahead

(* So what is read for a candidate is there. *)
LEMMA ReadyReads ==
  ASSUME Ready
  PROVE  ReadsHistory
<1>1. JobTyped /\ PlacesTyped BY DEF Ready, Kept, FInv, Typed
<1>2. job.start \in Int /\ probe.next \in Int /\ at \in Int BY <1>1 DEF JobTyped, PlacesTyped
<1>3. ASSUME NEW c \in Int, NEW i \in Int, c < i, c >= prefixIdxLimit, i - c <= DISTANCE_MAX,
             c < job.start /\ job.dict # "prefix" => c + 4 <= job.start
      PROVE  CandidateIn(c, i)
  BY <1>3, Numbers DEF CandidateIn, Elsewhere, maybe_extMem
<1>4. ASSUME stage = "search", ~LastProbe
      PROVE  LET c == Candidate(ctx.table, probe.next)
             IN Admitted(c, probe.next) => CandidateIn(c, probe.next)
  <2> DEFINE c == Candidate(ctx.table, probe.next)
  <2>1. /\ c \in Int /\ c < probe.next
        /\ Admitted(c, probe.next) =>
             /\ c >= prefixIdxLimit /\ probe.next - c <= DISTANCE_MAX
             /\ c < job.start /\ job.dict # "prefix" => c + 4 <= job.start
    BY <1>4, SearchReads
  <2> HIDE DEF c
  <2>2. Admitted(c, probe.next) => CandidateIn(c, probe.next) BY <1>2, <1>3, <2>1
  <2> QED BY <2>2 DEF c
<1>5. ASSUME stage = "next"
      PROVE  LET c == Candidate(Filled, at) IN Admitted(c, at) => CandidateIn(c, at)
  <2> DEFINE c == Candidate(Filled, at)
  <2>1. /\ c \in Int /\ c < at
        /\ Admitted(c, at) =>
             /\ c >= prefixIdxLimit /\ at - c <= DISTANCE_MAX
             /\ c < job.start /\ job.dict # "prefix" => c + 4 <= job.start
    BY <1>5, NextReads
  <2> HIDE DEF c
  <2>2. Admitted(c, at) => CandidateIn(c, at) BY <1>2, <1>3, <2>1
  <2> QED BY <2>2 DEF c
<1> QED BY <1>4, <1>5 DEF ReadsHistory

(* There is a dictionary to look into. *)
LEMMA GroundedBase ==
  ASSUME Ready, Working, job.dict = "external"
  PROVE  DictBase
<1>1. stage # "idle" /\ job.size > 0 /\ Grounded
  BY Numbers DEF Ready, Kept, FInv, Along, Working
<1>2. ctx.dictionary # NULL_ADDRESS \/ ~Address(ctx.dictionary) BY DEF Address, NULL_ADDRESS
<1> QED BY <1>1, <1>2 DEF Grounded, DictBase

(* A position of a block within sixteen bits is within them. *)
LEMMA NarrowFits ==
  ASSUME Ready, Working, NEW i \in Int, i + 12 <= stop, Narrow
  PROVE  i < KB64
<1>1. FInv /\ Stream!IInv /\ job.start \in Nat /\ job.size \in Int /\ stop = job.start + job.size
  BY DEF Ready, Kept, FInv, Typed, JobTyped, stop
<1>2. /\ job.size < KB64 + 11
      /\ job.start = 0 \/ job.start + job.size < KB64 \/ (job.start >= KB64 /\ job.small)
  BY <1>1, NarrowIs DEF Narrow
<1>3. job.start < KB64 BY DEF Narrow
<1> QED BY <1>1, <1>2, <1>3, Numbers

(* A position that is not the last one leaves twelve bytes. *)
LEMMA SearchLeft ==
  ASSUME Ready, stage = "search", ~LastProbe
  PROVE  probe.next + 12 <= stop
<1>1. /\ probe.next \in Int /\ probe.step \in Int /\ probe.step >= 1
      /\ job.start \in Nat /\ job.size \in Int
  BY DEF Ready, Kept, FInv, Typed, JobTyped, PlacesTyped, Along
<1>2. ~(probe.next + probe.step > stop - MFLIMIT + 1) BY DEF LastProbe, mflimitPlusOne
<1>3. stop \in Int BY <1>1 DEF stop
<1> QED BY <1>1, <1>2, <1>3, Numbers

(* The own candidate is an entry of the table, or there is none. *)
LEMMA OwnIs ==
  ASSUME NEW tt \in Tables, NEW i \in Nat, \A h \in DOMAIN tt : tt[h] = 0 \/ tt[h] < i
  PROVE  OwnCandidate(tt, i) <= i /\ (i > 0 => OwnCandidate(tt, i) < i)
<1>1. NULL \in Int /\ NULL < 0 BY Numbers DEF NULL
<1>2. \/ OwnCandidate(tt, i) \in {NULL, 0}
      \/ OwnCandidate(tt, i) \in Nat /\ OwnCandidate(tt, i) < i
  BY LookupIs DEF OwnCandidate
<1> QED BY <1>1, <1>2

(* The one of the position after a match is older. *)
LEMMA NextOwn ==
  ASSUME Ready, stage = "next"
  PROVE  OwnCandidate(Filled, at) < at
<1>1. /\ FInv /\ Stream!IInv /\ Sorted /\ Working /\ job.size >= 13 /\ ctx.table \in Tables
  BY DEF Ready, Kept, FInv, Typed, Contexts, Along, Working
<1>2. at \in Int /\ job.start \in Nat /\ at + 12 <= stop /\ job.start + 4 <= at
  BY <1>1 DEF FInv, Typed, JobTyped, PlacesTyped, Along
<1>3. at \in Nat /\ at > 0 /\ at - 2 \in Nat /\ job.start + 2 <= at
  <2> HIDE DEF stop
  <2> QED BY <1>2
<1>4. Filled \in Tables
      /\ \A h \in DOMAIN Filled : \/ Filled[h] = Stored(at - 2)
                                  \/ h \in DOMAIN ctx.table /\ Filled[h] = ctx.table[h]
  BY <1>1, <1>3, PutIs DEF Filled
<1>5. Stored(at - 2) < at BY <1>1, <1>2, <1>3, TwoBefore
<1>6. \A h \in DOMAIN Filled : Filled[h] = 0 \/ Filled[h] < at
  BY <1>1, <1>4, <1>5, EntryOf DEF Sorted
<1> QED BY <1>3, <1>4, <1>6, OwnIs

(* The blocks of a chain stay below the limit of 2 GB. *)
LEMMA BelowLimit ==
  ASSUME FInv, Settled, Stream!IInv, Working, job.dict # "none"
  PROVE  job.start + job.size <= IndexLimit
<1>1. /\ BlockView.stage = "open" /\ BlockView.start = job.start /\ BlockView.size = job.size
      /\ BlockView.dict = job.dict
  BY OpenView
<1>2. Stream!IndexFits
  BY Stream!InvariantIndexes, StreamAssumptions, WindowAssumption, SizesAssumption
<1>3. ~Stream!Overrun BY <1>1, <1>2 DEF Stream!IndexFits
<1> QED BY <1>1, <1>2, <1>3 DEF Stream!IndexFits

(* And what the code asserts is so. *)
LEMMA ReadyAsserts ==
  ASSUME Ready
  PROVE  AssertionsHold
<1>1. /\ FInv /\ JobTyped /\ PlacesTyped /\ Along /\ Grown /\ Agreed
      /\ job.start \in Nat /\ job.cap \in Nat /\ at \in Int /\ found \in Int /\ Len(out) \in Nat
  BY ListPlaces DEF Ready, Kept, FInv, Typed, JobTyped, PlacesTyped
<1>2. ASSUME stage = "search", ~LastProbe
      PROVE  LET c == Candidate(ctx.table, probe.next)
             IN /\ (job.small => c >= prefixIdxLimit) => c < probe.next
                /\ Admitted(c, probe.next) => probe.next - c <= DISTANCE_MAX
                /\ job.dict = "external" /\ c < job.start => job.start - c >= MINMATCH /\ DictBase
                /\ Narrow => probe.next < KB64
  <2> DEFINE c == Candidate(ctx.table, probe.next)
  <2>1. /\ c < probe.next /\ (Admitted(c, probe.next) => probe.next - c <= DISTANCE_MAX)
        /\ job.dict = "external" /\ c < job.start => job.start - c >= 4
    BY <1>2, SearchReads
  <2>2. job.dict = "external" => DictBase BY <1>2, GroundedBase DEF Working
  <2>3. Narrow => probe.next < KB64
    <3>1. probe.next + 11 <= stop /\ Working BY <1>2 DEF Ready, Ahead, Working
    <3>2. probe.next \in Int BY <1>1 DEF PlacesTyped
    <3>3. probe.next + 12 <= stop BY <1>2, SearchLeft
    <3> QED BY <3>1, <3>2, <3>3, NarrowFits
  <2> HIDE DEF c
  <2>4. MINMATCH = 4 BY Numbers
  <2> QED BY <2>1, <2>2, <2>3, <2>4 DEF c
<1>7. ASSUME stage = "search"
      PROVE  /\ OwnCandidate(ctx.table, probe.next) <= probe.next
             /\ job.dict # "none" => probe.next < IndexLimit - 1
  <2>1. probe.next \in Nat /\ anchor \in Int /\ job.start <= anchor /\ anchor < probe.next
        /\ probe.next + 11 <= stop /\ stop = job.start + job.size /\ job.size \in Int
    BY <1>1, <1>7 DEF PlacesTyped, Along, Working, Ready, Ahead, stop, JobTyped
  <2>2. OwnCandidate(ctx.table, probe.next) <= probe.next
    <3>1. ctx.table \in Tables BY DEF Ready, Kept, FInv, Typed, Contexts
    <3>2. \A h \in DOMAIN ctx.table : ctx.table[h] = 0 \/ ctx.table[h] < probe.next
      BY <1>7, EntryOf DEF Ready, Sorted
    <3> QED BY <2>1, <3>1, <3>2, OwnIs
  <2>3. job.dict # "none" => job.start + job.size <= IndexLimit
    BY <1>1, <1>7, BelowLimit DEF Working, Ready, Kept
  <2> HIDE DEF stop
  <2>4. job.dict # "none" => probe.next < IndexLimit - 1 BY <1>1, <2>1, <2>3, Numbers
  <2> QED BY <2>2, <2>4
<1>3. stage = "literals" => at > anchor
  <2>1. anchor \in Int BY <1>1 DEF PlacesTyped
  <2> QED BY <1>1, <2>1 DEF Along
<1>4. ASSUME stage = "match"
      PROVE  /\ at - found \in 1..DISTANCE_MAX /\ found >= lowLimit
             /\ inDict => found < job.start
             /\ Same(at, found, MINMATCH)
             /\ job.limit = "fill" /\ ~TooClose /\ Tight(Len(out) + 2) =>
                  Reduced(Len(out) + 2) < MatchCode
  <2>1. /\ found < at /\ at - found <= DISTANCE_MAX /\ found >= lowLimit
        /\ inDict => found + 4 <= job.start
        /\ Same(at, found, 4)
    BY <1>1, <1>4 DEF Agreed
  <2>2. at - found \in 1..DISTANCE_MAX /\ (inDict => found < job.start) BY <1>1, <2>1, Numbers
  <2>3. Same(at, found, MINMATCH) BY <2>1, Numbers
  <2>4. job.limit = "fill" /\ ~TooClose /\ Tight(Len(out) + 2) => Reduced(Len(out) + 2) < MatchCode
    BY <1>1, <1>4, ReducedIs
  <2> QED BY <2>1, <2>2, <2>3, <2>4
<1>5. ASSUME stage = "next"
      PROVE  LET c == Candidate(Filled, at)
             IN /\ c < at /\ OwnCandidate(Filled, at) < at
                /\ job.dict = "external" /\ c < job.start => DictBase
                /\ Narrow => at < KB64
                /\ job.limit = "fill" => Len(out) + 1 + LASTLITERALS <= job.cap
  <2>1. Candidate(Filled, at) < at BY <1>5, NextReads
  <2>5. OwnCandidate(Filled, at) < at BY <1>5, NextOwn
  <2>6. job.dict = "external" => DictBase BY <1>5, GroundedBase DEF Working
  <2>7. Narrow => at < KB64
    <3>1. at + 12 <= stop /\ Working BY <1>1, <1>5 DEF Along, Working
    <3> QED BY <1>1, <3>1, NarrowFits
  <2>2. job.limit = "fill" => Len(out) + 6 <= job.cap BY <1>1, <1>5 DEF Grown
  <2> DEFINE n == Len(out)
  <2>3. n \in Nat /\ (job.limit = "fill" => n + 6 <= job.cap) BY <1>1, <2>2
  <2> HIDE DEF n
  <2>4. job.limit = "fill" => n + 1 + LASTLITERALS <= job.cap BY <1>1, <2>3, Numbers
  <2> QED BY <2>1, <2>4, <2>5, <2>6, <2>7 DEF n
<1>6. stage = "last" /\ job.limit = "fill" => job.cap >= Len(out)
  <2> DEFINE n == Len(out)
  <2>1. n \in Nat /\ (stage = "last" /\ job.limit = "fill" => n + 1 <= job.cap)
    BY <1>1 DEF Grown
  <2> HIDE DEF n
  <2>2. stage = "last" /\ job.limit = "fill" => job.cap >= n BY <1>1, <2>1
  <2> QED BY <2>2 DEF n
<1> QED BY <1>2, <1>3, <1>4, <1>5, <1>6, <1>7 DEF AssertionsHold

(* Whatever its table holds, from this block or from other ones, before or  *)
(* after a reset, attached, saved, cut or rescaled, the compressor reads    *)
(* the four bytes of a candidate only in its history or in the part of the  *)
(* input already passed, near enough for an offset and in one segment.      *)
THEOREM ReadsHistoryTheorem == CodecSpec /\ []Careful => []ReadsHistory
<1>1. CodecInit => Ready BY InitReady
<1>2. Ready /\ Careful /\ [CodecNext]_codecVars => Ready' BY NextReady
<1>3. Ready => ReadsHistory BY ReadyReads
<1> QED BY <1>1, <1>2, <1>3, PTL DEF CodecSpec

(* The assertions of LZ4_compress_generic, which no build evaluates, would  *)
(* not fail, but for the two cases that AssertionsHold leaves out by name   *)
(* (837 of a block that starts beyond 16 bits, 1083 and 1282 of a           *)
(* forceExtDict without a dictionary): a candidate is older than its        *)
(* position, indexes fit, there is a dictionary to look into, a match is    *)
(* longer than what it is cut to, and a token, an offset and the last       *)
(* literals have their place.                                               *)
THEOREM AssertionsHoldTheorem == CodecSpec /\ []Careful => []AssertionsHold
<1>1. CodecInit => Ready BY InitReady
<1>2. Ready /\ Careful /\ [CodecNext]_codecVars => Ready' BY NextReady
<1>3. Ready => AssertionsHold BY ReadyAsserts
<1> QED BY <1>1, <1>2, <1>3, PTL DEF CodecSpec
=============================================================================
