----------------------------- MODULE CpioProofs -----------------------------
(***************************************************************************)
(* Proofs about CpioUnpack, for every set of archives that meets           *)
(* ArchivesAssumption and for faults on or off.                            *)
(***************************************************************************)
EXTENDS CpioUnpack, SequenceTheorems, FiniteSetTheorems, TLAPS

-----------------------------------------------------------------------------
(* Byte arithmetic.                                                        *)

(* Padding brings a count to the next multiple of four and no further. *)
LEMMA AlignProperties ==
  ASSUME NEW n \in Nat
  PROVE  /\ Pad4(n) \in 0..3
         /\ Align4(n) \in Nat
         /\ Align4(n) % 4 = 0
         /\ n <= Align4(n) /\ Align4(n) <= n + 3
BY DEF Pad4, Align4

(* The walker stops at the next entry or four bytes before it, and never    *)
(* more than three bytes short of the end of the data it passes.            *)
LEMMA WalkedAgainstPacked ==
  ASSUME NEW ns \in Nat, NEW fs \in Nat
  PROVE  /\ WalkedSize(ns, fs) \in Nat /\ PackedSize(ns, fs) \in Nat /\ PackedData(ns) \in Nat
         /\ PackedSize(ns, fs) - WalkedSize(ns, fs) \in {0, 4}
         /\ HDR + ns + fs <= WalkedSize(ns, fs)
         /\ PackedData(ns) + fs <= WalkedSize(ns, fs) + 3
         /\ Shift(ns) \in 0..3
<1> DEFINE a == HDR + ns
<1>1. a \in Nat BY DEF HDR
<1>2. /\ Align4(a) \in Nat /\ Align4(a) % 4 = 0
      /\ a <= Align4(a) /\ Align4(a) <= a + 3
  BY <1>1, AlignProperties
<1>3. Align4(a) + fs \in Nat /\ a + fs \in Nat BY <1>1, <1>2
<1>4. /\ Align4(Align4(a) + fs) \in Nat /\ Align4(Align4(a) + fs) % 4 = 0
      /\ Align4(a) + fs <= Align4(Align4(a) + fs)
      /\ Align4(Align4(a) + fs) <= Align4(a) + fs + 3
  BY <1>3, AlignProperties
<1>5. /\ Align4(a + fs) \in Nat /\ Align4(a + fs) % 4 = 0
      /\ a + fs <= Align4(a + fs)
      /\ Align4(a + fs) <= a + fs + 3
  BY <1>3, AlignProperties
<1> DEFINE x == Align4(a)
           y == Align4(Align4(a) + fs)
           z == Align4(a + fs)
<1>6. y - z \in 0..6 /\ (y - z) % 4 = 0
  <2>1. x \in Nat /\ y \in Nat /\ z \in Nat BY <1>2, <1>4, <1>5
  <2>2. y - z <= 6 BY <1>1, <1>2, <1>4, <1>5, <2>1
  <2>3. y - z > -4 BY <1>1, <1>2, <1>4, <1>5, <2>1
  <2>4. y % 4 = 0 /\ z % 4 = 0 BY <1>4, <1>5
  <2> HIDE DEF x, y, z
  <2>5. (y - z) % 4 = 0 BY <2>1, <2>4
  <2> QED BY <2>1, <2>2, <2>3, <2>5
<1>7. y - z \in {0, 4}
  <2> y \in Nat /\ z \in Nat BY <1>4, <1>5
  <2> HIDE DEF x, y, z
  <2> QED BY <1>6
<1> QED BY <1>1, <1>2, <1>3, <1>4, <1>5, <1>7 DEF PackedData, PackedSize, WalkedSize, WalkedData, Shift

-----------------------------------------------------------------------------
(* Archives.                                                               *)

(* What the assumption says of the archive in the segment. *)
LaidOut ==
  /\ arc.off \in Seq(Nat) /\ Last \in Nat /\ Last >= 1 /\ arc.off[1] = 0
  /\ Magic \subseteq Nat
  /\ \A m \in Magic : arc.hdr[m] \in Headers
  /\ \A i \in 1..Last : /\ arc.off[i] \in Nat
                        /\ arc.off[i] \in Magic
                        /\ Entry(i).ns \in Nat /\ Entry(i).fs \in Nat
                        /\ Entry(i).name \in Seq(STRING)
                        /\ (Entry(i).kind = "end") <=> (i = Last)
  /\ \A i, j \in 1..Last :
       i < j => arc.off[j] >= arc.off[i] + PackedSize(Entry(i).ns, Entry(i).fs)

(* What the assumption says of each archive. *)
LEMMA ArchiveFacts ==
  ASSUME arc \in Archives
  PROVE  LaidOut
<1>1. IsArchive(arc) BY ArchivesAssumption
<1>2. arc.off \in Seq(Nat) /\ DOMAIN arc.off = 1..Last /\ Last \in Nat
  BY <1>1 DEF IsArchive, Last
<1>3. \A i \in 1..Last : arc.off[i] \in Nat BY <1>2
<1>4. \A m \in Magic : arc.hdr[m] \in Headers BY <1>1 DEF IsArchive, Magic
<1>5. \A i \in 1..Last : arc.off[i] \in Magic BY <1>1, <1>2 DEF IsArchive, Magic
<1>6. \A i \in 1..Last : Entry(i) \in Headers BY <1>4, <1>5 DEF Entry
<1>7. \A i \in 1..Last : (Entry(i).kind = "end") <=> (i = Last)
  BY <1>1, <1>2 DEF IsArchive, Entry, Last
<1>8. \A i, j \in 1..Last :
        i < j => arc.off[j] >= arc.off[i] + PackedSize(Entry(i).ns, Entry(i).fs)
  BY <1>1, <1>2 DEF IsArchive, Entry
<1>9. Last >= 1 /\ arc.off[1] = 0 /\ Magic \subseteq Nat
  BY <1>1 DEF IsArchive, Last, Magic
<1> QED BY <1>2, <1>3, <1>4, <1>5, <1>6, <1>7, <1>8, <1>9 DEF Headers, LaidOut

(* An entry that ends at sj or before does not reach a later one's end.      *)
LEMMA NoRoomBefore ==
  ASSUME NEW m \in Nat, NEW oi \in Nat, NEW wi \in Nat,
         NEW oj \in Nat, NEW sj \in Nat, NEW ej \in Nat,
         oi + wi <= m, wi >= 110, oi >= oj + sj, ej <= sj + 3,
         m = oj \/ (oj < m /\ m + 6 <= oj + ej)
  PROVE  FALSE
OBVIOUS

(* A header string beyond the end of an entry's data and before the next    *)
(* header does not exist: there is only padding there.                      *)
LEMMA NothingInPadding ==
  ASSUME arc \in Archives, NEW i \in 1..(Last - 1), NEW m \in Magic,
         arc.off[i] + WalkedSize(Entry(i).ns, Entry(i).fs) <= m,
         m < arc.off[i + 1]
  PROVE  FALSE
<1>0. LaidOut BY ArchiveFacts
<1>1. StraysInside(arc) BY ArchivesAssumption
<1>2. /\ m \in Nat /\ Last \in Nat /\ i \in Nat
      /\ i \in 1..Last /\ i + 1 \in 1..Last
      /\ DOMAIN arc.off = 1..Last
  BY SMTT(60), <1>0 DEF LaidOut, Last
<1>3. PICK j \in 1..Last :
        \/ m = arc.off[j]
        \/ /\ arc.off[j] < m
           /\ m + 6 <= arc.off[j] + PackedData(Entry(j).ns) + Entry(j).fs
  BY <1>1, <1>2 DEF StraysInside, Magic, Entry, MAGIC
<1> DEFINE oi == arc.off[i]
           on == arc.off[i + 1]
           oj == arc.off[j]
           wi == WalkedSize(Entry(i).ns, Entry(i).fs)
           ei == PackedData(Entry(i).ns) + Entry(i).fs
           ej == PackedData(Entry(j).ns) + Entry(j).fs
           sj == PackedSize(Entry(j).ns, Entry(j).fs)
<1>4. oi \in Nat /\ on \in Nat /\ oj \in Nat BY <1>0, <1>2 DEF LaidOut
<1>5. wi \in Nat /\ ei \in Nat /\ ei <= wi + 3 /\ wi >= 110
  <2>1. Entry(i).ns \in Nat /\ Entry(i).fs \in Nat BY <1>0, <1>2 DEF LaidOut
  <2>2. wi \in Nat /\ ei \in Nat /\ ei <= wi + 3 BY <2>1, WalkedAgainstPacked
  <2>3. HDR + Entry(i).ns + Entry(i).fs <= wi BY <2>1, WalkedAgainstPacked
  <2> HIDE DEF wi
  <2> QED BY <2>1, <2>2, <2>3 DEF HDR
<1>6. sj \in Nat /\ ej \in Nat /\ ej <= sj + 3
  <2>1. Entry(j).ns \in Nat /\ Entry(j).fs \in Nat BY <1>0 DEF LaidOut
  <2>2. /\ WalkedSize(Entry(j).ns, Entry(j).fs) \in Nat
        /\ sj - WalkedSize(Entry(j).ns, Entry(j).fs) \in {0, 4}
        /\ ej <= WalkedSize(Entry(j).ns, Entry(j).fs) + 3
        /\ sj \in Nat /\ PackedData(Entry(j).ns) \in Nat
    BY <2>1, WalkedAgainstPacked
  <2> HIDE DEF sj
  <2> QED BY <2>1, <2>2
<1>7. oi + wi <= m /\ m < on OBVIOUS
<1>8. m = oj \/ (oj < m /\ m + 6 <= oj + ej)
  <2>1. /\ Entry(j).fs \in Nat /\ PackedData(Entry(j).ns) \in Nat
    BY <1>0, WalkedAgainstPacked DEF LaidOut
  <2> QED BY <1>3, <1>4, <2>1
<1>9. CASE j = i
  <2>1. oj = oi /\ ej = ei BY <1>9
  <2> HIDE DEF oi, on, oj, wi, ei, ej, sj
  <2> QED BY SMTT(60), <2>1, <1>2, <1>4, <1>5, <1>7, <1>8
<1>10. CASE j > i
  <2>1. on <= oj
    <3>1. CASE j = i + 1 BY <3>1, <1>4
    <3>2. CASE j > i + 1
      <4>1. PackedSize(Entry(i + 1).ns, Entry(i + 1).fs) \in Nat
        BY <1>0, <1>2, WalkedAgainstPacked DEF LaidOut
      <4>2. oj >= on + PackedSize(Entry(i + 1).ns, Entry(i + 1).fs)
        BY <3>2, <1>0, <1>2 DEF LaidOut
      <4> QED BY <4>1, <4>2, <1>4
    <3> QED BY <1>10, <1>2, <3>1, <3>2
  <2> HIDE DEF oi, on, oj, wi, ei, ej, sj
  <2> QED BY <2>1, <1>2, <1>4, <1>7, <1>8
<1>11. CASE j < i
  <2>1. oi >= oj + sj BY <1>11, <1>0, <1>2 DEF LaidOut
  <2> HIDE DEF oi, on, oj, wi, ei, ej, sj
  <2> QED BY <2>1, <1>2, <1>4, <1>5, <1>6, <1>7, <1>8, NoRoomBefore
<1> QED BY <1>2, <1>9, <1>10, <1>11

-----------------------------------------------------------------------------
(* Where the walker is.                                                    *)

(* The header the walker is at, or is about to find, is that of entry i. *)
At(i) == /\ p <= arc.off[i]
         /\ i > 1 => arc.off[i - 1] < p
         /\ \A m \in Magic : ~(p <= m /\ m < arc.off[i])

(* Later headers have greater offsets. *)
LEMMA OffsetsGrow ==
  ASSUME LaidOut, NEW i \in 1..Last, NEW j \in 1..Last, i < j
  PROVE  arc.off[i] + WalkedSize(Entry(i).ns, Entry(i).fs) <= arc.off[j]
<1>1. Entry(i).ns \in Nat /\ Entry(i).fs \in Nat BY DEF LaidOut
<1>2. /\ WalkedSize(Entry(i).ns, Entry(i).fs) \in Nat
      /\ PackedSize(Entry(i).ns, Entry(i).fs) \in Nat
      /\ PackedSize(Entry(i).ns, Entry(i).fs) >= WalkedSize(Entry(i).ns, Entry(i).fs)
  <2>1. /\ WalkedSize(Entry(i).ns, Entry(i).fs) \in Nat
        /\ PackedSize(Entry(i).ns, Entry(i).fs) \in Nat
        /\ PackedSize(Entry(i).ns, Entry(i).fs) - WalkedSize(Entry(i).ns, Entry(i).fs) \in {0, 4}
    BY <1>1, WalkedAgainstPacked
  <2> QED BY <2>1
<1>3. arc.off[j] >= arc.off[i] + PackedSize(Entry(i).ns, Entry(i).fs) BY DEF LaidOut
<1>4. arc.off[i] \in Nat /\ arc.off[j] \in Nat BY DEF LaidOut
<1> QED BY <1>2, <1>3, <1>4

(* An entry is longer than its header. *)
LEMMA EntryMoves ==
  ASSUME LaidOut, NEW i \in 1..Last
  PROVE  /\ WalkedSize(Entry(i).ns, Entry(i).fs) \in Nat
         /\ WalkedSize(Entry(i).ns, Entry(i).fs) >= 110
         /\ HDR + Entry(i).ns + Entry(i).fs <= WalkedSize(Entry(i).ns, Entry(i).fs)
<1>1. Entry(i).ns \in Nat /\ Entry(i).fs \in Nat BY DEF LaidOut
<1>2. /\ WalkedSize(Entry(i).ns, Entry(i).fs) \in Nat
      /\ HDR + Entry(i).ns + Entry(i).fs <= WalkedSize(Entry(i).ns, Entry(i).fs)
  BY <1>1, WalkedAgainstPacked
<1> QED BY <1>1, <1>2 DEF HDR

(* A header string the walker is at, when it is in step, is a header. *)
LEMMA HeaderIsEntry ==
  ASSUME LaidOut, p \in Nat, p \in Magic, NEW i \in 1..Last, At(i)
  PROVE  p = arc.off[i] /\ H = Entry(i)
<1>1. arc.off[i] \in Nat BY DEF LaidOut
<1>2. p = arc.off[i] BY <1>1 DEF At
<1> QED BY <1>2 DEF H, Entry

(* The entries behind the walker are those before the one it is at. *)
LEMMA PassedIs ==
  ASSUME LaidOut, p \in Nat, NEW i \in 1..Last, At(i)
  PROVE  Passed = 1..(i - 1)
<1>1. \A j \in 1..Last : j >= i => arc.off[j] >= p
  <2> TAKE j \in 1..Last
  <2> HAVE j >= i
  <2>1. CASE j = i BY <2>1 DEF At
  <2>2. CASE j > i
    <3>1. /\ arc.off[i] + WalkedSize(Entry(i).ns, Entry(i).fs) <= arc.off[j]
          /\ WalkedSize(Entry(i).ns, Entry(i).fs) \in Nat
      BY <2>2, OffsetsGrow, EntryMoves
    <3>2. arc.off[i] \in Nat /\ arc.off[j] \in Nat BY DEF LaidOut
    <3> QED BY <3>1, <3>2 DEF At
  <2> QED BY <2>1, <2>2
<1>2. \A j \in 1..Last : j < i => arc.off[j] < p
  <2> TAKE j \in 1..Last
  <2> HAVE j < i
  <2>0. Last \in Nat BY DEF LaidOut
  <2>1. i - 1 \in 1..Last /\ i > 1 BY <2>0
  <2>2. arc.off[i - 1] < p /\ arc.off[i - 1] \in Nat /\ arc.off[j] \in Nat
    BY <2>1 DEF At, LaidOut
  <2>3. CASE j = i - 1 BY <2>2, <2>3
  <2>4. CASE j < i - 1
    <3>1. /\ arc.off[j] + WalkedSize(Entry(j).ns, Entry(j).fs) <= arc.off[i - 1]
          /\ WalkedSize(Entry(j).ns, Entry(j).fs) \in Nat
      BY <2>1, <2>4, OffsetsGrow, EntryMoves
    <3> QED BY <2>2, <3>1
  <2> QED BY <2>1, <2>3, <2>4
<1>3. Last \in Nat /\ \A j \in 1..Last : arc.off[j] \in Nat BY DEF LaidOut
<1>4. \A j \in 1..(Last - 1) : (arc.off[j] < p) <=> (j < i)
  <2> TAKE j \in 1..(Last - 1)
  <2>1. j \in 1..Last /\ arc.off[j] \in Nat BY <1>3
  <2> QED BY <1>1, <1>2, <2>1
<1> QED BY <1>3, <1>4 DEF Passed

(* The scan for the next header finds the header of the entry it is due. *)
LEMMA ResyncFindsNext ==
  ASSUME LaidOut, p \in Nat, size \in Nat, NEW i \in 1..Last, At(i), Resync
  PROVE  p' = arc.off[i] /\ p < arc.off[i]
<1>1. PICK q \in Ahead : (\A m \in Ahead : q <= m) /\ p' = q BY DEF Resync
<1>2. arc.off[i] \in Nat /\ arc.off[i] \in Magic /\ Magic \subseteq Nat BY DEF LaidOut
<1>3. p < arc.off[i]
  <2>1. p # arc.off[i] BY <1>2 DEF Resync
  <2> QED BY <1>2, <2>1 DEF At
<1>4. q \in Nat /\ q > p /\ q + HDR <= size /\ q \in Magic BY <1>2 DEF Ahead
<1>5. arc.off[i] <= q BY <1>2, <1>4 DEF At
<1>6. arc.off[i] \in Ahead BY <1>2, <1>3, <1>4, <1>5 DEF Ahead, HDR
<1> QED BY <1>1, <1>2, <1>3, <1>4, <1>5, <1>6

(* The scan passes no entry. *)
LEMMA ResyncPassesNone ==
  ASSUME LaidOut, p \in Nat, NEW i \in 1..Last, At(i), p < arc.off[i], p' = arc.off[i], arc' = arc
  PROVE  Passed = 1..(i - 1) /\ Passed' = 1..(i - 1)
<1>1. Last \in Nat /\ i \in Nat /\ arc.off[i] \in Nat BY DEF LaidOut
<1>2. Passed = 1..(i - 1) BY PassedIs
<1>3. \A j \in 1..(Last - 1) : (arc.off[j] < p') <=> (j \in 1..(i - 1))
  <2> TAKE j \in 1..(Last - 1)
  <2>1. j \in 1..Last /\ j \in Nat /\ arc.off[j] \in Nat BY DEF LaidOut
  <2>2. CASE j < i
    <3>1. arc.off[j] < p BY <1>1, <1>2, <2>1, <2>2 DEF Passed
    <3> QED BY <1>1, <2>1, <2>2, <3>1
  <2>3. CASE j = i BY <1>1, <2>3
  <2>4. CASE j > i
    <3>1. arc.off[i] + WalkedSize(Entry(i).ns, Entry(i).fs) <= arc.off[j]
          /\ WalkedSize(Entry(i).ns, Entry(i).fs) \in Nat
      BY <2>1, <2>4, OffsetsGrow, EntryMoves
    <3> QED BY <1>1, <2>1, <2>4, <3>1
  <2> QED BY <1>1, <2>1, <2>2, <2>3, <2>4
<1> QED BY <1>1, <1>2, <1>3 DEF Passed, Last

(* Extracting moves the walker from an entry to where the next one is due. *)
LEMMA ExtractPasses ==
  ASSUME LaidOut, arc \in Archives, p \in Nat, NEW i \in 1..Last, At(i), Extract
  PROVE  /\ p = arc.off[i] /\ H = Entry(i) /\ i \in 1..(Last - 1)
         /\ p' \in Nat /\ At(i + 1)'
<1>1. p = arc.off[i] /\ H = Entry(i) BY HeaderIsEntry DEF Extract, AtHeader
<1>2. Last \in Nat /\ i # Last BY <1>1 DEF Extract, LaidOut
<1>3. i \in 1..(Last - 1) /\ i + 1 \in 1..Last BY <1>2
<1>4. /\ p' = arc.off[i] + WalkedSize(Entry(i).ns, Entry(i).fs)
      /\ arc' = arc
  BY <1>1 DEF Extract
<1>5. WalkedSize(Entry(i).ns, Entry(i).fs) \in Nat
      /\ WalkedSize(Entry(i).ns, Entry(i).fs) >= 110
  BY EntryMoves
<1>6. arc.off[i] \in Nat BY DEF LaidOut
<1>7. p' <= arc.off[i + 1] BY <1>3, <1>4, OffsetsGrow
<1>8. \A m \in Magic : ~(p' <= m /\ m < arc.off[i + 1])
  BY <1>3, <1>4, NothingInPadding
<1>9. At(i + 1)'
  <2>1. arc.off[(i + 1) - 1] < p' BY <1>3, <1>4, <1>5, <1>6
  <2> QED BY <1>4, <1>7, <1>8, <2>1 DEF At, Magic
<1> QED BY <1>1, <1>3, <1>4, <1>5, <1>6, <1>9

(* Extracting passes one entry. *)
LEMMA ExtractPassesOne ==
  ASSUME LaidOut, arc \in Archives, p \in Nat, NEW i \in 1..Last, At(i), Extract
  PROVE  Passed = 1..(i - 1) /\ Passed' = 1..i /\ Last' = Last
<1>1. /\ p = arc.off[i] /\ i \in 1..(Last - 1) /\ p' \in Nat /\ At(i + 1)' /\ arc' = arc
      /\ p' = p + WalkedSize(Entry(i).ns, Entry(i).fs)
  BY ExtractPasses DEF Extract
<1>2. Last \in Nat /\ i \in Nat /\ i \in 1..Last /\ i + 1 \in 1..Last
  <2>1. Last \in Nat BY DEF LaidOut
  <2> QED BY <1>1, <2>1
<1>3. WalkedSize(Entry(i).ns, Entry(i).fs) \in Nat
      /\ WalkedSize(Entry(i).ns, Entry(i).fs) >= 110
  BY EntryMoves
<1>4. Passed = 1..(i - 1) BY PassedIs
<1>5. \A j \in 1..(Last - 1) : (arc.off[j] < p') <=> (j \in 1..i)
  <2> TAKE j \in 1..(Last - 1)
  <2>1. j \in 1..Last /\ arc.off[j] \in Nat /\ arc.off[i] \in Nat /\ arc.off[i + 1] \in Nat
    <3>1. j \in 1..Last BY <1>2
    <3> QED BY <3>1, <1>2 DEF LaidOut
  <2>2. CASE j < i
    <3>1. arc.off[j] < p BY <1>4, <2>2, <1>2, <2>1 DEF Passed
    <3> QED BY <3>1, <1>1, <1>2, <1>3, <2>1, <2>2
  <2>3. CASE j = i BY <2>3, <1>1, <1>2, <1>3, <2>1
  <2>4. CASE j > i
    <3>1. p' <= arc.off[i + 1] BY <1>1 DEF At
    <3>2. arc.off[i + 1] <= arc.off[j]
      <4>1. CASE j = i + 1 BY <4>1, <2>1
      <4>2. CASE j > i + 1
        <5>1. arc.off[i + 1] + WalkedSize(Entry(i + 1).ns, Entry(i + 1).fs) <= arc.off[j]
              /\ WalkedSize(Entry(i + 1).ns, Entry(i + 1).fs) \in Nat
          BY <1>2, <2>1, <4>2, OffsetsGrow, EntryMoves
        <5> QED BY <5>1, <2>1
      <4> QED BY <4>1, <4>2, <2>1, <2>4, <1>2
    <3> QED BY <3>1, <3>2, <2>1, <2>4, <1>1, <1>2
  <2> QED BY <2>1, <2>2, <2>3, <2>4, <1>2
<1> QED BY SMTT(60), <1>1, <1>2, <1>4, <1>5 DEF Passed, Last

-----------------------------------------------------------------------------
(* Type correctness.                                                       *)

(* The directories above a path are paths. *)
LEMMA AbovePaths ==
  ASSUME NEW n \in Seq(STRING)
  PROVE  Above(n) \subseteq Seq(STRING)
<1>1. SUFFICES ASSUME NEW k \in 1..(Len(n) - 1) PROVE SubSeq(n, 1, k) \in Seq(STRING)
  BY DEF Above
<1>2. Len(n) \in Nat BY LenProperties
<1>3. k \in Nat /\ k <= Len(n) BY <1>2
<1> QED BY <1>3, SubSeqProperties

(* The nodes unpack_cpio makes are well typed, whatever fails on the way. *)
LEMMA NodesTyped ==
  ASSUME TypeOK, Extract
  PROVE  /\ DOMAIN tree' \subseteq Seq(STRING)
         /\ \A n \in DOMAIN tree' :
              tree'[n] \in [kind : {"dir", "lnk", "dev", "reg"},
                            is : {"default", "entry", "shifted", "short"}]
<1> DEFINE Nodes == [kind : {"dir", "lnk", "dev", "reg"},
                     is : {"default", "entry", "shifted", "short"}]
<1>1. H \in Headers BY ArchiveFacts DEF TypeOK, Extract, AtHeader, LaidOut, H
<1>2. H.name \in Seq(STRING) /\ Above(H.name) \subseteq Seq(STRING)
  BY <1>1, AbovePaths DEF Headers
<1>3. PICK dirs \in PathsMade(tree, H) :
        \E how \in Outcomes(MakePath(tree, dirs), H) :
          tree' = MakeNode(MakePath(tree, dirs), H, how)
  BY DEF Extract
<1> DEFINE t == MakePath(tree, dirs)
<1>4. dirs \subseteq Seq(STRING)
  BY <1>2, <1>3 DEF PathsMade, PathDirs
<1>5. DOMAIN t \subseteq Seq(STRING) /\ \A n \in DOMAIN t : t[n] \in Nodes
  BY <1>4 DEF MakePath, TypeOK
<1> HIDE DEF t
<1>6. PICK how \in Outcomes(t, H) : tree' = MakeNode(t, H, how) BY <1>3 DEF t
<1>7. how \in {"lost", "entry", "shifted", "short"}
  BY DEF Outcomes, Content
<1>8. how # "lost" => H.kind \in {"dir", "lnk", "dev", "reg"}
  BY DEF Outcomes, Makes
<1>9. CASE how = "lost" \/ (H.name \in DOMAIN t /\ H.kind # "reg")
  BY <1>5, <1>6, <1>9 DEF MakeNode
<1>10. CASE ~(how = "lost" \/ (H.name \in DOMAIN t /\ H.kind # "reg"))
  <2>1. tree' = [n \in DOMAIN t \cup {H.name} |->
                   IF n = H.name THEN [kind |-> H.kind, is |-> how] ELSE t[n]]
    BY <1>6, <1>10 DEF MakeNode
  <2>2. [kind |-> H.kind, is |-> how] \in Nodes BY <1>7, <1>8, <1>10
  <2> QED BY <1>2, <1>5, <2>1, <2>2
<1> QED BY <1>9, <1>10

(* The types are right at the start, and every step keeps them. *)
LEMMA TypeStarts ==
  ASSUME Init
  PROVE  TypeOK
<1>1. IsArchive(arc) /\ arc.len \in Nat BY ArchivesAssumption DEF Init, IsArchive
<1>2. faulty \in BOOLEAN BY FaultsAssumption DEF Init
<1> QED BY <1>1, <1>2 DEF Init, TypeOK, HDR

(* No step breaks the types. *)
LEMMA TypeKeeps ==
  ASSUME TypeOK, [Next]_vars
  PROVE  TypeOK'
<1>1. CASE UNCHANGED vars BY <1>1 DEF TypeOK, vars
<1>2. CASE NoTrailer BY <1>2 DEF TypeOK, NoTrailer, Return
<1>3. CASE Resync
  <2>1. Magic \subseteq Nat BY ArchiveFacts DEF TypeOK, LaidOut
  <2>2. p' \in Nat BY <1>3, <2>1 DEF Resync, Ahead
  <2> QED BY <1>3, <2>2 DEF TypeOK, Resync
<1>4. CASE LoseSync BY <1>4 DEF TypeOK, LoseSync, Return
<1>5. CASE BadName BY <1>5 DEF TypeOK, BadName, Return
<1>6. CASE Overflow BY <1>6 DEF TypeOK, Overflow, Return
<1>7. CASE Trailer BY <1>7 DEF TypeOK, Trailer, Return
<1>8. CASE Extract
  <2>1. H \in Headers BY <1>8, ArchiveFacts DEF TypeOK, Extract, AtHeader, LaidOut, H
  <2>2. WalkedSize(H.ns, H.fs) \in Nat BY <2>1, WalkedAgainstPacked DEF Headers
  <2>3. p' = p + WalkedSize(H.ns, H.fs) /\ p \in Nat BY <1>8 DEF TypeOK, Extract
  <2>4. p' \in Nat BY <2>2, <2>3
  <2> QED BY <1>8, <2>4, NodesTyped DEF TypeOK, Extract
<1> QED BY <1>1, <1>2, <1>3, <1>4, <1>5, <1>6, <1>7, <1>8 DEF Next

(* Every state is well typed. *)
THEOREM TypeCorrect == Spec => []TypeOK
<1>1. Init => TypeOK BY TypeStarts
<1>2. TypeOK /\ [Next]_vars => TypeOK' BY TypeKeeps
<1> QED BY <1>1, <1>2, PTL DEF Spec

-----------------------------------------------------------------------------
(* In step, and right in the end.                                          *)

(* Every name passed fits; a result other than "running" says what the      *)
(* position and the size show.                                              *)
NamesFit == \A i \in Passed : Entry(i).ns < NAMEMAX

WalkInv == TypeOK /\ InStep /\ NamesFit /\ VerdictRight

(* Whether the archive is whole is a matter of its last entry and of names. *)
LEMMA WholeFacts ==
  ASSUME LaidOut, size \in Nat, NEW i \in 1..Last
  PROVE  /\ size < arc.off[i] + HDR + Entry(i).ns + Entry(i).fs => ~Whole
         /\ Entry(i).ns >= NAMEMAX => ~Whole
         /\ size < arc.off[i] + HDR => ~Whole
<1>1. Last \in Nat /\ Last \in 1..Last /\ i \in Nat BY DEF LaidOut
<1>2. /\ arc.off[i] \in Nat /\ Entry(i).ns \in Nat /\ Entry(i).fs \in Nat
      /\ arc.off[Last] \in Nat /\ Entry(Last).ns \in Nat /\ Entry(Last).fs \in Nat
  BY <1>1 DEF LaidOut
<1>3. i < Last => arc.off[i] + HDR + Entry(i).ns + Entry(i).fs <= arc.off[Last]
  <2>1. HAVE i < Last
  <2>2. arc.off[i] + WalkedSize(Entry(i).ns, Entry(i).fs) <= arc.off[Last]
    BY <1>1, <2>1, OffsetsGrow
  <2>3. /\ HDR + Entry(i).ns + Entry(i).fs <= WalkedSize(Entry(i).ns, Entry(i).fs)
        /\ WalkedSize(Entry(i).ns, Entry(i).fs) \in Nat
    BY EntryMoves
  <2> QED BY <1>2, <2>2, <2>3 DEF HDR
<1>4. size < arc.off[i] + HDR + Entry(i).ns + Entry(i).fs => ~Whole
  <2>1. CASE i < Last BY <1>2, <1>3, <2>1 DEF Whole, HDR
  <2>2. CASE i = Last BY <1>2, <2>2 DEF Whole, HDR
  <2> QED BY <1>1, <2>1, <2>2
<1>5. Entry(i).ns >= NAMEMAX => ~Whole BY <1>2 DEF Whole, NAMEMAX
<1> QED BY <1>2, <1>4, <1>5 DEF HDR

(* Which entry is next depends on the archive and the position alone. *)
LEMMA SameWalk ==
  ASSUME UNCHANGED <<arc, size, p>>
  PROVE  /\ InStep => InStep'
         /\ NamesFit => NamesFit'
         /\ Passed' = Passed /\ Last' = Last
         /\ Whole' <=> Whole
BY DEF InStep, NamesFit, Passed, Last, Entry, Whole, Magic

(* At the start the walker is at the first header. *)
LEMMA StartsInStep ==
  ASSUME Init, TypeOK
  PROVE  InStep /\ Passed = {}
<1>1. LaidOut BY ArchiveFacts DEF TypeOK
<1>2. 1 \in 1..Last /\ arc.off[1] = 0 /\ p = 0 BY <1>1 DEF LaidOut, Init
<1>3. At(1)
  <2>0. Magic \subseteq Nat BY <1>1 DEF LaidOut
  <2>1. ASSUME NEW m \in Magic PROVE ~(p <= m /\ m < arc.off[1])
    <3>1. m \in Nat BY <2>0
    <3> QED BY <3>1, <1>2
  <2>2. p <= arc.off[1] /\ ~(1 > 1) BY <1>2
  <2> QED BY <2>1, <2>2 DEF At
<1>4. Passed = 1..(1 - 1) BY <1>1, <1>2, <1>3, PassedIs
<1> QED BY <1>2, <1>3, <1>4 DEF InStep, At

(* Every step leaves the walker in step and every name passed fitting. *)
LEMMA StaysInStep ==
  ASSUME TypeOK, TypeOK', InStep, NamesFit, Next
  PROVE  InStep' /\ NamesFit'
<1>0. LaidOut /\ p \in Nat /\ size \in Nat /\ arc \in Archives BY ArchiveFacts DEF TypeOK
<1>1. PICK i \in 1..Last : At(i) BY DEF InStep, At
<1>2. CASE NoTrailer \/ LoseSync \/ BadName \/ Overflow \/ Trailer
  BY <1>2, SameWalk DEF NoTrailer, LoseSync, BadName, Overflow, Trailer, Return
<1>3. CASE Resync
  <2>1. p' = arc.off[i] /\ p < arc.off[i] /\ arc' = arc
    BY <1>0, <1>1, <1>3, ResyncFindsNext DEF Resync
  <2>2. arc.off[i] \in Nat /\ Magic \subseteq Nat /\ i \in Nat
        /\ (i > 1 => arc.off[i - 1] \in Nat)
    <3>1. Last \in Nat /\ Magic \subseteq Nat /\ \A j \in 1..Last : arc.off[j] \in Nat
      BY <1>0 DEF LaidOut
    <3>2. i > 1 => i - 1 \in 1..Last BY <3>1
    <3> QED BY <3>1, <3>2
  <2>3. At(i)' BY <1>0, <1>1, <2>1, <2>2 DEF At, Magic
  <2>4. i \in 1..Last' BY <2>1 DEF Last
  <2>5. LaidOut' BY ArchiveFacts, <1>0, <2>1 DEF LaidOut, Last, Magic, Entry
  <2>6. Passed = 1..(i - 1) /\ Passed' = 1..(i - 1) BY <1>0, <1>1, <2>1, ResyncPassesNone
  <2>8. NamesFit' BY <2>1, <2>6 DEF NamesFit, Entry
  <2> QED BY <2>3, <2>4, <2>8 DEF InStep, At
<1>4. CASE Extract
  <2>1. /\ p = arc.off[i] /\ H = Entry(i) /\ i \in 1..(Last - 1)
        /\ p' \in Nat /\ At(i + 1)'
    BY <1>0, <1>1, <1>4, ExtractPasses
  <2>2. arc' = arc BY <1>4 DEF Extract
  <2>3. i + 1 \in 1..Last' /\ Last \in Nat BY <1>0, <2>1, <2>2 DEF Last, LaidOut
  <2>4. InStep' BY <2>1, <2>3 DEF InStep, At
  <2>5. Passed = 1..(i - 1) /\ Passed' = 1..i BY <1>0, <1>1, <1>4, ExtractPassesOne
  <2>6. \A j \in Passed' : j \in Passed \/ j = i BY <2>1, <2>5
  <2>7. Entry(i).ns < NAMEMAX BY <1>4, <2>1 DEF Extract, NameOK
  <2>8. NamesFit' BY <2>2, <2>6, <2>7 DEF NamesFit, Entry
  <2> QED BY <2>4, <2>8
<1> QED BY <1>2, <1>3, <1>4 DEF Next

(* What a step that returns says of the archive is so. *)
LEMMA VerdictStep ==
  ASSUME WalkInv, Next
  PROVE  VerdictRight'
<1>0. LaidOut /\ p \in Nat /\ size \in Nat BY ArchiveFacts DEF TypeOK, WalkInv
<1>1. PICK i \in 1..Last : At(i) BY DEF WalkInv, InStep, At
<1>2. arc.off[i] \in Nat /\ Entry(i).ns \in Nat /\ Entry(i).fs \in Nat
  BY <1>0 DEF LaidOut
<1>3. AtHeader => p = arc.off[i] /\ H = Entry(i)
  BY <1>0, <1>1, HeaderIsEntry DEF AtHeader
<1>4. CASE NoTrailer
  <2>1. size < arc.off[i] + HDR
    <3>1. p <= arc.off[i] BY <1>1 DEF At
    <3>2. ~(p + HDR <= size) BY <1>4 DEF NoTrailer, InBounds
    <3> QED BY <1>0, <1>2, <3>1, <3>2 DEF HDR
  <2>2. ~Whole BY <1>0, <2>1, WholeFacts
  <2>3. ~Whole' /\ rc' = "no trailer"
    BY <1>4, <2>2, SameWalk DEF NoTrailer, Return
  <2> QED BY <2>3 DEF VerdictRight
<1>5. CASE LoseSync
  <2>1. arc.off[i] \in Magic /\ arc.off[i] # p BY <1>0, <1>5 DEF LaidOut, LoseSync
  <2>2. arc.off[i] > p BY <1>0, <1>1, <1>2, <2>1 DEF At
  <2>3. ~(arc.off[i] + HDR <= size) BY <1>5, <2>1, <2>2 DEF LoseSync, Ahead
  <2>4. size < arc.off[i] + HDR BY <1>0, <1>2, <2>3 DEF HDR
  <2>5. ~Whole BY <1>0, <2>4, WholeFacts
  <2>6. ~Whole' /\ rc' = "no resync" BY <1>5, <2>5, SameWalk DEF LoseSync, Return
  <2> QED BY <2>6 DEF VerdictRight
<1>6. CASE BadName
  <2>1. Entry(i).ns >= NAMEMAX
    <3>1. Entry(i).ns # 0
      <4>1. IsArchive(arc) BY ArchivesAssumption DEF WalkInv, TypeOK
      <4>2. i \in DOMAIN arc.off BY <1>0 DEF Last, LaidOut
      <4> QED BY <4>1, <4>2, <1>2 DEF IsArchive, Entry
    <3>2. H = Entry(i) BY <1>3, <1>6 DEF BadName
    <3>3. ~(H.ns # 0 /\ H.ns < NAMEMAX) BY <1>6 DEF BadName, NameOK
    <3>4. ~(Entry(i).ns < NAMEMAX) BY <3>1, <3>2, <3>3
    <3> QED BY <1>2, <3>4 DEF NAMEMAX
  <2>2. ~Whole BY <1>0, <2>1, WholeFacts
  <2>3. ~Whole' /\ rc' = "bad namesize" BY <1>6, <2>2, SameWalk DEF BadName, Return
  <2> QED BY <2>3 DEF VerdictRight
<1>7. CASE Overflow
  <2>1. size < arc.off[i] + HDR + Entry(i).ns + Entry(i).fs
    BY <1>0, <1>2, <1>3, <1>7 DEF Overflow, Fits, HDR
  <2>2. ~Whole BY <1>0, <2>1, WholeFacts
  <2>3. ~Whole' /\ rc' = "overflow" BY <1>7, <2>2, SameWalk DEF Overflow, Return
  <2> QED BY <2>3 DEF VerdictRight
<1>8. CASE Trailer
  <2>1. p = arc.off[i] /\ H = Entry(i) /\ i = Last
    BY <1>0, <1>3, <1>8 DEF Trailer, LaidOut
  <2>2. Passed = 1..(Last - 1) BY <1>0, <1>1, <2>1, PassedIs
  <2>3. size >= arc.off[Last] + HDR + Entry(Last).ns + Entry(Last).fs
    BY <1>0, <1>2, <1>8, <2>1 DEF Trailer, Fits, HDR
  <2>4. \A j \in 1..Last : Entry(j).ns < NAMEMAX
    <3>1. Entry(Last).ns < NAMEMAX BY <1>8, <2>1 DEF Trailer, NameOK
    <3>2. Last \in Nat BY <1>0 DEF LaidOut
    <3> QED BY <2>2, <3>1, <3>2 DEF WalkInv, NamesFit
  <2>5. Whole BY <2>3, <2>4 DEF Whole
  <2>6. rc' = "ok" /\ Whole' /\ Passed' = Passed /\ Last' = Last
    BY <1>8, <2>5, SameWalk DEF Trailer, Return
  <2> QED BY <2>2, <2>6 DEF VerdictRight
<1>9. CASE Resync \/ Extract
  <2>1. rc' = "running" BY <1>9 DEF Resync, Extract, AtHeader
  <2> QED BY <2>1 DEF VerdictRight
<1> QED BY <1>4, <1>5, <1>6, <1>7, <1>8, <1>9 DEF Next

(* The invariant holds at the start. *)
LEMMA WalkStarts ==
  ASSUME Init
  PROVE  WalkInv
<1>1. TypeOK BY TypeStarts
<1>2. InStep /\ Passed = {} BY <1>1, StartsInStep
<1> QED BY <1>1, <1>2 DEF WalkInv, NamesFit, VerdictRight, Init

(* No step breaks it. *)
LEMMA WalkKeeps ==
  ASSUME WalkInv, [Next]_vars
  PROVE  WalkInv'
<1>1. TypeOK' BY TypeKeeps DEF WalkInv
<1>2. CASE Next
  <2>1. InStep' /\ NamesFit' BY <1>1, <1>2, StaysInStep DEF WalkInv
  <2>2. VerdictRight' BY <1>2, VerdictStep
  <2> QED BY <1>1, <2>1, <2>2 DEF WalkInv
<1>3. CASE UNCHANGED vars
  <2>1. InStep' /\ NamesFit' /\ Passed' = Passed /\ Last' = Last /\ (Whole' <=> Whole)
    BY <1>3, SameWalk DEF WalkInv, vars
  <2> QED BY <1>1, <1>3, <2>1 DEF WalkInv, VerdictRight, vars
<1> QED BY <1>2, <1>3

(* WalkInv is an inductive invariant. *)
LEMMA WalkInvariant == Spec => []WalkInv
<1>1. Init => WalkInv BY WalkStarts
<1>2. WalkInv /\ [Next]_vars => WalkInv' BY WalkKeeps
<1> QED BY <1>1, <1>2, PTL DEF Spec

(* The walker never loses the archive: from any header it comes to the next *)
(* one, for every length of names and data and whatever the data holds.     *)
THEOREM AlwaysInStep == Spec => []InStep
<1>1. WalkInv => InStep BY DEF WalkInv
<1> QED BY <1>1, WalkInvariant, PTL

(* unpack_cpio returns 0 exactly for the archives that were read whole. *)
THEOREM VerdictIsRight == Spec => []VerdictRight
<1>1. WalkInv => VerdictRight BY DEF WalkInv
<1> QED BY <1>1, WalkInvariant, PTL

-----------------------------------------------------------------------------
(* What is under the new root.                                             *)

(* A node at the path of an entry has the kind of that entry: no make_path  *)
(* puts a directory where a later entry wants something else.               *)
KindsRight ==
  \A i \in 1..(Last - 1) :
    Entry(i).name \in DOMAIN tree => tree[Entry(i).name].kind = Entry(i).kind

TreeInv == KindsRight /\ NothingForeign /\ NothingSkipped

(* The archive in the segment is a tree. *)
LEMMA TreeFacts ==
  ASSUME arc \in Archives, NEW i \in 1..(Last - 1), NEW j \in 1..(Last - 1)
  PROVE  /\ Entry(i).slash => Entry(i).kind = "dir"
         /\ Entry(i).name = Entry(j).name => i = j
         /\ Entry(i).name \in Above(Entry(j).name) => Entry(i).kind = "dir"
BY ArchivesAssumption DEF IsTree, Last, Entry

(* One entry is extracted: what make_path and the node after it do to the   *)
(* tree.                                                                    *)
LEMMA ExtractedNodes ==
  ASSUME arc \in Archives, NEW i \in 1..(Last - 1), H = Entry(i), Extract
  PROVE  /\ DOMAIN tree \subseteq DOMAIN tree'
         /\ \A n \in DOMAIN tree : n # H.name \/ H.kind # "reg" => tree'[n] = tree[n]
         /\ \A n \in DOMAIN tree' \ DOMAIN tree :
              \/ n = H.name /\ Makes(H) /\ tree'[n].kind = H.kind
              \/ n \in Above(H.name) /\ n # H.name /\ tree'[n].kind = "dir"
         /\ H.name \in DOMAIN tree =>
              tree'[H.name].kind \in {tree[H.name].kind, H.kind}
         /\ ~faulty /\ Makes(H) => H.name \in DOMAIN tree'
<1>1. PICK dirs \in PathsMade(tree, H) :
        \E how \in Outcomes(MakePath(tree, dirs), H) :
          tree' = MakeNode(MakePath(tree, dirs), H, how)
  BY DEF Extract
<1> DEFINE t == MakePath(tree, dirs)
<1>2. PICK how \in Outcomes(t, H) : tree' = MakeNode(t, H, how) BY <1>1
<1>3. /\ dirs \subseteq Above(H.name) \cup (IF H.slash THEN {H.name} ELSE {})
      /\ ~faulty => Above(H.name) \subseteq dirs
  BY <1>1 DEF PathsMade, PathDirs
<1>4. H.slash \/ H.name \in Above(H.name) => H.kind = "dir" BY TreeFacts
<1>5. /\ DOMAIN t = DOMAIN tree \cup dirs
      /\ \A n \in DOMAIN tree : t[n] = tree[n]
      /\ \A n \in dirs \ DOMAIN tree : t[n].kind = "dir"
  BY DEF MakePath
<1> HIDE DEF t
<1>6. /\ DOMAIN tree' = DOMAIN t \/ DOMAIN tree' = DOMAIN t \cup {H.name}
      /\ \A n \in DOMAIN t : n # H.name => tree'[n] = t[n]
      /\ H.name \in DOMAIN t /\ H.kind # "reg" => tree'[H.name] = t[H.name]
      /\ H.name \in DOMAIN t => tree'[H.name].kind \in {t[H.name].kind, H.kind}
      /\ H.name \in DOMAIN tree' \ DOMAIN t => tree'[H.name].kind = H.kind
      /\ how # "lost" => H.name \in DOMAIN tree'
      /\ H.name \in DOMAIN tree' \ DOMAIN t => how # "lost"
  BY <1>2 DEF MakeNode
<1>7. DOMAIN tree \subseteq DOMAIN tree' BY <1>5, <1>6
<1>8. \A n \in DOMAIN tree : n # H.name \/ H.kind # "reg" => tree'[n] = tree[n]
  BY <1>5, <1>6
<1>9. ASSUME NEW n \in DOMAIN tree' \ DOMAIN tree
      PROVE  \/ n = H.name /\ Makes(H) /\ tree'[n].kind = H.kind
             \/ n \in Above(H.name) /\ n # H.name /\ tree'[n].kind = "dir"
  <2>1. CASE n = H.name
    <3>1. CASE n \in DOMAIN t
      <4>1. n \in dirs /\ t[n].kind = "dir" BY <1>5, <3>1
      <4>2. H.kind = "dir" BY <4>1, <1>3, <1>4, <2>1
      <4>3. Makes(H) BY <4>2 DEF Makes
      <4> QED BY <4>1, <4>2, <4>3, <1>6, <2>1, <3>1
    <3>2. CASE n \notin DOMAIN t
      <4>1. how # "lost" /\ tree'[n].kind = H.kind BY <1>6, <2>1, <3>2
      <4>2. Makes(H) BY <1>2, <4>1 DEF Outcomes
      <4> QED BY <2>1, <4>1, <4>2
    <3> QED BY <3>1, <3>2
  <2>2. CASE n # H.name
    <3>1. n \in dirs BY <1>5, <1>6, <2>2
    <3>2. n \in Above(H.name) BY <1>3, <2>2, <3>1
    <3> QED BY <1>5, <1>6, <2>2, <3>1, <3>2
  <2> QED BY <2>1, <2>2
<1>10. H.name \in DOMAIN tree => tree'[H.name].kind \in {tree[H.name].kind, H.kind}
  BY <1>5, <1>6
<1>11. ~faulty /\ Makes(H) => H.name \in DOMAIN tree'
  <2>1. HAVE ~faulty /\ Makes(H)
  <2>2. how # "lost" BY <2>1, <1>2, <1>3, <1>5 DEF Outcomes, Content
  <2> QED BY <1>6, <2>2
<1> QED BY <1>7, <1>8, <1>9, <1>10, <1>11

(* What is already there is not the file that comes now: whatever exists is *)
(* an earlier entry or a directory above one.                               *)
LEMMA FileIsNew ==
  ASSUME LaidOut, arc \in Archives, NEW i \in 1..(Last - 1), Passed = 1..(i - 1),
         NothingForeign, Entry(i).kind = "reg"
  PROVE  Entry(i).name \notin DOMAIN tree
<1>1. ASSUME Entry(i).name \in DOMAIN tree PROVE FALSE
  <2>1. PICK j \in Passed : \/ Entry(i).name = Entry(j).name
                            \/ Entry(i).name \in Above(Entry(j).name)
    BY <1>1 DEF NothingForeign
  <2>2. j \in 1..(Last - 1) /\ j # i
    <3>1. Last \in Nat BY DEF LaidOut
    <3> QED BY <3>1, <2>1
  <2> QED BY <2>1, <2>2, TreeFacts
<1> QED BY <1>1

(* Extracting an entry keeps the tree right. *)
LEMMA ExtractKeepsTree ==
  ASSUME LaidOut, arc \in Archives, p \in Nat, NEW i \in 1..Last, At(i), Extract, TreeInv
  PROVE  TreeInv' /\ \A n \in DOMAIN tree : n \in DOMAIN tree' /\ tree'[n] = tree[n]
<1>1. /\ H = Entry(i) /\ i \in 1..(Last - 1)
      /\ Passed = 1..(i - 1) /\ Passed' = 1..i /\ Last' = Last
      /\ arc' = arc /\ faulty' = faulty /\ Last \in Nat
  BY ExtractPasses, ExtractPassesOne DEF Extract, LaidOut
<1>2. \A j \in 1..(Last - 1) : Entry(j)' = Entry(j) BY <1>1 DEF Entry
<1>3. /\ DOMAIN tree \subseteq DOMAIN tree'
      /\ \A n \in DOMAIN tree : n # H.name \/ H.kind # "reg" => tree'[n] = tree[n]
      /\ \A n \in DOMAIN tree' \ DOMAIN tree :
           \/ n = H.name /\ Makes(H) /\ tree'[n].kind = H.kind
           \/ n \in Above(H.name) /\ n # H.name /\ tree'[n].kind = "dir"
      /\ ~faulty /\ Makes(H) => H.name \in DOMAIN tree'
  BY <1>1, ExtractedNodes
<1>4. H.kind = "reg" => H.name \notin DOMAIN tree BY <1>1, FileIsNew DEF TreeInv
<1>5. \A n \in DOMAIN tree : n \in DOMAIN tree' /\ tree'[n] = tree[n] BY <1>3, <1>4
<1>6. KindsRight'
  <2>1. ASSUME NEW j \in 1..(Last - 1), Entry(j).name \in DOMAIN tree'
        PROVE  tree'[Entry(j).name].kind = Entry(j).kind
    <3>1. CASE Entry(j).name \in DOMAIN tree BY <1>5, <3>1 DEF TreeInv, KindsRight
    <3>2. CASE Entry(j).name \notin DOMAIN tree
      <4>1. CASE Entry(j).name = H.name
        <5>1. j = i BY <1>1, <4>1, TreeFacts
        <5> QED BY <5>1, <1>1, <1>3, <2>1, <3>2
      <4>2. CASE Entry(j).name # H.name
        <5>1. Entry(j).name \in Above(Entry(i).name) /\ tree'[Entry(j).name].kind = "dir"
          BY <1>1, <1>3, <2>1, <3>2, <4>2
        <5> QED BY <5>1, <1>1, TreeFacts
      <4> QED BY <4>1, <4>2
    <3> QED BY <3>1, <3>2
  <2> QED BY <1>1, <1>2, <2>1 DEF KindsRight
<1>7. NothingForeign'
  <2>1. ASSUME NEW n \in DOMAIN tree'
        PROVE  \E j \in 1..i : \/ n = Entry(j).name /\ Makes(Entry(j))
                               \/ n \in Above(Entry(j).name)
    <3>1. CASE n \in DOMAIN tree
      <4>1. PICK j \in 1..(i - 1) : \/ n = Entry(j).name /\ Makes(Entry(j))
                                    \/ n \in Above(Entry(j).name)
        BY <1>1, <3>1 DEF TreeInv, NothingForeign
      <4>2. j \in 1..i BY <1>1
      <4> QED BY <4>1, <4>2
    <3>2. CASE n \notin DOMAIN tree
      <4>1. (n = Entry(i).name /\ Makes(Entry(i))) \/ n \in Above(Entry(i).name)
        BY <1>1, <1>3, <3>2
      <4>2. i \in 1..i BY <1>1
      <4> QED BY <4>1, <4>2
    <3> QED BY <3>1, <3>2
  <2>2. \A j \in 1..i : j \in 1..(Last - 1) BY <1>1
  <2> QED BY <1>1, <1>2, <2>1, <2>2 DEF NothingForeign
<1>8. NothingSkipped'
  <2>1. ASSUME ~faulty, NEW j \in 1..i, Makes(Entry(j))
        PROVE  Entry(j).name \in DOMAIN tree'
    <3>1. CASE j = i BY <1>1, <1>3, <2>1, <3>1
    <3>2. CASE j # i
      <4>1. j \in Passed BY <1>1, <3>2
      <4>2. Entry(j).name \in DOMAIN tree BY <2>1, <4>1 DEF TreeInv, NothingSkipped
      <4> QED BY <1>3, <4>2
    <3> QED BY <3>1, <3>2
  <2>2. \A j \in 1..i : j \in 1..(Last - 1) BY <1>1
  <2>3. \A j \in 1..i : Entry(j)' = Entry(j) BY <1>2, <2>2
  <2>4. \A j \in 1..i : Entry(j).name \in DOMAIN tree'
                           => tree'[Entry(j).name].kind = Entry(j).kind
    BY <1>1, <1>2, <1>6, <2>2 DEF KindsRight
  <2>5. \A j \in 1..i : /\ Makes(Entry(j)) => Entry(j).name \in DOMAIN tree' \/ faulty
                        /\ Makes(Entry(j)') = Makes(Entry(j))
    BY SMTT(60), <1>2, <2>1, <2>2
  <2> QED BY <1>1, <2>3, <2>4, <2>5 DEF NothingSkipped
<1> QED BY <1>5, <1>6, <1>7, <1>8 DEF TreeInv

(* Which entry is next, and what is made, change together. *)
LEMMA SameTree ==
  ASSUME Passed' = Passed, UNCHANGED <<faulty, arc, tree>>
  PROVE  TreeInv => TreeInv'
BY DEF TreeInv, KindsRight, NothingForeign, NothingSkipped, Last, Entry

(* A step of the walk keeps the tree right, and keeps what is in it. *)
LEMMA StepKeepsTree ==
  ASSUME WalkInv, TreeInv, [Next]_vars
  PROVE  TreeInv' /\ \A n \in DOMAIN tree : n \in DOMAIN tree' /\ tree'[n] = tree[n]
<1>0. LaidOut /\ p \in Nat /\ size \in Nat /\ arc \in Archives
  BY ArchiveFacts DEF WalkInv, TypeOK
<1>1. PICK i \in 1..Last : At(i) BY DEF WalkInv, InStep, At
<1>2. CASE NoTrailer \/ LoseSync \/ BadName \/ Overflow \/ Trailer \/ UNCHANGED vars
  <2>1. UNCHANGED <<faulty, arc, size, p, tree>>
    BY <1>2 DEF NoTrailer, LoseSync, BadName, Overflow, Trailer, Return, vars
  <2> QED BY <2>1, SameWalk, SameTree
<1>3. CASE Resync
  <2>1. UNCHANGED <<faulty, arc, tree>> BY <1>3 DEF Resync
  <2>2. Passed' = Passed BY <1>0, <1>1, <1>3, <2>1, ResyncFindsNext, ResyncPassesNone
  <2> QED BY <2>1, <2>2, SameTree
<1>4. CASE Extract BY <1>0, <1>1, <1>4, ExtractKeepsTree
<1> QED BY <1>2, <1>3, <1>4 DEF Next

(* Under the new root there is nothing at the start. *)
LEMMA TreeStarts ==
  ASSUME Init
  PROVE  TreeInv
<1>1. Passed = {} /\ DOMAIN tree = {} BY TypeStarts, StartsInStep DEF Init
<1> QED BY <1>1 DEF TreeInv, KindsRight, NothingForeign, NothingSkipped

(* The walk and the tree together. *)
LEMMA TreeInvariant == Spec => [](WalkInv /\ TreeInv)
<1>1. Init => TreeInv BY TreeStarts
<1>2. WalkInv /\ TreeInv /\ [Next]_vars => TreeInv' BY StepKeepsTree
<1> QED BY <1>1, <1>2, WalkInvariant, PTL DEF Spec

(* An archive that was read whole, with names the walker has room for, is   *)
(* walked to its last header, whatever is said there.                       *)
LEMMA EndsAtLast ==
  ASSUME WalkInv, size = arc.len, \A i \in 1..(Last - 1) : Entry(i).ns < NAMEMAX,
         Next, rc' # "running"
  PROVE  Passed' = 1..(Last - 1)
<1>0. LaidOut /\ p \in Nat /\ arc \in Archives BY ArchiveFacts DEF WalkInv, TypeOK
<1>1. PICK i \in 1..Last : At(i) BY DEF WalkInv, InStep, At
<1>2. /\ arc.off[i] \in Nat /\ arc.off[i] \in Magic /\ p <= arc.off[i]
      /\ Last \in Nat /\ i \in Nat /\ p \in Nat
  BY <1>0, <1>1 DEF LaidOut, At
<1>3. IsArchive(arc) BY <1>0, ArchivesAssumption
<1>4. DOMAIN arc.off = 1..Last /\ arc.len \in Nat BY <1>3 DEF IsArchive, Last
<1>5. arc.off[i] + HDR <= size BY <1>3, <1>4, <1>1 DEF IsArchive
<1>6. p + HDR <= size BY <1>2, <1>4, <1>5 DEF HDR
<1>7. p \notin Magic => Ahead # {}
  <2>1. HAVE p \notin Magic
  <2>2. arc.off[i] > p BY <1>2, <2>1
  <2> QED BY <1>2, <1>5, <2>2 DEF Ahead
<1>8. i = Last
  <2>1. SUFFICES ASSUME i # Last PROVE FALSE OBVIOUS
  <2>2. i \in 1..(Last - 1) /\ Last \in 1..Last /\ i < Last BY <1>1, <1>2, <2>1
  <2>3. ~(NoTrailer \/ LoseSync \/ Resync \/ Extract)
    BY <1>6, <1>7 DEF NoTrailer, LoseSync, Resync, Extract, InBounds, AtHeader
  <2>4. AtHeader BY <2>3 DEF Next, BadName, Overflow, Trailer
  <2>5. p = arc.off[i] /\ H = Entry(i) BY <1>0, <1>1, <2>4, HeaderIsEntry DEF AtHeader
  <2>6. Entry(i).kind # "end" /\ Entry(i).ns # 0 /\ Entry(i).ns < NAMEMAX
    <3>1. Entry(i).kind # "end" /\ Entry(i).ns >= 1 BY <1>3, <1>4, <1>1, <2>1 DEF IsArchive, Entry, Last
    <3> QED BY <2>2, <3>1
  <2>7. Fits
    <3>1. arc.off[i] + WalkedSize(Entry(i).ns, Entry(i).fs) <= arc.off[Last]
      BY <1>0, <2>2, OffsetsGrow
    <3>2. /\ WalkedSize(Entry(i).ns, Entry(i).fs) \in Nat
          /\ HDR + Entry(i).ns + Entry(i).fs <= WalkedSize(Entry(i).ns, Entry(i).fs)
      BY <1>0, EntryMoves
    <3>3. arc.off[Last] + HDR <= size /\ arc.off[Last] \in Nat
      BY <1>0, <1>3, <1>4, <2>2 DEF IsArchive, LaidOut
    <3>4. Entry(i).ns \in Nat /\ Entry(i).fs \in Nat BY <1>0 DEF LaidOut
    <3>5. size \in Nat BY <1>4
    <3> DEFINE ns == Entry(i).ns   fs == Entry(i).fs   w == WalkedSize(Entry(i).ns, Entry(i).fs)
    <3>6. /\ ns \in Nat /\ fs \in Nat /\ w \in Nat /\ arc.off[i] \in Nat
          /\ HDR + ns + fs <= w /\ arc.off[i] + w <= arc.off[Last]
      BY <1>2, <3>1, <3>2, <3>4
    <3>7. Fits <=> size - arc.off[i] >= HDR + ns + fs BY <2>5 DEF Fits
    <3> HIDE DEF ns, fs, w
    <3> QED BY <3>3, <3>5, <3>6, <3>7 DEF HDR
  <2> QED BY <2>3, <2>5, <2>6, <2>7 DEF Next, BadName, Overflow, Trailer, NameOK
<1>9. Passed = 1..(Last - 1) BY <1>0, <1>1, <1>8, PassedIs
<1>10. UNCHANGED <<arc, size, p>>
  <2>1. ~(Resync \/ Extract) BY DEF Resync, Extract, AtHeader
  <2> QED BY <2>1 DEF Next, NoTrailer, LoseSync, BadName, Overflow, Trailer, Return
<1> QED BY <1>9, <1>10, SameWalk

(* Without faults every entry behind the walker exists with its kind, but   *)
(* for the links whose target unpack_cpio misreads.                         *)
THEOREM NothingSkippedTheorem == Spec => []NothingSkipped
<1>1. TreeInv => NothingSkipped BY DEF TreeInv
<1> QED BY <1>1, TreeInvariant, PTL

(* Whatever unpack_cpio creates is an entry behind it or a directory above  *)
(* one, with faults or without: never a name read out of file data.         *)
THEOREM NothingForeignTheorem == Spec => []NothingForeign
<1>1. TreeInv => NothingForeign BY DEF TreeInv
<1> QED BY <1>1, TreeInvariant, PTL

(* No step of unpack_cpio removes or changes a node that an earlier one     *)
(* made, although open is called with O_TRUNC.                              *)
THEOREM NodesStayTheorem == Spec => NodesStay
<1>1. WalkInv /\ TreeInv /\ [Next]_vars
        => [\A n \in DOMAIN tree : n \in DOMAIN tree' /\ tree'[n] = tree[n]]_vars
  BY StepKeepsTree
<1> QED BY <1>1, TreeInvariant, PTL DEF Spec, NodesStay

-----------------------------------------------------------------------------
(* The promise to main.                                                    *)

(* The archive, in the words of ArchiveWalk. *)
LEMMA WalkTyped ==
  ASSUME LaidOut, arc \in Archives
  PROVE  /\ EntryNames \in Seq(AllNames) /\ Len(EntryNames) = Last - 1
         /\ \A i \in 1..(Last - 1) : EntryNames[i] = Entry(i).name
         /\ Sure \subseteq AllNames
<1>1. Last \in Nat /\ Last >= 1 BY DEF LaidOut
<1>2. \A i \in 1..(Last - 1) : Entry(i).name \in AllNames
  <2> TAKE i \in 1..(Last - 1)
  <2>1. i \in 1..Last BY <1>1
  <2>2. arc.off[i] \in DOMAIN arc.hdr BY <2>1 DEF LaidOut, Magic
  <2> QED BY <2>2 DEF AllNames, Entry
<1>3. EntryNames \in Seq(AllNames) /\ Len(EntryNames) = Last - 1
  BY <1>1, <1>2 DEF EntryNames
<1> QED BY <1>3 DEF EntryNames, Sure

(* How many entries are behind the walker. *)
LEMMA HowManyPassed ==
  ASSUME NEW i \in Nat
  PROVE  Cardinality(1..i) = i
<1>1. Cardinality(1..i) = IF 1 > i THEN 0 ELSE i - 1 + 1 BY FS_Interval
<1> QED BY <1>1

(* A step that leaves the archive, and what is behind the walker, leaves    *)
(* what ArchiveWalk sees of them.                                           *)
LEMMA SameAbstraction ==
  ASSUME UNCHANGED <<faulty, arc, size>>
  PROVE  /\ EntryNames' = EntryNames /\ Sure' = Sure /\ Whole' = Whole
         /\ Passed' = Passed /\ tree' = tree => Created' = Created
BY DEF EntryNames, Sure, Whole, Created, Last, Entry

(* Extracting an entry is the visit of the next name. *)
LEMMA ExtractIsVisit ==
  ASSUME WalkInv, TreeInv, Extract
  PROVE  Walk!Visit
<1>0. LaidOut /\ p \in Nat /\ arc \in Archives BY ArchiveFacts DEF WalkInv, TypeOK
<1>1. PICK i \in 1..Last : At(i) BY DEF WalkInv, InStep, At
<1>2. /\ H = Entry(i) /\ i \in 1..(Last - 1) /\ Last \in Nat
      /\ Passed = 1..(i - 1) /\ Passed' = 1..i /\ Last' = Last
      /\ UNCHANGED <<faulty, arc, size, rc>> /\ rc = "running"
  BY <1>0, <1>1, ExtractPasses, ExtractPassesOne DEF Extract, AtHeader, LaidOut
<1>3. Cardinality(Passed) = i - 1 /\ Cardinality(Passed') = i
  <2>1. i - 1 \in Nat /\ i \in Nat BY <1>2
  <2> QED BY <1>2, <2>1, HowManyPassed
<1>4. TreeInv' /\ \A n \in DOMAIN tree : n \in DOMAIN tree'
  BY <1>0, <1>1, ExtractKeepsTree
<1>5. \A j \in 1..(Last - 1) : Entry(j)' = Entry(j) BY <1>2 DEF Entry
<1>6. /\ Len(EntryNames) = Last - 1 /\ EntryNames[i] = Entry(i).name
      /\ \A j \in 1..i : EntryNames[j] = Entry(j).name
  BY <1>0, <1>2, WalkTyped
<1>7. Created' = {n \in DOMAIN tree' : \E j \in 1..i : n = Entry(j).name}
  <2>1. \A j \in 1..i : Entry(j)' = Entry(j) BY <1>2, <1>5
  <2> QED BY <1>2, <2>1 DEF Created
<1>8. Created = {n \in DOMAIN tree : \E j \in 1..(i - 1) : n = Entry(j).name}
  BY <1>2 DEF Created
<1>9. Created \subseteq Created'
  <2>1. \A j \in 1..(i - 1) : j \in 1..i BY <1>2
  <2> QED BY <1>4, <1>7, <1>8, <2>1
<1>10. Created' \subseteq Walk!Visited((i - 1) + 1)
  <2>1. (i - 1) + 1 = i BY <1>2
  <2> QED BY <1>6, <1>7, <2>1 DEF Walk!Visited
<1>11. Entry(i).name \in Sure => Entry(i).name \in Created'
  <2>1. HAVE Entry(i).name \in Sure
  <2>2. PICK j \in 1..(Last - 1) : /\ ~faulty /\ Entry(i).name = Entry(j).name
                                   /\ Makes(Entry(j))
    BY <2>1 DEF Sure
  <2>3. j = i BY <1>0, <1>2, <2>2, TreeFacts
  <2>4. H.name \in DOMAIN tree' BY <1>0, <1>2, <2>2, <2>3, ExtractedNodes
  <2>5. i \in 1..i BY <1>2
  <2> QED BY <1>2, <1>7, <2>4, <2>5
<1>12. EntryNames' = EntryNames /\ Sure' = Sure /\ Whole' = Whole
  BY <1>2, SameAbstraction
<1>13. i - 1 < Last - 1 /\ i = (i - 1) + 1 BY <1>2
<1>14. \E new \in SUBSET Walk!Visited((i - 1) + 1) :
         /\ EntryNames[(i - 1) + 1] \in Sure => EntryNames[(i - 1) + 1] \in new
         /\ Created' = Created \cup new
  <2>1. Created' = Created \cup Created' BY <1>9
  <2> QED BY <1>6, <1>10, <1>11, <1>13, <2>1
<1> QED BY <1>2, <1>3, <1>6, <1>12, <1>13, <1>14 DEF Walk!Visit

(* Every step of unpack_cpio is a step of the promise, or none. *)
LEMMA StepKeepsWalk ==
  ASSUME WalkInv, TreeInv, WalkInv', [Next]_vars
  PROVE  [Walk!Next]_(Walk!vars)
<1>0. LaidOut /\ p \in Nat /\ size \in Nat /\ arc \in Archives
  BY ArchiveFacts DEF WalkInv, TypeOK
<1>1. PICK i \in 1..Last : At(i) BY DEF WalkInv, InStep, At
<1>2. CASE UNCHANGED vars \/ Resync
  <2>1. UNCHANGED <<faulty, arc, size, tree, rc>> BY <1>2 DEF vars, Resync
  <2>2. Passed' = Passed
    BY <1>0, <1>1, <1>2, <2>1, ResyncFindsNext, ResyncPassesNone DEF vars, Passed, Last
  <2>3. UNCHANGED <<EntryNames, Whole, Sure, Created>> BY <2>1, <2>2, SameAbstraction
  <2> QED BY <2>1, <2>2, <2>3 DEF Walk!vars
<1>3. CASE Extract BY <1>3, ExtractIsVisit DEF Walk!Next
<1>4. CASE NoTrailer \/ LoseSync \/ BadName \/ Overflow \/ Trailer
  <2>1. /\ UNCHANGED <<faulty, arc, size, p, tree>> /\ rc = "running"
        /\ \/ Trailer /\ rc' = "ok"
           \/ ~Trailer /\ rc' \in Walk!Codes
    BY <1>4 DEF NoTrailer, LoseSync, BadName, Overflow, Trailer, Return, AtHeader, Walk!Codes
  <2>2. /\ Passed' = Passed BY <2>1, SameWalk
  <2>3. UNCHANGED <<EntryNames, Whole, Sure, Created>> BY <2>1, <2>2, SameAbstraction
  <2>4. VerdictRight' BY DEF WalkInv
  <2>5. CASE rc' = "ok"
    <3>1. Passed = 1..(Last - 1) /\ Last' = Last
      BY <2>1, <2>2, <2>4, <2>5 DEF VerdictRight, Last
    <3>2. Cardinality(Passed) = Last - 1 /\ Len(EntryNames) = Last - 1
      <4>1. Last - 1 \in Nat BY <1>0 DEF LaidOut
      <4> QED BY <1>0, <3>1, <4>1, HowManyPassed, WalkTyped
    <3> QED BY <2>1, <2>2, <2>3, <2>5, <3>2 DEF Walk!Finish, Walk!Next
  <2>6. CASE rc' \in Walk!Codes
    <3>1. ~Whole BY <2>3, <2>4, <2>6 DEF VerdictRight, Walk!Codes
    <3>2. Walk!Refuse(rc') BY <2>1, <2>2, <2>3, <3>1 DEF Walk!Refuse
    <3> QED BY <2>6, <3>2 DEF Walk!Next
  <2> QED BY <2>1, <2>5, <2>6
<1> QED BY <1>2, <1>3, <1>4 DEF Next

(* unpack_cpio keeps the promise that main relies on: it visits the entries *)
(* in order, returns 0 when it has visited all of them, and does not refuse *)
(* an archive that was read whole.                                          *)
THEOREM ImplementsWalkTheorem == Spec => ImplementsWalk
<1>1. Init /\ WalkInv => Walk!Init
  <2> SUFFICES ASSUME Init, WalkInv PROVE Walk!Init OBVIOUS
  <2>1. LaidOut /\ arc \in Archives BY ArchiveFacts DEF WalkInv, TypeOK
  <2>2. Passed = {} /\ DOMAIN tree = {} BY StartsInStep DEF WalkInv, Init
  <2>3. Cardinality(Passed) = 0 BY <2>2, FS_EmptySet
  <2>4. Created = {} /\ Whole \in BOOLEAN BY <2>2 DEF Created, Whole
  <2> QED BY <2>1, <2>3, <2>4, WalkTyped DEF Init, Walk!Init
<1>2. WalkInv /\ TreeInv /\ WalkInv' /\ [Next]_vars => [Walk!Next]_(Walk!vars)
  BY StepKeepsWalk
<1> QED BY <1>1, <1>2, TreeInvariant, PTL DEF Spec, ImplementsWalk, Walk!Spec
=============================================================================
