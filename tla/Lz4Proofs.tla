----------------------------- MODULE Lz4Proofs -----------------------------
(***************************************************************************)
(* Proofs about Lz4Stream, for every window, every limit of the indexes,   *)
(* every size of block and every number of buckets.                        *)
(***************************************************************************)
EXTENDS Lz4Stream, TLAPS

Kinds  == {"cleared", "byU16", "byU32", "byPtr"}
Dicts  == {"none", "prefix", "external", "context"}
Blocks == [stage : {"none", "called", "open"}, start : Nat, size : Int, type : Kinds,
           dict : Dicts, small : BOOLEAN, hist : Nat]

(* Whole windows: 0, and what is out of reach of the index 0.               *)
Windows == {k * KB64 : k \in Nat}

(* The stream: an entry lies HASH_UNIT bytes at least before the end, a     *)
(* clear table is empty and its index a number of whole windows.            *)
CtxOK == /\ off \in 0..(IndexSpan - 1) /\ hist \in Nat /\ hist <= off
         /\ kind \in Kinds /\ entries \subseteq Nat \ {0}
         /\ \A e \in entries : e + HASH_UNIT <= off
         /\ kind = "cleared" => entries = {} /\ off \in Windows

(* Only a clear stream without history is beyond the limit, as long as no   *)
(* function of one block has been at it.                                    *)
Kept    == kind = "cleared" /\ hist = 0
Below   == kind = "byU32" /\ off <= IndexLimit
ChainOK == started \in BOOLEAN /\ (started => Kept \/ Below)

Attached == attached \in BOOLEAN /\ (attached => dictHist # 0)

(* The other stream holds nothing, or a dictionary that ends at KB64.       *)
DictOK == /\ dictOff \in Nat /\ dictHist \in 0..KB64 /\ dictEntries \subseteq Nat \ {0}
          /\ dictHist # 0 => dictOff = KB64
          /\ \A e \in dictEntries : KB64 - dictHist <= e /\ e + HASH_UNIT <= KB64

(* The block starts at the index of the stream, and its parameters are one  *)
(* of the combinations the functions call the compressor with.              *)
BlockOK ==
  /\ block \in Blocks
  /\ block.stage = "none" => block = NoBlock
  /\ block.stage = "called" => off = block.start
  /\ block.stage = "open" => /\ block.size \in 1..MAX_INPUT_SIZE
                              /\ off = block.start + block.size /\ kind = block.type
                              /\ ~Overrun
  /\ block.stage = "called" /\ Overrun => Kept
  /\ block.stage # "none" /\ block.dict = "none" => ~started
  /\ block.stage # "none" => block.type # "cleared"
  /\ block.dict # "none" => block.type = "byU32" /\ (~Overrun => block.start + block.size <= IndexLimit)
  /\ block.dict = "none" => block.hist = 0
  /\ block.dict # "context" => block.hist <= block.start
  /\ block.dict = "context" => block.hist = dictHist /\ dictHist # 0 /\ ~block.small
  /\ block.dict = "external" /\ block.size > 0 =>
       block.hist = 0 \/ block.hist >= MINMATCH \/ block.start >= KB64
  /\ block.type = "byU16" =>
       /\ block.size < Limit64K
       /\ block.start = 0 \/ block.start >= KB64 \/ block.start + block.size < KB64

(* Where the code does not test against the start of the history, the       *)
(* history is as long as the window, or goes back to the index 0, or the    *)
(* table holds nothing older.                                               *)
Reach ==
  block.dict # "context" /\ ~block.small =>
    \/ block.hist >= KB64
    \/ block.hist >= block.start
    \/ /\ block.start >= KB64 /\ block.type # "byU16"
       /\ \A e \in entries : e >= block.start - block.hist

(* No entry lies across the seam between the history and the block.         *)
Seam ==
  block.dict # "none" => \A e \in entries : e < block.start => e + MINMATCH <= block.start

IInv == CtxOK /\ ChainOK /\ Attached /\ DictOK /\ BlockOK /\ Reach /\ Seam
-----------------------------------------------------------------------------
(* What the helpers give.                                                  *)

(* The sizes are numbers, and the distance is below the window. *)
LEMMA Constants == KB64 \in Nat /\ KB64 >= 1 /\ DISTANCE_MAX \in Nat /\ DISTANCE_MAX < KB64
                   /\ KB4 \in Nat /\ KB4 >= 1 /\ KB4 <= KB64 /\ GB1 \in Nat
                   /\ IndexLimit \in Nat /\ MAX_INPUT_SIZE \in Nat
                   /\ KB64 + MAX_INPUT_SIZE <= IndexLimit /\ GB1 + KB64 <= IndexLimit
                   /\ IndexSpan \in Nat /\ IndexLimit + MAX_INPUT_SIZE < IndexSpan
                   /\ Limit64K = KB64 + 11 /\ MFLIMIT = 12 /\ MINMATCH = 4 /\ HASH_UNIT = 8
                   /\ minLength = 13
BY WindowAssumption, SizesAssumption DEF Limit64K, MFLIMIT, MINMATCH, HASH_UNIT, minLength

(* A sum of 32 bits loses what goes round.                                  *)
LEMMA U32Is ==
  ASSUME NEW i \in Nat, i < 2 * IndexSpan
  PROVE  U32(i) = IF i < IndexSpan THEN i ELSE i - IndexSpan
BY Constants DEF U32

(* Whole windows are counted round in whole windows.                        *)
LEMMA WindowsIs ==
  /\ 0 \in Windows /\ KB64 \in Windows
  /\ \A o \in Windows : o \in Nat /\ (o = 0 \/ o >= KB64)
  /\ \A o \in Windows : o < IndexSpan => /\ U32(o + KB64) \in Windows
                                         /\ U32(o + KB64) < IndexSpan
<1>1. 0 \in Windows /\ KB64 \in Windows
  <2>1. 0 = 0 * KB64 /\ KB64 = 1 * KB64 BY Constants
  <2> QED BY <2>1 DEF Windows
<1>2. \A o \in Windows : o \in Nat /\ (o = 0 \/ o >= KB64)
  <2>1. TAKE o \in Windows
  <2>2. PICK k \in Nat : o = k * KB64 BY DEF Windows
  <2>3. k = 0 \/ k - 1 \in Nat BY <2>2
  <2>4. k * KB64 = 0 \/ k * KB64 = (k - 1) * KB64 + KB64 BY <2>2, <2>3, Constants
  <2>5. k - 1 \in Nat => (k - 1) * KB64 \in Nat BY Constants
  <2> QED BY <2>2, <2>3, <2>4, <2>5, Constants
<1>3. ASSUME NEW o \in Windows, o < IndexSpan
      PROVE  U32(o + KB64) \in Windows /\ U32(o + KB64) < IndexSpan
  <2>1. PICK k \in Nat : o = k * KB64 BY DEF Windows
  <2>2. o + KB64 = (k + 1) * KB64 /\ k + 1 \in Nat BY <2>1, Constants
  <2>3. o + KB64 \in Windows /\ o + KB64 \in Nat /\ o \in Nat BY <2>2, <1>2 DEF Windows
  <2>4. PICK m \in Nat : IndexSpan = m * KB64 BY SizesAssumption, Constants
  <2>5. o + KB64 <= IndexSpan
    <3>1. k < m BY <2>1, <2>4, <1>3, Constants
    <3>2. (k + 1) * KB64 <= m * KB64 BY <3>1, Constants
    <3> QED BY <2>2, <2>4, <3>2
  <2>6. U32(o + KB64) = IF o + KB64 < IndexSpan THEN o + KB64 ELSE o + KB64 - IndexSpan
    BY <2>3, <2>5, U32Is, Constants
  <2> QED BY <2>3, <2>5, <2>6, <1>1, Constants
<1> QED BY <1>1, <1>2, <1>3

(* A position lies in the block and twelve bytes before its end.            *)
LEMMA PositionInBlock ==
  ASSUME block \in Blocks, NEW i \in Positions
  PROVE  i \in Nat /\ block.start <= i /\ i + 12 <= block.start + block.size
BY Constants DEF Positions, Blocks

(* An entry made for a position is no larger than that, and in a table of   *)
(* 32 bits it is the position.                                              *)
LEMMA StoredSmall ==
  ASSUME NEW i \in Nat
  PROVE  Stored(i) \in Nat /\ Stored(i) <= i /\ (block.type # "byU16" => Stored(i) = i)
BY Constants DEF Stored

(* Between blocks nothing is asked of the block.                            *)
LEMMA IdleKeepsIInv ==
  ASSUME IInv, Idle, UNCHANGED block, CtxOK', ChainOK', Attached', DictOK'
  PROVE  IInv'
<1>1. block = NoBlock /\ block' = NoBlock BY DEF IInv, BlockOK, Idle
<1>2. BlockOK' BY <1>1, Constants DEF BlockOK, NoBlock, Blocks, Kinds, Dicts
<1>3. Reach' BY <1>1 DEF Reach, NoBlock
<1>4. Seam' BY <1>1 DEF Seam, NoBlock
<1> QED BY <1>2, <1>3, <1>4 DEF IInv

(* A cleared stream is consistent. *)
LEMMA ClearedOK ==
  ASSUME Cleared
  PROVE  CtxOK' /\ Attached' /\ Kept'
<1>1. CtxOK' BY WindowsIs, Constants DEF Cleared, CtxOK, Kinds
<1>2. Attached' /\ Kept' BY DEF Cleared, Attached, Kept
<1> QED BY <1>1, <1>2

(* A table that is kept keeps its entries below the index, which only grows *)
(* unless the table is clear.                                               *)
LEMMA PrepareTableOK ==
  ASSUME CtxOK, NEW n \in Int, NEW type \in {"byU16", "byU32", "byPtr"}, PrepareTable(n, type)
  PROVE  /\ CtxOK' /\ Attached' /\ hist' = 0
         /\ \/ kind' = "cleared" /\ entries' = {} /\ off' \in Windows
            \/ /\ ~Stale(n, type) /\ kind = type /\ kind' = type /\ entries' = entries
               /\ type = "byU16" => off' = off
         /\ type = "byU32" => Kept' \/ Below'
<1>0. Attached' /\ hist' = 0 BY DEF PrepareTable, Attached
<1>1. CASE Stale(n, type)
  <2>1. off' = 0 /\ kind' = "cleared" /\ entries' = {} /\ hist' = 0 BY <1>1 DEF PrepareTable
  <2> QED BY <1>0, <2>1, WindowsIs, Constants DEF CtxOK, Kinds, Kept
<1>2. CASE ~Stale(n, type) /\ kind = "cleared"
  <2>0. entries = {} /\ off \in Windows /\ off < IndexSpan BY <1>2, Constants DEF CtxOK
  <2>1. off' = Gap(off, type) /\ kind' = kind /\ entries' = {} /\ off \in Windows /\ off < IndexSpan
    BY <1>2, <2>0 DEF PrepareTable
  <2>2. off' \in Windows /\ off' < IndexSpan BY <2>1, WindowsIs DEF Gap
  <2>3. off' \in 0..(IndexSpan - 1) BY <2>2, WindowsIs, Constants
  <2> QED BY <1>0, <1>2, <2>1, <2>2, <2>3 DEF CtxOK, Kept, Kinds
<1>3. CASE ~Stale(n, type) /\ kind # "cleared"
  <2>1. off' = Gap(off, type) /\ kind' = kind /\ entries' = entries BY <1>3 DEF PrepareTable
  <2>2. kind = type /\ type # "byPtr" /\ (type = "byU32" => off <= GB1) BY <1>3, Constants DEF Stale, CtxOK
  <2>3. off \in Nat BY Constants DEF CtxOK
  <2>4. type = "byU32" => off' = off \/ off' = off + KB64
    <3>1. ASSUME type = "byU32" PROVE U32(off + KB64) = off + KB64
      BY <2>2, <2>3, <3>1, U32Is, Constants
    <3> QED BY <2>1, <3>1 DEF Gap
  <2>5. type # "byU32" => off' = off BY <2>1 DEF Gap
  <2>6. off' \in 0..(IndexSpan - 1) /\ off' >= off /\ (type = "byU32" => off' <= IndexLimit)
    BY <2>2, <2>3, <2>4, <2>5, Constants DEF CtxOK
  <2>7. \A e \in entries' : e + HASH_UNIT <= off' BY <2>1, <2>3, <2>6, Constants DEF CtxOK
  <2>8. CtxOK' BY <1>0, <1>3, <2>1, <2>6, <2>7 DEF CtxOK
  <2>9. type = "byU32" => Below' BY <2>1, <2>2, <2>6 DEF Below
  <2> QED BY <1>0, <1>3, <2>1, <2>2, <2>5, <2>8, <2>9
<1> QED BY <1>1, <1>2, <1>3

(* Rescaled entries keep their distance from the end; what is not rescaled  *)
(* stays below the limit, or goes past all of 32 bits.                      *)
LEMMA RescaledOK ==
  ASSUME CtxOK, NEW n \in 0..MAX_INPUT_SIZE
  PROVE  /\ RescaledOff(n) \in 0..(IndexSpan - 1)
         /\ RescaledOff(n) + n <= IndexLimit \/ (RescaledOff(n) + n >= IndexSpan /\ off > IndexLimit)
         /\ RescaledHist(n) \in Nat /\ RescaledHist(n) <= RescaledOff(n) /\ RescaledHist(n) <= hist
         /\ RescaledEntries(n) \subseteq Nat \ {0}
         /\ \A e \in RescaledEntries(n) : e + HASH_UNIT <= RescaledOff(n)
         /\ RescaledEntries(n) # {} => entries # {}
         /\ RescaledOff(n) = off \/ RescaledOff(n) = KB64
<1>0. off \in Nat /\ off < IndexSpan /\ n \in Nat /\ n <= MAX_INPUT_SIZE BY Constants DEF CtxOK
<1>00. U32(off + n) = IF off + n < IndexSpan THEN off + n ELSE off + n - IndexSpan
  BY <1>0, U32Is, Constants
<1>1. CASE Rescaled(n)
  <2>1. \A e \in RescaledEntries(n) : \E d \in entries : e = d - (off - KB64) /\ e \notin -off .. 0
    BY <1>1 DEF RescaledEntries
  <2>2. \A e \in RescaledEntries(n) : e \in Nat /\ e # 0 /\ e + HASH_UNIT <= KB64
    BY <2>1, <1>0, Constants DEF CtxOK
  <2>3. KB64 < IndexSpan BY Constants
  <2> QED BY <1>0, <1>1, <2>1, <2>2, <2>3, Constants DEF CtxOK, RescaledOff, RescaledHist
<1>2. CASE ~Rescaled(n)
  <2>1. RescaledOff(n) = off /\ RescaledHist(n) = hist /\ RescaledEntries(n) = entries
    BY <1>2 DEF RescaledOff, RescaledHist, RescaledEntries
  <2>2. off + n <= IndexLimit \/ (off + n >= IndexSpan /\ off > IndexLimit)
    BY <1>0, <1>00, <1>2, Constants DEF Rescaled
  <2>3. hist \in Nat /\ hist <= off /\ \A e \in entries : e + HASH_UNIT <= off BY DEF CtxOK
  <2>4. entries \subseteq Nat \ {0} /\ off \in 0..(IndexSpan - 1) BY DEF CtxOK
  <2>5. /\ RescaledOff(n) \in 0..(IndexSpan - 1)
        /\ RescaledOff(n) + n <= IndexLimit \/ (RescaledOff(n) + n >= IndexSpan /\ off > IndexLimit)
        /\ RescaledOff(n) = off \/ RescaledOff(n) = KB64
    BY <2>1, <2>2, <2>4
  <2>6. RescaledHist(n) \in Nat /\ RescaledHist(n) <= RescaledOff(n) /\ RescaledHist(n) <= hist
    BY <2>1, <2>3
  <2>7. /\ RescaledEntries(n) \subseteq Nat \ {0}
        /\ \A e \in RescaledEntries(n) : e + HASH_UNIT <= RescaledOff(n)
        /\ RescaledEntries(n) # {} => entries # {}
    BY <2>1, <2>3, <2>4
  <2> QED BY <2>5, <2>6, <2>7
<1> QED BY <1>1, <1>2

(* A block that passes 32 bits has bytes, and is not below the limit.       *)
LEMMA SumIs ==
  \A o \in 0..(IndexSpan - 1), m \in 0..MAX_INPUT_SIZE :
    /\ o + m >= IndexSpan => m \in 1..MAX_INPUT_SIZE
    /\ ~(o + m >= IndexSpan /\ o + m <= IndexLimit)
BY Constants

(* What is held fits the window. *)
LEMMA HeldSmall ==
  ASSUME NEW n \in Int
  PROVE  Held(n) \in 0..KB64
BY Constants DEF Held

(* The entries of a loaded dictionary lie within it and at the end of the window. *)
LEMMA LoadsOK ==
  ASSUME NEW n \in Int, NEW E, Loads(n, E)
  PROVE  /\ E \subseteq Nat \ {0} /\ (Held(n) = 0 => E = {})
         /\ \A e \in E : KB64 - Held(n) <= e /\ e + HASH_UNIT <= KB64
<1>1. E \subseteq (KB64 - Held(n)) .. (KB64 - HASH_UNIT) /\ 0 \notin E /\ (Held(n) = 0 => E = {})
  BY DEF Loads
<1> QED BY <1>1, HeldSmall, Constants
-----------------------------------------------------------------------------
(* A call: what each function hands to the compressor.                     *)

(* The sizes of the inputs are numbers. *)
LEMMA SizesTyped == \A n \in Sizes : n \in Int
BY UserAssumption

(* What a function hands on is a block at the stage of a call. *)
LEMMA CalledTyped ==
  ASSUME NEW start \in Nat, NEW n \in Int, NEW t \in Kinds, NEW d \in Dicts, NEW small \in BOOLEAN,
         NEW h \in Nat, block' = Called(start, n, t, d, small, h)
  PROVE  /\ block' \in Blocks
         /\ block'.stage = "called" /\ block'.start = start /\ block'.size = n /\ block'.type = t
         /\ block'.dict = d /\ block'.small = small /\ block'.hist = h
BY DEF Called, Blocks

(* The one-shot function keeps it. *)
LEMMA CompressFastKeeps ==
  ASSUME IInv, CompressFast
  PROVE  IInv'
<1>1. CtxOK' /\ Attached' BY ClearedOK DEF CompressFast
<1>2. DictOK' /\ ChainOK' /\ started' = FALSE BY DEF IInv, DictOK, CompressFast, dict, ChainOK
<1>3. PICK n \in Sizes : \E t \in TypesFor(n) : block' = Called(0, n, t, "none", FALSE, 0)
  BY DEF CompressFast
<1>31. PICK t \in TypesFor(n) : block' = Called(0, n, t, "none", FALSE, 0) BY <1>3
<1>4. n \in Int /\ t \in Kinds /\ t # "cleared" /\ (t = "byU16" => n < Limit64K)
  BY <1>3, <1>31, SizesTyped DEF TypesFor, Kinds
<1>5. /\ block' \in Blocks
      /\ block'.stage = "called" /\ block'.start = 0 /\ block'.size = n /\ block'.type = t
      /\ block'.dict = "none" /\ block'.small = FALSE /\ block'.hist = 0
  BY <1>31, <1>4, CalledTyped DEF Dicts
<1>6. off' = 0 BY DEF CompressFast, Cleared
<1>61. ~Overrun' BY <1>4, <1>5, Constants DEF Overrun
<1>7. BlockOK' BY <1>2, <1>4, <1>5, <1>6, <1>61 DEF BlockOK
<1>8. Reach' BY <1>5 DEF Reach
<1>9. Seam' BY <1>5 DEF Seam
<1> QED BY <1>1, <1>2, <1>7, <1>8, <1>9 DEF IInv

(* So does the one with a fast reset. *)
LEMMA CompressFastResetKeeps ==
  ASSUME IInv, CompressFastReset
  PROVE  IInv'
<1>0. PICK n \in Sizes : \E t \in TypesFor(n) :
        /\ n >= 0 /\ PrepareTable(n, t)
        /\ block' = Called(off', n, t, "none", t = "byU16" /\ off' # 0, 0)
  BY DEF CompressFastReset
<1>1. PICK t \in TypesFor(n) :
        /\ n >= 0 /\ PrepareTable(n, t)
        /\ block' = Called(off', n, t, "none", t = "byU16" /\ off' # 0, 0)
  BY <1>0
<1>2. /\ n \in Int /\ t \in Kinds /\ (t = "byU16" => n < Limit64K) /\ (t # "byU16" => n >= Limit64K)
      /\ t # "cleared"
  BY <1>0, <1>1, SizesTyped, Constants DEF TypesFor, Kinds
<1>3. /\ CtxOK' /\ Attached' /\ hist' = 0
      /\ \/ kind' = "cleared" /\ entries' = {} /\ off' \in Windows
         \/ /\ ~Stale(n, t) /\ kind = t /\ kind' = t /\ entries' = entries
            /\ t = "byU16" => off' = off
  BY <1>1, <1>2, PrepareTableOK DEF IInv, Kinds
<1>4. DictOK' /\ ChainOK' /\ started' = FALSE BY DEF IInv, DictOK, CompressFastReset, dict, ChainOK
<1>5. DEFINE small == t = "byU16" /\ off' # 0
<1>50. off' \in Nat BY <1>3, Constants DEF CtxOK
<1>6. /\ block' \in Blocks
      /\ block'.stage = "called" /\ block'.start = off' /\ block'.size = n /\ block'.type = t
      /\ block'.dict = "none" /\ block'.small = small /\ block'.hist = 0
  <2>2. small \in BOOLEAN /\ "none" \in Dicts /\ 0 \in Nat BY DEF Dicts
  <2>3. block' = Called(off', n, t, "none", small, 0) BY <1>1
  <2> HIDE DEF small
  <2> QED BY <1>2, <1>50, <2>2, <2>3, CalledTyped
<1>7. \/ kind' = "cleared" /\ entries' = {} /\ (off' = 0 \/ off' >= KB64)
      \/ t = "byU16" /\ off' + n < KB64
  <2>1. CASE kind' = "cleared" /\ entries' = {} /\ off' \in Windows BY <2>1, WindowsIs
  <2>2. CASE /\ ~Stale(n, t) /\ kind = t /\ kind' = t /\ entries' = entries
             /\ t = "byU16" => off' = off
    <3>1. t = "byU16" BY <1>2, <2>2, Constants DEF Stale
    <3>2. ~(off + n >= KB64 - 1) BY <1>2, <2>2, <3>1 DEF Stale
    <3> QED BY <1>2, <1>50, <2>2, <3>1, <3>2, Constants
  <2> QED BY <1>3, <2>1, <2>2
<1>71. Overrun' => Kept'
  <2>1. Overrun' => off' + n >= IndexSpan BY <1>6 DEF Overrun
  <2>2. off' + n < KB64 => ~(off' + n >= IndexSpan)
    <3>1. n \in Int /\ off' + n \in Int BY <1>2, <1>50
    <3>2. KB64 <= IndexSpan BY Constants
    <3> QED BY <3>1, <3>2, Constants
  <2>3. Overrun' => kind' = "cleared" BY <1>7, <2>1, <2>2
  <2> QED BY <1>3, <2>3 DEF Kept
<1>8. BlockOK'
  <2> HIDE DEF small
  <2> QED BY <1>2, <1>4, <1>6, <1>7, <1>71, <1>50 DEF BlockOK
<1>9. Reach'
  <2>1. CASE t = "byU16" /\ off' # 0 BY <1>6, <2>1 DEF Reach
  <2>2. CASE off' = 0 BY <1>6, <2>2 DEF Reach
  <2>3. CASE t # "byU16" /\ off' # 0 BY <1>6, <1>7, <2>3 DEF Reach
  <2> QED BY <2>1, <2>2, <2>3
<1>10. Seam' BY <1>6 DEF Seam
<1> QED BY <1>3, <1>4, <1>8, <1>9, <1>10 DEF IInv

(* With a history of its own: what a block may reach of it.                 *)
LEMMA CompressContinueKeeps ==
  ASSUME IInv, CompressContinue
  PROVE  IInv'
<1>1. PICK n \in Accepted : \E h \in Left(n) : \E d \in {"prefix", "external"} :
       /\ d = "external" /\ n > 0 /\ h > 0 => h >= MINMATCH
       /\ off' = RescaledOff(n) /\ entries' = RescaledEntries(n) /\ hist' = h
       /\ block' = Called(off', n, "byU32", d, Short(off', h), h)
  BY DEF CompressContinue
<1>2. PICK h \in Left(n) : \E d \in {"prefix", "external"} :
       /\ d = "external" /\ n > 0 /\ h > 0 => h >= MINMATCH
       /\ off' = RescaledOff(n) /\ entries' = RescaledEntries(n) /\ hist' = h
       /\ block' = Called(off', n, "byU32", d, Short(off', h), h)
  BY <1>1
<1>3. PICK d \in {"prefix", "external"} :
       /\ d = "external" /\ n > 0 /\ h > 0 => h >= MINMATCH
       /\ off' = RescaledOff(n) /\ entries' = RescaledEntries(n) /\ hist' = h
       /\ block' = Called(off', n, "byU32", d, Short(off', h), h)
  BY <1>2
<1>4. n \in 0..MAX_INPUT_SIZE BY DEF Accepted
<1>5. /\ RescaledOff(n) \in 0..(IndexSpan - 1) /\ RescaledOff(n) \in Nat
      /\ RescaledOff(n) + n <= IndexLimit \/ (RescaledOff(n) + n >= IndexSpan /\ off > IndexLimit)
      /\ RescaledHist(n) \in Nat /\ RescaledHist(n) <= RescaledOff(n) /\ RescaledHist(n) <= hist
      /\ RescaledEntries(n) \subseteq Nat \ {0}
      /\ \A e \in RescaledEntries(n) : e + HASH_UNIT <= RescaledOff(n)
      /\ RescaledEntries(n) # {} => entries # {}
      /\ RescaledOff(n) = off \/ RescaledOff(n) = KB64
  BY <1>4, RescaledOK, Constants DEF IInv
<1>6. h \in Nat /\ h <= off' /\ h <= hist /\ hist \in Nat
  <2>1. h = RescaledHist(n) \/ (h \in Sizes /\ 0 <= h /\ h < RescaledHist(n)) BY DEF Left
  <2>2. hist \in Nat BY DEF IInv, CtxOK
  <2> QED BY <1>3, <1>5, <2>1, <2>2, SizesTyped
<1>7. UNCHANGED <<kind, attached, dict, started>> /\ started BY DEF CompressContinue
<1>8. CtxOK' BY <1>3, <1>5, <1>6, <1>7, WindowsIs DEF IInv, CtxOK
<1>9. Attached' /\ DictOK' BY <1>7 DEF IInv, Attached, DictOK, dict
<1>91. (off > IndexLimit => Kept') /\ ChainOK'
  <2>1. Kept \/ Below BY <1>3, <1>5, <1>6, <1>7 DEF IInv, ChainOK
  <2>2. Kept => Kept' BY <1>3, <1>5, <1>6, <1>7 DEF Kept
  <2>3. off \in Nat /\ off' \in Nat /\ (off' = off \/ off' <= IndexLimit)
    BY <1>3, <1>5, <1>6, <1>7, Constants DEF IInv, CtxOK
  <2>4. Below => Below' BY <1>3, <1>5, <1>6, <1>7, <2>3, Constants DEF Below
  <2>5. Below => ~(off > IndexLimit) BY <2>3, Constants DEF Below
  <2> QED BY <1>3, <1>5, <1>6, <1>7, <2>1, <2>2, <2>4, <2>5 DEF ChainOK
<1>10. DEFINE small == Short(off', h)
<1>11. /\ block' \in Blocks
       /\ block'.stage = "called" /\ block'.start = off' /\ block'.size = n
       /\ block'.type = "byU32" /\ block'.dict = d /\ block'.small = small /\ block'.hist = h
  <2>1. off' \in Nat /\ n \in Int BY <1>3, <1>4, <1>5
  <2>2. small \in BOOLEAN /\ d \in Dicts /\ "byU32" \in Kinds BY DEF Short, Dicts, Kinds
  <2>3. block' = Called(off', n, "byU32", d, small, h) BY <1>3
  <2> HIDE DEF small
  <2> QED BY <1>6, <2>1, <2>2, <2>3, CalledTyped
<1>12. BlockOK'
  <2>1. d = "external" /\ n > 0 => h = 0 \/ h >= MINMATCH BY <1>3, <1>6
  <2>2. (~Overrun' => off' + n <= IndexLimit) /\ (Overrun' => Kept')
    BY <1>3, <1>4, <1>5, <1>11, <1>91, Constants DEF Overrun
  <2> HIDE DEF small
  <2> QED BY <1>3, <1>6, <1>11, <2>1, <2>2 DEF BlockOK
<1>13. Reach'
  <2>1. ~small => h >= KB64 \/ h >= off' BY <1>3, <1>5, <1>6, Constants DEF Short
  <2> HIDE DEF small
  <2> QED BY <1>11, <2>1 DEF Reach
<1>14. Seam'
  <2>1. \A e \in entries' : e \in Nat /\ e + MINMATCH <= off'
    BY <1>3, <1>5, Constants
  <2> QED BY <1>11, <2>1 DEF Seam
<1> QED BY <1>8, <1>9, <1>91, <1>12, <1>13, <1>14 DEF IInv

(* With an attached dictionary, looked up beside the own table.             *)
LEMMA CompressAttachedKeeps ==
  ASSUME IInv, CompressAttached
  PROVE  IInv'
<1>1. PICK n \in Accepted : \E h \in Left(n) :
       /\ n <= KB4
       /\ off' = RescaledOff(n) /\ entries' = RescaledEntries(n) /\ hist' = h
       /\ block' = Called(off', n, "byU32", "context", FALSE, dictHist)
  BY DEF CompressAttached
<1>2. PICK h \in Left(n) :
       /\ n <= KB4
       /\ off' = RescaledOff(n) /\ entries' = RescaledEntries(n) /\ hist' = h
       /\ block' = Called(off', n, "byU32", "context", FALSE, dictHist)
  BY <1>1
<1>3. n \in 0..MAX_INPUT_SIZE BY DEF Accepted
<1>4. /\ RescaledOff(n) \in 0..(IndexSpan - 1) /\ RescaledOff(n) \in Nat
      /\ RescaledOff(n) + n <= IndexLimit \/ (RescaledOff(n) + n >= IndexSpan /\ off > IndexLimit)
      /\ RescaledHist(n) \in Nat /\ RescaledHist(n) <= RescaledOff(n) /\ RescaledHist(n) <= hist
      /\ RescaledEntries(n) \subseteq Nat \ {0}
      /\ \A e \in RescaledEntries(n) : e + HASH_UNIT <= RescaledOff(n)
      /\ RescaledEntries(n) # {} => entries # {}
      /\ RescaledOff(n) = off \/ RescaledOff(n) = KB64
  BY <1>3, RescaledOK, Constants DEF IInv
<1>5. h \in Nat /\ h <= off' /\ h <= hist /\ hist \in Nat
  <2>1. h = RescaledHist(n) \/ (h \in Sizes /\ 0 <= h /\ h < RescaledHist(n)) BY DEF Left
  <2>2. hist \in Nat BY DEF IInv, CtxOK
  <2> QED BY <1>2, <1>4, <2>1, <2>2, SizesTyped
<1>6. UNCHANGED <<kind, attached, dict, started>> /\ attached /\ started BY DEF CompressAttached
<1>7. CtxOK' BY <1>2, <1>4, <1>5, <1>6, WindowsIs DEF IInv, CtxOK
<1>71. (off > IndexLimit => Kept') /\ ChainOK'
  <2>1. Kept \/ Below BY <1>2, <1>4, <1>5, <1>6 DEF IInv, ChainOK
  <2>2. Kept => Kept' BY <1>2, <1>4, <1>5, <1>6 DEF Kept
  <2>3. off \in Nat /\ off' \in Nat /\ (off' = off \/ off' <= IndexLimit)
    BY <1>2, <1>4, <1>5, <1>6, Constants DEF IInv, CtxOK
  <2>4. Below => Below' BY <1>2, <1>4, <1>5, <1>6, <2>3, Constants DEF Below
  <2>5. Below => ~(off > IndexLimit) BY <2>3, Constants DEF Below
  <2> QED BY <1>2, <1>4, <1>5, <1>6, <2>1, <2>2, <2>4, <2>5 DEF ChainOK
<1>8. Attached' /\ DictOK' BY <1>6 DEF IInv, Attached, DictOK, dict
<1>9. dictHist \in Nat /\ dictHist' = dictHist /\ dictHist # 0
  BY <1>6 DEF IInv, Attached, DictOK, dict
<1>10. /\ block' \in Blocks
       /\ block'.stage = "called" /\ block'.start = off' /\ block'.size = n
       /\ block'.type = "byU32" /\ block'.dict = "context" /\ block'.small = FALSE
       /\ block'.hist = dictHist
  <2>1. off' \in Nat /\ n \in Int BY <1>2, <1>3, <1>4
  <2>2. "context" \in Dicts /\ "byU32" \in Kinds /\ FALSE \in BOOLEAN BY DEF Dicts, Kinds
  <2>3. block' = Called(off', n, "byU32", "context", FALSE, dictHist) BY <1>2
  <2> QED BY ZenonT(60), <1>9, <2>1, <2>2, <2>3, CalledTyped
<1>11. BlockOK'
  <2>0. Overrun' <=> n \in 1..MAX_INPUT_SIZE /\ off' + n >= IndexSpan BY <1>10 DEF Overrun
  <2>01. off' \in 0..(IndexSpan - 1) /\ (off' + n <= IndexLimit \/ (off' + n >= IndexSpan /\ off > IndexLimit))
    BY <1>2, <1>4
  <2>1. (~Overrun' => off' + n <= IndexLimit) /\ (Overrun' => Kept')
    BY <1>3, <2>0, <2>01, <1>71, SumIs
  <2> QED BY <1>9, <1>10, <2>1 DEF BlockOK
<1>12. Reach' BY <1>10 DEF Reach
<1>13. Seam'
  <2>1. \A e \in entries' : e \in Nat /\ e + MINMATCH <= off'
    BY <1>2, <1>4, Constants
  <2> QED BY <1>10, <2>1 DEF Seam
<1> QED BY <1>7, <1>71, <1>8, <1>11, <1>12, <1>13 DEF IInv

(* With an attached dictionary, taken over.                                 *)
LEMMA CompressCopiedKeeps ==
  ASSUME IInv, CompressCopied
  PROVE  IInv'
<1>1. PICK n \in Accepted :
       /\ off' = dictOff /\ kind' = "byU32" /\ entries' = dictEntries /\ hist' = dictHist
       /\ attached' = FALSE
       /\ block' = Called(off', n, "byU32", "external", FALSE, hist')
  BY DEF CompressCopied
<1>2. n \in 0..MAX_INPUT_SIZE BY DEF Accepted
<1>3. UNCHANGED <<dict, started>> /\ attached BY DEF CompressCopied
<1>4. dictHist # 0 /\ dictOff = KB64 BY <1>3 DEF IInv, Attached, DictOK
<1>5. /\ off' = KB64 /\ hist' \in Nat /\ hist' <= KB64
      /\ entries' \subseteq Nat \ {0}
      /\ \A e \in entries' : KB64 - hist' <= e /\ e + HASH_UNIT <= KB64
  BY <1>1, <1>4, Constants DEF IInv, DictOK
<1>6. CtxOK' BY <1>1, <1>5, Constants DEF CtxOK, Kinds
<1>61. ChainOK' BY <1>1, <1>3, <1>5, Constants DEF IInv, ChainOK, Below
<1>7. Attached' BY <1>1 DEF Attached
<1>8. DictOK' BY <1>3 DEF IInv, DictOK, dict
<1>9. /\ block' \in Blocks
      /\ block'.stage = "called" /\ block'.start = KB64 /\ block'.size = n
      /\ block'.type = "byU32" /\ block'.dict = "external" /\ block'.small = FALSE
      /\ block'.hist = hist'
  <2>1. n \in Int /\ KB64 \in Nat BY <1>2, Constants
  <2>2. block' = Called(KB64, n, "byU32", "external", FALSE, hist') BY <1>1, <1>5
  <2>3. "external" \in Dicts /\ "byU32" \in Kinds /\ FALSE \in BOOLEAN BY DEF Dicts, Kinds
  <2> QED BY ZenonT(60), <1>5, <2>1, <2>2, <2>3, CalledTyped
<1>10. BlockOK'
  <2>1. KB64 + n <= IndexLimit /\ ~Overrun' BY <1>2, <1>9, Constants DEF Overrun
  <2> QED BY <1>5, <1>9, <2>1, Constants DEF BlockOK
<1>11. Reach'
  <2>1. \A e \in entries' : e >= KB64 - hist' BY <1>5, Constants
  <2> QED BY <1>9, <2>1, Constants DEF Reach
<1>12. Seam'
  <2>1. \A e \in entries' : e + MINMATCH <= KB64
    <3>1. TAKE e \in entries'
    <3>2. e \in Nat /\ e + HASH_UNIT <= KB64 BY <1>5
    <3> QED BY <3>2, Constants
  <2> QED BY <1>9, <2>1 DEF Seam
<1> QED BY <1>6, <1>61, <1>7, <1>8, <1>10, <1>11, <1>12 DEF IInv
-----------------------------------------------------------------------------
(* Between blocks.                                                         *)

(* A stream that is set up. *)
LEMMA InitStreamKeeps ==
  ASSUME IInv, InitStream
  PROVE  IInv'
<1>1. CtxOK' /\ ChainOK' /\ Attached' BY ClearedOK DEF InitStream, ChainOK
<1>2. DictOK' BY DEF IInv, DictOK, InitStream, dict
<1> QED BY <1>1, <1>2, IdleKeepsIInv DEF InitStream

(* A stream that is reset fast. *)
LEMMA ResetStreamFastKeeps ==
  ASSUME IInv, ResetStreamFast
  PROVE  IInv'
<1>1. CtxOK' /\ ChainOK' /\ Attached' BY PrepareTableOK DEF ResetStreamFast, IInv, ChainOK
<1>2. DictOK' BY DEF IInv, DictOK, ResetStreamFast, dict
<1> QED BY <1>1, <1>2, IdleKeepsIInv DEF ResetStreamFast

(* A dictionary that is loaded. *)
LEMMA LoadDictKeeps ==
  ASSUME IInv, LoadDict
  PROVE  IInv'
<1>1. PICK n \in Sizes :
       /\ off' = KB64 /\ hist' = Held(n) /\ attached' = FALSE /\ Loads(n, entries')
       /\ kind' = IF Held(n) = 0 THEN "cleared" ELSE "byU32"
  BY DEF LoadDict
<1>2. n \in Int BY SizesTyped
<1>3. /\ entries' \subseteq Nat \ {0} /\ (Held(n) = 0 => entries' = {})
      /\ \A e \in entries' : KB64 - Held(n) <= e /\ e + HASH_UNIT <= KB64
  BY <1>1, <1>2, LoadsOK
<1>4. CtxOK' BY <1>1, <1>2, <1>3, HeldSmall, WindowsIs, Constants DEF CtxOK, Kinds
<1>41. ChainOK' BY <1>1, Constants DEF LoadDict, ChainOK, Kept, Below
<1>5. Attached' BY <1>1 DEF Attached
<1>6. DictOK' BY DEF IInv, DictOK, LoadDict, dict
<1> QED BY <1>4, <1>41, <1>5, <1>6, IdleKeepsIInv DEF LoadDict

(* A dictionary that is loaded into the other stream. *)
LEMMA LoadOtherKeeps ==
  ASSUME IInv, LoadOther
  PROVE  IInv'
<1>1. PICK n \in Sizes : dictOff' = KB64 /\ dictHist' = Held(n) /\ Loads(n, dictEntries')
  BY DEF LoadOther
<1>2. n \in Int BY SizesTyped
<1>3. /\ dictEntries' \subseteq Nat \ {0}
      /\ \A e \in dictEntries' : KB64 - Held(n) <= e /\ e + HASH_UNIT <= KB64
  BY <1>1, <1>2, LoadsOK
<1>4. DictOK' BY <1>1, <1>2, <1>3, HeldSmall, Constants DEF DictOK
<1>5. CtxOK' /\ ChainOK' BY DEF IInv, CtxOK, ChainOK, Kept, Below, LoadOther, ctx
<1>6. Attached' BY DEF IInv, Attached, LoadOther, ctx
<1> QED BY <1>4, <1>5, <1>6, IdleKeepsIInv DEF LoadOther

(* A dictionary that is attached. *)
LEMMA AttachDictionaryKeeps ==
  ASSUME IInv, AttachDictionary
  PROVE  IInv'
<1>1. off' = (IF off = 0 THEN KB64 ELSE off) /\ UNCHANGED <<kind, entries, hist, dict, started, block>>
  BY DEF AttachDictionary
<1>2. CtxOK' BY <1>1, WindowsIs, Constants DEF IInv, CtxOK
<1>21. ChainOK' BY <1>1, Constants DEF IInv, ChainOK, Kept, Below
<1>3. DictOK' BY <1>1 DEF IInv, DictOK, dict
<1>4. Attached' BY DEF AttachDictionary, Attached, dict
<1> QED BY <1>2, <1>21, <1>3, <1>4, IdleKeepsIInv DEF AttachDictionary

(* A dictionary that is detached. *)
LEMMA DetachDictionaryKeeps ==
  ASSUME IInv, DetachDictionary
  PROVE  IInv'
<1>1. CtxOK' /\ ChainOK' BY DEF IInv, CtxOK, ChainOK, Kept, Below, DetachDictionary
<1>2. DictOK' BY DEF IInv, DictOK, DetachDictionary, dict
<1>3. Attached' BY DEF DetachDictionary, Attached
<1> QED BY <1>1, <1>2, <1>3, IdleKeepsIInv DEF DetachDictionary

(* A dictionary that is saved. *)
LEMMA SaveDictKeeps ==
  ASSUME IInv, SaveDict
  PROVE  IInv'
<1>1. PICK n \in Sizes \cap Nat : /\ hist' \in {n, KB64, hist}
                                  /\ hist' <= n /\ hist' <= KB64 /\ hist' <= hist
  BY DEF SaveDict
<1>2. hist' \in Nat /\ hist' <= hist /\ hist \in Nat BY <1>1, Constants DEF IInv, CtxOK
<1>3. UNCHANGED <<off, kind, entries, attached, dict, started, block>> BY DEF SaveDict
<1>4. CtxOK' /\ ChainOK' BY <1>2, <1>3, Constants DEF IInv, CtxOK, ChainOK, Kept, Below
<1>5. DictOK' BY <1>3 DEF IInv, DictOK, dict
<1>6. Attached' BY <1>3 DEF IInv, Attached, dict
<1> QED BY <1>3, <1>4, <1>5, <1>6, IdleKeepsIInv DEF SaveDict
-----------------------------------------------------------------------------
(* The block.                                                              *)

(* New entries are positions of the block or, in a table of sixteen bits,   *)
(* something smaller.                                                       *)
LEMMA EntersPositions ==
  ASSUME block \in Blocks, entries \subseteq Nat \ {0}, NEW I \in SUBSET Positions, Enters(I)
  PROVE  /\ entries' \subseteq Nat \ {0}
         /\ \A e \in entries' : \/ e \in entries
                                \/ /\ e + 12 <= block.start + block.size
                                   /\ block.type # "byU16" => e >= block.start
<1>1. /\ 0 \notin entries'
      /\ \A e \in entries' : e \in entries \/ \E i \in I : e = Stored(i)
  BY DEF Enters
<1>2. \A i \in I : /\ Stored(i) \in Nat /\ Stored(i) + 12 <= block.start + block.size
                   /\ block.type # "byU16" => Stored(i) >= block.start
  <2>1. TAKE i \in I
  <2>2. i \in Nat /\ block.start <= i /\ i + 12 <= block.start + block.size BY PositionInBlock
  <2>3. Stored(i) \in Nat /\ Stored(i) <= i /\ (block.type # "byU16" => Stored(i) = i)
    BY <2>2, StoredSmall
  <2>4. block.start \in Nat /\ block.size \in Int BY DEF Blocks
  <2> QED BY <2>2, <2>3, <2>4
<1> QED BY <1>1, <1>2

(* A block that is begun. *)
LEMMA BeginKeeps ==
  ASSUME IInv, Begin
  PROVE  IInv'
<1>1. /\ block.stage = "called" /\ block.size \in 1..MAX_INPUT_SIZE /\ ~Overrun
      /\ block' = [block EXCEPT !.stage = "open"]
      /\ off' = off + block.size /\ kind' = block.type
      /\ hist' = (IF block.dict = "context" THEN 0 ELSE hist) + block.size
      /\ attached' = (attached /\ block.dict # "context")
      /\ Enters(Positions \cap {block.start}) /\ UNCHANGED <<dict, started>>
  BY DEF Begin
<1>2. /\ block \in Blocks /\ block.start \in Nat /\ block.size \in Nat /\ off = block.start
  BY <1>1, Constants DEF IInv, BlockOK, Blocks
<1>3. /\ block' \in Blocks /\ block'.stage = "open"
      /\ block'.start = block.start /\ block'.size = block.size /\ block'.type = block.type
      /\ block'.dict = block.dict /\ block'.small = block.small /\ block'.hist = block.hist
  BY <1>1, <1>2 DEF Blocks
<1>4. /\ entries' \subseteq Nat \ {0}
      /\ \A e \in entries' : \/ e \in entries
                             \/ /\ e + 12 <= block.start + block.size
                                /\ block.type # "byU16" => e >= block.start
  BY <1>1, <1>2, EntersPositions DEF IInv, CtxOK
<1>5. block.type \in Kinds /\ block.type # "cleared" BY <1>1, <1>2 DEF IInv, BlockOK, Blocks
<1>6. DictOK' BY <1>1 DEF IInv, DictOK, dict
<1>7. Attached' BY <1>1 DEF IInv, Attached, dict
<1>8. CtxOK'
  <2>1. \A e \in entries : e \in Nat /\ e + HASH_UNIT <= off BY DEF IInv, CtxOK
  <2>2. \A e \in entries' : e + HASH_UNIT <= off'
    BY <1>1, <1>2, <1>4, <2>1, Constants
  <2>3. off' \in 0..(IndexSpan - 1) /\ hist' \in Nat /\ hist' <= off'
    BY <1>1, <1>2, Constants DEF IInv, CtxOK, Overrun
  <2> QED BY <1>1, <1>4, <1>5, <2>2, <2>3 DEF CtxOK
<1>81. ChainOK'
  <2>1. started => block.type = "byU32" /\ block.start + block.size <= IndexLimit
    BY <1>1 DEF IInv, BlockOK, ChainOK
  <2> QED BY <1>1, <1>2, <2>1 DEF IInv, ChainOK, Below
<1>9. BlockOK'
  <2>1. dictHist' = dictHist /\ started' = started BY <1>1 DEF dict
  <2>2. ~Overrun' BY <1>1, <1>3 DEF Overrun
  <2> QED BY <1>1, <1>2, <1>3, <2>1, <2>2 DEF IInv, BlockOK
<1>10. Reach'
  <2>1. block.type # "byU16" /\ (\A e \in entries : e >= block.start - block.hist) =>
          \A e \in entries' : e >= block.start - block.hist
    BY <1>2, <1>4 DEF Blocks
  <2> QED BY <1>3, <2>1 DEF IInv, Reach
<1>11. Seam'
  <2>1. block.dict # "none" => block.type # "byU16" BY DEF IInv, BlockOK
  <2>2. block.dict # "none" =>
          \A e \in entries' : e < block.start => e + MINMATCH <= block.start
    BY <1>2, <1>4, <2>1 DEF IInv, Seam
  <2> QED BY <1>3, <2>2 DEF Seam
<1> QED BY <1>6, <1>7, <1>8, <1>81, <1>9, <1>10, <1>11 DEF IInv

(* A block that is given up. *)
LEMMA AbandonKeeps ==
  ASSUME IInv, Abandon
  PROVE  IInv'
<1>1. CtxOK' /\ Attached' /\ ChainOK' BY ClearedOK DEF Abandon, ChainOK
<1>2. DictOK' BY DEF IInv, DictOK, Abandon, dict
<1>3. BlockOK' BY Constants DEF Abandon, BlockOK, NoBlock, Blocks, Kinds, Dicts
<1>4. Reach' BY DEF Abandon, Reach, NoBlock
<1>5. Seam' BY DEF Abandon, Seam, NoBlock
<1> QED BY <1>1, <1>2, <1>3, <1>4, <1>5 DEF IInv

(* A position that is looked up. *)
LEMMA LookupKeeps ==
  ASSUME IInv, Lookup
  PROVE  IInv'
<1>1. /\ block.stage = "open"
      /\ \E i \in Positions : Enters({i}) \/ Enters({i, i - 2} \cap Positions)
      /\ UNCHANGED <<off, kind, hist, attached, dict, started, block>>
  BY DEF Lookup
<1>2. /\ block \in Blocks /\ block.start \in Nat /\ block.size \in Nat
      /\ off = block.start + block.size
  BY <1>1, Constants DEF IInv, BlockOK, Blocks
<1>3. PICK I \in SUBSET Positions : Enters(I) BY <1>1
<1>4. /\ entries' \subseteq Nat \ {0}
      /\ \A e \in entries' : \/ e \in entries
                             \/ /\ e + 12 <= block.start + block.size
                                /\ block.type # "byU16" => e >= block.start
  BY <1>2, <1>3, EntersPositions DEF IInv, CtxOK
<1>5. DictOK' BY <1>1 DEF IInv, DictOK, dict
<1>6. Attached' BY <1>1 DEF IInv, Attached, dict
<1>7. CtxOK'
  <2>1. \A e \in entries' : e + HASH_UNIT <= off'
    BY <1>1, <1>2, <1>4, Constants DEF IInv, CtxOK
  <2>2. kind # "cleared" BY <1>1 DEF IInv, BlockOK
  <2> QED BY <1>1, <1>4, <2>1, <2>2 DEF IInv, CtxOK
<1>71. ChainOK' BY <1>1 DEF IInv, ChainOK, Kept, Below
<1>8. BlockOK'
  <2>1. (Overrun' <=> Overrun) /\ block.stage = "open" BY <1>1 DEF Overrun
  <2> QED BY <1>1, <2>1 DEF IInv, BlockOK, dict
<1>9. Reach'
  <2>1. block.type # "byU16" /\ (\A e \in entries : e >= block.start - block.hist) =>
          \A e \in entries' : e >= block.start - block.hist
    BY <1>2, <1>4 DEF Blocks
  <2> QED BY <1>1, <2>1 DEF IInv, Reach
<1>10. Seam'
  <2>1. block.dict # "none" => block.type # "byU16" BY DEF IInv, BlockOK
  <2>2. block.dict # "none" =>
          \A e \in entries' : e < block.start => e + MINMATCH <= block.start
    BY <1>2, <1>4, <2>1 DEF IInv, Seam
  <2> QED BY <1>1, <2>2 DEF Seam
<1> QED BY <1>5, <1>6, <1>7, <1>71, <1>8, <1>9, <1>10 DEF IInv

(* A block that is done. *)
LEMMA DoneKeeps ==
  ASSUME IInv, Done
  PROVE  IInv'
<1>1. /\ block.stage = "open" \/ (block.stage = "called" /\ (block.size = 0 \/ block.dict = "none"))
      /\ block' = NoBlock /\ UNCHANGED <<dict, started>>
  BY DEF Done
<1>2. DictOK' BY <1>1 DEF IInv, DictOK, dict
<1>3. BlockOK' /\ Reach' /\ Seam'
  <2>1. BlockOK' BY <1>1, Constants DEF BlockOK, NoBlock, Blocks, Kinds, Dicts
  <2>2. Reach' BY <1>1 DEF Reach, NoBlock
  <2>3. Seam' BY <1>1 DEF Seam, NoBlock
  <2> QED BY <2>1, <2>2, <2>3
<1>4. CASE block.dict \in {"external", "context"}
  <2>1. hist' = block.size /\ UNCHANGED <<off, kind, entries, attached>> BY <1>4 DEF Done
  <2>2. block.size \in Nat /\ block.size <= off
    BY <1>1, <1>4, Constants DEF IInv, BlockOK, Blocks, CtxOK
  <2>3. CtxOK' BY <2>1, <2>2 DEF IInv, CtxOK
  <2>4. Attached' BY <1>1, <2>1 DEF IInv, Attached, dict
  <2>5. block.stage = "open" => kind # "cleared" BY DEF IInv, BlockOK
  <2>6. ChainOK' BY <1>1, <1>4, <2>1, <2>5 DEF IInv, ChainOK, Kept, Below
  <2> QED BY <1>2, <1>3, <2>3, <2>4, <2>6 DEF IInv
<1>5. CASE UNCHANGED ctx
  <2>1. CtxOK' BY <1>5 DEF IInv, CtxOK, ctx
  <2>2. Attached' BY <1>1, <1>5 DEF IInv, Attached, ctx, dict
  <2>3. ChainOK' BY <1>1, <1>5 DEF IInv, ChainOK, Kept, Below, ctx
  <2> QED BY <1>2, <1>3, <2>1, <2>2, <2>3 DEF IInv
<1>6. CASE Cleared
  <2>1. ChainOK' BY <1>1, <1>6, ClearedOK DEF IInv, ChainOK
  <2> QED BY <1>2, <1>3, <1>6, <2>1, ClearedOK DEF IInv
<1> QED BY <1>4, <1>5, <1>6 DEF Done
-----------------------------------------------------------------------------
(* It holds at the start. *)
LEMMA InitIInv ==
  ASSUME Init
  PROVE  IInv
<1>1. CtxOK /\ ChainOK BY WindowsIs, Constants DEF Init, CtxOK, Kinds, ChainOK, Kept
<1>2. Attached BY DEF Init, Attached
<1>3. DictOK BY Constants DEF Init, DictOK
<1>4. BlockOK BY Constants DEF Init, BlockOK, NoBlock, Blocks, Kinds, Dicts
<1>5. Reach BY DEF Init, Reach, NoBlock
<1>6. Seam BY DEF Init, Seam, NoBlock
<1> QED BY <1>1, <1>2, <1>3, <1>4, <1>5, <1>6 DEF IInv

(* Every step keeps it. *)
LEMMA NextKeepsIInv ==
  ASSUME IInv, [Next]_vars
  PROVE  IInv'
<1>1. CASE UNCHANGED vars
  <2>1. CtxOK' /\ ChainOK' BY <1>1 DEF IInv, CtxOK, ChainOK, Kept, Below, vars, ctx
  <2>2. Attached' BY <1>1 DEF IInv, Attached, vars, ctx, dict
  <2>3. DictOK' BY <1>1 DEF IInv, DictOK, vars, dict
  <2>4. BlockOK' BY <1>1 DEF IInv, BlockOK, Overrun, Kept, vars, ctx, dict
  <2>5. Reach' BY <1>1 DEF IInv, Reach, vars, ctx
  <2>6. Seam' BY <1>1 DEF IInv, Seam, vars, ctx
  <2> QED BY <2>1, <2>2, <2>3, <2>4, <2>5, <2>6 DEF IInv
<1>2. CASE InitStream BY <1>2, InitStreamKeeps
<1>3. CASE ResetStreamFast BY <1>3, ResetStreamFastKeeps
<1>4. CASE LoadDict BY <1>4, LoadDictKeeps
<1>5. CASE LoadOther BY <1>5, LoadOtherKeeps
<1>6. CASE AttachDictionary BY <1>6, AttachDictionaryKeeps
<1>7. CASE DetachDictionary BY <1>7, DetachDictionaryKeeps
<1>8. CASE SaveDict BY <1>8, SaveDictKeeps
<1>9. CASE CompressFast BY <1>9, CompressFastKeeps
<1>10. CASE CompressFastReset BY <1>10, CompressFastResetKeeps
<1>11. CASE CompressContinue BY <1>11, CompressContinueKeeps
<1>12. CASE CompressAttached BY <1>12, CompressAttachedKeeps
<1>13. CASE CompressCopied BY <1>13, CompressCopiedKeeps
<1>14. CASE Begin BY <1>14, BeginKeeps
<1>15. CASE Lookup BY <1>15, LookupKeeps
<1>16. CASE Done BY <1>16, DoneKeeps
<1>17. CASE Abandon BY <1>17, AbandonKeeps
<1> QED BY <1>1, <1>2, <1>3, <1>4, <1>5, <1>6, <1>7, <1>8, <1>9, <1>10, <1>11, <1>12, <1>13,
           <1>14, <1>15, <1>16, <1>17 DEF Next

(* The stream keeps its order: entries below the index, a block that starts *)
(* at the index, and history far enough where the code does not look.       *)
THEOREM StreamInvariant == Spec => []IInv
<1>1. Init => IInv BY InitIInv
<1>2. IInv /\ [Next]_vars => IInv' BY NextKeepsIInv
<1> QED BY <1>1, <1>2, PTL DEF Spec
-----------------------------------------------------------------------------
(* What follows for the candidates.                                        *)

(* A candidate of the own table.                                            *)
LEMMA OwnCandidate ==
  ASSUME IInv, AtWork, block.dict # "context",
         NEW c \in entries \cup {0}, NEW i \in Positions, Admitted(c, i)
  PROVE  /\ c >= block.start - block.hist
         /\ i - c <= DISTANCE_MAX
         /\ c < block.start /\ block.dict # "prefix" => c + MINMATCH <= block.start
<1>1. /\ block \in Blocks /\ block.start \in Nat /\ block.hist \in Nat /\ block.size \in Int
      /\ block.small \in BOOLEAN
  BY DEF IInv, BlockOK, Blocks
<1>2. c \in Nat BY DEF IInv, CtxOK
<1>3. i \in Nat /\ block.start <= i /\ i + 12 <= block.start + block.size
  BY <1>1, PositionInBlock
<1>4. block.small => c >= block.start - block.hist BY DEF Admitted
<1>5. (block.type = "byU16" /\ DISTANCE_MAX = KB64 - 1) \/ c + DISTANCE_MAX >= i BY DEF Admitted
<1>6. block.hist >= KB64 => block.type # "byU16"
  BY Constants DEF IInv, BlockOK
<1>7. c >= block.start - block.hist
  <2>1. CASE block.small BY <1>4, <2>1
  <2>2. CASE block.hist >= KB64 BY <1>1, <1>2, <1>3, <1>5, <1>6, <2>2, Constants
  <2>3. CASE block.hist >= block.start BY <1>1, <1>2, <2>3
  <2>4. CASE /\ block.start >= KB64 /\ block.type # "byU16"
             /\ \A e \in entries : e >= block.start - block.hist
    <3>1. c # 0 BY <1>1, <1>2, <1>3, <1>5, <2>4, Constants
    <3> QED BY <2>4, <3>1
  <2> QED BY <2>1, <2>2, <2>3, <2>4 DEF IInv, Reach
<1>8. i - c <= DISTANCE_MAX
  <2>1. CASE c + DISTANCE_MAX >= i BY <1>2, <1>3, <2>1, Constants
  <2>2. CASE block.type = "byU16" /\ DISTANCE_MAX = KB64 - 1
    <3>1. block.hist = 0 /\ block.size < Limit64K BY <2>2 DEF IInv, BlockOK
    <3>2. c >= block.start BY <1>1, <1>2, <1>7, <3>1
    <3> QED BY <1>1, <1>2, <1>3, <2>2, <3>1, <3>2, Constants
  <2> QED BY <1>5, <2>1, <2>2
<1>9. ASSUME c < block.start, block.dict # "prefix"
      PROVE  c + MINMATCH <= block.start
  <2>1. block.hist # 0 BY <1>1, <1>2, <1>7, <1>9
  <2>2. block.dict = "external" BY <1>1, <1>9, <2>1 DEF IInv, BlockOK, Blocks, Dicts
  <2>3. CASE c \in entries BY <1>9, <2>2, <2>3 DEF IInv, Seam
  <2>4. CASE c = 0
    <3>1. block.start < KB64
      <4>1. block.type = "byU32" BY <2>2 DEF IInv, BlockOK
      <4> QED BY <1>1, <1>3, <1>5, <2>4, <4>1, Constants
    <3>2. block.size > 0 /\ block.hist <= block.start BY <2>2, Constants DEF IInv, BlockOK, AtWork
    <3>3. block.hist >= MINMATCH BY <2>1, <2>2, <3>1, <3>2, <1>1, Constants DEF IInv, BlockOK
    <3> QED BY <1>1, <2>4, <3>2, <3>3, Constants
  <2> QED BY <2>3, <2>4
<1> QED BY <1>7, <1>8, <1>9

(* A candidate of the attached dictionary, moved to end where the block     *)
(* starts.                                                                  *)
LEMMA DictCandidate ==
  ASSUME IInv, AtWork, block.dict = "context",
         NEW e \in dictEntries \cup {0}, NEW i \in Positions,
         Admitted(e + (block.start - dictOff), i)
  PROVE  /\ e + (block.start - dictOff) >= block.start - block.hist
         /\ i - (e + (block.start - dictOff)) <= DISTANCE_MAX
         /\ e + (block.start - dictOff) + MINMATCH <= block.start
<1>1. /\ block \in Blocks /\ block.start \in Nat /\ block.size \in Int
      /\ block.hist = dictHist /\ dictHist # 0 /\ block.type = "byU32"
  BY DEF IInv, BlockOK, Blocks
<1>2. dictOff = KB64 /\ dictHist \in 0..KB64 BY <1>1 DEF IInv, DictOK
<1>3. i \in Nat /\ block.start <= i BY <1>1, PositionInBlock
<1>4. e + (block.start - KB64) + DISTANCE_MAX >= i BY <1>1, <1>2 DEF Admitted
<1>5. e # 0 BY <1>1, <1>3, <1>4, Constants
<1>6. e \in Nat /\ KB64 - dictHist <= e /\ e + HASH_UNIT <= KB64 BY <1>5 DEF IInv, DictOK
<1> QED BY <1>1, <1>2, <1>3, <1>4, <1>6, Constants

(* What it says of the candidates. *)
LEMMA InvariantCandidates ==
  ASSUME IInv
  PROVE  CandidatesInHistory
<1> SUFFICES ASSUME AtWork, NEW c \in Candidates, NEW i \in Positions, Admitted(c, i)
             PROVE  /\ c >= block.start - block.hist
                    /\ i - c <= DISTANCE_MAX
                    /\ c < block.start /\ block.dict # "prefix" => c + MINMATCH <= block.start
  BY DEF CandidatesInHistory
<1>1. CASE block.dict # "context"
  <2>1. c \in entries \cup {0} BY <1>1 DEF Candidates
  <2> QED BY <1>1, <2>1, OwnCandidate
<1>2. CASE block.dict = "context" /\ \E e \in dictEntries \cup {0} : c = e + (block.start - dictOff)
  <2>1. PICK e \in dictEntries \cup {0} : c = e + (block.start - dictOff) BY <1>2
  <2>2. Admitted(e + (block.start - dictOff), i) BY <2>1
  <2> QED BY <1>2, <2>1, <2>2, DictCandidate
<1>3. CASE block.dict = "context" /\ c \in entries \cup {0} /\ c >= block.start
  <2>1. /\ block \in Blocks /\ block.start \in Nat /\ block.hist \in Nat /\ block.type = "byU32"
    BY <1>3 DEF IInv, BlockOK, Blocks
  <2>2. c \in Nat BY <1>3 DEF IInv, CtxOK
  <2>3. i \in Nat BY <2>1, PositionInBlock
  <2>4. c + DISTANCE_MAX >= i BY <2>1 DEF Admitted
  <2> QED BY <1>3, <2>1, <2>2, <2>3, <2>4, Constants
<1> QED BY <1>1, <1>2, <1>3 DEF Candidates

(* What it says of the indexes. *)
LEMMA InvariantIndexes ==
  ASSUME IInv
  PROVE  IndexFits
<1> SUFFICES ASSUME block.stage # "none"
             PROVE  /\ block.dict # "none" /\ ~Overrun => block.start + block.size <= IndexLimit
                    /\ Overrun => block.stage = "called" /\ kind = "cleared" /\ hist = 0
                    /\ block.type = "byU16" /\ block.start < KB64 => \A i \in Positions : i < KB64
                    /\ block.dict # "context" => block.hist <= block.start
  BY DEF IndexFits
<1>1. block.dict # "none" /\ ~Overrun => block.start + block.size <= IndexLimit
  BY DEF IInv, BlockOK
<1>11. Overrun => block.stage = "called" /\ kind = "cleared" /\ hist = 0
  BY DEF IInv, BlockOK, Blocks, Kept
<1>2. block.dict # "context" => block.hist <= block.start BY DEF IInv, BlockOK
<1>3. ASSUME block.type = "byU16", block.start < KB64, NEW i \in Positions
      PROVE  i < KB64
  <2>1. block \in Blocks /\ block.start \in Nat /\ block.size \in Int BY DEF IInv, BlockOK, Blocks
  <2>2. i \in Nat /\ i + 12 <= block.start + block.size BY <2>1, PositionInBlock
  <2>3. block.size < Limit64K /\ (block.start = 0 \/ block.start + block.size < KB64)
    BY <1>3, <2>1, Constants DEF IInv, BlockOK
  <2> QED BY <2>1, <2>2, <2>3, Constants
<1> QED BY <1>1, <1>11, <1>2, <1>3

(* Whatever is left in a table that is never cleared, a candidate that      *)
(* passes the tests of the code lies in the history of this block.          *)
THEOREM CandidatesTheorem == Spec => []CandidatesInHistory
<1>1. IInv => CandidatesInHistory BY InvariantCandidates
<1> QED BY <1>1, StreamInvariant, PTL

(* However often a stream is reset, the indexes of a chain stay in the       *)
(* ranges that the arithmetic and the tables need, but for a block that      *)
(* takes a clear stream without history past 32 bits.                        *)
THEOREM IndexesTheorem == Spec => []IndexFits
<1>1. IInv => IndexFits BY InvariantIndexes
<1> QED BY <1>1, StreamInvariant, PTL
=============================================================================
