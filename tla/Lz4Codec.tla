------------------------------ MODULE Lz4Codec ------------------------------
(***************************************************************************)
(* The compressing functions of tools/lz4.c and their stream, and a user   *)
(* who hands every block to the decoder.  What a function does to the      *)
(* stream before it compresses is one step, the compression is Lz4Compress *)
(* and what it does afterwards a last step.                                *)
(***************************************************************************)
EXTENDS Lz4Decoder, Lz4Compress

CONSTANT Plans          \* what users do: a memory and a list of calls

HASH_UNIT == 8

NULL_ADDRESS == -100000
Address(a)   == a \in Int /\ a > NULL_ADDRESS

Chained     == {"continue", "forceExtDict"}
Compressors == {"fast", "fastReset", "destSize"} \cup Chained

(* What C's types and lz4.h say of the arguments.  A size that is refused   *)
(* is refused like any other; a block of a stream is one that is accepted.  *)
Sizes == -1 .. (MAX_INPUT_SIZE + 1)

IsCall(c) ==
  /\ c.fn = "load"   => c.lib \in BOOLEAN /\ c.slow \in BOOLEAN /\ Address(c.dictionary) /\ c.size \in Sizes
  /\ c.fn = "attach" => c.dictionary \in BOOLEAN
  /\ c.fn = "save"   => Address(c.buffer) /\ c.size \in Sizes \cap Nat
  /\ c.fn \in Compressors => /\ c.src \in Nat /\ c.size \in Sizes /\ c.cap \in Nat /\ c.accel \in Int
                             /\ c.fn = "fastReset" => c.size >= 0
                             /\ c.fn \in Chained => c.size \in 0..MAX_INPUT_SIZE

CallsOf(p) == {p.work[k] : k \in DOMAIN p.work}

ASSUME PlansAssumption ==
  \A p \in Plans : p.work \in Seq(CallsOf(p)) /\ \A c \in CallsOf(p) : IsCall(c)

(* A window is longer than a string that is hashed, and an input may be     *)
(* longer than the window.                                                  *)
ASSUME CodecAssumption == Buckets \in Nat \ {0} /\ KB64 \in HASH_UNIT..MAX_INPUT_SIZE

VARIABLES work,         \* the calls still to be made
          lib,          \* a second stream, which holds a dictionary
          started       \* since the stream was set up, no function of one block had it

codecVars == <<allVars, compVars, work, lib, started>>

w == Head(work)

ACCELERATION_MAX == 65537

(* LZ4_initStream, LZ4_resetStream. *)
NewContext == [currentOffset |-> 0, tableType |-> "cleared", table |-> <<>>,
               dictionary |-> NULL_ADDRESS, dictSize |-> 0, dictCtx |-> FALSE]

NoJob    == [start |-> 0, size |-> 0, dict |-> "none", dictSize |-> 0, small |-> FALSE,
             text |-> <<>>, type |-> "byU32", limit |-> "none", cap |-> 0, accel |-> 1,
             dictTable |-> <<>>, dictOffset |-> 0]
NoResult == [size |-> 0, consumed |-> 0]

Resting(j) == /\ job' = j /\ at' = 0 /\ anchor' = 0 /\ found' = 0 /\ inDict' = FALSE
              /\ probe' = [next |-> 0, step |-> 0, nb |-> 0] /\ filled' = 0
              /\ out' = <<>> /\ tok' = 0 /\ high' = 0 /\ res' = NoResult

EncoderRests == /\ ctx = NewContext /\ lib = NewContext /\ started = TRUE /\ job = NoJob /\ stage = "idle"
                /\ at = 0 /\ anchor = 0 /\ found = 0 /\ inDict = FALSE
                /\ probe = [next |-> 0, step |-> 0, nb |-> 0] /\ filled = 0
                /\ out = <<>> /\ tok = 0 /\ high = 0 /\ res = NoResult

CodecInit == /\ \/ Init /\ work = <<>>
                \/ \E p \in Plans : Starts(p.memory, <<>>) /\ work = p.work
             /\ EncoderRests
-----------------------------------------------------------------------------
(* The stream between blocks.                                              *)

(* LZ4_prepareTable; after a reset the old indexes are out of reach. *)
Gap(o, type) == IF o # 0 /\ type = "byU32" THEN U32(o + KB64) ELSE o

PrepareTable(c, size, type) ==
  LET stale == /\ c.tableType # "cleared"
               /\ \/ c.tableType # type
                  \/ type = "byU16" /\ c.currentOffset + size >= KB64 - 1
                  \/ type = "byU32" /\ c.currentOffset > GB1
                  \/ type = "byPtr"
                  \/ size >= KB4
      kept  == IF stale THEN [c EXCEPT !.table = <<>>, !.currentOffset = 0, !.tableType = "cleared"]
                        ELSE c
  IN [kept EXCEPT !.currentOffset = Gap(@, type), !.dictCtx = FALSE,
                  !.dictionary = NULL_ADDRESS, !.dictSize = 0]

(* LZ4_loadDict and LZ4_loadDictSlow: every third position, the last one of *)
(* a bucket counts; the slow one gives what is left empty to the first.     *)
DictHash(a) == Bucket([k \in 1..5 |-> At(mem, a + k - 1)])

(* The table for the n bytes from p on. *)
Loaded(p, n, slow) ==
  LET index(a) == KB64 - n + (a - p)
      all   == p .. (p + n - HASH_UNIT)
      third == {a \in all : (a - p) % 3 = 0}
      last(h)  == index(Max({a \in third : DictHash(a) = h}))
      taken == {h \in {DictHash(a) : a \in third} : ~slow \/ last(h) > 0}
      first(h) == LET of == {a \in all : DictHash(a) = h /\ index(a) > 0}
                  IN IF of = {} THEN 0 ELSE index(Min(of))
  IN [h \in {DictHash(a) : a \in IF slow THEN all ELSE third} |->
        IF h \in taken THEN last(h) ELSE first(h)]

LoadDict(dictionary, size, slow) ==
  LET n == Min({size, KB64})
      p == dictionary + size - n
  IN IF size < HASH_UNIT THEN [NewContext EXCEPT !.currentOffset = KB64]
     ELSE [NewContext EXCEPT !.currentOffset = KB64, !.tableType = "byU32", !.dictionary = p,
                             !.dictSize = n, !.table = Loaded(p, n, slow)]

(* LZ4_attach_dictionary. *)
AttachUnmoved(dictionaryStream) ==                             \* MUTANT
  [ctx EXCEPT !.dictCtx = dictionaryStream /\ lib.dictSize # 0]

Attach(dictionaryStream) ==
  IF ~dictionaryStream THEN [ctx EXCEPT !.dictCtx = FALSE]
  ELSE [ctx EXCEPT !.currentOffset = IF @ = 0 THEN KB64 ELSE @, !.dictCtx = lib.dictSize # 0]

(* LZ4_renormDictT. *)
RenormDict(c, next) ==
  IF U32(c.currentOffset + next) <= IndexLimit THEN c
  ELSE LET delta == c.currentOffset - KB64
           n     == Min({c.dictSize, KB64})
       IN [c EXCEPT !.table = [h \in DOMAIN @ |-> IF @[h] < delta THEN 0 ELSE @[h] - delta],
                    !.currentOffset = KB64, !.dictSize = n,
                    !.dictionary = c.dictionary + c.dictSize - n]

(* LZ4_saveDict: the dictionary is what was saved. *)
SavedSize(n) == Min({n, KB64, ctx.dictSize})

Between ==
  /\ stage = "idle" /\ pc = "idle" /\ todo = <<>> /\ work # <<>>
  /\ work' = Tail(work)
  /\ UNCHANGED <<call, pc, cursor, reach, rc, sd, job, stage, at, anchor, found, inDict, probe,
                 filled, out, tok, high, res>>

InitStream == /\ Between /\ w.fn = "init" /\ ctx' = NewContext /\ started' = TRUE
              /\ UNCHANGED <<mem, todo, lib>>

ResetStreamFast == /\ Between /\ w.fn = "reset" /\ ctx' = PrepareTable(ctx, 0, "byU32")
                   /\ started' = TRUE /\ UNCHANGED <<mem, todo, lib>>

Load == /\ Between /\ w.fn = "load"
        /\ LET c == LoadDict(w.dictionary, w.size, w.slow)
           IN IF w.lib THEN lib' = c /\ UNCHANGED <<ctx, started>>
              ELSE ctx' = c /\ started' = TRUE /\ UNCHANGED lib
        /\ UNCHANGED <<mem, todo>>

AttachDictionary == /\ Between /\ w.fn = "attach" /\ ctx' = Attach(w.dictionary)
                    /\ UNCHANGED <<mem, todo, lib, started>>

SaveDict ==
  /\ Between /\ w.fn = "save"
  /\ LET n == SavedSize(w.size)
     IN /\ mem' = Chunk(mem, w.buffer, ctx.dictionary + ctx.dictSize - n, n)
        /\ ctx' = [ctx EXCEPT !.dictionary = w.buffer, !.dictSize = n]
  /\ UNCHANGED <<todo, lib, started>>

Store(where, s) == [a \in DOMAIN mem |-> IF a \in where .. (where + Len(s) - 1)
                                            THEN s[a - where + 1] ELSE mem[a]]

(* The user reads new input into a buffer; tells the decoder of a           *)
(* dictionary.                                                              *)
NewInput == /\ Between /\ w.fn = "write"
            /\ mem' = Store(w.where, w.bytes)
            /\ UNCHANGED <<todo, ctx, lib, started>>

TellDecoder == /\ Between /\ w.fn = "tell" /\ todo' = <<w.request>>
               /\ UNCHANGED <<mem, ctx, lib, started>>
-----------------------------------------------------------------------------
(* The functions that compress.                                            *)

Acceleration == IF w.accel < 1 THEN 1 ELSE Min({w.accel, ACCELERATION_MAX})

(* The parameters of LZ4_compress_generic; before the input lies the        *)
(* history, wherever it is.                                                 *)
Job(c, dict, small, type, limit) ==
  LET d     == IF dict = "context" THEN lib ELSE c
      start == c.currentOffset
      addr(i) == IF i < start THEN d.dictionary + d.dictSize - (start - i) ELSE w.src + (i - start)
  IN [start |-> start, size |-> w.size, dict |-> dict, dictSize |-> d.dictSize, small |-> small,
      text |-> [i \in (start - d.dictSize) .. (start + w.size - 1) |-> At(mem, addr(i))],
      type |-> type, limit |-> limit, cap |-> IF limit = "none" THEN 0 ELSE w.cap,
      accel |-> Acceleration, dictTable |-> d.table, dictOffset |-> d.currentOffset]

Compresses(fns) == stage = "idle" /\ pc = "idle" /\ todo = <<>> /\ work # <<>> /\ w.fn \in fns

Starting(c, dict, small, type, limit) ==
  /\ ctx' = c /\ Resting(Job(c, dict, small, type, limit)) /\ stage' = "begin"
  /\ started' = (started /\ w.fn \in Chained)
  /\ UNCHANGED <<allVars, work, lib>>

Guaranteed == w.cap >= CompressBound(w.size)
Limit      == IF Guaranteed THEN "none" ELSE "limited"

TypeFor == IF w.size < Limit64K THEN "byU16"
           ELSE IF w.bits32 /\ w.src > DISTANCE_MAX THEN "byPtr" ELSE "byU32"

(* LZ4_compress_fast_extState; LZ4_compress_fast and LZ4_compress_default   *)
(* are this on a state of their own.                                        *)
CompressFast == /\ Compresses({"fast"})
                /\ Starting(NewContext, "none", FALSE, TypeFor, Limit)

(* LZ4_compress_fast_extState_fastReset. *)
CompressFastReset ==
  /\ Compresses({"fastReset"})
  /\ LET c == PrepareTable(ctx, w.size, TypeFor)
     IN Starting(c, "none", TypeFor = "byU16" /\ c.currentOffset # 0, TypeFor, Limit)

(* LZ4_compress_destSize_extState. *)
CompressDestSize ==
  /\ Compresses({"destSize"})
  /\ Starting(NewContext, "none", FALSE, TypeFor, IF Guaranteed THEN "none" ELSE "fill")

Short(c) == c.dictSize < KB64 /\ c.dictSize < c.currentOffset

(* LZ4_compress_fast_continue: a dictionary too small for a match is        *)
(* dropped, one that the input has overwritten is cut.                      *)
DictEnd == IF ctx.dictSize = 0 THEN NULL_ADDRESS ELSE ctx.dictionary + ctx.dictSize

TinyEmpty == ctx.dictSize = 0 /\ DictEnd # w.src /\ w.size > 0 /\ ~ctx.dictCtx   \* MUTANT
Tiny == ctx.dictSize < MINMATCH /\ DictEnd # w.src /\ w.size > 0 /\ ~ctx.dictCtx

Uncut   == LET c == RenormDict(ctx, w.size)
           IN IF Tiny THEN [c EXCEPT !.dictSize = 0, !.dictionary = w.src] ELSE c
HistoryEnd == IF Tiny THEN w.src ELSE DictEnd           \* where it ends

Trim(c) ==
  LET sourceEnd == w.src + w.size
      left      == Min({HistoryEnd - sourceEnd, KB64})
      n         == IF left < MINMATCH THEN 0 ELSE left
  IN IF c.dictionary < sourceEnd /\ sourceEnd < HistoryEnd
       THEN [c EXCEPT !.dictSize = n, !.dictionary = HistoryEnd - n] ELSE c

CompressContinue ==
  /\ Compresses({"continue"})
  /\ LET c == Trim(Uncut)
     IN \/ HistoryEnd = w.src /\ Starting(c, "prefix", Short(c), "byU32", "limited")
        \/ /\ HistoryEnd # w.src /\ c.dictCtx /\ w.size > KB4
           /\ Starting(lib, "external", FALSE, "byU32", "limited")
        \/ /\ HistoryEnd # w.src /\ c.dictCtx /\ w.size <= KB4
           /\ Starting(c, "context", FALSE, "byU32", "limited")
        \/ /\ HistoryEnd # w.src /\ ~c.dictCtx
           /\ Starting(c, "external", Short(c), "byU32", "limited")

(* LZ4_compress_forceExtDict. *)
CompressForceExtDict ==
  /\ Compresses({"forceExtDict"})
  /\ LET c == RenormDict(ctx, w.size) IN Starting(c, "external", Short(c), "byU32", "none")

Compress == /\ CompressStep /\ UNCHANGED <<allVars, work, lib, started>>

(* A block elsewhere becomes the dictionary.  The user hands the block to   *)
(* the decoder, and gives up a stream that has failed.                      *)
BlockDone ==
  /\ stage = "done" /\ stage' = "idle" /\ Resting(NoJob)
  /\ ctx' = CASE w.fn = "destSize" -> NewContext
              [] w.fn \in Chained /\ job.dict # "prefix" -> [ctx EXCEPT !.dictionary = w.src, !.dictSize = w.size]
              [] OTHER -> ctx
  /\ work' = IF res.size = 0 /\ w.fn \in Chained THEN <<>> ELSE Tail(work)
  /\ IF res.size = 0 THEN UNCHANGED <<mem, todo>>
     ELSE LET n == IF job.limit = "fill" THEN res.consumed ELSE w.size
          IN /\ mem' = Store(w.dst, out)
             /\ todo' = <<[w.ask EXCEPT !.src = w.dst, !.size = res.size, !.cap = n, !.target = n,
                                        !.text = [k \in 1..n |-> job.text[job.start + k - 1]]]>>
  /\ UNCHANGED <<call, pc, cursor, reach, rc, sd, lib, started>>
-----------------------------------------------------------------------------
(* A user nothing goes wrong for; the code checks none of it.               *)

(* Where the block that is called for starts.                               *)
Start == CASE w.fn = "fastReset" -> PrepareTable(ctx, w.size, TypeFor).currentOffset
           [] w.fn \in Chained   -> RenormDict(ctx, w.size).currentOffset
           [] OTHER              -> 0

(* lz4.h:347-350 asks that a chain of blocks is started by a reset: what a  *)
(* function of one block leaves may be a table of another type.             *)
(* lz4.h:397-398 asks that a dictionary stays as it is while it is attached.*)
(* Nothing is said of a stream that is reset, unused, until the indexes of  *)
(* a block pass 32 bits (33,000 resets and more): no such block is followed *)
(* here.  Nor of the histories that the debugging function forceExtDict     *)
(* takes: one too short for a match is not given to it.                     *)
Careful ==
  stage = "idle" /\ work # <<>> =>
    /\ w.fn \in Chained => started
    /\ w.fn = "load" /\ w.lib => ~ctx.dictCtx
    /\ w.fn \in Compressors /\ w.size <= MAX_INPUT_SIZE => Start + w.size < IndexSpan
    /\ w.fn = "forceExtDict" /\ w.size > 0 =>
         LET c == RenormDict(ctx, w.size)
         IN c.dictSize \notin 1..(MINMATCH - 1) /\ c.currentOffset \notin 1..(MINMATCH - 1)
-----------------------------------------------------------------------------
Encode == \/ InitStream \/ ResetStreamFast \/ Load \/ AttachDictionary \/ SaveDict
          \/ NewInput \/ TellDecoder
          \/ CompressFast \/ CompressFastReset \/ CompressDestSize \/ CompressContinue
          \/ CompressForceExtDict \/ Compress \/ BlockDone

Decode == /\ Invoke \/ SetStreamDecode \/ (Step /\ UNCHANGED <<todo, sd>>) \/ Return
          /\ UNCHANGED <<compVars, work, lib, started>>

Over == todo = <<>> /\ work = <<>> /\ stage = "idle" /\ UNCHANGED codecVars

CodecNext == Encode \/ Decode \/ Over

CodecSpec == CodecInit /\ [][CodecNext]_codecVars
-----------------------------------------------------------------------------
(* Properties.                                                             *)

(* What a compressing function wrote decodes to its input, or to the part   *)
(* that it says it has consumed, in every mode: with or without a table     *)
(* left over from other input, history in front or elsewhere, attached,     *)
(* saved, cut or rescaled.                                                  *)
RoundTrip == pc = "done" /\ q.place = "compressed" => Answer

(* The output stays within its limit, overshoot included, and within        *)
(* LZ4_compressBound where no limit is checked; where there is room for     *)
(* that much, compression succeeds; and nothing is left out unless the      *)
(* output was to be filled.                                                 *)
Fits ==
  LET room == IF job.limit = "none" THEN CompressBound(job.size) ELSE job.cap
  IN /\ stage # "idle" => high <= room /\ Len(out) <= room
     /\ stage = "done" /\ job.size \in 1..MAX_INPUT_SIZE =>
          /\ job.limit = "none" \/ job.cap >= CompressBound(job.size) => res.size > 0
          /\ job.limit = "fill" /\ job.cap > 0 => res.size > 0
          /\ res.size > 0 /\ job.limit # "fill" => res.consumed = job.size

(* The stream as Lz4Stream describes it: the same, seen through its indexes. *)
Entries(c) == {c.table[h] : h \in DOMAIN c.table} \ {0}

Begun == stage \notin {"idle", "begin"} /\ job.size \in 1..MAX_INPUT_SIZE
         /\ (job.limit = "fill" => job.cap >= 1)

BlockView ==
  [stage |-> IF stage = "idle" THEN "none" ELSE IF Begun THEN "open" ELSE "called",
   start |-> job.start, size |-> job.size, type |-> IF stage = "idle" THEN "cleared" ELSE job.type,
   dict  |-> job.dict, small |-> job.small, hist |-> job.dictSize]

Indexes == INSTANCE Lz4Stream WITH
  block <- BlockView,
  off <- ctx.currentOffset, kind <- ctx.tableType, entries <- Entries(ctx),
  hist <- ctx.dictSize, attached <- ctx.dictCtx,
  dictOff <- lib.currentOffset, dictHist <- lib.dictSize, dictEntries <- Entries(lib)

(* The compressor implements that description, so that what is proved of it *)
(* for every size of window and table holds of the compressor.              *)
ImplementsIndexes == Indexes!Spec

(* A candidate whose bytes are looked at lies in the history or in the part *)
(* of the input already passed: whatever the table holds, four bytes can be *)
(* read there, and they are in one segment.                                 *)
CandidateIn(c, i) ==
  /\ c < i /\ i - c <= DISTANCE_MAX /\ c >= prefixIdxLimit
  /\ Elsewhere(c) => c + MINMATCH <= job.start

ReadsHistory ==
  /\ stage = "search" /\ ~LastProbe =>
       LET c == Candidate(ctx.table, probe.next) IN Admitted(c, probe.next) => CandidateIn(c, probe.next)
  /\ stage = "next" =>
       LET c == Candidate(Filled, at) IN Admitted(c, at) => CandidateIn(c, at)

(* The sixteen bits suffice; dictBase is no null pointer.                    *)
Narrow   == job.type = "byU16" /\ job.start < KB64
DictBase == w.fn = "continue" \/ job.dictSize # 0 => ctx.dictionary # NULL_ADDRESS

(* The assertions of LZ4_compress_generic, which no build evaluates         *)
(* (LZ4_DEBUG is 0).  The index that a candidate has in the table is not    *)
(* beyond the position, those of a chain are below 2 GB (1058, 1059); a     *)
(* candidate lies before its position, within the distance, and no match    *)
(* runs over the seam, though the table has entries from other input and    *)
(* the output that is filled cuts a match short of positions already        *)
(* entered (1082, 1098, 1103, 1115, 1166, 1170, 1180, 1267, 1293); a match  *)
(* that is cut is cut (1202) and the last literals have room (1237, 1318).  *)
(* Two assertions are not true of every call.  An index fits a table of     *)
(* sixteen bits (837) unless the block starts beyond them, which it does on *)
(* a stream whose index an empty dictionary moved.  There is a dictionary   *)
(* to look into (1083, 1282) unless forceExtDict is called without one.     *)
AssertionsHold ==
  /\ stage = "search" =>
       /\ OwnCandidate(ctx.table, probe.next) <= probe.next
       /\ job.dict # "none" => probe.next < IndexLimit - 1
  /\ stage = "search" /\ ~LastProbe =>
       LET c == Candidate(ctx.table, probe.next)
       IN /\ (job.small => c >= prefixIdxLimit) => c < probe.next
          /\ Admitted(c, probe.next) => probe.next - c <= DISTANCE_MAX
          /\ job.dict = "external" /\ c < job.start => job.start - c >= MINMATCH /\ DictBase
          /\ Narrow => probe.next < KB64
  /\ stage = "literals" => at > anchor
  /\ stage = "match" => /\ at - found \in 1..DISTANCE_MAX /\ found >= lowLimit
                        /\ inDict => found < job.start
                        /\ Same(at, found, MINMATCH)
                        /\ job.limit = "fill" /\ ~TooClose /\ Tight(Len(out) + 2) =>
                             Reduced(Len(out) + 2) < MatchCode
  /\ stage = "next" =>
       LET c == Candidate(Filled, at)
       IN /\ c < at /\ OwnCandidate(Filled, at) < at
          /\ job.dict = "external" /\ c < job.start => DictBase
          /\ Narrow => at < KB64
          /\ job.limit = "fill" => Len(out) + 1 + LASTLITERALS <= job.cap
  /\ stage = "last" /\ job.limit = "fill" => job.cap >= Len(out)
=============================================================================
