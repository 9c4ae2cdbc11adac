---------------------------- MODULE Lz4Compress ----------------------------
(***************************************************************************)
(* LZ4_compress_generic of tools/lz4.c: it looks up each position of the   *)
(* input in a hash table, takes a match where four bytes agree and the     *)
(* candidate is near enough, and writes the sequences.  Positions are      *)
(* indexes: the input starts at job.start, what came before it lies below, *)
(* in the same segment of memory or in another one.                        *)
(***************************************************************************)
EXTENDS Lz4Format, FiniteSetsExt

CONSTANTS Hash(_),      \* the bucket of a string of four or five bytes
          Buckets       \* of the hash table

VARIABLES job,          \* the parameters of the call, and the text by index
          ctx,          \* LZ4_stream_t_internal
          stage,        \* where it is
          at, anchor,   \* ip; where the literals not yet written begin
          found,        \* the match, an index
          inDict,       \* lowLimit == dictionary
          probe,        \* forwardIp, step and searchMatchNb
          filled,       \* filledIp
          out, tok,     \* what is written, and the place of the last token
          high,         \* how far the output was touched
          res           \* what is returned: bytes written and consumed

compVars == <<job, ctx, stage, at, anchor, found, inDict, probe, filled, out, tok, high, res>>

skipTrigger == 6

stop           == job.start + job.size          \* iend
mflimitPlusOne == stop - MFLIMIT + 1
matchlimitWhole == stop                                     \* MUTANT
matchlimit     == stop - LASTLITERALS
prefixIdxLimit == job.start - job.dictSize
lowLimit       == IF job.dict = "prefix" \/ inDict THEN prefixIdxLimit ELSE job.start
maybe_extMem   == job.dict \in {"external", "context"}

ByteAt(i) == IF i \in DOMAIN job.text THEN job.text[i] ELSE -1
Same(i, j, n) == \A k \in 0..(n - 1) : ByteAt(i + k) = ByteAt(j + k)

(* LZ4_count: how far the two agree before the limit.                       *)
Count(i, j, limit) ==
  LET n == IF i < limit THEN limit - i ELSE 0
  IN Min({k \in 0..n : k = n \/ ByteAt(i + k) # ByteAt(j + k)})
-----------------------------------------------------------------------------
(* The hash table: bucket to index; an empty bucket holds zero, or NULL in  *)
(* a table of pointers.                                                     *)

(* The code keeps as many bits as name a bucket.                             *)
Bucket(s) == IF Hash(s) \in 0..(Buckets - 1) THEN Hash(s) ELSE 0

HashAt(i) == Bucket([k \in 1..(IF job.type = "byU32" THEN 5 ELSE 4) |-> ByteAt(i + k - 1)])

Lookup(table, h, empty) == IF h \in DOMAIN table THEN table[h] ELSE empty
(* A table of U16 keeps the low sixteen bits.                                *)
Stored(i)       == IF job.type = "byU16" THEN i % KB64 ELSE i
Put(table, i)   == [h \in DOMAIN table \cup {HashAt(i)} |->
                      IF h = HashAt(i) THEN Stored(i) ELSE table[h]]
Clear(table, S) == [h \in DOMAIN table \ {HashAt(i) : i \in S} |-> table[h]]

(* As an index: a table of pointers is used only where address 0 is out of   *)
(* reach of the input.                                                       *)
NULL == -DISTANCE_MAX - 1

(* The candidate for position i: in the own table, or, when that holds      *)
(* nothing of this block, in the table of the attached dictionary, whose    *)
(* indexes are shifted.                                                     *)
OwnCandidate(table, i) == Lookup(table, HashAt(i), IF job.type = "byPtr" THEN NULL ELSE 0)
Candidate(table, i) ==
  LET own == OwnCandidate(table, i)
  IN IF job.dict = "context" /\ own < job.start
       THEN Lookup(job.dictTable, HashAt(i), 0) + (job.start - job.dictOffset)
       ELSE own

Elsewhere(c) == maybe_extMem /\ c < job.start

TooFar(c, i) == /\ job.type = "byU16" => DISTANCE_MAX < KB64 - 1
                /\ c + DISTANCE_MAX < i

Admitted(c, i) == (job.small => c >= prefixIdxLimit) /\ ~TooFar(c, i)

Matches(c, i) == Admitted(c, i) /\ Same(c, i, MINMATCH)
-----------------------------------------------------------------------------
Deliver(n, consumed) == /\ stage' = "done" /\ res' = [size |-> n, consumed |-> consumed]

Wrote(end) == high' = Max({high, end})

(* LZ4_compress_generic: sizes that are refused, the empty block, and an    *)
(* output that cannot hold a thing.                                         *)
RefuseInput ==
       /\ stage = "begin"
          /\ \/ job.size \notin 0..MAX_INPUT_SIZE
             \/ job.size = 0 /\ job.limit # "none" /\ job.cap <= 0
             \/ job.size > 0 /\ job.limit = "fill" /\ job.cap < 1
          /\ Deliver(0, 0)
          /\ UNCHANGED <<job, ctx, at, anchor, found, inDict, probe, filled, out, tok, high>>

EmptyBlock ==
      /\ stage = "begin" /\ job.size = 0 /\ (job.limit = "none" \/ job.cap > 0)
         /\ out' = <<0>> /\ Wrote(1) /\ Deliver(1, 0)
         /\ UNCHANGED <<job, ctx, at, anchor, found, inDict, probe, filled, tok>>

SearchFrom(i) == probe' = [next |-> i, step |-> 1, nb |-> job.accel * 2^skipTrigger]

(* The state of the stream moves on before a byte is compressed.            *)
BeginBlock ==
  /\ stage = "begin" /\ job.size \in 1..MAX_INPUT_SIZE /\ (job.limit = "fill" => job.cap >= 1)
  /\ LET moved == [ctx EXCEPT
           !.dictCtx       = @ /\ job.dict # "context",
           !.dictSize      = IF job.dict = "context" THEN job.size ELSE @ + job.size,
           !.currentOffset = @ + job.size,
           !.tableType     = job.type]
     IN IF job.size < minLength
          THEN ctx' = moved /\ stage' = "last" /\ UNCHANGED probe
          ELSE /\ ctx' = [moved EXCEPT !.table = Put(@, job.start)]
               /\ stage' = "search" /\ SearchFrom(job.start + 1)
  /\ anchor' = job.start /\ at' = job.start
  /\ UNCHANGED <<job, found, inDict, filled, out, tok, high, res>>
-----------------------------------------------------------------------------
(* Find a match.                                                           *)

LastProbe == probe.next + probe.step > mflimitPlusOne

Advance == probe' = [next |-> probe.next + probe.step,
                     step |-> probe.nb \div 2^skipTrigger, nb |-> probe.nb + 1]

SearchEnds == /\ stage = "search" /\ LastProbe /\ stage' = "last"
              /\ UNCHANGED <<job, ctx, at, anchor, found, inDict, probe, filled, out, tok, high, res>>

Probed == /\ stage = "search" /\ ~LastProbe
          /\ ctx' = [ctx EXCEPT !.table = Put(@, probe.next)]

Miss == /\ Probed /\ ~Matches(Candidate(ctx.table, probe.next), probe.next)
        /\ Advance
        /\ UNCHANGED <<job, stage, at, anchor, found, inDict, filled, out, tok, high, res>>

Hit == /\ Probed /\ Matches(Candidate(ctx.table, probe.next), probe.next)
       /\ at' = probe.next /\ filled' = probe.next
       /\ found' = Candidate(ctx.table, probe.next) /\ inDict' = Elsewhere(found')
       /\ stage' = "literals"
       /\ UNCHANGED <<job, anchor, probe, out, tok, high, res>>
-----------------------------------------------------------------------------
(* Catch up and encode the literals.                                       *)

CatchUp == Max({k \in 0..(at - anchor) :
                  k = 0 \/ (found - k >= lowLimit /\ Same(at - k, found - k, k))})

Text(i, n) == [k \in 1..n |-> ByteAt(i + k - 1)]

GiveUp == /\ Deliver(0, 0)
          /\ UNCHANGED <<job, ctx, at, anchor, found, inDict, probe, filled, out, tok, high>>

EncodeLiterals ==
  /\ stage = "literals"
  /\ LET run == at - CatchUp - anchor
         op  == Len(out) + 1
     IN IF job.limit = "limited" /\ op + run + (2 + 1 + LASTLITERALS) + run \div 255 > job.cap
          THEN GiveUp
        ELSE IF job.limit = "fill"
                /\ op + (run + 240) \div 255 + run + 2 + 1 + MFLIMIT - MINMATCH > job.cap
          THEN /\ stage' = "last"
               /\ UNCHANGED <<job, ctx, at, anchor, found, inDict, probe, filled, out, tok, high,
                              res>>
        ELSE /\ at' = at - CatchUp /\ found' = found - CatchUp
             /\ out' = out \o <<16 * Bits(run, RUN_MASK)>> \o MoreBytes(run, RUN_MASK)
                           \o Text(anchor, run)
             /\ tok' = op
             /\ Wrote(Len(out') - run + 8 * Max({1, (run + 7) \div 8}))
             /\ stage' = "match"
             /\ UNCHANGED <<job, ctx, anchor, inDict, probe, filled, res>>
-----------------------------------------------------------------------------
(* _next_match: offset and length.                                         *)

(* In the dictionary a match goes to its end, and on at the start of the    *)
(* input.                                                                   *)
MatchCode ==
  IF inDict
    THEN LET limit == Min({at + (job.start - found), matchlimit})
             code  == Count(at + MINMATCH, found + MINMATCH, limit)
         IN IF at + MINMATCH + code = limit THEN code + Count(limit, job.start, matchlimit)
                                            ELSE code
    ELSE Count(at + MINMATCH, found + MINMATCH, matchlimit)

(* What still fits when the output is to be filled.                         *)
Reduced(op) == 15 - 1 + (job.cap - op - 1 - LASTLITERALS) * 255

Tight(op) == job.limit # "none" /\ op + (1 + LASTLITERALS) + (MatchCode + 240) \div 255 > job.cap

TooClose == job.limit = "fill" /\ Len(out) + 2 + 1 + MFLIMIT - MINMATCH > job.cap

Rewind == /\ stage = "match" /\ TooClose
          /\ out' = SubSeq(out, 1, tok - 1) /\ stage' = "last"
          /\ UNCHANGED <<job, ctx, at, anchor, found, inDict, probe, filled, tok, high, res>>

EncodeMatch ==
  /\ stage = "match" /\ ~TooClose
  /\ LET op    == Len(out) + 2
         tight == Tight(op)
         code  == IF tight THEN Reduced(op) ELSE MatchCode
         end   == at + MINMATCH + code
     IN IF tight /\ job.limit = "limited"
          THEN /\ Deliver(0, 0) /\ Wrote(op)
               /\ UNCHANGED <<job, ctx, at, anchor, found, inDict, probe, filled, out, tok>>
        ELSE /\ out' = [out EXCEPT ![tok] = @ + Bits(code, ML_MASK)]
                         \o OffsetBytes(at - found) \o MoreBytes(code, ML_MASK)
             /\ ctx' = IF tight /\ end <= filled
                         THEN [ctx EXCEPT !.table = Clear(@, end..filled)] ELSE ctx
             /\ Wrote(IF code >= ML_MASK THEN op + 4 * ((code - ML_MASK) \div (4 * 255)) + 4 ELSE op)
             /\ at' = end /\ anchor' = end
             /\ stage' = IF end >= mflimitPlusOne THEN "last" ELSE "next"
             /\ UNCHANGED <<job, found, inDict, probe, filled, tok, res>>

(* Fill table, test next position. *)
FilledAhead == Put(ctx.table, at)                               \* MUTANT
Filled == Put(ctx.table, at - 2)

TestNext ==
  /\ stage = "next"
  /\ ctx' = [ctx EXCEPT !.table = Put(Filled, at)]
  /\ LET c == Candidate(Filled, at)
     IN IF Matches(c, at)
          THEN /\ found' = c /\ inDict' = Elsewhere(c)
               /\ out' = Append(out, 0) /\ tok' = Len(out') /\ Wrote(Len(out'))
               /\ stage' = "match" /\ UNCHANGED <<at, probe>>
          ELSE /\ at' = at + 1 /\ SearchFrom(at + 1)
               /\ stage' = "search" /\ UNCHANGED <<found, inDict, out, tok, high>>
  /\ UNCHANGED <<job, anchor, filled, res>>
-----------------------------------------------------------------------------
(* _last_literals.                                                         *)

EncodeLast ==
  /\ stage = "last"
  /\ LET all   == stop - anchor
         op    == Len(out)
         tight == job.limit # "none" /\ op + all + 1 + (all + 255 - RUN_MASK) \div 255 > job.cap
         room  == job.cap - op - 1
         run   == IF tight THEN room - (room + 256 - RUN_MASK) \div 256 ELSE all
     IN IF tight /\ job.limit = "limited" THEN GiveUp
        ELSE /\ out' = out \o <<16 * Bits(run, RUN_MASK)>> \o MoreBytes(run, RUN_MASK)
                           \o Text(anchor, run)
             /\ Wrote(Len(out')) /\ Deliver(Len(out'), anchor + run - job.start)
             /\ UNCHANGED <<job, ctx, at, anchor, found, inDict, probe, filled, tok>>

CompressStep == RefuseInput \/ EmptyBlock \/ BeginBlock \/ SearchEnds \/ Miss \/ Hit \/ EncodeLiterals
                \/ Rewind \/ EncodeMatch \/ TestNext \/ EncodeLast
=============================================================================
