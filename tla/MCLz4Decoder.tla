---------------------------- MODULE MCLz4Decoder ----------------------------
(***************************************************************************)
(* Scenarios for Lz4Decoder.                                               *)
(***************************************************************************)
EXTENDS Lz4Decoder, MCLz4Blocks

(* Every kind of copy, in the fast loop and in the safe one. *)
copyOffsets == 1..9 \cup {15, 16, 17, 33, 64, 79}
copyLengths == {4, 5, 18, 19, 33, 36, 50}

Copies ==
  {One("usingDict", Block(<<>>, <<Seq1(80, o, ml)>>, last), 0, "elsewhere", slack, build) :
     o \in copyOffsets, ml \in copyLengths, last \in {8, 70}, slack \in {0, 9},
     build \in {x86, portable}}
  \cup {One("usingDict", Block(<<>>, <<Seq1(run, o, ml)>>, 70), 0, "elsewhere", 0, aarch64) :
           run \in {80, 130}, o \in {33, 64, 79}, ml \in copyLengths}

(* Lengths around what fits in a token and in one more byte. *)
Runs ==
  {One(fn, Block(<<>>, <<Seq1(run, 1, ml), Seq1(run, 9, 40)>>, last), 0, "elsewhere", 0, x86) :
     fn \in {"usingDict", "fastUsingDict"},
     run \in {9, 14, 15, 16, 33, 270}, ml \in {18, 19, 20, 273, 274}, last \in {5, 14, 15, 70}}

(* Matches that start in the history, before the block or elsewhere.        *)
Dictionaries ==
  {One(fn, Block(History(n), <<Seq1(run, Min({run + Min({back, n}), 79}), ml)>>, last), n, where, 0, build) :
     fn \in {"usingDict", "fastUsingDict"}, n \in {24, 79, 80},
     where \in {"prefix", "elsewhere"}, run \in {0, 3}, back \in {1, 5, 80},
     ml \in {7, 18, 19, 26, 40}, last \in {5, 70}, build \in {x86, portable}}

(* One match too far, on both sides of the border.                          *)
Borders ==
  {Marked(One("usingDict", Block(History(n), <<Seq1(run, n + run + beyond, ml)>>, 70),
              n, where, 0, build), IF beyond = 0 THEN "whole" ELSE "bad") :
     n \in {0, 5, 24}, where \in {"prefix", "elsewhere"}, run \in {1, 20}, beyond \in {0, 1},
     ml \in {4, 30}, build \in {x86, portable}}

(* The end of a block: five literals at least, a match that starts twelve   *)
(* bytes before it; a room that is too small.                               *)
Ends ==
  {LET b == Block(<<>>, <<Seq1(run, 8, ml)>>, last)
   IN Marked(One("usingDict", b, 0, "elsewhere", slack, build),
             IF slack < 0 \/ last < LASTLITERALS \/ ml + last < MFLIMIT THEN "bad" ELSE "whole") :
     run \in {20, 70}, ml \in {4, 7, 8, 30}, last \in {4, 5, 8, 60}, slack \in {-1, 0},
     build \in {x86, portable}}

(* Asking for less than there is; a block that is cut.                      *)
TwoMatches == <<Seq1(20, 7, 30), Seq1(3, 30, 10)>>
Pieces ==
  {Partial(One("usingDict", Block(History(24), sizes, last), 24, where, 0, build), target) :
     sizes \in {TwoMatches, <<Seq1(3, 20, 10)>>, <<Seq1(70, 79, 40)>>},
     last \in {8, 30}, where \in {"prefix", "elsewhere"}, build \in {x86},
     target \in 0..90}
  \cup {Partial(One("usingDict", Block(History(24), TwoMatches, 30), 24, where, 0, portable), target) :
     where \in {"prefix", "elsewhere"}, target \in FASTLOOP_SAFE_DISTANCE..93}
Stumps ==
  {LET s == One("usingDict", Block(History(24), TwoMatches, last), 24, where, 0, x86)
       c == Cut(s, size)
   IN IF partial THEN Partial(c, Len(s.requests[1].text)) ELSE c :
     size \in 0..60, last \in {8, 70}, where \in {"prefix", "elsewhere"}, partial \in BOOLEAN}
-----------------------------------------------------------------------------
(* Streams: blocks that refer to the ones before, decoded where dsts says.  *)

AddBlock(fn, dsts, build, acc, spec) ==
  LET k == Len(acc.requests) + 1
      b == Block(acc.text, spec.seqs, spec.last)
      r == Request(fn, SRC + 1000 * k, b, dsts[k], Len(b.text), build)
  IN [text     |-> acc.text \o b.text,
      memory   |-> acc.memory @@ At0(r.src, b.bytes),
      requests |-> Append(acc.requests, r)]

Stream(fn, specs, dsts, build) ==
  FoldLeft(LAMBDA acc, spec : AddBlock(fn, dsts, build, acc, spec),
           [text |-> <<>>, memory |-> Buffer(0, 800), requests |-> <<>>], specs)

Spec1(run, o, ml, last) == [seqs |-> <<Seq1(run, o, ml)>>, last |-> last]

(* The first block takes 60 bytes; then on behind it, or back to the start  *)
(* of the buffer and on from there, until the prefix is long enough.        *)
StreamSpecs == {<<Spec1(10, 10, 20, 30), Spec1(run, o, 30, last), Spec1(4, o, ml, 70),
                  Spec1(4, 79, ml, 12)>> :
                  run \in {0, 8}, o \in {40, 60}, ml \in {8, 50}, last \in {5, 50}}

SizeOf(spec) == spec.seqs[1].lits + spec.seqs[1].ml + spec.last
Behind(specs, start) ==
  [k \in DOMAIN specs |-> start + FoldLeft(LAMBDA a, x : a + SizeOf(x), 0, SubSeq(specs, 1, k - 1))]
Wrapped(specs) == <<400>> \o Behind(Tail(specs), 0)

Streams == {Stream(fn, specs, IF wrap THEN Wrapped(specs) ELSE Behind(specs, 0), build) :
              fn \in {"continue", "fastContinue"}, specs \in StreamSpecs, wrap \in BOOLEAN,
              build \in {x86, portable}}

(* LZ4_setStreamDecode with the end of a dictionary that lies in front of    *)
(* the output or elsewhere; an empty block.                                 *)
SetFirst(s) ==
  LET r == s.requests[1]
  IN [s EXCEPT !.requests = <<[r EXCEPT !.fn = "set"], [r EXCEPT !.fn = "continue"]>>]

Others == {SetFirst(One("set", Block(History(n), <<Seq1(3, 20, 30)>>, 12), n, where, 0, x86)) :
             n \in {24, 79}, where \in {"prefix", "elsewhere"}}
          \cup {One("usingDict", Block(<<>>, <<>>, 0), 0, "elsewhere", slack, x86) : slack \in {0, 1}}

(* A ring of the size lz4.h asks for: back to its start when the next block *)
(* might not fit.                                                           *)
RingBlock == 100
Ring(specs, build) ==
  LET room  == DecoderRingBufferSize(RingBlock)
      next(at, size) == IF room - (at + size) < RingBlock THEN 0 ELSE at + size
      dsts[k \in DOMAIN specs] == IF k = 1 THEN 0 ELSE next(dsts[k - 1], SizeOf(specs[k - 1]))
      s == Stream("continue", specs, dsts, build)
  IN [s EXCEPT !.requests = [k \in DOMAIN s.requests |->
                               [s.requests[k] EXCEPT !.cap = RingBlock, !.place = "ring"]]]

RingsOf(build) == {Ring(<<Spec1(20, 20, 30, last), Spec1(run, 79, 20, 40)>>, build) :
                     last \in 45..50, run \in 30..40}
Rings == RingsOf(x86)

(* Input at the end of the buffer that the output is written to.            *)
InPlace(b, build) ==
  LET n    == Len(b.text)
      room == InPlaceBufferSize(n)
      src  == room - Len(b.bytes)
      s    == One("usingDict", b, 0, "elsewhere", 0, build)
  IN [memory   |-> At0(src, b.bytes) @@ Buffer(0, room),
      requests |-> <<[s.requests[1] EXCEPT !.src = src, !.place = "in place"]>>]

InPlacesOf(build) == {InPlace(Block(<<>>, <<Seq1(20, 20, ml)>>, last), build) :
                        ml \in 30..40, last \in 60..70}

(* Without the fast loop a long copy overshoots by seven bytes at most, and *)
(* the buffers are large enough.                                            *)
AllScenarios == RingsOf(portable) \cup InPlacesOf(portable)
                \cup Copies \cup Runs \cup Dictionaries \cup Borders \cup Ends \cup Pieces
                \cup Stumps \cup Streams \cup Others
=============================================================================
