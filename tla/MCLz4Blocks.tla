---------------------------- MODULE MCLz4Blocks ----------------------------
(***************************************************************************)
(* Blocks and requests for Lz4Decoder.  A block is a list of sequences and *)
(* a last run of literals; literals less than 249 places apart differ, so  *)
(* that a byte that comes from a wrong place shows.                        *)
(***************************************************************************)
EXTENDS Lz4Format, Lz4Copy, SequencesExt

Literal(p) == p % 249       \* the literal that stands at p in the text

Seq1(lits, offset, ml) == [lits |-> lits, offset |-> offset, ml |-> ml]

Literals1(text, n) == [i \in 1..n |-> Literal(Len(text) + i)]
Match1(text, offset, n) ==
  [i \in 1..n |-> LET p == Len(text) - offset + 1 + ((i - 1) % offset)
                  IN IF p \in DOMAIN text THEN text[p] ELSE 0]

AddSequence(b, s) ==
  LET lits == Literals1(b.text, s.lits)
      text == b.text \o lits
      tail == IF s.ml = 0 THEN <<>> ELSE OffsetBytes(s.offset) \o MoreBytes(s.ml - MINMATCH, ML_MASK)
      bits == IF s.ml = 0 THEN 0 ELSE Bits(s.ml - MINMATCH, ML_MASK)
  IN [text  |-> IF s.ml = 0 THEN text ELSE text \o Match1(text, s.offset, s.ml),
      bytes |-> b.bytes \o <<16 * Bits(s.lits, RUN_MASK) + bits>>
                        \o MoreBytes(s.lits, RUN_MASK) \o lits \o tail]

(* A block that comes after the history: its bytes and what they stand for. *)
Block(history, seqs, last) ==
  LET b == FoldLeft(AddSequence, [text |-> history, bytes |-> <<>>],
                    Append(seqs, Seq1(last, 0, 0)))
  IN [b EXCEPT !.text = SubSeq(@, Len(history) + 1, Len(@))]

History(n) == [p \in 1..n |-> Literal(p)]
-----------------------------------------------------------------------------
(* Where things lie.                                                       *)

SRC  == 5000            \* the first input; the next one a thousand on
EXT  == -1000           \* the end of an external dictionary
GUARD == 64             \* cells behind a buffer

At0(a, s)       == [x \in a..(a + Len(s) - 1) |-> s[x - a + 1]]
Fill(a, n, v)   == [x \in a..(a + n - 1) |-> v]
Buffer(a, n)    == Fill(a, n, Junk) @@ Fill(a + n, GUARD, 253)

x86      == [fast |-> TRUE, stripe |-> 32]
aarch64  == [fast |-> TRUE, stripe |-> 64]
portable == [fast |-> FALSE, stripe |-> 32]

Request(fn, src, b, dst, cap, build) ==
  [fn |-> fn, src |-> src, size |-> Len(b.bytes), dst |-> dst, cap |-> cap, target |-> cap,
   partial |-> FALSE, dictEnd |-> 0, dictSize |-> 0, build |-> build,
   text |-> b.text, block |-> "whole", place |-> "apart"]

(* One call: dictionary of n bytes as prefix or elsewhere. *)
One(fn, b, n, where, slack, build) ==
  LET cap == Len(b.text) + slack
      end == IF where = "prefix" THEN 0 ELSE EXT
  IN [memory   |-> Buffer(0, Max({cap, 0})) @@ At0(end - n, History(n)) @@ At0(SRC, b.bytes),
      requests |-> <<[Request(fn, SRC, b, 0, cap, build) EXCEPT
                        !.dictEnd = end, !.dictSize = n]>>]

Marked(s, kind) == [s EXCEPT !.requests[1].block = kind]
Partial(s, target) == [s EXCEPT !.requests[1].partial = TRUE, !.requests[1].target = target]
Cut(s, size) == [s EXCEPT !.requests[1].size = size, !.requests[1].block = "cut"]
=============================================================================
