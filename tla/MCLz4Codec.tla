----------------------------- MODULE MCLz4Codec -----------------------------
(***************************************************************************)
(* Plans for Lz4Codec: texts put together from words that come again, and  *)
(* lists of calls.                                                         *)
(***************************************************************************)
EXTENDS Lz4Codec, MCLz4Decoder

SomeHash(s) == (s[1] + (3 * s[2]) + (5 * s[3]) + (7 * s[4])) % 61

(* The first n letters of some words, over and over; a word has eight       *)
(* letters, the word 0 eight times the same.                                *)
Text1(words, n) ==
  [i \in 1..n |-> LET word == words[(((i - 1) \div 8) % Len(words)) + 1]
                  IN IF word = 0 THEN 7 ELSE 10 * word + (i % 8)]

(* Where things lie: input, compressed block, output, saved dictionary.     *)
INP  == 0
ZIP == 2000
OUT == 4000
SAVED == 6000

Room1(ins, outs) == Fill(INP, ins, 250) @@ Fill(ZIP, ins + 20, Junk) @@ Buffer(OUT, outs)

Ask(fn, dst) == [Request(fn, 0, [text |-> <<>>, bytes |-> <<>>], dst, 0, x86)
                   EXCEPT !.place = "compressed"]

Compresses1(fn, src, n, cap, ask) ==
  [fn |-> fn, src |-> src, size |-> n, cap |-> cap, accel |-> 1, dst |-> ZIP,
   bits32 |-> FALSE, ask |-> ask]

(* One text, by a function of its own: every size of the output.            *)
AloneOf(fn, text, cap) ==
  LET n == Len(text)
  IN [memory |-> At0(INP + 100, text) @@ Room1(n + 100, n),
      work   |-> <<Compresses1(fn, INP + 100, n, cap, Ask("usingDict", OUT))>>]

Patterns == {<<1, 2, 1, 2, 3, 1, 4>>, <<0, 0, 1, 0, 0, 0, 2>>, <<1, 2, 3, 4, 5, 6, 7>>}
LongPattern == <<1, 2, 3, 4, 1, 5, 6, 7, 8, 2, 9, 10, 3, 11, 1, 12>>

Alone ==
  {AloneOf("fast", Text1(words, n), CompressBound(n)) : words \in Patterns, n \in 0..50}
  \cup {AloneOf(fn, Text1(words, 50), cap) :
          fn \in {"fast", "destSize"}, words \in Patterns, cap \in 0..65}
  \cup {AloneOf("destSize", Text1(<<1, 0, 0, 0, 0, 0, 0, 0, 0, 0, 2, 3, 1, 2>> \o words, 110), cap) :
          words \in Patterns, cap \in 0..40}
  \cup {AloneOf("destSize", Text1(<<0>>, n), cap) : n \in {1044, 1150}, cap \in 10..16}
  \cup {AloneOf(fn, Text1(<<1, 2, 3, 4, 5, 1, 3, 5, 2, 4, 1>>, 88), cap) :
           fn \in {"fast", "destSize"}, cap \in 40..75}
  \cup {AloneOf(fn, Text1(LongPattern, n), CompressBound(n)) :
          fn \in {"fast", "fastReset"}, n \in 88..93}
  \cup {[AloneOf("fast", Text1(LongPattern, n), CompressBound(n)) EXCEPT
           !.work[1].accel = accel, !.work[1].bits32 = TRUE] :
          n \in {50, 127}, accel \in {0, 3}}
  \cup {[AloneOf("fast", <<>>, 0) EXCEPT !.work[1].size = n] : n \in {-1, MAX_INPUT_SIZE + 1}}
-----------------------------------------------------------------------------
(* Several texts on one state, which is not cleared in between.             *)

Fresh(text) == [fn |-> "write", where |-> INP, bytes |-> text]
Simple(fn)  == [fn |-> fn]
Tell(end, n) == [fn |-> "tell", request |-> [Ask("set", 0) EXCEPT !.dictEnd = end, !.dictSize = n]]
LoadOp(into, size, slow) ==
  [fn |-> "load", lib |-> into = "lib", dictionary |-> EXT - size, size |-> size, slow |-> slow]
AttachOp(yes) == [fn |-> "attach", dictionary |-> yes]

Reuse(first, texts, cap) ==
  [memory |-> Room1(130, 130) @@ At0(EXT - 10, Text1(<<1, 2>>, 10)),
   work   |-> first \o FlattenSeq([k \in DOMAIN texts |->
                <<Fresh(texts[k]), Compresses1("fastReset", INP, Len(texts[k]), cap, Ask("usingDict", OUT))>>])]

ReusedTexts == {<<Text1(<<1, 2, 1>>, 20), Text1(words, n), Text1(<<2, 1, 3, 1>>, 30)>> :
                   words \in {<<2, 1, 1, 3, 2, 2>>, LongPattern}, n \in {0, 22, 47, 48, 91}}

Reuses ==
  {Reuse(first, t, 200) : first \in {<<>>, <<LoadOp("ctx", 0, FALSE)>>}, t \in ReusedTexts}
  \cup {Reuse(<<>>, <<Text1(<<1, 2, 1, 3>>, 30), Text1(<<2, 1, 2, 1, 3>>, 40)>>, cap) : cap \in 10..45}
-----------------------------------------------------------------------------
(* Streams.  Blocks lie where the plan says, the decoder puts them one      *)
(* behind the other.                                                        *)

Blk(where, text) == [where |-> where, text |-> text]

(* The calls for a list of blocks, after those of a stream that already     *)
(* gave n bytes.                                                            *)
BlockCalls(fn, n, blocks) ==
  LET before[k \in Nat] == IF k = 1 THEN n ELSE before[k - 1] + Len(blocks[k - 1].text)
  IN FlattenSeq([k \in DOMAIN blocks |->
       <<[fn |-> "write", where |-> blocks[k].where, bytes |-> blocks[k].text],
         Compresses1(fn, blocks[k].where, Len(blocks[k].text), 300, Ask("continue", OUT + before[k]))>>])

Stream1(calls, ins, outs) ==
  [memory |-> Room1(ins, outs) @@ Fill(SAVED, 100, 251) @@ At0(EXT - 90, Text1(LongPattern, 90)),
   work   |-> calls]

A == Text1(<<1, 2, 3>>, 24)
B == Text1(<<2, 4, 1, 2, 5>>, 36)
C == Text1(<<5, 1, 2, 3, 4, 6, 2>>, 50)
Tiny1 == Text1(<<6>>, 3)
Big == Text1(LongPattern, 100)

Follow(texts) ==
  LET at1[k \in Nat] == IF k = 1 THEN INP ELSE at1[k - 1] + Len(texts[k - 1])
  IN [k \in DOMAIN texts |-> Blk(at1[k], texts[k])]

Texts == {<<x, y, z>> : x \in {A, Tiny1, Big}, y \in {<<>>, Tiny1, B}, z \in {A, C}}

(* One behind the other; in two buffers by turns; in a ring; saved after    *)
(* each block; after a dictionary.                                          *)
Rows    == {BlockCalls("continue", 0, Follow(t)) : t \in Texts}
           \cup {BlockCalls("forceExtDict", 0, Follow(<<x, B, C>>)) : x \in {A, Big}}
Turns   == {BlockCalls("continue", 0, <<Blk(INP, t[1]), Blk(INP + 120, t[2]), Blk(INP, t[3]), Blk(INP + 120, C)>>)
              : t \in Texts}
RingsIn == {BlockCalls("continue", 0, Follow(<<A, B, C>>) \o <<Blk(INP, t), Blk(INP + Len(t), C)>>)
              : t \in {Text1(<<3, 1, 2, 5, 6>>, n) : n \in {5, 22, 30}}}
SaveEach(calls, n) ==
  FlattenSeq([k \in DOMAIN calls |->
    IF calls[k].fn = "continue" THEN <<calls[k], [fn |-> "save", buffer |-> SAVED, size |-> n]>>
                                ELSE <<calls[k]>>])
Saves   == {SaveEach(BlockCalls("continue", 0, <<Blk(INP, t[1]), Blk(INP, t[2]), Blk(INP, t[3])>>), n)
              : t \in Texts, n \in {0, 3, 10, 100}}
Loads   == {<<LoadOp("ctx", n, slow), Tell(EXT, Min({n, 80}))>> \o BlockCalls("continue", 0, Follow(<<x, C>>))
              : n \in {7, 20, 40, 79, 80, 90}, slow \in BOOLEAN, x \in {A, B, Big}}
Attaches == {before \o <<LoadOp("lib", n, FALSE), AttachOp(TRUE), Tell(EXT, IF n < 8 THEN 0 ELSE n)>>
                    \o BlockCalls("continue", 0, <<Blk(INP + 5, x), Blk(INP + 5 + Len(x), A)>>)
              : before \in {<<>>, BlockCalls("continue", 0, <<Blk(INP, B)>>) \o <<Simple("reset")>>},
                n \in {7, 20, 40, 80}, x \in {A, B, Text1(<<2, 3, 9, 1>>, 30), Big, Tiny1}}
Detaches == {<<LoadOp("lib", 40, FALSE), AttachOp(TRUE), AttachOp(FALSE)>> \o BlockCalls("continue", 0, Follow(<<A, B>>))}
Resets  == {BlockCalls("continue", 0, Follow(<<A, B>>)) \o <<Simple(how), Tell(0, 0)>>
              \o BlockCalls("continue", 0, <<Blk(INP, x), Blk(INP + 110, C)>>)
              : how \in {"reset", "init"}, x \in {A, C, Big}}
(* An unused stream whose resets take its index beyond the limit.           *)
Driven  == {<<LoadOp("ctx", 0, FALSE)>> \o [k \in 1..n |-> Simple("reset")]
              \o BlockCalls("continue", 0, Follow(<<B, C>>)) : n \in {14, 17}}
           \cup {<<LoadOp("ctx", 0, FALSE)>> \o [k \in 1..30 |-> Simple("reset")]
              \o <<Fresh(B), Compresses1("fastReset", INP, Len(B), 300, Ask("usingDict", OUT))>>}
(* A block that takes the index near its limit, and some that take it over. *)
Huge == Text1(<<0>>, 900)
ByTurns(texts) == [k \in DOMAIN texts |-> Blk(IF k % 2 = 1 THEN INP ELSE INP + 910, texts[k])]
LongRows == {BlockCalls("continue", 0, Follow(<<Huge, x, Big, B, Big, C, Big, A, C>>)) : x \in {A, C}}
            \cup {BlockCalls(fn, 0, ByTurns(<<Huge, x, Big, Big, B, Big, C, A>>))
                     : fn \in {"continue", "forceExtDict"}, x \in {A, C}}

AllPlans == Alone \cup Reuses
  \cup {Stream1(p, 220, 300) : p \in Rows \cup Turns \cup RingsIn \cup Saves \cup Loads
                                       \cup Attaches \cup Detaches \cup Resets \cup Driven}
  \cup {Stream1(p, 1400, 1400) : p \in LongRows}
=============================================================================
