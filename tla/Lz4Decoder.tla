----------------------------- MODULE Lz4Decoder -----------------------------
(***************************************************************************)
(* The decoding functions of tools/lz4.c: which call of the decoder each   *)
(* of them comes to, the stream state that the _continue functions keep    *)
(* from block to block, and LZ4_decompress_unsafe_generic behind the fast  *)
(* ones.  A user issues a list of requests, one after the other.           *)
(***************************************************************************)
EXTENDS Lz4Decode, Sequences

CONSTANT Scenarios      \* what users do: a memory and a list of requests

DecodeFunctions == {"usingDict", "fastUsingDict", "continue", "fastContinue", "set"}
Builds == [fast : BOOLEAN, stripe : {32, 64}]

(* What C's types say of the arguments; a size of input is not negative.    *)
IsRequest(r) ==
  /\ r.fn \in DecodeFunctions /\ r.build \in Builds /\ r.partial \in BOOLEAN
  /\ r.src \in Int /\ r.size \in Nat
  /\ r.dst \in Int /\ r.cap \in Int /\ r.target \in Int
  /\ r.dictEnd \in Int /\ r.dictSize \in Int

IsMemory(m) == DOMAIN m \subseteq Int /\ m \in [DOMAIN m -> Bytes]

Asked(requests) ==
  LET all == {requests[k] : k \in DOMAIN requests}
  IN requests \in Seq(all) /\ \A r \in all : IsRequest(r)

ASSUME ScenariosAssumption == \A s \in Scenarios : IsMemory(s.memory) /\ Asked(s.requests)

VARIABLES todo,         \* the requests not yet answered
          sd            \* LZ4_streamDecode_t_internal

allVars == <<decVars, todo, sd>>

NewStream == [prefixSize |-> 0, prefixEnd |-> 0, extDictSize |-> 0, extEnd |-> 0]
NoCall    == [dict |-> "no call"]
q         == Head(todo)

Starts(memory, requests) ==
        /\ mem = memory /\ todo = requests
        /\ sd = NewStream /\ call = NoCall /\ pc = "idle"
        /\ ip = 0 /\ op = 0 /\ token = 0 /\ length = 0 /\ offset = 0
        /\ reach = 0 /\ rc = 0

Init == \E s \in Scenarios : Starts(s.memory, s.requests)
-----------------------------------------------------------------------------
(* The calls.                                                              *)

Generic(dict, prefix, dictEnd, dictSize) ==
  [src |-> q.src, size |-> q.size, dst |-> q.dst, partial |-> q.partial, build |-> q.build,
   cap |-> IF q.partial THEN Min({q.target, q.cap}) ELSE q.cap,
   dict |-> dict, prefix |-> prefix, dictEnd |-> dictEnd, dictSize |-> dictSize]

Safe             == Generic("none", 0, 0, 0)
Prefix64k        == Generic("prefix64k", KB64, 0, 0)
SmallPrefix(n)   == Generic("none", n, 0, 0)
ExtDict(end, n)  == Generic("external", 0, end, n)
DoubleDict(p, end, n) == Generic("external", p, end, n)
Unsafe(p, end, n)     == Generic("unsafe", p, end, n)

(* LZ4_decompress_safe_usingDict and its partial brother. *)
UsingDict == CASE q.dictSize = 0     -> Safe
               [] q.dictEnd # q.dst  -> ExtDict(q.dictEnd, q.dictSize)
               [] q.dictSize >= KB64 - 1 -> Prefix64k
               [] OTHER              -> SmallPrefix(q.dictSize)

FastUsingDict == IF q.dictSize = 0 \/ q.dictEnd = q.dst THEN Unsafe(q.dictSize, 0, 0)
                                                        ELSE Unsafe(0, q.dictEnd, q.dictSize)

(* The stream: a first block, one that goes on where the last one ended,    *)
(* or one elsewhere, which makes the prefix the external dictionary.        *)
First   == sd.prefixSize = 0
Rolling == sd.prefixEnd = q.dst

SafeContinue == CASE First                     -> Safe
                  [] ~Rolling                  -> ExtDict(sd.prefixEnd, sd.prefixSize)
                  [] sd.prefixSize >= KB64 - 1 -> Prefix64k
                  [] sd.extDictSize = 0        -> SmallPrefix(sd.prefixSize)
                  [] OTHER -> DoubleDict(sd.prefixSize, sd.extEnd, sd.extDictSize)

FastContinue == CASE First   -> Unsafe(0, 0, 0)
                  [] Rolling -> Unsafe(sd.prefixSize, sd.extEnd, sd.extDictSize)
                  [] OTHER   -> Unsafe(0, sd.prefixEnd, sd.prefixSize)

CallOf == CASE q.fn = "usingDict"     -> UsingDict
            [] q.fn = "fastUsingDict" -> FastUsingDict
            [] q.fn = "continue"      -> SafeContinue
            [] q.fn = "fastContinue"  -> FastContinue

InStream == q.fn \in {"continue", "fastContinue"}

Invoke ==
  /\ pc = "idle" /\ todo # <<>> /\ q.fn # "set"
  /\ call' = CallOf
  /\ pc' = IF call'.dict = "unsafe" THEN "unsafe" ELSE "start"
  /\ ip' = q.src /\ op' = q.dst /\ reach' = q.src
  /\ sd' = IF InStream /\ ~First /\ ~Rolling
             THEN [sd EXCEPT !.extDictSize = sd.prefixSize, !.extEnd = sd.prefixEnd] ELSE sd
  /\ UNCHANGED <<mem, token, length, offset, rc, todo>>

(* LZ4_setStreamDecode. *)
SetStreamDecode ==
  /\ pc = "idle" /\ todo # <<>> /\ q.fn = "set"
  /\ sd' = [NewStream EXCEPT !.prefixSize = q.dictSize, !.prefixEnd = q.dictEnd]
  /\ todo' = Tail(todo)
  /\ UNCHANGED decVars

(* Only a block that was decoded moves the stream on, the fast functions by *)
(* the size they were told.                                                 *)
Return ==
  /\ pc = "done"
  /\ LET n == IF q.fn = "fastContinue" THEN q.cap ELSE rc
     IN sd' = IF ~InStream \/ rc <= 0 THEN sd
              ELSE [sd EXCEPT !.prefixSize = IF Rolling /\ ~First THEN @ + n ELSE n,
                              !.prefixEnd  = q.dst + n]
  /\ todo' = Tail(todo) /\ call' = NoCall /\ pc' = "idle"
  /\ ip' = 0 /\ op' = 0 /\ token' = 0 /\ length' = 0 /\ offset' = 0
  /\ reach' = 0 /\ rc' = 0
  /\ UNCHANGED mem
-----------------------------------------------------------------------------
(* LZ4_decompress_unsafe_generic: it knows how much comes out and trusts    *)
(* what goes in.                                                            *)

Room == oend - op

(* A length of 15 goes on without a limit. *)
FullLength(bits, i) == IF bits < 15 THEN [adds |-> bits, next |-> i]
                       ELSE LET r == CHOOSE r \in MoreLength(i, iend) : TRUE
                            IN [r EXCEPT !.adds = @ + 15]

UnsafeLiterals ==
  /\ pc = "unsafe"
  /\ token' = At(mem, ip)
  /\ LET r == FullLength(LiteralBits(token'), ip + 1)
         n == r.adds
     IN /\ ReadsUpTo(IF Room < n THEN r.next ELSE r.next + n)
        /\ IF Room < n
             THEN pc' = "done" /\ rc' = -1 /\ UNCHANGED <<mem, op, ip>>
             ELSE /\ mem' = Chunk(mem, op, r.next, n) /\ op' = op + n /\ ip' = r.next + n
                  /\ IF oend - op' >= MFLIMIT THEN pc' = "unsafe_match" /\ UNCHANGED rc
                     ELSE /\ pc' = "done"
                          /\ rc' = IF op' = oend THEN ip' - call.src ELSE -1
  /\ UNCHANGED <<call, length, offset>>

UnsafeMatch ==
  /\ pc = "unsafe_match"
  /\ offset' = ReadLE16(mem, ip)
  /\ LET r       == FullLength(MatchBits(token), ip + 2)
         n       == r.adds + MINMATCH
         behind  == offset' - (op - lowPrefix)       \* how far into the dictionary
         fromDict == IF behind > 0 THEN Min({n, behind}) ELSE 0
         m       == Chunk(mem, op, call.dictEnd - behind, fromDict)
         s       == IF behind > 0 THEN lowPrefix ELSE op - offset'
     IN /\ length' = n /\ ip' = r.next /\ ReadsUpTo(r.next)
        /\ IF Room < n \/ behind > call.dictSize
             THEN pc' = "done" /\ rc' = -1 /\ UNCHANGED <<mem, op>>
             ELSE /\ mem' = ByteCopy(m, op + fromDict, s, n - fromDict) /\ op' = op + n
                  /\ IF oend - op' < LASTLITERALS THEN pc' = "done" /\ rc' = -1
                                                 ELSE pc' = "unsafe" /\ UNCHANGED rc
  /\ UNCHANGED <<call, token>>
-----------------------------------------------------------------------------
Step == DecodeStep \/ UnsafeLiterals \/ UnsafeMatch

Finished == todo = <<>> /\ UNCHANGED allVars

Next == Invoke \/ SetStreamDecode \/ (Step /\ UNCHANGED <<todo, sd>>) \/ Return \/ Finished

Spec == Init /\ [][Next]_allVars
-----------------------------------------------------------------------------
(* Properties.                                                             *)

Written(n) == [i \in 1..n |-> mem[call.dst + i - 1]]
Prefix(n)  == SubSeq(q.text, 1, n)

(* What a request for a well-formed block must answer, and what one for a   *)
(* cut or an ill-formed block may.                                          *)
Answer ==
  LET len  == Len(q.text)
      fits == IF call.partial THEN Min({call.cap, len}) ELSE IF call.cap >= len THEN len ELSE -1
      n    == IF rc >= 0 /\ call.dict = "unsafe" THEN call.cap ELSE rc
  IN /\ q.block = "whole" => IF call.dict = "unsafe"
                               THEN rc = IF call.cap = len THEN q.size ELSE -1
                               ELSE rc = fits
     /\ q.block = "bad" => rc = -1
     /\ n >= 0 => n <= len /\ Written(n) = Prefix(n)

(* Every function, in every loop and near every end, gives the text that    *)
(* the block stands for -- all of it or as much as was asked for -- or says *)
(* that it cannot.  The copies that overshoot, the shortcuts and the two    *)
(* dictionaries make no difference.                                         *)
Exact == pc = "done" /\ q.place # "compressed" => Answer

(* "Decompression buffer size is _at least_                                 *)
(* LZ4_decoderRingBufferSize(maxBlockSize)", then "data can be produced by  *)
(* any source compliant with LZ4 format specification" (lz4.h:516-519).     *)
(* The 14 bytes it adds are less than what a long run of literals           *)
(* overshoots by since it is copied in stripes of 32.                       *)
RingSuffices == pc = "done" /\ q.place = "ring" => Answer

(* No copy, however far it overshoots, changes a byte outside the output    *)
(* or reads behind the end of the input.                                    *)
StaysInside ==
  [][pc \notin {"idle", "done"} =>
       /\ \A a \in DOMAIN mem : mem'[a] # mem[a] => a \in call.dst .. (oend - 1)
       /\ reach' <= iend]_decVars
=============================================================================
