----------------------------- MODULE Lz4Decode -----------------------------
(***************************************************************************)
(* LZ4_decompress_generic of tools/lz4.c: a block is decoded sequence by   *)
(* sequence, in a fast loop while 64 bytes of room are left and in a safe  *)
(* loop from then on.  Output, input, prefix and external dictionary lie   *)
(* in one memory, so that a copy that goes too far meets its neighbours.   *)
(***************************************************************************)
EXTENDS Lz4Format, Lz4Copy, FiniteSetsExt

VARIABLES mem,       \* the memory: address to byte
          call,      \* the parameters of the call, and the build
          pc,        \* a label of the code, "idle", "start" or "done"
          ip, op,    \* the next byte to read, the next to write
          token, length, offset,   \* of the sequence being decoded
          reach,     \* one past the farthest byte of the input that was read
          rc         \* what was returned, -1 for any error

cursor  == <<ip, op, token, length, offset>>
decVars == <<mem, call, pc, cursor, reach, rc>>

iend      == call.src + call.size
oend      == call.dst + call.cap
lowPrefix == call.dst - call.prefix
match     == op - offset
cpy       == op + length

checkOffset == call.dictSize < KB64
-----------------------------------------------------------------------------
(* Reading the input.                                                      *)

ReadsUpTo(end) == reach' = Max({reach, end})

ReadLE16(m, a) == At(m, a) + 256 * At(m, a + 1)

(* read_variable_length from i on: what it adds and where it stops; there   *)
(* is no such pair when the limit comes first.                              *)
MoreLength(i, limit) ==
  LET Last(k) == At(mem, k) # 255 /\ \A j \in i..(k - 1) : At(mem, j) = 255
      last    == CHOOSE k \in i..(limit - 1) : Last(k)
  IN IF \E k \in i..(limit - 1) : Last(k)
       THEN {[adds |-> 255 * (last - i) + At(mem, last), next |-> last + 1]} ELSE {}

LiteralLengths(i) == MoreLength(i, iend - RUN_MASK)
MatchLengths(i)   == MoreLength(i, iend - (1 + LASTLITERALS))

(* get offset: after the literals, which end at i, out of a memory that may *)
(* hold them already; the copy has read up to end.                          *)
GetOffset(i, end, next) ==
  /\ offset' = ReadLE16(mem', i) /\ ip' = i + 2 /\ ReadsUpTo(Max({i + 2, end}))
  /\ length' = MatchBits(token') /\ pc' = next

Fail == pc' = "done" /\ rc' = -1 /\ UNCHANGED <<mem, call, cursor, reach>>
-----------------------------------------------------------------------------
(* Special cases, and which loop is first.                                 *)

Refuse == /\ pc = "start" /\ (call.cap <= 0 \/ call.size = 0)
          /\ LET empty == call.partial \/ (call.size = 1 /\ At(mem, call.src) = 0)
             IN rc' = IF call.cap = 0 /\ empty THEN 0 ELSE -1
          /\ pc' = "done" /\ UNCHANGED <<mem, call, cursor, reach>>

Begin == /\ pc = "start" /\ call.cap > 0 /\ call.size > 0
         /\ pc' = IF call.build.fast /\ call.cap >= FASTLOOP_SAFE_DISTANCE THEN "fast" ELSE "safe"
         /\ UNCHANGED <<mem, call, cursor, reach, rc>>
-----------------------------------------------------------------------------
(* The fast loop.                                                          *)

LongRun    == LiteralBits(At(mem, ip)) = RUN_MASK
FarFromEnd == ip + 1 <= iend - (16 + 1)

FastNearEnd ==
  /\ pc = "fast" /\ ~FarFromEnd
  /\ token' = At(mem, ip) /\ length' = LiteralBits(token') /\ ip' = ip + 1 /\ ReadsUpTo(ip + 1)
  /\ pc' = "literal_length" /\ UNCHANGED <<mem, call, op, offset, rc>>

FastShortRun ==
  /\ pc = "fast" /\ FarFromEnd /\ ~LongRun
  /\ token' = At(mem, ip)
  /\ mem' = Chunk(mem, op, ip + 1, 16) /\ op' = op + LiteralBits(token')
  /\ GetOffset(ip + 1 + LiteralBits(token'), ip + 1 + 16, "fast_match_length")
  /\ UNCHANGED <<call, rc>>

FastLongRun ==
  /\ pc = "fast" /\ FarFromEnd /\ LongRun
  /\ token' = At(mem, ip)
  /\ \E r \in LiteralLengths(ip + 1) :
       LET n == RUN_MASK + r.adds   stripe == call.build.stripe
       IN IF op + n > oend - stripe \/ r.next + n > iend - stripe
            THEN /\ length' = n /\ ip' = r.next /\ ReadsUpTo(r.next)
                 /\ pc' = "literals" /\ UNCHANGED <<mem, op, offset>>
            ELSE /\ mem' = StripeCopy(mem, op, r.next, op + n, stripe) /\ op' = op + n
                 /\ GetOffset(r.next + n, StripesEnd(r.next, r.next + n, stripe),
                              "fast_match_length")
  /\ UNCHANGED <<call, rc>>

FastRunCut == pc = "fast" /\ FarFromEnd /\ LongRun /\ LiteralLengths(ip + 1) = {} /\ Fail

(* The length of the match, in both loops; near the end of the room the     *)
(* fast loop hands over.                                                    *)
AtMatchLength == pc \in {"match_length", "fast_match_length"}

SetLength(n, i) ==
  /\ length' = n /\ ip' = i /\ ReadsUpTo(i)
  /\ pc' = IF pc = "fast_match_length" /\ op + n < oend - FASTLOOP_SAFE_DISTANCE
             THEN "fast_match" ELSE "match"
  /\ UNCHANGED <<mem, call, op, token, offset, rc>>

MatchLength == AtMatchLength /\ length # ML_MASK /\ SetLength(length + MINMATCH, ip)

LongMatchLength ==
  /\ AtMatchLength /\ length = ML_MASK
  /\ \E r \in MatchLengths(ip) : SetLength(length + r.adds + MINMATCH, r.next)

MatchLengthCut == AtMatchLength /\ length = ML_MASK /\ MatchLengths(ip) = {} /\ Fail
-----------------------------------------------------------------------------
(* Copying the match.                                                      *)

AtMatch  == pc \in {"match", "fast_match"}
NextLoop == IF pc = "fast_match" THEN "fast" ELSE "safe"

Copied(m, end) == /\ mem' = m /\ op' = end /\ pc' = NextLoop
                  /\ UNCHANGED <<call, ip, token, length, offset, reach, rc>>

(* Eighteen bytes for a match whose length is in its token.                 *)
Copy18(m, d, s) == Chunk(Chunk(Chunk(m, d, s, 8), d + 8, s + 8, 8), d + 16, s + 16, 2)

ShortMatch == length < ML_MASK + MINMATCH /\ offset >= 8
              /\ (call.dict = "prefix64k" \/ match >= lowPrefix)

FastShortMatch == pc = "fast_match" /\ ShortMatch /\ Copied(Copy18(mem, op, match), cpy)

InOrder == AtMatch /\ (pc = "fast_match" => ~ShortMatch)

Outside == checkOffset /\ match + call.dictSize < lowPrefix
InDict  == ~Outside /\ call.dict = "external" /\ match < lowPrefix

OffsetOutside == InOrder /\ Outside /\ Fail

(* Out of the external dictionary, and on from the start of the prefix.     *)
DictMatch ==
  /\ InOrder /\ InDict /\ (cpy > oend - LASTLITERALS => call.partial)
  /\ LET n    == IF cpy > oend - LASTLITERALS THEN Min({length, oend - op}) ELSE length
         fromDict == Min({n, lowPrefix - match})
         m    == Chunk(mem, op, call.dictEnd - (lowPrefix - match), fromDict)
     IN Copied(ByteCopy(m, op + fromDict, lowPrefix, n - fromDict), op + n)

DictMatchTooLong == InOrder /\ InDict /\ cpy > oend - LASTLITERALS /\ ~call.partial /\ Fail

Within == InOrder /\ ~Outside /\ ~InDict

FastMatch ==
  /\ pc = "fast_match" /\ Within
  /\ LET far == call.build.stripe = 64 /\ offset >= 64
     IN Copied(IF offset < 16 THEN CopyUsingOffset(mem, op, match, cpy, offset)
               ELSE StripeCopy(mem, op, match, cpy, IF far THEN 64 ELSE 32), cpy)

NearEndLate == cpy > oend - LASTLITERALS                       \* MUTANT
NearEnd == cpy > oend - MATCH_SAFEGUARD_DISTANCE

(* Where the room may end anywhere, byte by byte and no further.            *)
PartialMatch ==
  /\ pc = "match" /\ Within /\ call.partial /\ NearEnd
  /\ LET n == Min({length, oend - op})
     IN /\ mem' = ByteCopy(mem, op, match, n) /\ op' = op + n
        /\ IF op' = oend THEN pc' = "done" /\ rc' = op' - call.dst
                         ELSE pc' = "safe" /\ UNCHANGED rc
  /\ UNCHANGED <<call, ip, token, length, offset, reach>>

CloseMatch ==
  /\ pc = "match" /\ Within /\ ~call.partial /\ NearEnd /\ cpy <= oend - LASTLITERALS
  /\ LET started == StartMatch(mem, op, match, offset, 1)
         s     == Source8(match, offset)
         limit == oend - (WILDCOPYLENGTH - 1)
         wild  == op + 8 < limit
         m     == IF wild THEN WildCopy8(started, op + 8, s, limit) ELSE started
         at    == IF wild THEN limit ELSE op + 8
     IN Copied(ByteCopy(m, at, s + (at - (op + 8)), cpy - at), cpy)

(* The first eight bytes are copied before the end is looked at.            *)
MatchTooLong ==
  /\ pc = "match" /\ Within /\ ~call.partial /\ NearEnd /\ cpy > oend - LASTLITERALS
  /\ mem' = StartMatch(mem, op, match, offset, 1)
  /\ pc' = "done" /\ rc' = -1 /\ UNCHANGED <<call, cursor, reach>>

PlainMatch ==
  /\ pc = "match" /\ Within /\ ~NearEnd
  /\ LET s == Source8(match, offset)
         m == Chunk(StartMatch(mem, op, match, offset, 1), op + 8, s, 8)
     IN Copied(IF length > 16 THEN WildCopy8(m, op + 16, s + 8, cpy) ELSE m, cpy)
-----------------------------------------------------------------------------
(* The safe loop.                                                          *)

Roomy == /\ ~LongRun
         /\ ip + 1 < iend - 14 - 2
         /\ op <= oend - 14 - 18

(* Sixteen bytes for the literals and eighteen for the match, or the match  *)
(* the long way.                                                            *)
Shortcut ==
  /\ pc = "safe" /\ Roomy
  /\ token' = At(mem, ip)
  /\ LET run   == LiteralBits(token')
         i     == ip + 1 + run
         m     == Chunk(mem, op, ip + 1, 16)
         o     == ReadLE16(m, i)
         d     == op + run
         short == MatchBits(token') # ML_MASK /\ o >= 8
                  /\ (call.dict = "prefix64k" \/ d - o >= lowPrefix)
     IN /\ offset' = o /\ ip' = i + 2 /\ length' = MatchBits(token') /\ ReadsUpTo(ip + 1 + 16)
        /\ IF short THEN /\ mem' = Copy18(m, d, d - o) /\ op' = d + length' + MINMATCH
                         /\ pc' = "safe"
                    ELSE mem' = m /\ op' = d /\ pc' = "match_length"
  /\ UNCHANGED <<call, rc>>

SafeToken ==
  /\ pc = "safe" /\ ~Roomy
  /\ token' = At(mem, ip) /\ length' = LiteralBits(token') /\ ip' = ip + 1 /\ ReadsUpTo(ip + 1)
  /\ pc' = "literal_length" /\ UNCHANGED <<mem, call, op, offset, rc>>

LiteralLength ==
  /\ pc = "literal_length"
  /\ \E r \in IF length = RUN_MASK THEN LiteralLengths(ip) ELSE {[adds |-> 0, next |-> ip]} :
       length' = length + r.adds /\ ip' = r.next /\ ReadsUpTo(r.next)
  /\ pc' = "literals" /\ UNCHANGED <<mem, call, op, token, offset, rc>>

LiteralLengthCut == /\ pc = "literal_length" /\ length = RUN_MASK /\ LiteralLengths(ip) = {}
                    /\ Fail

LastRun == \/ cpy > oend - MFLIMIT
           \/ ip + length > iend - (2 + 1 + LASTLITERALS)

Literals ==
  /\ pc = "literals" /\ ~LastRun
  /\ mem' = WildCopy8(mem, op, ip, cpy) /\ op' = cpy
  /\ UNCHANGED <<call, token, rc>>
  /\ GetOffset(ip + length, StripesEnd(ip, ip + length, 8), "match_length")

LastLiterals ==
  /\ pc = "literals" /\ LastRun /\ ~call.partial
  /\ ip + length = iend /\ cpy <= oend
  /\ mem' = Chunk(mem, op, ip, length) /\ op' = cpy /\ ip' = iend /\ ReadsUpTo(iend)
  /\ pc' = "done" /\ rc' = op' - call.dst
  /\ UNCHANGED <<call, token, length, offset>>

NotTheLast == /\ pc = "literals" /\ LastRun /\ ~call.partial
              /\ (ip + length # iend \/ cpy > oend) /\ Fail

(* As many as there are and as there is room for; on to the match only when *)
(* there is room and an offset left.                                        *)
PartialLiterals ==
  /\ pc = "literals" /\ LastRun /\ call.partial
  /\ LET n == Min({length, iend - ip, oend - op})
     IN /\ mem' = Chunk(mem, op, ip, n) /\ op' = op + n
        /\ IF op' = oend \/ ip + n >= iend - 2
             THEN /\ ip' = ip + n /\ ReadsUpTo(ip') /\ pc' = "done" /\ rc' = op' - call.dst
                  /\ UNCHANGED <<token, length, offset>>
             ELSE /\ UNCHANGED <<token, rc>>
                  /\ GetOffset(ip + n, ip + n, "match_length")
  /\ UNCHANGED call
-----------------------------------------------------------------------------
FastLoop == FastNearEnd \/ FastShortRun \/ FastLongRun \/ FastRunCut
SafeLoop == Shortcut \/ SafeToken \/ LiteralLength \/ LiteralLengthCut
            \/ Literals \/ LastLiterals \/ NotTheLast \/ PartialLiterals
Match == MatchLength \/ LongMatchLength \/ MatchLengthCut
         \/ FastShortMatch \/ OffsetOutside \/ DictMatch \/ DictMatchTooLong
         \/ FastMatch \/ PartialMatch \/ CloseMatch \/ MatchTooLong \/ PlainMatch

DecodeStep == Refuse \/ Begin \/ FastLoop \/ SafeLoop \/ Match
=============================================================================
