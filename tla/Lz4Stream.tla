----------------------------- MODULE Lz4Stream -----------------------------
(***************************************************************************)
(* The indexes of a compressing stream of tools/lz4.c, without the bytes:  *)
(* where the next block starts, how much history lies in front, what the   *)
(* hash table may hold.  A table is kept from block to block and from      *)
(* stream to stream; what is out of date in it is told by its index alone. *)
(***************************************************************************)
EXTENDS Lz4Format, FiniteSets

CONSTANTS Sizes,        \* of a block, as a user may ask
          Buckets       \* of the hash table

ASSUME UserAssumption == Sizes \subseteq Int /\ Buckets \in Nat

VARIABLES off, kind,    \* currentOffset, tableType
          entries,      \* the indexes in the hash table; an empty bucket reads 0
          hist,         \* dictSize
          attached,     \* dictCtx # NULL
          dictOff, dictHist, dictEntries,   \* the stream it points to
          started,      \* since the stream was set up, no function of one block had it
          block         \* the block at work

ctx  == <<off, kind, entries, hist, attached>>
dict == <<dictOff, dictHist, dictEntries>>
vars == <<ctx, dict, started, block>>

HASH_UNIT == 8

NoBlock == [stage |-> "none", start |-> 0, size |-> 0, type |-> "cleared",
            dict |-> "none", small |-> FALSE, hist |-> 0]

Called(start, n, type, d, small, h) ==
  [stage |-> "called", start |-> start, size |-> n, type |-> type, dict |-> d, small |-> small,
   hist |-> h]

Idle     == block.stage = "none"
Accepted == Sizes \cap (0 .. MAX_INPUT_SIZE)

Init == /\ off = 0 /\ kind = "cleared" /\ entries = {} /\ hist = 0 /\ attached = FALSE
        /\ dictOff = 0 /\ dictHist = 0 /\ dictEntries = {} /\ started = TRUE /\ block = NoBlock
-----------------------------------------------------------------------------
(* Between blocks.                                                         *)

(* LZ4_initStream. *)
Cleared == /\ off' = 0 /\ kind' = "cleared" /\ entries' = {} /\ hist' = 0 /\ attached' = FALSE

InitStream == Idle /\ Cleared /\ started' = TRUE /\ UNCHANGED <<dict, block>>

(* LZ4_prepareTable.  The index of a stream whose table is clear grows with *)
(* every reset, beyond IndexLimit and round the 32 bits.                    *)
Stale(n, type) ==
  /\ kind # "cleared"
  /\ \/ kind # type
     \/ type = "byU16" /\ off + n >= KB64 - 1
     \/ type = "byU32" /\ off > GB1
     \/ type = "byPtr"
     \/ n >= KB4

Gap(o, type) == IF o # 0 /\ type = "byU32" THEN U32(o + KB64) ELSE o

PrepareTable(n, type) ==
  /\ IF Stale(n, type) THEN off' = 0 /\ kind' = "cleared" /\ entries' = {}
                       ELSE off' = Gap(off, type) /\ UNCHANGED <<kind, entries>>
  /\ hist' = 0 /\ attached' = FALSE

ResetStreamFast == /\ Idle /\ PrepareTable(0, "byU32") /\ started' = TRUE
                   /\ UNCHANGED <<dict, block>>

(* LZ4_loadDict: of a long dictionary the end; of one below HASH_UNIT       *)
(* nothing; some of its positions go into the table.                        *)
Held(n) == IF n < HASH_UNIT THEN 0 ELSE IF n > KB64 THEN KB64 ELSE n

Loads(n, E) == /\ E \in SUBSET (IF Held(n) = 0 THEN {} ELSE (KB64 - Held(n)) .. (KB64 - HASH_UNIT))
               /\ 0 \notin E /\ Cardinality(E) <= Buckets

LoadDict ==
  /\ Idle /\ started' = TRUE /\ UNCHANGED <<dict, block>>
  /\ \E n \in Sizes :
       /\ off' = KB64 /\ hist' = Held(n) /\ attached' = FALSE /\ Loads(n, entries')
       /\ kind' = IF Held(n) = 0 THEN "cleared" ELSE "byU32"

(* The same for the other stream, while it is not attached. *)
LoadOther ==
  /\ Idle /\ ~attached /\ UNCHANGED <<ctx, started, block>>
  /\ \E n \in Sizes : dictOff' = KB64 /\ dictHist' = Held(n) /\ Loads(n, dictEntries')

AttachDictionary == /\ Idle /\ off' = (IF off = 0 THEN KB64 ELSE off) /\ attached' = (dictHist # 0)
                    /\ UNCHANGED <<kind, entries, hist, dict, started, block>>

DetachDictionary == /\ Idle /\ attached' = FALSE
                    /\ UNCHANGED <<off, kind, entries, hist, dict, started, block>>

(* LZ4_saveDict: of the history what is asked for and there. *)
SaveDict == /\ Idle /\ \E n \in Sizes \cap Nat : /\ hist' \in {n, KB64, hist}
                                                /\ hist' <= n /\ hist' <= KB64 /\ hist' <= hist
            /\ UNCHANGED <<off, kind, entries, attached, dict, started, block>>
-----------------------------------------------------------------------------
(* A block is called for.                                                  *)

TypesFor(n) == IF n < Limit64K THEN {"byU16"} ELSE {"byU32", "byPtr"}

(* LZ4_compress_fast_extState and LZ4_compress_destSize_extState. *)
CompressFast == /\ Idle /\ Cleared /\ started' = FALSE /\ UNCHANGED dict
                /\ \E n \in Sizes : \E t \in TypesFor(n) :
                     block' = Called(0, n, t, "none", FALSE, 0)

(* LZ4_compress_fast_extState_fastReset. *)
CompressFastReset ==
  /\ Idle /\ started' = FALSE /\ UNCHANGED dict
  /\ \E n \in Sizes : \E t \in TypesFor(n) :
       /\ n >= 0 /\ PrepareTable(n, t)
       /\ block' = Called(off', n, t, "none", t = "byU16" /\ off' # 0, 0)

(* LZ4_renormDictT; the sum it tests is one of 32 bits. *)
RescaledLate(n)    == off > IndexLimit                         \* MUTANT
Rescaled(n)        == U32(off + n) > IndexLimit
RescaledOff(n)     == IF Rescaled(n) THEN KB64 ELSE off
RescaledEntries(n) == IF Rescaled(n) THEN {e - (off - KB64) : e \in entries} \ (-off .. 0)
                                     ELSE entries
RescaledHist(n)    == IF Rescaled(n) /\ hist > KB64 THEN KB64 ELSE hist

ShortIfTiny(o, h) == h < MINMATCH /\ h < o                      \* MUTANT
Short(o, h) == h < KB64 /\ h < o

(* What is left of the history when the input has overwritten the rest.     *)
Left(n) == {RescaledHist(n)} \cup {h \in Sizes : /\ 0 <= h /\ h < RescaledHist(n) /\ h <= KB64
                                                /\ (h = 0 \/ h >= MINMATCH)}

(* LZ4_compress_fast_continue with its own history, and forceExtDict.  A    *)
(* user has started the stream with a reset (lz4.h:347-350): after a        *)
(* function of one block the table may be of another type, and nothing      *)
(* checks that.                                                             *)
CompressContinue ==
  /\ Idle /\ started /\ UNCHANGED <<kind, attached, dict, started>>
  /\ \E n \in Accepted : \E h \in Left(n) : \E d \in {"prefix", "external"} :
       /\ d = "external" /\ n > 0 /\ h > 0 => h >= MINMATCH
       /\ off' = RescaledOff(n) /\ entries' = RescaledEntries(n) /\ hist' = h
       /\ block' = Called(off', n, "byU32", d, Short(off', h), h)

(* With the attached dictionary: looked up there, or taken over.            *)
CompressAttached ==
  /\ Idle /\ started /\ attached /\ UNCHANGED <<kind, attached, dict, started>>
  /\ \E n \in Accepted : \E h \in Left(n) :
       /\ n <= KB4
       /\ off' = RescaledOff(n) /\ entries' = RescaledEntries(n) /\ hist' = h
       /\ block' = Called(off', n, "byU32", "context", FALSE, dictHist)

CompressCopied ==
  /\ Idle /\ started /\ attached /\ UNCHANGED <<dict, started>>
  /\ \E n \in Accepted :
       /\ n > KB4
       /\ off' = dictOff /\ kind' = "byU32" /\ entries' = dictEntries /\ hist' = dictHist
       /\ attached' = FALSE
       /\ block' = Called(off', n, "byU32", "external", FALSE, hist')
-----------------------------------------------------------------------------
(* The block.                                                              *)

(* Where positions are looked up and put into the table.                    *)
Positions == IF block.size < minLength THEN {}
             ELSE block.start .. (block.start + block.size - MFLIMIT)

Stored(i) == IF block.type = "byU16" THEN i % KB64 ELSE i

(* New entries take the place of others.                                    *)
Enters(I) == /\ entries' \in SUBSET (entries \cup {Stored(i) : i \in I})
             /\ 0 \notin entries' /\ Cardinality(entries') <= Buckets

(* Bound: a block whose own indexes do not fit 32 bits is not followed, the *)
(* pointers made of them lie in no buffer.  Its user sets the stream up     *)
(* anew.                                                                    *)
Overrun == block.size \in 1..MAX_INPUT_SIZE /\ block.start + block.size >= IndexSpan

Abandon == /\ block.stage = "called" /\ Overrun /\ block' = NoBlock
           /\ Cleared /\ started' = TRUE /\ UNCHANGED dict

Begin ==
  /\ block.stage = "called" /\ block.size \in 1..MAX_INPUT_SIZE /\ ~Overrun
  /\ block' = [block EXCEPT !.stage = "open"]
  /\ off' = off + block.size /\ kind' = block.type
  /\ hist' = (IF block.dict = "context" THEN 0 ELSE hist) + block.size
  /\ attached' = (attached /\ block.dict # "context")
  /\ Enters(Positions \cap {block.start}) /\ UNCHANGED <<dict, started>>

(* A position is put into the table when it is looked up, after a match the *)
(* one two before as well.                                                  *)
Lookup ==
  /\ block.stage = "open" /\ \E i \in Positions : Enters({i}) \/ Enters({i, i - 2} \cap Positions)
  /\ UNCHANGED <<off, kind, hist, attached, dict, started, block>>

(* A block elsewhere is the history of the next one; destSize leaves a      *)
(* clean state.                                                             *)
Done ==
  /\ block.stage = "open" \/ (block.stage = "called" /\ (block.size = 0 \/ block.dict = "none"))
  /\ block' = NoBlock /\ UNCHANGED <<dict, started>>
  /\ IF block.dict \in {"external", "context"}
       THEN hist' = block.size /\ UNCHANGED <<off, kind, entries, attached>>
       ELSE \/ UNCHANGED ctx
            \/ block.dict = "none" /\ Cleared
-----------------------------------------------------------------------------
Next == \/ InitStream \/ ResetStreamFast \/ LoadDict \/ LoadOther \/ AttachDictionary
        \/ DetachDictionary \/ SaveDict
        \/ CompressFast \/ CompressFastReset \/ CompressContinue \/ CompressAttached
        \/ CompressCopied \/ Abandon \/ Begin \/ Lookup \/ Done

Spec == Init /\ [][Next]_vars
-----------------------------------------------------------------------------
(* Properties.                                                             *)

(* What a look-up from position i may come upon: an entry of the table, or  *)
(* for a block with an attached dictionary one of that, moved.              *)
Candidates ==
  LET own == entries \cup {0}
  IN IF block.dict = "context"
       THEN {c \in own : c >= block.start} \cup {c + (block.start - dictOff) : c \in dictEntries \cup {0}}
       ELSE own

(* The tests the code makes before it reads a candidate.                    *)
Admitted(c, i) ==
  /\ block.small => c >= block.start - block.hist
  /\ (block.type = "byU16" /\ DISTANCE_MAX = KB64 - 1) \/ c + DISTANCE_MAX >= i

AtWork == block.stage = "open"

(* Whatever the table holds from earlier blocks, other streams and before a *)
(* rescaling, and although the code tests against the start of the history  *)
(* only for small histories: what passes its tests lies in the history,     *)
(* near enough for two bytes of offset, and is no match across the seam     *)
(* between two segments.                                                    *)
CandidatesInHistory ==
  AtWork => \A c \in Candidates, i \in Positions :
    Admitted(c, i) => /\ c >= block.start - block.hist
                      /\ i - c <= DISTANCE_MAX
                      /\ c < block.start /\ block.dict # "prefix" => c + MINMATCH <= block.start

(* Wherever resets have taken the index, the blocks of a chain stay below   *)
(* the limit of 2 GB that the pointer arithmetic needs.  One case gets by   *)
(* the sum of renormDictT, and by a function of one block: the indexes of   *)
(* the block itself pass 32 bits.  That happens only to a stream that is    *)
(* clear and has no history, whose index resets have moved all the way      *)
(* (33,000 of them and more).  The indexes of a small block stay below the  *)
(* sixteen bits of its table -- unless the stream started with its index    *)
(* moved by an empty dictionary -- and the index of the oldest byte of      *)
(* history is no negative number.                                           *)
IndexFits ==
  block.stage # "none" =>
    /\ block.dict # "none" /\ ~Overrun => block.start + block.size <= IndexLimit
    /\ Overrun => block.stage = "called" /\ kind = "cleared" /\ hist = 0
    /\ block.type = "byU16" /\ block.start < KB64 => \A i \in Positions : i < KB64
    /\ block.dict # "context" => block.hist <= block.start
=============================================================================
