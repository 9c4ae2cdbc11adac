------------------------------ MODULE DevNodes ------------------------------
(***************************************************************************)
(* main of tools/insert_devnodes.py: a walk over an archive made elsewhere *)
(* to the entry of the directory dev, and three device nodes put in behind *)
(* that entry.  The walk steps by the arithmetic of CpioFormat's walker,   *)
(* and where there is no header it looks at every fourth byte.             *)
(***************************************************************************)
EXTENDS CpioArchive, FiniteSets

CONSTANT Sources        \* the archives that may be read

VARIABLES src,          \* the archive read
          pos,          \* where the walk is
          dev,          \* where the entry of dev was found, or NoEntry
          dst,          \* the archive written, or Nothing
          step          \* "scan", "insert", "written" or "exit"

devVars == <<src, pos, dev, dst, step>>

NoEntry == -1
Nothing == [off |-> <<>>]

Init == /\ src \in Sources
        /\ pos = 0 /\ dev = NoEntry /\ dst = Nothing /\ step = "scan"

-----------------------------------------------------------------------------
(* A header is taken for one when its fields are numbers in these limits;   *)
(* a length that is no number raises ValueError and is treated alike.       *)
NAMELIMIT == 4096
FILELIMIT == 64 * 1024 * 1024

Plausible(h) == h.ns \in 1..NAMELIMIT /\ h.fs < FILELIMIT

Heads    == DOMAIN src.hdr
InFile   == step = "scan" /\ pos + HDR <= src.len
AtHeader == InFile /\ pos \in Heads /\ Plausible(src.hdr[pos])

(* './dev', './dev/', 'dev' and 'dev/'; the mode of the entry is not looked at. *)
IsDev(h) == h.name = <<"dev">>

(* The next place, by fours, at which there is a header string. *)
Ahead == {m \in Heads : m > pos /\ (m - pos) % 4 = 0 /\ m + HDR <= src.len}

ResyncForgetsToMove == /\ InFile /\ ~AtHeader /\ Ahead # {}     \* MUTANT
                       /\ pos' = pos
                       /\ UNCHANGED <<src, dev, dst, step>>

Resync == /\ InFile /\ ~AtHeader /\ Ahead # {}
          /\ pos' \in {m \in Ahead : \A q \in Ahead : m <= q}
          /\ UNCHANGED <<src, dev, dst, step>>

PassUnpadded == /\ AtHeader /\ ~IsDev(src.hdr[pos])             \* MUTANT
                /\ pos' = pos + HDR + src.hdr[pos].ns + src.hdr[pos].fs
                /\ UNCHANGED <<src, dev, dst, step>>

Pass == /\ AtHeader /\ ~IsDev(src.hdr[pos])
        /\ pos' = pos + WalkedSize(src.hdr[pos].ns, src.hdr[pos].fs)
        /\ UNCHANGED <<src, dev, dst, step>>

Found == /\ AtHeader /\ IsDev(src.hdr[pos])
         /\ dev' = pos /\ step' = "insert"
         /\ UNCHANGED <<src, pos, dst>>

(* sys.exit: no archive is written. *)
NotFound == /\ step = "scan"
            /\ ~InFile \/ (~AtHeader /\ Ahead = {})
            /\ step' = "exit"
            /\ UNCHANGED <<src, pos, dev, dst>>

-----------------------------------------------------------------------------
(* entry(): one padding for name and data, which for a node without data is *)
(* the packer's as well.                                                    *)
NodeHeader(name, chars) ==
  [name |-> <<"dev", name>>, kind |-> "dev", slash |-> FALSE, ns |-> chars + 1, fs |-> 0]
NewNodes == <<NodeHeader("console", 11), NodeHeader("null", 8), NodeHeader("zero", 8)>>

NodeAt[i \in 1..(Len(NewNodes) + 1)] ==
  IF i = 1 THEN 0 ELSE NodeAt[i - 1] + WalkedSize(NewNodes[i - 1].ns, NewNodes[i - 1].fs)
Added == NodeAt[Len(NewNodes) + 1]

(* A ramdisk as the script takes one for granted: entries at multiples of   *)
(* four and within the limits, nothing behind the trailer, a dev that is a  *)
(* directory entry without data, and none of the nodes.                     *)
IsRamdisk(a) ==
  /\ \A i \in DOMAIN a.off : a.off[i] % 4 = 0
  /\ \A m \in DOMAIN a.hdr : m <= a.off[Len(a.off)]
  /\ ~IsDev(a.hdr[a.off[Len(a.off)]])
  /\ \A i \in 1..(Len(a.off) - 1) :
       LET h == a.hdr[a.off[i]] IN
       /\ Plausible(h)
       /\ IsDev(h) => h.kind = "dir" /\ h.fs = 0
       /\ \A k \in DOMAIN NewNodes : NewNodes[k].name \notin Above(h.name) \cup {h.name}

(* d[:after] + nodes + d[after:] *)
Spliced(a, after) ==
  LET n        == Cardinality({i \in DOMAIN a.off : a.off[i] < after})
      Moved(m) == IF m < after THEN m ELSE m + Added
      new      == {after + NodeAt[i] : i \in DOMAIN NewNodes}
  IN [off |-> SubSeq(a.off, 1, n)
              \o [i \in DOMAIN NewNodes |-> after + NodeAt[i]]
              \o [i \in 1..(Len(a.off) - n) |-> a.off[n + i] + Added],
      hdr |-> [m \in {Moved(q) : q \in DOMAIN a.hdr} \cup new |->
                 IF m \in new THEN NewNodes[CHOOSE i \in DOMAIN NewNodes : m = after + NodeAt[i]]
                 ELSE a.hdr[IF m < after THEN m ELSE m - Added]],
      len |-> a.len + Added]

EntryEndAtHeader(h) == HDR + h.ns                               \* MUTANT

(* find_entry_end: the end of the entry dev, by the same arithmetic. *)
EntryEnd(h) == WalkedSize(h.ns, h.fs)

Insert == /\ step = "insert"
          /\ dst' = Spliced(src, dev + EntryEnd(src.hdr[dev]))
          /\ step' = "written"
          /\ UNCHANGED <<src, pos, dev>>

Next == Resync \/ Pass \/ Found \/ NotFound \/ Insert

Spec == Init /\ [][Next]_devVars /\ WF_devVars(Next)
-----------------------------------------------------------------------------
(* Properties.                                                             *)

Names(a) == [i \in 1..(Len(a.off) - 1) |-> a.hdr[a.off[i]].name]

(* "Insert device-node entries into an existing GNU newc cpio stream, right *)
(* after the './dev' directory entry" (insert_devnodes.py:2-3): the result  *)
(* is again an archive, in which the entries are those of the source with   *)
(* the nodes behind dev, nothing lost and nothing torn.                     *)
InsertedBehindDev ==
  step = "written" =>
    /\ IsArchive(dst) /\ StraysInside(dst)
    /\ \E i \in 1..(Len(src.off) - 1) :
         /\ Names(src)[i] = <<"dev">>
         /\ Names(dst) = SubSeq(Names(src), 1, i) \o [k \in DOMAIN NewNodes |-> NewNodes[k].name]
                          \o SubSeq(Names(src), i + 1, Len(src.off) - 1)

(* The walk comes to dev whatever stands before it, and gives up exactly    *)
(* where there is none.                                                     *)
FindsDev == step \in {"written", "exit"} =>
              (step = "written" <=> \E i \in DOMAIN Names(src) : Names(src)[i] = <<"dev">>)
=============================================================================
