------------------------------ MODULE CpioPack ------------------------------
(***************************************************************************)
(* pack_dir of tools/pack_cpio.py: device nodes given by a list and a tree *)
(* of files become entries, the entries are sorted so that directories     *)
(* come before what is in them, and the archive is written out behind a    *)
(* trailer.  The tree is one an unprivileged user can have: directories,   *)
(* files and links, with names in ASCII.                                   *)
(***************************************************************************)
EXTENDS CpioArchive, FiniteSets

CONSTANTS Trees,        \* file trees: path -> node
          Manifests,    \* the lists of device nodes: sequences of [path, chars]
          Rank,         \* the order of the paths as strings: path -> number
          Stray         \* the header a "070701" in the data would be taken for

(* A node: what it is, the length of its path as a string, the length of    *)
(* its data or link target, and where in its data a "070701" stands.        *)
(* "dirlink" is a link to a directory.                                      *)
Nodes == [kind : {"dir", "reg", "lnk", "dirlink"}, chars : Nat, size : Nat, strays : SUBSET Nat]

Parent(n) == SubSeq(n, 1, Len(n) - 1)
Paths(devices) == {devices[i].path : i \in DOMAIN devices}

(* A tree is closed upwards, and a directory of a device is a directory.    *)
IsFileTree(t) ==
  /\ DOMAIN t \subseteq Seq(STRING) \ {<<>>}
  /\ \A n \in DOMAIN t : t[n] \in Nodes /\ t[n].chars >= 1
  /\ \A n \in DOMAIN t : \A d \in Above(n) : d \in DOMAIN t /\ t[d].kind = "dir"
  /\ \A m \in Manifests : \A n \in Paths(m) :
       n \notin DOMAIN t /\ \A d \in Above(n) \cap DOMAIN t : t[d].kind = "dir"
  /\ \A n \in DOMAIN t : \A k \in t[n].strays :
       t[n].kind \in {"reg", "lnk"} /\ k + MAGIC <= t[n].size

(* The devices of a list are different and none lies below another. *)
IsDeviceList(m) ==
  /\ m \in Seq([path : Seq(STRING) \ {<<>>}, chars : Nat])
  /\ \A i, j \in DOMAIN m : /\ m[i].path = m[j].path => i = j
                           /\ m[i].path \notin Above(m[j].path)

ASSUME TreesAssumption == \A t \in Trees : IsFileTree(t)
ASSUME ManifestsAssumption == \A m \in Manifests : IsDeviceList(m)
ASSUME RankAssumption ==
  /\ \A names \in {DOMAIN t : t \in Trees} \cup {Paths(m) : m \in Manifests} :
       \A n \in names : n \in DOMAIN Rank /\ Rank[n] \in Int
  /\ \A m, n \in DOMAIN Rank : m # n => Rank[m] # Rank[n]
ASSUME StrayAssumption == Stray \in Headers

VARIABLES tree,         \* the files below root
          devs,         \* the list of device nodes
          unreadable,   \* the directories and files that cannot be read
          items,        \* the list items: an entry and its inode number each
          out,          \* the archive written, or Nothing
          pc            \* "packing", "written" or "failed"

packVars == <<tree, devs, unreadable, items, out, pc>>

Nothing == [off |-> <<>>]

(* What is read: the root and the directories are listed, files opened. *)
Readable == {<<>>} \cup {n \in DOMAIN tree : tree[n].kind \in {"dir", "reg"}}

Init == /\ tree \in Trees
        /\ devs \in Manifests
        /\ unreadable \in SUBSET Readable
        /\ items = <<>>
        /\ out = Nothing
        /\ pc = "packing"

-----------------------------------------------------------------------------
(* entry(): numbers go up from the first as entries are made. *)
FIRSTINO == 300000
MakeEntry(hdr, strays) ==
  items' = Append(items, [hdr |-> hdr, ino |-> FIRSTINO + Len(items), strays |-> strays])

Header(n, kind, slash, chars, size) ==
  [name |-> n, kind |-> kind, slash |-> slash, ns |-> chars + (IF slash THEN 2 ELSE 1), fs |-> size]

(* The header of a node of the tree: os.walk counts a link to a directory   *)
(* among the directories, and is packed as one.                             *)
NodeHeader(n) ==
  LET t == tree[n] IN
  IF t.kind \in {"dir", "dirlink"} THEN Header(n, "dir", TRUE, t.chars, 0)
                                   ELSE Header(n, t.kind, FALSE, t.chars, t.size)

Packed == {items[i].hdr.name : i \in DOMAIN items}

AddDevice ==
  /\ pc = "packing" /\ Len(items) < Len(devs)
  /\ LET d == devs[Len(items) + 1] IN
     MakeEntry(Header(d.path, "dev", FALSE, d.chars, 0), {})
  /\ UNCHANGED <<tree, devs, unreadable, out, pc>>

(* os.walk lists a directory after it has been packed, in the order of the  *)
(* file system, passes over one it cannot list, and follows no links.       *)
Listed(d) == /\ d \notin unreadable
             /\ d = <<>> \/ (d \in Packed /\ tree[d].kind = "dir")

ReadyTop == {n \in DOMAIN tree \ Packed : Len(n) = 1 /\ Listed(Parent(n))}   \* MUTANT

Ready == {n \in DOMAIN tree \ Packed : Listed(Parent(n))}

AddNode(n) ==
  /\ pc = "packing" /\ Len(items) >= Len(devs)
  /\ n \in Ready
  /\ tree[n].kind = "reg" => n \notin unreadable
  /\ MakeEntry(NodeHeader(n), tree[n].strays)
  /\ UNCHANGED <<tree, devs, unreadable, out, pc>>

(* open() of a file raises, and the program ends without an archive. *)
CannotOpen(n) ==
  /\ pc = "packing" /\ Len(items) >= Len(devs)
  /\ n \in Ready \cap unreadable /\ tree[n].kind = "reg"
  /\ pc' = "failed"
  /\ UNCHANGED <<tree, devs, unreadable, items, out>>

-----------------------------------------------------------------------------
(* items.sort: by depth, then by path; equal ones keep their order. *)
Depth(k) == Len(items[k].hdr.name)
Key(k)   == Rank[items[k].hdr.name]
Precedes(j, k) == \/ Depth(j) < Depth(k)
                  \/ Depth(j) = Depth(k) /\ Key(j) < Key(k)
                  \/ Depth(j) = Depth(k) /\ Key(j) = Key(k) /\ j < k

SortedNot == items                                             \* MUTANT

Sorted ==
  LET place(k) == 1 + Cardinality({j \in DOMAIN items : Precedes(j, k)})
  IN [i \in DOMAIN items |-> items[CHOOSE k \in DOMAIN items : place(k) = i]]

EntrySizeUnpadded(h) == HDR + h.ns + h.fs                       \* MUTANT

EntrySize(h) == PackedSize(h.ns, h.fs)

(* trailer() writes 11 fields where a newc header has 13, so that the name  *)
(* starts where a reader expects its length: "TRAILER!" is read as a hex    *)
(* number, in which unpack_cpio's hx takes what is no digit for 0.          *)
TRAILERFIELDS == 11
TRAILERSIZE   == 512
Hex(digits)   == LET v[i \in 0..Len(digits)] == IF i = 0 THEN 0 ELSE 16 * v[i - 1] + digits[i]
                 IN v[Len(digits)]
TrailerName   == IF MAGIC + 8 * TRAILERFIELDS = HDR THEN 11
                 ELSE Hex(<<0, 0, 10, 0, 0, 14, 0, 0>>)

Trailer == [name |-> <<"TRAILER!!!">>, kind |-> "end", slash |-> FALSE, ns |-> TrailerName, fs |-> 0]

(* A literal is a string: TLC evaluates it, the provers have no rule for it. *)
ASSUME TrailerAssumption == Trailer.name \in Seq(STRING)

(* The entries one after the other, the trailer behind them. *)
Archive(es) ==
  LET n == Len(es)
      at[i \in 1..(n + 1)] == IF i = 1 THEN 0 ELSE at[i - 1] + EntrySize(es[i - 1].hdr)
      heads  == {at[i] : i \in 1..(n + 1)}
      strays == UNION {{at[i] + PackedData(es[i].hdr.ns) + k : k \in es[i].strays} : i \in 1..n}
      head(m) == LET i == CHOOSE i \in 1..(n + 1) : at[i] = m
                 IN IF i = n + 1 THEN Trailer ELSE es[i].hdr
  IN [off |-> [i \in 1..(n + 1) |-> at[i]],
      hdr |-> [m \in heads \cup strays |-> IF m \in heads THEN head(m) ELSE Stray],
      len |-> at[n + 1] + TRAILERSIZE]

Write ==
  /\ pc = "packing" /\ Len(items) >= Len(devs) /\ Ready = {}
  /\ items' = Sorted
  /\ out' = Archive(items')
  /\ pc' = "written"
  /\ UNCHANGED <<tree, devs, unreadable>>

Next == AddDevice \/ Write \/ \E n \in DOMAIN tree : AddNode(n) \/ CannotOpen(n)

Spec == Init /\ [][Next]_packVars
-----------------------------------------------------------------------------
(* Properties.                                                             *)

(* "every parent directory appearing before its children (required by the   *)
(* kernel initramfs unpacker)" (pack_cpio.py:53), the directories of the    *)
(* device nodes among them when the tree has them.                          *)
ParentsFirst ==
  pc = "written" =>
    \A i \in DOMAIN items :
      \A d \in Above(items[i].hdr.name) \cap Packed :
        \E j \in 1..(i - 1) : items[j].hdr.name = d

(* The archive holds the devices and all of the tree, each node once; only  *)
(* what is below a directory that cannot be listed is silently left out.    *)
Reachable == {n \in DOMAIN tree : unreadable \cap (Above(n) \cup {<<>>}) = {}}

NothingLost ==
  pc = "written" => /\ Packed = Paths(devs) \cup Reachable
                    /\ Len(items) = Cardinality(Packed)
=============================================================================
