---------------------------- MODULE CpioArchive ----------------------------
(***************************************************************************)
(* What the tools hand to each other: an archive as the places of its      *)
(* headers.  Of the bytes the model keeps the positions of the string      *)
(* "070701" -- the headers, and the stray copies inside file data -- and   *)
(* what a header found there says.                                         *)
(***************************************************************************)
EXTENDS CpioFormat, Sequences

Kinds == {"dir", "lnk", "dev", "reg", "other", "end"}

(* A path is the sequence of its components; above it are its directories.  *)
Above(n) == {SubSeq(n, 1, k) : k \in 1..(Len(n) - 1)}

(* What a header says.  slash: the name is written with a trailing '/', as  *)
(* pack_cpio.py writes directories.  "end" stands for the name TRAILER!!!.  *)
Headers == [name : Seq(STRING), kind : Kinds, slash : BOOLEAN, ns : Nat, fs : Nat]

(* An archive: the offsets of its headers, what the string "070701" is      *)
(* followed by wherever it occurs, and the length.  Of the trailer only the *)
(* header counts: what follows it differs between the tools, and the one of *)
(* pack_cpio.py says of its name what a reader of newc makes of it.         *)
IsArchive(a) ==
  /\ a.off \in Seq(Nat) /\ Len(a.off) >= 1 /\ a.off[1] = 0
  /\ a.len \in Nat
  /\ DOMAIN a.hdr \subseteq Nat /\ \A m \in DOMAIN a.hdr : a.hdr[m] \in Headers
  /\ \A i \in DOMAIN a.off :
       LET h == a.hdr[a.off[i]] IN
       /\ a.off[i] \in DOMAIN a.hdr
       /\ h.ns >= 1
       /\ (h.kind = "end") <=> (i = Len(a.off))
       /\ a.len >= a.off[i] + HDR
       /\ \A j \in DOMAIN a.off : i < j => a.off[j] >= a.off[i] + PackedSize(h.ns, h.fs)

(* A stray "070701" lies wholly inside the name or the data of an entry:    *)
(* padding is NUL, and no proper suffix of the string is a prefix of it, so *)
(* that no copy of it can end inside a header's own.                        *)
StraysInside(a) ==
  \A m \in DOMAIN a.hdr :
     \/ \E i \in DOMAIN a.off : m = a.off[i]
     \/ \E i \in DOMAIN a.off :
          LET h == a.hdr[a.off[i]] IN
          /\ a.off[i] < m
          /\ m + MAGIC <= a.off[i] + PackedData(h.ns) + h.fs

(* The names form a tree: distinct, and nothing lies under a non-directory; *)
(* only the name of a directory is written with a '/' behind it.            *)
IsTree(a) ==
  \A i, j \in 1..(Len(a.off) - 1) :
     LET g == a.hdr[a.off[i]]
         h == a.hdr[a.off[j]]
     IN /\ Len(g.name) >= 1
        /\ g.slash => g.kind = "dir"
        /\ i # j => g.name # h.name
        /\ g.name \in Above(h.name) => g.kind = "dir"
=============================================================================
