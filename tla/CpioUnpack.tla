----------------------------- MODULE CpioUnpack -----------------------------
(***************************************************************************)
(* unpack_cpio of tools/bootstrap.c (the same text is in                   *)
(* tools/bootstrap_bisect.c): a walk over the bytes read from the          *)
(* vendor_boot segment, which creates each entry under the new root.       *)
(*                                                                         *)
(* Offsets are real byte offsets.  Of the bytes themselves the model keeps *)
(* the positions of the string "070701" -- the headers, and the stray      *)
(* copies inside file data -- and what a header found there says.          *)
(***************************************************************************)
EXTENDS CpioArchive, FiniteSets

CONSTANTS Archives,     \* the archives that may be in the segment
          Faults        \* whether mkdir, open, mknod, symlink and write may
                        \* fail: a subset of BOOLEAN

ASSUME ArchivesAssumption ==
  \A a \in Archives : IsArchive(a) /\ StraysInside(a) /\ IsTree(a)
ASSUME FaultsAssumption == Faults \subseteq BOOLEAN

VARIABLES faulty,       \* in this run calls may fail
          arc,          \* the archive in the segment
          size,         \* how many bytes of it were read (got)
          p,            \* the walker's position, an offset into the segment
          rc,           \* "running", or what unpack_cpio returned
          tree          \* what exists under the new root: path -> node

vars == <<faulty, arc, size, p, rc, tree>>

Init == /\ faulty \in Faults
        /\ arc \in Archives
        /\ size \in HDR..arc.len
        /\ p = 0
        /\ rc = "running"
        /\ tree = [n \in {} |-> [kind |-> "dir", is |-> "default"]]

-----------------------------------------------------------------------------
Magic    == DOMAIN arc.hdr
H        == arc.hdr[p]
InBounds == p + HDR <= size
AtHeader == rc = "running" /\ InBounds /\ p \in Magic
NameOK   == H.ns # 0 /\ H.ns < NAMEMAX
Fits     == size - p >= HDR + H.ns + H.fs

Return(code) == rc' = code /\ UNCHANGED <<faulty, arc, size, p, tree>>

(* The loop condition fails: the segment ended before the trailer. *)
NoTrailerReturnsZero == rc = "running" /\ ~InBounds /\ Return("ok")    \* MUTANT

NoTrailer == rc = "running" /\ ~InBounds /\ Return("no trailer")

(* No header here: scan forward, a byte at a time, for the next one. *)
Ahead == {m \in Magic : m > p /\ m + HDR <= size}

ResyncForgetsToMove == /\ rc = "running" /\ InBounds /\ p \notin Magic   \* MUTANT
                       /\ Ahead # {}
                       /\ UNCHANGED vars

Resync == /\ rc = "running" /\ InBounds /\ p \notin Magic
          /\ \E q \in Ahead : (\A m \in Ahead : q <= m) /\ p' = q
          /\ UNCHANGED <<faulty, arc, size, rc, tree>>

LoseSync == /\ rc = "running" /\ InBounds /\ p \notin Magic
            /\ Ahead = {}
            /\ Return("no resync")

BadName == AtHeader /\ ~NameOK /\ Return("bad namesize")
OverflowReturnsZero == AtHeader /\ NameOK /\ ~Fits /\ Return("ok")    \* MUTANT

Overflow == AtHeader /\ NameOK /\ ~Fits /\ Return("overflow")
Trailer == AtHeader /\ NameOK /\ Fits /\ H.kind = "end" /\ Return("ok")

-----------------------------------------------------------------------------
(* make_path: the directories above the entry, and the entry's own path too *)
(* when it is written with a trailing '/'; all of them with mode 0755.      *)
PathDirs(h) == Above(h.name) \cup (IF h.slash THEN {h.name} ELSE {})

MakePathResets(t, dirs) ==                                      \* MUTANT
  [n \in DOMAIN t \cup dirs |->
     IF n \in dirs THEN [kind |-> "dir", is |-> "default"] ELSE t[n]]

MakePath(t, dirs) ==
  [n \in DOMAIN t \cup dirs |->
     IF n \in DOMAIN t THEN t[n] ELSE [kind |-> "dir", is |-> "default"]]

(* A mkdir that fails makes those below it fail as well. *)
PathsMade(t, h) ==
  IF faulty
    THEN {D \in SUBSET PathDirs(h) : \A d \in D : Above(d) \subseteq DOMAIN t \cup D}
    ELSE {PathDirs(h)}

(* The walker reads fs bytes from WalkedData, the data is at PackedData.  A *)
(* link target that starts with name padding is the empty string, and       *)
(* symlink("") fails.                                                       *)
MakesOther(h) == h.kind # "lnk" \/ (h.fs > 0 /\ Shift(h.ns) = 0)   \* MUTANT

Makes(h) == \/ h.kind \in {"dir", "dev", "reg"}
            \/ h.kind = "lnk" /\ h.fs > 0 /\ Shift(h.ns) = 0

Content(h) == CASE h.kind = "reg" /\ h.fs > 0 /\ Shift(h.ns) > 0 -> "shifted"
                [] h.kind = "lnk" /\ h.fs > LINKMAX              -> "short"
                [] OTHER                                         -> "entry"

(* How creating the node may end: "lost" is an open, mkdir, mknod or        *)
(* symlink that failed, "short" a write that stopped early.  The code goes  *)
(* on to the next entry in every case.                                      *)
Outcomes(t, h) ==
  IF ~Makes(h) \/ ~(Above(h.name) \subseteq DOMAIN t) THEN {"lost"}
  ELSE {Content(h)} \cup (IF faulty THEN {"lost"} ELSE {})
         \cup (IF faulty /\ h.kind = "reg" /\ h.fs > 0 THEN {"short"} ELSE {})

(* mkdir, mknod and symlink leave what exists; open(O_TRUNC) replaces it. *)
MakeNode(t, h, how) ==
  IF how = "lost" \/ (h.name \in DOMAIN t /\ h.kind # "reg") THEN t
  ELSE [n \in DOMAIN t \cup {h.name} |->
          IF n = h.name THEN [kind |-> h.kind, is |-> how] ELSE t[n]]

Extract ==
  /\ AtHeader /\ NameOK /\ Fits /\ H.kind # "end"
  /\ \E dirs \in PathsMade(tree, H) :
       LET t == MakePath(tree, dirs) IN
       \E how \in Outcomes(t, H) : tree' = MakeNode(t, H, how)
  /\ p' = p + WalkedSize(H.ns, H.fs)
  /\ UNCHANGED <<faulty, arc, size, rc>>

Next == NoTrailer \/ Resync \/ LoseSync \/ BadName \/ Overflow \/ Trailer \/ Extract

(* One thread runs the loop and nothing can stop it: it keeps being run. *)
Spec == Init /\ [][Next]_vars /\ WF_vars(Next)
-----------------------------------------------------------------------------
(* Properties.                                                             *)

Last      == Len(arc.off)
Entry(i)  == arc.hdr[arc.off[i]]
Passed    == {i \in 1..(Last - 1) : arc.off[i] < p}
Whole     == /\ size >= arc.off[Last] + HDR + Entry(Last).ns + Entry(Last).fs
             /\ \A i \in 1..Last : Entry(i).ns < NAMEMAX

(* Type invariant. *)
TypeOK == /\ faulty \in BOOLEAN
          /\ arc \in Archives
          /\ size \in Nat
          /\ p \in Nat
          /\ rc \in {"running", "ok", "no trailer", "no resync", "bad namesize", "overflow"}
          /\ DOMAIN tree \subseteq Seq(STRING)
          /\ \A n \in DOMAIN tree :
               tree[n] \in [kind : {"dir", "lnk", "dev", "reg"},
                            is : {"default", "entry", "shifted", "short"}]

(* The walker's arithmetic disagrees with the packer's, and what brings it  *)
(* back is a scan for six bytes that file data may hold as well.  It always *)
(* lands on the next header: the position is never beyond a header not yet  *)
(* passed, and never before a stray "070701" of an entry already passed.    *)
InStep == \E i \in 1..Last :
            /\ p <= arc.off[i]
            /\ i > 1 => arc.off[i - 1] < p
            /\ \A m \in Magic : ~(p <= m /\ m < arc.off[i])

(* No entry is skipped: without faults every entry behind the walker exists *)
(* with its kind, but for the links whose target the walker misreads.       *)
NothingSkipped ==
  ~faulty => \A i \in Passed :
               Makes(Entry(i)) => /\ Entry(i).name \in DOMAIN tree
                                  /\ tree[Entry(i).name].kind = Entry(i).kind

(* Nothing foreign is created: whatever exists is an entry behind the       *)
(* walker or a directory above one -- never a name read out of file data,   *)
(* never an entry the walker has not come to, and never a link whose target *)
(* it misreads.                                                             *)
NothingForeign ==
  \A n \in DOMAIN tree : \E i \in Passed :
     (n = Entry(i).name /\ Makes(Entry(i))) \/ n \in Above(Entry(i).name)

(* The verdict is right both ways: unpack_cpio returns 0 exactly when the   *)
(* whole archive was read, and then no entry is left; a segment cut at any  *)
(* byte is refused (the caller powers off instead of pivoting).             *)
VerdictRight ==
  /\ rc = "ok" => Whole /\ Passed = 1..(Last - 1)
  /\ rc \notin {"running", "ok"} => ~Whole

(* A node that exists only gets better: a directory stays a directory, and  *)
(* no file that was written is removed or written again by a later entry.   *)
NodesStay ==
  [][\A n \in DOMAIN tree : n \in DOMAIN tree' /\ tree'[n] = tree[n]]_vars

(* The walk ends: every iteration moves forward, over padding as well. *)
Terminates == <>(rc # "running")

(* unpack_cpio keeps the promise its caller in main relies on. *)
EntryNames == [i \in 1..(Last - 1) |-> Entry(i).name]
AllNames   == UNION {{a.hdr[m].name : m \in DOMAIN a.hdr} : a \in Archives}
Created    == {n \in DOMAIN tree : \E i \in Passed : n = Entry(i).name}
Sure       == {n \in AllNames : /\ ~faulty
                               /\ \E i \in 1..(Last - 1) : n = Entry(i).name /\ Makes(Entry(i))}

Walk == INSTANCE ArchiveWalk WITH
          Names <- AllNames, names <- EntryNames, intact <- Whole, sure <- Sure,
          done <- Cardinality(Passed), made <- Created
ImplementsWalk == Walk!Spec

(* What the header comment of bootstrap.c, "standards-compliant newc", and  *)
(* the packer's "name field and data field each padded to a 4-byte          *)
(* boundary" promise together: a file that is created holds its own data.   *)
(* The code breaks it whenever the name is not padded to a multiple of 4.   *)
ContentExact ==
  ~faulty => \A n \in DOMAIN tree : tree[n].kind = "reg" => tree[n].is = "entry"
=============================================================================
