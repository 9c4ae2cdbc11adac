----------------------------- MODULE MCArchives -----------------------------
(***************************************************************************)
(* How the archives of the MC modules are laid out: by the packer's        *)
(* arithmetic.                                                             *)
(***************************************************************************)
EXTENDS CpioArchive

(* One entry to lay out: what its header says, the offsets inside the entry *)
(* at which its data holds a "070701", and the bytes after it that the      *)
(* format does not ask for.                                                 *)
Item(name, kind, slash, ns, fs, strays, gap) ==
  [h |-> [name |-> name, kind |-> kind, slash |-> slash, ns |-> ns, fs |-> fs],
   strays |-> strays, gap |-> gap]

TheEnd == Item(<<"TRAILER!!!">>, "end", FALSE, 11, 0, {}, 0)

(* What a reader of file data would take a "070701" there for. *)
Foreign == [name |-> <<"foreign">>, kind |-> "reg", slash |-> FALSE, ns |-> 8, fs |-> 0]

LayoutWith(items, stray) ==
  LET es   == Append(items, TheEnd)
      n    == Len(es)
      next[i \in 1..(n + 1)] ==
        IF i = 1 THEN 0
        ELSE next[i - 1] + PackedSize(es[i - 1].h.ns, es[i - 1].h.fs) + es[i - 1].gap
      off  == [i \in 1..n |-> next[i]]
      true == {off[i] : i \in 1..n}
      away == UNION {{off[i] + s : s \in es[i].strays} : i \in 1..n}
  IN [off |-> off,
      len |-> next[n + 1],
      hdr |-> [m \in true \cup away |->
                 IF m \in true THEN es[CHOOSE i \in 1..n : off[i] = m].h ELSE stray]]

Layout(items) == LayoutWith(items, Foreign)
=============================================================================
