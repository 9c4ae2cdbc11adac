---------------------------- MODULE MCCpioUnpack ----------------------------
(***************************************************************************)
(* Archives for CpioUnpack, laid out by MCArchives.                        *)
(***************************************************************************)
EXTENDS CpioUnpack, MCArchives

(* Every residue of the name length and of the data length, with a stray    *)
(* "070701" at every place in the data, and without one.                    *)
Residues ==
  LET pairs(ns, fs, s) == Layout(<<Item(<<"f">>, "reg", FALSE, ns, fs, s, 0),
                                   Item(<<"g">>, "reg", FALSE, 5, 9, {PackedData(5) + 3}, 0)>>)
  IN {pairs(ns, fs, {}) : ns \in 4..7, fs \in 0..9}
     \cup UNION {{pairs(ns, fs, {s}) : s \in PackedData(ns)..(PackedData(ns) + fs - MAGIC)}
                   : ns \in 4..7, fs \in 6..9}

(* A tree as in a ramdisk: a device before and after its directory, links,  *)
(* a fifo, a file whose data ends with a "070701".                          *)
Tree ==
  {Layout(<<Item(<<"etc">>, "dir", d, IF d THEN 5 ELSE 4, 0, {}, 0),
            Item(<<"bin">>, "lnk", FALSE, 4, 9, {}, 0),
            Item(<<"etc", "a">>, "reg", FALSE, 6, 7, {PackedData(6) + 1}, 0),
            Item(<<"dev", "null">>, "dev", FALSE, 9, 0, {}, 0),
            Item(<<"dev">>, "dir", ~d, IF d THEN 4 ELSE 5, 0, {}, 8)>>) : d \in BOOLEAN}

(* What the walker may refuse or lose: a name of 1024 bytes, a link target  *)
(* longer than it keeps, a fifo, a link whose target it misreads.           *)
Odd ==
  {Layout(<<Item(<<"l">>, "lnk", FALSE, 6, 1100, {}, 0),
            Item(<<"q">>, "other", FALSE, 2, 0, {}, 0),
            Item(<<"m">>, "lnk", FALSE, 3, 4, {}, 4)>>),
   Layout(<<Item(<<"d">>, "dir", TRUE, 3, 0, {}, 0),
            Item(<<"d", "long">>, "reg", FALSE, 1024, 3, {}, 0)>>)}

(* Names padded to a multiple of 4, so that every file is read from its     *)
(* place.                                                                   *)
Aligned == {Layout(<<Item(<<"d">>, "dir", FALSE, 2, 0, {}, 0),
                     Item(<<"d", "f">>, "reg", FALSE, 6, 7, {}, 0)>>)}

Everything == Residues \cup Tree \cup Odd
Ramdisks   == Tree \cup Odd
=============================================================================
