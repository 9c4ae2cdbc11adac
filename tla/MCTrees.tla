------------------------------ MODULE MCTrees ------------------------------
(***************************************************************************)
(* File trees for CpioPack and RamdiskChain.                               *)
(***************************************************************************)
EXTENDS MCArchives

Node(kind, chars, size, strays) ==
  [kind |-> kind, chars |-> chars, size |-> size, strays |-> strays]

(* The device nodes that pack_cpio.py makes. *)
Manifest == <<[path |-> <<"dev", "console">>, chars |-> 11],
              [path |-> <<"dev", "null">>, chars |-> 8],
              [path |-> <<"dev", "zero">>, chars |-> 8]>>
Lists == {Manifest, <<>>}

(* All paths in the order of their strings: "etc-x" comes before "etc/a".   *)
InOrder == <<<<"bin">>, <<"dev">>, <<"dev", "console">>, <<"dev", "null">>, <<"dev", "zero">>, <<"etc">>,
             <<"etc-x">>, <<"etc", "a">>, <<"etc", "d">>, <<"etc", "d", "b">>, <<"init">>,
             <<"lib">>>>
Order == [n \in {InOrder[i] : i \in DOMAIN InOrder} |-> CHOOSE i \in DOMAIN InOrder : InOrder[i] = n]

(* A ramdisk: directories of depth two, a file that holds an archive of its *)
(* own, a link to a directory.                                              *)
Ramdisk(s) == [n \in {<<"dev">>, <<"etc">>, <<"etc", "a">>, <<"etc", "d">>, <<"etc", "d", "b">>,
                      <<"bin">>} |->
            CASE n \in {<<"dev">>, <<"etc">>} -> Node("dir", 3, 0, {})
              [] n = <<"etc", "d">>           -> Node("dir", 5, 0, {})
              [] n = <<"etc", "a">>           -> Node("reg", 5, s, {s - MAGIC})
              [] n = <<"etc", "d", "b">>      -> Node("reg", 7, 5, {})
              [] n = <<"bin">>                -> Node("dirlink", 3, 0, {})]

(* The same without the directory of the devices. *)
NoDev(s) == LET t == Ramdisk(s) IN [n \in DOMAIN t \ {<<"dev">>} |-> t[n]]

(* Files and links of different lengths side by side. *)
Flat(s, l) == [n \in {<<"dev">>, <<"etc">>, <<"etc", "a">>, <<"etc-x">>, <<"init">>} |->
            CASE n \in {<<"dev">>, <<"etc">>} -> Node("dir", 3, 0, {})
              [] n = <<"init">>  -> Node("reg", 4, s, {0, s - MAGIC})
              [] n = <<"etc", "a">> -> Node("reg", 5, 3, {})
              [] n = <<"etc-x">> -> Node("lnk", 5, l, {})]

Empty == [n \in {} |-> Node("dir", 1, 0, {})]

Ramdisks   == {Ramdisk(s) : s \in 6..9} \cup {NoDev(7), Flat(8, 3), Empty}
SmallTrees == {Flat(7, 4)}
=============================================================================
