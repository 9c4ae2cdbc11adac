---------------------------- MODULE MCBootstrap ----------------------------
(***************************************************************************)
(* Archives for Bootstrap: with and without /init and /oldroot, in either  *)
(* order, and with one entry more.                                         *)
(***************************************************************************)
EXTENDS Bootstrap

Paths == {"init", "oldroot", "etc"}

SomeArchives == {<<>>, <<"init">>, <<"etc", "init">>, <<"oldroot", "init">>,
                 <<"init", "etc", "oldroot">>}

(* /init unpadded, padded under the names "init" and "/init", of which the  *)
(* second has a length that needs no padding, and not a program.            *)
SomeImages == {[padded |-> FALSE, namesize |-> 5, program |-> TRUE],
               [padded |-> TRUE,  namesize |-> 5, program |-> TRUE],
               [padded |-> TRUE,  namesize |-> 6, program |-> TRUE],
               [padded |-> FALSE, namesize |-> 5, program |-> FALSE]}

(* A ramdisk as the TWRP tree gives it: there is no directory oldroot in it. *)
PlainArchives == {<<"etc", "init">>}
=============================================================================
