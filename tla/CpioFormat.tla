----------------------------- MODULE CpioFormat -----------------------------
(***************************************************************************)
(* The byte arithmetic of a newc cpio archive, as tools/pack_cpio.py lays  *)
(* one out and as unpack_cpio in tools/bootstrap.c walks one.  The two     *)
(* disagree: the packer pads the name field and the data field each to a   *)
(* multiple of 4, the walker takes the data to follow the name at once and *)
(* pads the whole entry once.                                              *)
(***************************************************************************)
EXTENDS Integers

HDR     == 110      \* bytes of a newc header
MAGIC   == 6        \* bytes of "070701"
NAMEMAX == 1024     \* sizeof(name) in unpack_cpio
LINKMAX == 1023     \* longest link target unpack_cpio keeps

Pad4(n)   == (4 - (n % 4)) % 4
Align4(n) == n + Pad4(n)

(* The packer: where the data of an entry starts, and where the entry ends. *)
PackedData(ns)     == Align4(HDR + ns)
PackedSize(ns, fs) == Align4(PackedData(ns) + fs)

(* The walker: where it looks for the data, and how far it moves.  Both     *)
(* count from the start of the entry, not from the start of the archive.    *)
WalkedData(ns) == HDR + ns

\* MUTANTS of WalkedSize: the name left out; padding added when none is due.
WalkedSizeNoName(ns, fs)    == Align4(HDR + fs)
WalkedSizeAlwaysPad(ns, fs) == HDR + ns + fs + (4 - ((HDR + ns + fs) % 4))

WalkedSize(ns, fs) == Align4(HDR + ns + fs)

(* How many bytes of name padding the walker takes for data. *)
Shift(ns) == PackedData(ns) - WalkedData(ns)
=============================================================================
