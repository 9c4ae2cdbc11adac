# Verification of the OPD2407 TWRP bootstrap

TLA+ modules, TLC configurations and TLAPS proofs for the programs that bring
TWRP up on the device (`tools/bootstrap*.c`) and for the tools that build the
images they boot from. Line numbers refer to the repository at the commit this
directory is kept beside.

## 1. The system

| Component | State | Operations | Talks to |
|---|---|---|---|
| cpio walker (`unpack_cpio`, `make_path` in `bootstrap.c`) | position in the bytes read, what exists under the new root, return code | one loop turn: scan for a header, refuse, extract, finish | called by `main`; creates files |
| `main` of `bootstrap.c` and of `bootstrap_bisect.c` | its step, what is mounted, the log, the root directory | mount, open, read, unpack, pivot, exec, power off, reboot | kernel (storage probing runs beside it), walker, TWRP's init |
| `bootstrap_v3.c`, `bootstrap_v4.c` (v4 is what the CI builds) | the two ramdisks the kernel overlaid, what was tried | mount, look, exec, power off | kernel, TWRP's init |
| `bootstrap_mb.c` | as `bootstrap.c`, plus two child processes | fork, exec, wait, pivot, exec | `magiskboot` |
| `init.c` | log partition | probe and log | kernel |
| ramdisk packing (`pack_cpio.py`, `insert_devnodes.py`) | the archive being built | append an entry, sort, insert device nodes | produces what the walker reads |
| image layout (`pack_init_boot.py`, `build_vendor_boot_twrp.py`, `patch_avb_tail.py`, `patch_boot_cmdline.py`, `parse_boot.py`) | an image as fields and offsets | write, patch, copy | boot loader |
| ELF tools (`elf_deps.py`, `dep_closure.py`) | a work list of libraries | visit, add | file tree |
| `repo` launcher (vendored) | directories, keyring marker, a clone in progress | clone, verify, check out, rename, clean up | git, gpg |
| `lz4.c`, `lz4.h` (vendored; the repository's own programs do not call them) | input and output positions, hash table, indexes and history of a stream | compress and decompress a block; load, attach, save a dictionary; reset | its user's buffers |

What is hard in it:

* **Two byte layouts.** The packer pads the name and the data of an entry
  separately; the walker pads the entry once. It stays on the archive only
  because it scans for the next `070701`, and file data may hold that string.
* **Segments cut at any byte**, and calls that fail half way and are ignored.
* **One thread against the kernel.** Storage is probed while PID 1 runs and
  looks for the partition once.
* **A sequence of roots.** Directories, mounts and files are made in one root
  and looked for in another.
* **Three programs, three paddings.** `pack_cpio.py` writes, `insert_devnodes.py`
  splices, `unpack_cpio` reads; each has its own arithmetic and its own scan.
* **Children.** `bootstrap_mb.c` waits for its children but looks at no result.
* **Copies that go too far.** The decoder of lz4 copies in chunks of 8 to 64
  bytes and writes behind what it was asked for; only tests far from the copy
  keep it inside, and they are different in two loops, three kinds of history
  and three builds.
* **Entries that are out of date.** The compressor of lz4 keeps its hash table
  from block to block and from stream to stream. What is stale in it is told by
  arithmetic on indexes, through resets, rescaling, dictionaries and small
  blocks that share one table.
* **Liveness.** PID 1 must never hang: it hands over or powers off. Version 3
  and 4 can execute themselves.

Properties that make each part correct: the walker skips nothing, takes no file
data for a header, and returns 0 exactly for whole archives; `main` hands over
only behind the whole walk, always ends, and its log does not lie; version 3
and 4 take the renamed init, and switch off only after trying everything; the
packer's archives are what the walker expects; an image's fields describe its
contents; the launcher never leaves a half-made checkout that a later run takes
for a good one; what lz4 compresses it decodes again, its decoder stays inside
its buffers whatever it is given, and its compressor looks only at what is
still there.

## 2. Modules

| Module | Models | State and actions |
|---|---|---|
| `CpioFormat` | the arithmetic of both layouts | `PackedSize` is `entry` of `pack_cpio.py`, `WalkedSize` lines 105-106 of `bootstrap.c` |
| `CpioArchive` | what an archive is to the programs that read or write one | `Headers`; `IsArchive`, `StraysInside`, `IsTree` are the assumptions the tools make of each other |
| `ArchiveWalk` | what `unpack_cpio` promises, without bytes (abstract) | `Visit`, `Finish`, `Refuse` |
| `CpioUnpack` | `unpack_cpio` and `make_path` | `p`, `rc`, `tree`; one action per way through a turn of the loop: `NoTrailer`, `Resync`, `LoseSync`, `BadName`, `Overflow`, `Trailer`, `Extract`. `Extract` contains `make_path`, the creation of the node and the step to the next entry |
| `CpioPack` | `pack_dir`, `entry`, `trailer` | `items` is the list that is collected; `AddDevice`, `AddNode` (in any order `os.walk` may give), `CannotOpen`, `Write` (sort, layout, trailer) |
| `DevNodes` | `insert_devnodes.py` | `pos`, `dev`, `dst`; `Resync`, `Pass`, `Found`, `NotFound`, `Insert` |
| `RamdiskChain` | the three tools one after the other | extends `CpioPack`, INSTANCEs `DevNodes` and `CpioUnpack`; `PackStep`, `StartInsert`, `InsertStep`, `StartUnpack`, `UnpackStep` |
| `BootPromise` | the order of steps in the header comment of `bootstrap.c` (abstract) | `Unpack`, `Pivot`, `HandOver`, `Stop` |
| `Bootstrap` | `main` of `bootstrap.c` and, with `bisect`, of `bootstrap_bisect.c`; INSTANCEs `ArchiveWalk` for the call of `unpack_cpio` | `pc` is the step; one action per call or group of calls whose result decides where `main` goes, and one per way it fails; `Probe` is the kernel |
| `BootstrapMagisk` | `bootstrap_mb.c` | as `Bootstrap`, with `child`, `done` and what the children left (`cpio`, `made`); `Fork`, `ForkFails`, `ChildEnds`, `GoesOn` |
| `BootstrapExec` | `bootstrap_v3.c`, `bootstrap_v4.c` | `files` is the initramfs as the kernel overlaid it; `MountBasics`, `Look`, `Exec`, `NoRecovery`, `PowerOff` |
| `EarlyInit` | `init.c` | `known` are the partitions probed so far, `lines` what the log says; one action per call that reads or mounts one; `Probe` is the kernel |
| `Lz4Format` | the numbers of `lz4.c` and what the bytes of a block are | tokens, lengths, offsets, `CompressBound`, `DecoderRingBufferSize` |
| `Lz4Copy` | the copies: memcpy, the wild copies, patterns of short offsets | operators on a memory |
| `Lz4Decode` | `LZ4_decompress_generic` | `ip`, `op`, `token`, `length`, `offset`, and `pc`, which is a label of the code; one action per way from label to label in the fast and in the safe loop (`FastShortRun`, `FastLongRun`, `LongMatchLength`, `DictMatch`, `CloseMatch`, `PartialMatch`, ...) |
| `Lz4Decoder` | the decoding functions and `LZ4_streamDecode_t` | `sd`; `Invoke` is the choice of a call of the decoder, `Return` the update of the stream; `UnsafeLiterals` and `UnsafeMatch` are `LZ4_decompress_unsafe_generic` |
| `Lz4Compress` | `LZ4_compress_generic_validated` | the table `ctx.table`, the position `at`, the probe, the bytes written; `stage` is a label of the code; search, catch up, literals, match, next, last literals, one action per way |
| `Lz4Codec` | the compressing functions and their streams | extends `Lz4Compress` and `Lz4Decoder`: what a call does before compressing is one action, `BlockDone` what it does afterwards; the block goes to the decoder |
| `Lz4Stream` | the same streams by their indexes alone (abstract) | `off`, `kind`, `entries`, `hist`, an attached stream, the block at work; one action per function that changes them |
| `CpioProofs`, `ChainProofs` | theorems about `CpioUnpack`; about `CpioPack` and `RamdiskChain` (with `DevNodes`) | |
| `BootstrapProofs`, `MagiskProofs`, `InitsProofs` | theorems about `Bootstrap`, `BootstrapMagisk`, `BootstrapExec` and `EarlyInit` | |
| `Lz4Proofs`, `Lz4DecodeProofs`, `Lz4CodecProofs` | theorems about `Lz4Stream`, `Lz4Decoder` and `Lz4Codec` | |
| `MCArchives`, `MCTrees`, `MCCpioUnpack`, `MCRamdiskChain`, `MCBootstrap`, `MCBootstrapMagisk`, `MCInits`, `MCLz4Blocks`, `MCLz4Decoder`, `MCLz4Codec`, `MCLz4Stream` | archives, trees, ramdisks, blocks and lists of calls for TLC | |

`EarlyInit` names its initial state and steps `EarlyStart` and `EarlyNext`, so
that `MCInits` can run it and `BootstrapExec` in one model: the two never meet,
and a behaviour is one of the one or one of the other.

How they fit together: `CpioUnpack` implements `ArchiveWalk`, `Bootstrap` uses
`ArchiveWalk` in the place of the call and implements `BootPromise`;
`BootstrapMagisk` implements `BootPromise` with "both children are over" in the
place of "the walk is over". `RamdiskChain` shows that what one tool writes
meets the assumptions of the next (`HandedOn`). `Lz4Codec` hands each block it
compresses to `Lz4Decoder`, over one memory that both read and write, and
implements `Lz4Stream`; what is proved of `Lz4Stream` for windows and tables of
every size holds of `Lz4Codec` in that way.

What the models abstract:

* The bytes of an archive are the positions of `070701` (headers and stray
  copies in data), the fields of each header, and the length. A stray copy lies
  wholly in a name or in data, because padding is NUL and the string has no
  border. `IsArchive` demands offsets in the order and at least the distance
  the packer gives them, and room for the last header; more padding is allowed.
  `IsTree` says that names are distinct, that only directories have entries
  below them, and that only the name of a directory is written with a `/`
  behind it. It says nothing of what the last header holds, and cannot: see
  `chain_accept` below.
* Of file contents: whether they are what the entry says, shifted by the name
  padding, or cut short. Of directory modes: the entry's or make_path's 0755.
* Names are in ASCII (`pack_cpio.py` counts characters and writes UTF-8). The
  order of paths as strings is given by the constant `Rank`. The tree is one an
  unprivileged user can have, so that every device comes from the list.
* A link to a directory is packed as an empty directory, as `os.walk` and the
  code have it; `RoundTrip` states that outcome. `RoundTrip` looks at the tree
  when the walk is over, with whatever result. It speaks of trees whose names
  the walker has room for (`ShortNames`, `bootstrap.c:72`): at a name of 1024
  bytes the walk ends, as `cpio` shows. The archive is taken to fit into the
  buffer it is read to.
* Of what an archive holds, `main` needs one thing: that the kernel can execute
  `/init`. `Images` says what an archive may have there: a program or not, under
  a name padded (newc) or not, and of which length. `InitComesOut` is what
  `bootstrap.c:80` makes of it: `init` and `./init` padded come out with NUL
  bytes in front and are no programs any more, `/init` comes out right.
* `L` looks at no result: where faults are modelled each line may fail to come to
  the log (`Write`), of a line of `init.c`, which takes two writes, also a part.
* `do_poweroff` and `do_reboot` do not return: the caller is PID 1, which may
  make the call, and the magic numbers are right.
* `mount` with MS_MOVE and no source fails in the kernel (EINVAL).
* devtmpfs has partitions at its top level only (no `/dev/block`) in the
  bootstrappers, so that the second name `main` tries is never there.
* `pivot_root` is taken as the programs use it: possible when its directory is
  in place. A kernel that refuses to leave the initramfs in this way makes the
  call fail in every boot; that is among the faults (`PivotFails`).
* `magiskboot` is external: its unpack leaves the ramdisk whole, in part or not
  at all, its extract a part of what is there; without faults, all of it.
* The memory of lz4 is a function from addresses to bytes, in which input, output,
  history and dictionary lie as the user puts them. The window (64 KB), the
  farthest match, the sizes that decide over tables (4 KB, 1 GB) and the limit of
  the indexes (2 GB) and the span of their 32 bits are constants, and sums of
  indexes that the code makes in 32 bits wrap (`U32`); the lengths of tokens,
  tails and copies have their real values, because overshoot is a matter of those.
  The hash is a constant function.
* Left out of lz4: the overflow tests of a 32-bit accumulator and of pointers
  in `read_variable_length` and its callers (addresses are integers); the value
  of an error (any is -1); what a match with offset 0 gives (zeros, no
  well-formed block has one); histories in more than two segments; allocation,
  and the obsolete names of functions. `byU32` always hashes five bytes (builds
  for 32 bits hash four); indexes in front of an attached dictionary are
  negative numbers where the code lets them wrap; `forceExtDict` keeps tiny
  histories, and no plan has one; a dictionary is attached only to a stream
  whose next block does not go on in its own history. A compressed block is put
  into memory when its function returns, `high` says how far it wrote meanwhile.
* The log is its last line and where it goes (in `EarlyInit`: the facts it
  states); v3's and v4's log lines are left out.

Lines that read `\* MUTANT` are wrong forms of the definition after them. No
specification uses them; each is put in the definition's place to see that the
property it stands beside notices.

## 3. What is checked

| Run | Question | Bounds and why they suffice |
|---|---|---|
| `cpio` | Does the walker come to every header, take nothing else for one, judge right, end, and keep `ArchiveWalk`'s promise when calls fail? | Name lengths of all residues modulo 4, data lengths 0 to 9, a stray header string at every place of the data, every cut of the segment from 110 bytes to its end: the arithmetic depends on residues only (`WalkedAgainstPacked` is proved for all). Ramdisk-like trees with a directory before and after what is below it, with and without a trailing slash, a device, links, a fifo, a name of 1024 bytes, a link target of 1100. With and without faults; every call may fail |
| `chain` | Does what goes into the packer come out of the walker? Are parents first, is nothing lost, are device nodes put exactly behind the real entry dev, does each tool meet the next one's assumptions and end? | Trees of depth three with a link, a link to a directory, a file that holds a header string at its start and end, with and without a directory dev, in every order `os.walk` may give, every set of unreadable directories and files; all residues of a file's length, among them the one where the two layouts part; with the three devices of the script, or none and `insert_devnodes.py`. Archives from elsewhere for `insert_devnodes.py`: a file in front that holds the header of a dev at each of four places, all residues, dev with and without a slash and with padding nobody asked for; dev first, last, absent, and a name that only ends in dev |
| `boot` | Does PID 1 keep the order it promises, decide, log the truth? Does the bisect build's reboot tell the truth? What does it take to reach TWRP? | Archives of up to three entries with and without `init` and `oldroot`, `/init` with and without padding and as something that is no program, both programs; with and without faults, where any call may fail, each write of the log too; storage early, late or never |
| `magisk` | The same of `bootstrap_mb.c`; do the children keep their order? | every set of `init`, `dev`, `etc` as a ramdisk; every call, fork and child may fail, each write of the log too |
| `inits` | Do v3 and v4 take the renamed init, and give up last? Is the log of `init.c` consistent while nodes appear, is its evidence in one place, does PID 1 stay? | every combination of missing, broken and usable files in vendor_boot; the three partitions `init.c` names, each appearing at any time or never; every mount, open, exec and opendir may fail, and each write of the log of `init.c` |
| `lz4_block` | Does the decoder give the text of a block, or refuse, near every end? Is what was compressed decoded to the same, within the bounds promised? Does no copy leave its buffer? Would the assertions of the compressor hold? | below; 94,674 states |
| `lz4_stream` | Are the candidates that pass the tests of the code in the history, whatever the table holds? Where do indexes stay within their width? | below; 2,920,842 states |
| `cpio_content`, `chain_accept`, `boot_twrp`, `exec_fallback`, `lz4_ring` | disagreements, below | |

The bounds of lz4. In `lz4_block` the window is 80 bytes, so that a block can be
longer than the window, shorter than it, and longer than the 64 bytes below which
the fast loop is not entered. Hand-made blocks cover: each offset below the size
of a chunk and around each chunk (1 to 9, 15, 16, 17, 33, 64, 79); the lengths
around what fits in a token and in one more byte; matches that start in a history
in front of the block, elsewhere or in both, and one byte beyond it; last literals
around the margins of 5, 12 and 64 bytes; a cut after each of the first 60 bytes;
partial decoding to each target from 0 to 90; buffers one byte too small; streams
that go on, turn to the start of a buffer, or are set anew; the builds for x86,
for aarch64, and without the fast loop. Calls of the compressor cover every size
of input from 0 to 50 and around 91 (`LZ4_64Klimit`), every size of output, new,
reset, loaded, attached, detached, saved and rescaled streams, history overwritten
in part, sizes that are refused, and unused streams that are reset 14, 17 and 30
times in a row, past the limit of the indexes of this run. In `lz4_stream` the
calls come in any order with no bound on their number: a window of 14, blocks of
sizes around each limit, and a table of one bucket, which is enough for an
invariant that speaks of one entry at a time. An index has `IndexSpan` values
there, six windows, and the limit is about half of them: the resets of an unused
stream take its index past the limit and round its 32 bits. `lz4.c:922` moves the
index at every reset, and the tests of lines 900-906 look at it only when the
table holds something. Beyond the limit the next block of a chain rescales index
and history (`lz4.c:1699`). One block gets by: the one whose size takes the sum of
that line past 32 bits. It takes a clear stream without history, 33,000 resets or
more and a block long enough; `IndexFits` says so, and what such a block does is
not followed (`Overrun`, `Abandon`: its user sets the stream up anew; the pointers
the code makes of its indexes lie in no buffer). A chain of blocks is started by a
reset, an initialization or a dictionary (`started`), as `lz4.h:347-350` asks:
after a function of one block the table may be of another type, and read as 32
bits its entries would be other indexes. `StaysInside` looks at the memory in
every step of a call: an overshoot over a neighbouring buffer that a later copy
repairs would be seen.

Input at the end of the output's own buffer (`lz4.c:2216`, `lz4.h:638-639`)
decodes right under `Exact` in the build without the fast loop. The fast loop
overshoots by more than `LZ4_DECOMPRESS_INPLACE_BUFFER_SIZE` allows for small
blocks; which of the two the margin is meant for the comment does not say, so
that nothing is claimed of it.

One run answers one question about one part: where two parts were asked
the same way over the same archives they share a run (`chain`, `inits`).

Deadlock is not checked: every program here ends (the walker returns, the
archive is written, the device is off, asleep or has been handed over). In the
runs of lz4 it is: a label of the code from which no action leads on would show
as a deadlock, and a user who has made all calls stutters (`Over`, `Finished`).

Fairness: weak fairness of the program's own steps. PID 1 and a tool on the build
host are run as long as they have something to do. In `BootstrapMagisk` also of
`ChildEnds`: magiskboot is a program that ends; `waitpid` has no limit, and
without this assumption `Decides` does not hold. Nothing is assumed of `Probe`:
storage may never appear.

### Where code and documents disagree

* `cpio_content`: `unpack_cpio` reads the data of an entry right after its name
  (`bootstrap.c:80`), although names are padded ("standards-compliant newc",
  `bootstrap.c:1`; `pack_cpio.py:23`). Unless 110 + namesize is a multiple of 4,
  a file starts with 1 to 3 NUL bytes and loses its last bytes; a link gets an
  empty target and is not made at all.
* `chain_accept`: the trailer of `pack_cpio.py` ("Official mkbootfs trailer",
  line 38) has 11 header fields where newc has 13. `unpack_cpio` finds the
  letters `TRAILER!` where it expects the length of the name, reads 0x00a00e00
  and ends with "bad namesize": every archive of `pack_cpio.py` is unpacked to
  its last entry and then refused.
* `boot_twrp`: `/oldroot` is made in the old root, `pivot_root` wants it in the
  new one; without a directory `oldroot` in the archive every boot ends in
  "pivot fail" (`bootstrap.c:142`). `bootstrap_mb.c:99` has it right.
* `exec_fallback`: the "original name" v3 and v4 fall back to is the
  bootstrapper itself, so the program executes itself without end
  (`bootstrap_v3.c:36-38`, `bootstrap_v4.c:53-56`).
* `lz4_ring`: "Decompression buffer size is _at least_
  LZ4_decoderRingBufferSize(maxBlockSize)" (`lz4.h:515-519`), which adds 14 bytes
  to the window and a block (`lz4.h:493`). The fast loop copies long runs of
  literals in stripes of 32 bytes (`lz4.c:2113`), and in such a ring overwrites
  history that the next block may refer to at the full distance. The block is
  then decoded to other bytes, without an error. The build without the fast loop
  decodes such rings right (`lz4_block`).

A failing write, open, mkdir, mknod or symlink in `unpack_cpio` is passed over and
0 returned (`bootstrap.c:82-103`), although "Failures power off (observable
signal)" (`bootstrap.c:3`): TWRP may be started in a tree with holes. `ArchiveWalk`
and `BootPromise` allow it. What `ImplementsPromise` says is the rest of the
header, the order of steps: no pivot before every entry was visited and all are
there that nothing kept from being made, TWRP's init in the new root only.

### Where a property says less than one might wish

* `DiagnosisTrue` (both bootstrappers) speaks of the last line that came to the
  log. A line may be lost, as `L` ignores `write` and `fsync`; an older line that is
  then last is still true of the machine, and a complaint is missing only if its
  own write failed.
* `LogConsistent` and `OneTrace` claim nothing of a log of `init.c` in which a write
  failed (`holes`): a number may then stand behind the name of another partition.
  A final list may be missing because `opendir` failed; the log says that.
* `AssertionsHold` leaves out two assertions in the cases in which they fail. Line
  837 (an index fits 16 bits) fails when a block starts beyond them: loading an
  empty dictionary moves the index to 64 KB and leaves the table clear, so that
  `LZ4_compress_fast_extState_fastReset` keeps it (`lz4.c:900-925`). No harm comes
  of it: what is read back lies before the start of the block, where line 1097
  sorts it out (`ReadsHistory` and `RoundTrip` hold over these calls, too). Lines
  1083 and 1282 (`dictBase`) fail when the debugging function
  `LZ4_compress_forceExtDict` is called without a dictionary on a stream whose
  index is not 0.

## 4. What is proved

For every value of the constants that meets the assumptions below, by TLAPS. Each
invariant that is named is shown to hold initially, to be kept by every action,
and to imply the property.

**The walker** (`CpioProofs`). `AlignProperties` and `WalkedAgainstPacked`: the
distance of the two layouts is 0 or 4 bytes. `NothingInPadding`: between where the
walker stops and the next header there is no `070701`. `ResyncFindsNext`,
`ExtractPasses`: a scan ends at the header that is due; an extraction ends between
one header and the next. `AlwaysInStep` (`InStep`) and `VerdictIsRight`
(`VerdictRight`) follow from the invariant `WalkInv`: type correctness, `InStep`,
`VerdictRight`, and that every name passed fits. The last is needed because a
verdict is about all names while the walker sees only one at a time. `TreeInv`
speaks of what was made: `NothingForeign`, `NothingSkipped`, and `KindsRight`,
that whatever exists under the name of an entry, passed or yet to come, has that
entry's kind. Without that part `NothingSkipped` is not inductive: `make_path` may
have made a directory in the place of a later entry, and only `IsTree` says that
this entry is a directory as well. From both follow `NothingSkippedTheorem`,
`NothingForeignTheorem`, `NodesStayTheorem` (no step takes a node away or changes
it) and `ImplementsWalkTheorem`: `CpioUnpack` implements `ArchiveWalk`, faults and
cut segments included. `EndsAtLast` is the other direction of the verdict: a walk
over an archive that was read whole ends behind its last entry.

**The packer** (`ChainProofs`, first part). `PackInv` holds for every tree, every
list of devices, every set of unreadable files and every order of listing.
`AllMade` (every item is that of a device or of a node that can be reached) and
`Distinct` give one half of `NothingLost`; `NoneLeft` gives the other, by looking
at the shallowest: when nothing is ready any more, a node that can be reached and
is not packed would have a parent of this kind. `InTurn` is needed for the devices
to be different while the list is still being read; `Shallow` says that the sort
put no item before one of less depth, from which `ParentsFirst` follows.
`SortedIs` proves that the sort is a permutation, from what `Precedes` is; no
order of the listing enters. `ArchiveIs` and `WellPacked`, on `Laid`, give
`PacksArchiveTheorem`: what is written meets `IsArchive`, `StraysInside` and
`IsTree`.

**The chain** (`ChainProofs`, second part). `InsertInv` follows
`insert_devnodes.py`. While it scans, there is an entry it moves `Towards`, with
no entry of dev before it, and no header string between; or it has come `Through`.
A string in the data of a file may draw the scan into a file, but not past its
end. `SplicedIsArchive`, `SplicedStraysInside`, `SplicedIsTree` and `SplicedNames`
say what cutting an archive at the end of an entry and putting nodes in makes of
it: the sums of the lengths are moved, and nothing else. From `ChainInv` follow
`HandedOnTheorem`, `InsertedBehindDevTheorem` and `FindsDevTheorem`.
`RoundTripTheorem` takes the walker as it is proved: `Walker` is an instance of
`CpioProofs` for the set of all archives that meet its assumption (`Handable`),
and `ProductIsHandable` shows that the archive in hand is one. `SameStep` shows
that a step of `RamdiskChain` is one of that walker, so that `WalkInv` and
`TreeInv` hold along the chain (`UnpackInv`); `WhatIsPacked`, `WhatIsUnpacked` and
`WhatIsMade` then follow an entry from the tree to the archive, through the
splice, and to the new root.

**The bootstrappers**. In `BootstrapProofs` `IInv` adds to type correctness
`Progress`, what is known at each step of `main` about the archive and the root.
It is what makes `DiagnosisTrue` inductive: a line that is lost leaves an older
one last, so that each line has to stay true while `main` goes on. With what the
walk has behind it, it gives `KeepsPromise`: `Bootstrap` implements `BootPromise`,
step by step. `SignalIsRight` (`BisectSignal`) needs one invariant more,
`BisectEnds`: the bisect build never comes to a step after the archive.
`MagiskProofs` has the same for `BootstrapMagisk`, where `Progress` is what the
children have done at each step: `ChildrenInOrderTheorem`, `DiagnosisTheorem`,
`ImplementsPromiseTheorem`. In `InitsProofs` `ExecInv` says what v4 has seen and
that the renamed init was tried before the other, which gives `OffIsLastTheorem`.
`EarlyInv` says of every line of the log of `init.c` what was there when it was
written, as long as no write failed (`Evidence`, `LinesTrue`), and where the log
and the mount may be at each step (`Places`, `Listing`); `LogConsistentTheorem`
and `OneTraceTheorem` follow.

**lz4**. `Lz4Proofs`: `StreamInvariant` is the inductive invariant of `Lz4Stream`,
for every window, every limit, every size of block and every number of buckets.
Its parts: `CtxOK` (an entry lies eight bytes at least before the end of the
stream, and a clear table is empty and its index a number of whole windows);
`ChainOK` (a stream that may go on is below the limit, or clear and without history:
only that can have been taken beyond the limit, and round the 32 bits);
`Attached` and `DictOK` (the attached stream holds a dictionary that ends at
64 KB); `BlockOK` (the combinations of start, table, history and switches the
functions call the compressor with); `Reach` (where the code does not test
against the start of the history, the history is as long as the window, or
goes back to 0, or the table holds nothing older); `Seam` (no entry lies
across the border of two segments). `CandidatesInHistory` needs `Reach` and
`Seam`: at the moment of a look-up only the entry and the position are seen,
and why the missing test does not matter was decided by an earlier call.
`CandidatesTheorem` and `IndexesTheorem` follow; by
`ImplementsIndexesTheorem`, below, they speak of the compressor.

`Lz4DecodeProofs`: `StaysInsideTheorem`. Whatever the input holds, however it was
cut, for all three builds and every order of the calls, no step of the decoder
writes outside the output buffer or reads behind the input. `DecInv` has the
margins at each label of the code: what is left of the input where a token or an
offset was promised (`InputLeft`), and how much room the next copy may count on
(`RoomLeft`: 64 bytes at the top of the fast loop, 32 after a short run, ...). A
test of the code gives a margin, the copy behind it uses it up, and no test is
near its copy. The theorem is about the functions that check their input:
`SafeCall` leaves out `LZ4_decompress_unsafe_generic` ("fast"), which is told no
length of its input and cannot stay in it when the input is ill-formed. Calls of
both kinds are in the run `lz4_block`.

`Lz4CodecProofs`, first part: `FitsTheorem`. For every list of calls, every table,
whatever it holds, every hash and every acceleration: the compressor writes no
more than `CompressBound` where it does not look at the end of the output, and no
more than the output where it does, overshoot of its wild copies included; and it
succeeds where that much room was given. The bound is a statement about a whole
block, and no step of the loop sees a whole block: what is inductive is a bound
per position. `Grown` says that at a position reached with `anchor` as the last
one coded, `Len(out)` is at most `anchor` + `anchor \div 255` beyond a constant of
the label; `SequenceBound` and `LiteralsBound` prove that one sequence keeps it (a
match of four bytes pays for its token and offset, and the extra length bytes are
one in 255), `Overshoot` that the eight bytes a wild copy writes too many stay
below the last literals. For outputs that are too small, `Tight` and `TooClose`
are the code's own tests, and `Grown` says what each leaves (`ReducedIs`: a match
that is cut leaves exactly the room of the last literals). `FInv` is `Grown` with
the types of the compressor's state (`Typed`) and the order of its positions
(`Along`: `anchor` before the position, the position twelve bytes before the end
wherever a match is looked for). `Serving` ties the job to the call it serves,
which the calls after a block rest on. That the hash of a string of any length is
a bucket is all that is used of the hash.

Second part: `ImplementsIndexesTheorem`. `Lz4Codec` implements `Lz4Stream` under
the refinement mapping of `Indexes`: the table of the compressor is mapped to the
set of what is in it, its dictionary to a length, the block at work to its
parameters. Each call has a lemma that gives the abstract step (`LoadSimulates`,
`ContinueSimulates`, ...); the start of a block is `Begin`, a probe and the test
behind a match are `Lookup`, and all the rest of the compression does not show.
`Settled` is what the mapping needs to know of the second stream and of the time
between blocks. The table has no more entries than buckets (`EntriesIs`), which
is all that is abstract about it: hash and buckets are gone.

Third part: `ReadsHistoryTheorem` and `AssertionsHoldTheorem`. Here the proof of
the abstract stream is used: `Stream` is an instance of `Lz4Proofs` over the same
mapping; its steps are those of `Indexes` (`SameStream`), so that its invariant
holds of the compressor (`StreamStays`). `CandidateIs` then says of
an entry of the table, or of the attached one's, what `CandidatesInHistory` says.
What is left is the one entry that the abstract stream cannot place: the position
two before, which is entered and looked up in one step (`TwoBefore`; in a table of
16 bits it may read as another position, and `NarrowIs` shows that the tests or
the size of the block rule that out). `Sorted` says that every entry is older than
the position looked up next. It is not inductive alone. A match may start before
positions that were entered already, because it is extended backwards, and in an
output that is to be filled it may be cut before it has passed them; then the code
takes these entries back, bucket by bucket. `Agreed` says that the match that was
found goes beyond the last position entered, so that only a match that was cut
ends before it, and `Homed` that each entry is in its own bucket, so that the
buckets the code clears are those of the entries (`ClearedOf`). `Homed` is true
only where indexes are positions, which is so where outputs are filled: on a clean
stream (`FillStores`). `Apart` is about blocks whose history lies elsewhere: the
index 0, which an empty bucket reads as, is four bytes before their start.
`Ahead` keeps the position that is probed twelve bytes before the end, or one
further, and `Grounded` follows the address of a history from the call that
set it to the block that looks into it.

These three theorems have a hypothesis, `Careful`, of which no line of the code
checks anything. Two parts are what `lz4.h` asks of users: a chain of blocks is
started by a reset (`lz4.h:347-350`), and a dictionary that is attached stays as
it is (`lz4.h:397-398`). Two are limits of the proof, of which `lz4.h` says
nothing: no block is compressed whose indexes pass 32 bits (which only resets of an
unused stream can lead to, 33,000 of them and more), and the debugging function
`LZ4_compress_forceExtDict` gets no history of one to three bytes. It says
something of the moment of a call only. Every one of the 94,674 states of
`lz4_block` meets it. `Lz4Stream` has the first two in its guards, and of a block
that passes 32 bits it has only the call.

What is assumed of the constants:

* `ArchivesAssumption`, `SourcesAssumption`: archives made elsewhere meet
  `IsArchive`, `StraysInside` and `IsTree` (section 2); those that get device
  nodes are also what `insert_devnodes.py` takes for granted (`IsRamdisk`: offsets
  by fours, plausible headers, dev a directory, no such nodes yet).
* `TreesAssumption`, `ManifestsAssumption`, `RankAssumption`: a tree is closed
  upwards, a `070701` in a file lies in its data, devices are different, lie below
  each other nowhere and are no nodes of the tree, and paths are compared in one
  order. `InsertsAssumption`: where `insert_devnodes.py` is run, trees are ones it
  can be run on.
* `TrailerAssumption`, `NodesAssumption`: the names in the source are strings.
  TLC evaluates them to true; the provers have no rule for literals.
* `JunkAssumption`, `ScenariosAssumption`: memory that nobody has written holds
  bytes, and a user gives the decoder addresses and sizes that are numbers;
  nothing is assumed of where the buffers lie. Of lz4's numbers: the farthest
  match is nearer than the window, 4 KB no more than the window, the largest input
  and a window fit below the limit of the indexes, 1 GB and a window too, the
  limit and the largest input below 2^32, and 2^32 is a number of whole windows.
* `ImagesAssumption`: what an archive may have as `/init`, see section 2.
* `PlansAssumption`: the arguments of the compressing functions have C's types
  (`IsCall`). A source, a capacity and a size are numbers, of any value where the
  code tests them; the functions on a chain of blocks are given a size that
  `LZ4_compressBound` accepts, as `lz4.h` asks, and `fastReset`, which uses a size
  before it looks at it, none below 0. `CodecAssumption`: a window holds a hashed
  string at least, and is no longer than the largest input.
* The switches are Boolean.

Only model-checked: liveness (`Terminates`, `ChainEnds`, `Decides`, `Arrives`,
`TakesRenamed`, `SleepsForEver`), which is out of the prover's reach. Of lz4,
`Exact` and `RoundTrip`: what a list of sequences stands for is a recursion over
the list (the blocks and texts of `Exact` are made in `MCLz4Blocks`), and what a
program computes over it an induction over data, for which the library's theorems
cannot be instantiated. No liveness is stated of lz4: each turn of its loops moves
on in a finite input, and TLC's decision on the fairness of so many actions takes
too long over states that hold a memory.

## 5. What is left

Not modelled:

* The boot image tools (`pack_init_boot.py`, `build_vendor_boot_twrp.py`,
  `patch_avb_tail.py`, `patch_boot_cmdline.py`, `parse_boot.py`): straight-line
  scripts of one patch each, with nothing that could come in another order. What
  an arithmetic model could find is listed as a hazard: `patch_avb_tail.py` takes
  the original size in the footer for the offset of vbmeta, which is harmless
  only while the stock image is as large as the partition.
* `dep_closure.py`, `elf_deps.py`: work lists over a file tree, run by hand. The
  hazard is listed: a library that is kept by name is no root of the closure.
* The vendored `repo` launcher: init with crashes, restarts and two runs at once;
  it only fetches the sources, and its clone and rename steps rest on git.
* `make_vbmeta_nocheck.py`, `make_elf_init.py` (write constants), the build
  configuration (declarations), `sepolicy` patching (external tools).
* Of lz4: what section 2 names.

Worth proving next: `RoundTrip`. Its first step would be an invariant of the
compressor alone, that what is written so far stands for the input up to `anchor`,
over a definition of what sequences stand for that is a recursive function and no
operator. That a match is one (`Same`, in `Agreed`) is proved.
