----------------------------- MODULE Bootstrap -----------------------------
(***************************************************************************)
(* main of tools/bootstrap.c, run by the kernel as PID 1, and of           *)
(* tools/bootstrap_bisect.c, the same text but for a reboot after the      *)
(* archive is unpacked.  The program takes its steps in order; beside it   *)
(* the kernel goes on probing the storage, whose device node appears at    *)
(* some time or never.  unpack_cpio is taken as ArchiveWalk promises it.   *)
(*                                                                         *)
(* do_poweroff and do_reboot do not return: the reboot system call of      *)
(* PID 1, with the magic numbers it is given, stops the machine.           *)
(*                                                                         *)
(* What an entry holds does not matter to main but for /init, which the    *)
(* kernel must be able to execute: image says what the archive has there.  *)
(***************************************************************************)
EXTENDS Integers, Sequences

CONSTANTS Names,        \* the paths an archive may hold
          Archives,     \* the archives that may be in the segment
          Images,       \* what an archive may have as /init, see InitImages
          Faults,       \* whether system calls may fail: a subset of BOOLEAN
          Bisects       \* whether it is bootstrap_bisect.c: a subset of BOOLEAN

ASSUME ArchivesAssumption == Archives \subseteq Seq(Names)

(* Whether its name is padded, as newc has it; the length of the name, which *)
(* may be spelled "init", "./init" or "/init"; and whether it is a program.  *)
InitImages == [padded: BOOLEAN, namesize: Nat, program: BOOLEAN]

ASSUME ImagesAssumption == Images \subseteq InitImages
ASSUME SwitchesAssumption == Faults \subseteq BOOLEAN /\ Bisects \subseteq BOOLEAN

VARIABLES faulty,       \* in this boot system calls may fail
          bisect,       \* the program is bootstrap_bisect.c
          pc,           \* the step main is at
          probed,       \* the kernel has found the partitions
          mounts,       \* what is mounted on the root that main started in
          log,          \* where logfd points: "none", "ram", "disk"
          said,         \* the last line that came to it
          lost,         \* the last line given to L did not (nothing in main
                        \* looks at this)
          image,        \* the entry of /init in this archive
          holders,      \* the file systems that have a directory /oldroot
          root,         \* the root directory: "rootfs" or "newroot"
          boot,         \* "booting", "twrp", "off" or "rebooted"
          names, intact, sure, done, made, rc       \* as in ArchiveWalk

Walk == INSTANCE ArchiveWalk
walk == <<names, intact, sure, done, made, rc>>
mode == <<faulty, bisect, image>>
text == <<said, lost>>
vars == <<mode, pc, probed, mounts, log, text, holders, root, boot, walk>>

Steps == {"mount", "plog", "log", "open", "read", "newroot", "chdir", "unpack",
          "mkold", "pivot", "detach", "exec", "end"}

Init == /\ faulty \in Faults /\ bisect \in Bisects
        /\ pc = "mount" /\ probed \in BOOLEAN
        /\ image \in Images
        /\ mounts = {} /\ log = "none" /\ said = "nothing" /\ lost = FALSE
        /\ holders = {} /\ root = "rootfs" /\ boot = "booting"
        /\ names \in Archives /\ intact \in BOOLEAN
        /\ sure \in SUBSET {names[i] : i \in DOMAIN names}
        /\ done = 0 /\ made = {} /\ rc = "running"

(* The kernel's part: the device nodes of the partitions appear. *)
Probe == /\ ~probed
         /\ probed' = TRUE
         /\ UNCHANGED <<pc, mounts, log, text, holders, root, boot, walk, mode>>

-----------------------------------------------------------------------------
(* write and fsync may fail; neither result is looked at. *)
Write(line) == \/ said' = line /\ lost' = FALSE
               \/ faulty /\ said' = said /\ lost' = TRUE

(* L writes nothing while logfd is -1. *)
L(line) == IF log = "none" THEN UNCHANGED text ELSE Write(line)

(* main goes from one step to another. *)
Go(from, to) == pc = from /\ pc' = to

(* A system call that may fail does so, or not. *)
MayFail == IF faulty THEN BOOLEAN ELSE {FALSE}

(* L(line); do_poweroff(). *)
PowerOff(from, line) ==
  /\ Go(from, "end")
  /\ L(line)
  /\ boot' = "off"
  /\ UNCHANGED <<probed, mounts, log, holders, root, walk, mode>>

MountBasics ==
  /\ Go("mount", "plog")
  /\ mounts' \in (IF faulty THEN SUBSET {"proc", "sys", "dev"} ELSE {{"proc", "sys", "dev"}})
  /\ UNCHANGED <<probed, log, text, holders, root, boot, walk, mode>>

(* devtmpfs has the nodes of the partitions at its top, once they are known. *)
NodeThere == "dev" \in mounts /\ probed

MountPlog ==
  /\ Go("plog", "log")
  /\ \E fails \in MayFail :
       mounts' = mounts \cup (IF NodeThere /\ ~fails THEN {"plog"} ELSE {})
  /\ UNCHANGED <<probed, log, text, holders, root, boot, walk, mode>>

(* /plog exists in any case: unmounted, the log is a file in memory. *)
OpenLogAsserts ==                                              \* MUTANT
  /\ Go("log", "open")
  /\ \E fails \in MayFail :
       /\ log' = IF fails THEN "closed" ELSE IF "plog" \in mounts THEN "disk" ELSE "ram"
       /\ IF fails THEN UNCHANGED text ELSE Write("bootstrap start")
  /\ UNCHANGED <<probed, mounts, holders, root, boot, walk, mode>>

OpenLog ==
  /\ Go("log", "open")
  /\ \E fails \in MayFail :
       /\ log' = IF fails THEN "none" ELSE IF "plog" \in mounts THEN "disk" ELSE "ram"
       /\ IF fails THEN UNCHANGED text ELSE Write("bootstrap start")
  /\ UNCHANGED <<probed, mounts, holders, root, boot, walk, mode>>

(* One look at the node, under two names of which devtmpfs has only one. *)
OpenStorage ==
  /\ NodeThere
  /\ Go("open", "read")
  /\ UNCHANGED <<probed, mounts, log, text, holders, root, boot, walk, mode>>

NoStorage == /\ pc = "open"
             /\ ~NodeThere \/ faulty
             /\ PowerOff("open", "no vendor_boot node")

NoMemory == faulty /\ PowerOff("read", "malloc fail")

(* read may return less than the segment holds. *)
ReadSegment ==
  /\ Go("read", "newroot")
  /\ \E short \in MayFail : intact' = (intact /\ ~short)
  /\ L("read vb ok")
  /\ UNCHANGED <<probed, mounts, log, holders, root, boot, names, sure, done, made, rc, mode>>

ShortRead == faulty /\ PowerOff("read", "short read")

MountNewroot ==
  /\ Go("newroot", "chdir")
  /\ mounts' = mounts \cup {"newroot"}
  /\ UNCHANGED <<probed, log, text, holders, root, boot, walk, mode>>

NoNewroot == faulty /\ PowerOff("newroot", "tmpfs fail")

EnterNewroot ==
  /\ Go("chdir", "unpack")
  /\ UNCHANGED <<probed, mounts, log, text, holders, root, boot, walk, mode>>

NoChdir == faulty /\ PowerOff("chdir", "chdir fail")

(* unpack_cpio, one entry at a time; the last line it writes names its end. *)
UnpackStep ==
  /\ pc = "unpack" /\ rc = "running"
  /\ Walk!Next
  /\ IF rc' = "running" THEN UNCHANGED text
     ELSE L(IF rc' = "ok" THEN "unpack done" ELSE rc')
  /\ UNCHANGED <<pc, probed, mounts, log, holders, root, boot, mode>>

UnpackedUnchecked ==                                           \* MUTANT
  /\ rc # "running" /\ ~bisect
  /\ Go("unpack", "mkold")
  /\ L("unpack ok")
  /\ UNCHANGED <<probed, mounts, log, holders, root, boot, walk, mode>>

Unpacked ==
  /\ rc = "ok" /\ ~bisect
  /\ Go("unpack", "mkold")
  /\ L("unpack ok")
  /\ UNCHANGED <<probed, mounts, log, holders, root, boot, walk, mode>>

UnpackedBisectGoesOn ==                                        \* MUTANT
  /\ rc = "ok" /\ bisect
  /\ Go("unpack", "mkold")
  /\ L("unpack ok")
  /\ UNCHANGED <<probed, mounts, log, holders, root, boot, walk, mode>>

UnpackedBisect ==
  /\ rc = "ok" /\ bisect
  /\ Go("unpack", "end")
  /\ L("unpack ok")
  /\ boot' = "rebooted"
  /\ UNCHANGED <<probed, mounts, log, holders, root, walk, mode>>

UnpackFails ==
  /\ rc \in Walk!Codes
  /\ Go("unpack", "end")
  /\ boot' = "off"
  /\ UNCHANGED <<probed, mounts, log, text, holders, root, walk, mode>>

(* MS_MOVE without a source moves nothing (EINVAL), so that proc, sys and   *)
(* dev stay where they are.  mkdir("/oldroot") is under the root of now.    *)
MakeOldroot ==
  /\ Go("mkold", "pivot")
  /\ \E fails \in MayFail : holders' = holders \cup (IF fails THEN {} ELSE {root})
  /\ UNCHANGED <<probed, mounts, log, text, root, boot, walk, mode>>

(* pivot_root(".", "./oldroot"): the directory must be in the new root.     *)
OldrootInNewroot == "newroot" \in holders \/ "oldroot" \in made

PivotRoot ==
  /\ OldrootInNewroot
  /\ Go("pivot", "detach")
  /\ root' = "newroot"
  /\ UNCHANGED <<probed, mounts, log, text, holders, boot, walk, mode>>

PivotRetries == /\ ~OldrootInNewroot \/ faulty                  \* MUTANT
                /\ pc = "pivot"
                /\ UNCHANGED vars

PivotFails == /\ ~OldrootInNewroot \/ faulty
              /\ PowerOff("pivot", "pivot fail")

(* The old root goes, and with it what is mounted on it; the file behind    *)
(* logfd stays open.                                                        *)
DetachOldroot ==
  /\ Go("detach", "exec")
  /\ \E fails \in MayFail : mounts' = IF fails THEN mounts ELSE {}
  /\ L("exec twrp init")
  /\ UNCHANGED <<probed, log, holders, root, boot, walk, mode>>

(* unpack_cpio takes the data of a file to start right after its name, so   *)
(* that a padded name of a wrong length leaves NUL bytes in front of it; a  *)
(* link gets an empty target in that case and is not made.                  *)
InitComesOut == /\ image.program
                /\ ~image.padded \/ (110 + image.namesize) % 4 = 0

InitRuns == "init" \in made /\ InitComesOut

ExecRenamedInit ==                                             \* MUTANT
  /\ "init_recovery" \in made
  /\ Go("exec", "end")
  /\ boot' = "twrp"
  /\ UNCHANGED <<probed, mounts, log, text, holders, root, walk, mode>>

ExecInit ==
  /\ InitRuns
  /\ Go("exec", "end")
  /\ boot' = "twrp"
  /\ UNCHANGED <<probed, mounts, log, text, holders, root, walk, mode>>

ExecFailsSilently == /\ ~InitRuns \/ faulty                     \* MUTANT
                     /\ Go("exec", "end")
                     /\ boot' = "off"
                     /\ UNCHANGED <<probed, mounts, log, text, holders, root, walk, mode>>

ExecFails == /\ ~InitRuns \/ faulty
             /\ PowerOff("exec", "exec failed")

Main == \/ MountBasics \/ MountPlog \/ OpenLog
        \/ OpenStorage \/ NoStorage \/ NoMemory \/ ReadSegment \/ ShortRead
        \/ MountNewroot \/ NoNewroot \/ EnterNewroot \/ NoChdir
        \/ UnpackStep \/ Unpacked \/ UnpackedBisect \/ UnpackFails
        \/ MakeOldroot \/ PivotRoot \/ PivotFails
        \/ DetachOldroot \/ ExecInit \/ ExecFails

Next == Main \/ Probe

(* PID 1 is the only process and is always run again; nothing is assumed of *)
(* the storage, which may never appear.                                     *)
Spec == Init /\ [][Next]_vars /\ WF_vars(Main)
-----------------------------------------------------------------------------
(* Properties.                                                             *)

(* The lines that name a failure, and the others. *)
EarlyComplaints == {"no vendor_boot node", "malloc fail", "short read", "tmpfs fail", "chdir fail"}
Complaints == EarlyComplaints \cup {"pivot fail", "exec failed"} \cup Walk!Codes
Reports    == {"nothing", "bootstrap start", "read vb ok", "unpack done", "unpack ok",
               "exec twrp init"}

(* Type invariant. *)
TypeOK == /\ faulty \in BOOLEAN /\ bisect \in BOOLEAN
          /\ pc \in Steps
          /\ probed \in BOOLEAN
          /\ mounts \subseteq {"proc", "sys", "dev", "plog", "newroot"}
          /\ log \in {"none", "ram", "disk"}
          /\ said \in Complaints \cup Reports /\ lost \in BOOLEAN
          /\ image \in Images
          /\ holders \subseteq {"rootfs", "newroot"}
          /\ root \in {"rootfs", "newroot"}
          /\ boot \in {"booting", "twrp", "off", "rebooted"}
          /\ names \in Archives /\ intact \in BOOLEAN
          /\ sure \subseteq Names /\ made \subseteq Names
          /\ done \in 0..Len(names)
          /\ rc \in {"running", "ok"} \cup Walk!Codes

(* Whatever line stands last in the log, the machine is where it says, or   *)
(* further: lines may be lost, none may lie.  A complaint is never followed *)
(* by anything but the end, names the step that failed and agrees with what *)
(* was done up to there; and a device that was switched off has one in its  *)
(* log unless L failed to write just that line (lines 25-29: "logfd >= 0"   *)
(* is all L looks at).                                                      *)
DiagnosisTrue ==
  /\ boot = "off" /\ log # "none" /\ ~lost => said \in Complaints
  /\ said \in Complaints => boot = "off" \/ (pc = "unpack" /\ rc = said)
  /\ said \in Walk!Codes => rc = said
  /\ said \in {"unpack done", "unpack ok", "pivot fail", "exec twrp init", "exec failed"} => rc = "ok"
  /\ said = "pivot fail" => root = "rootfs"
  /\ said \in {"exec twrp init", "exec failed"} => root = "newroot"
  /\ said = "exec failed" => faulty \/ ~InitRuns
  /\ said \in EarlyComplaints => done = 0 /\ made = {}

(* PID 1 never stays where it is: it hands over, reboots or powers off,     *)
(* whatever fails and whether or not the storage ever appears.              *)
Decides == <>(boot # "booting")

(* The program takes its steps in the order of its header: TWRP's init is   *)
(* run only in the new root; the root is changed only when every entry was  *)
(* visited and all of them are there that nothing kept from being made; the *)
(* old root is left once; and the decision is final.  "Failures power off"  *)
(* of the same header (line 3) is not promised: an entry that could not be  *)
(* made or filled (lines 82-103) is passed over.                            *)
Promise == INSTANCE BootPromise WITH
             walked <- rc = "ok" /\ done = Len(names) /\ sure \subseteq made
ImplementsPromise == Promise!Spec

(* What reaching TWRP takes, when no call fails: the storage known by the   *)
(* time it is opened, the archive whole, in it a program /init whose data   *)
(* unpack_cpio takes from the right place, and, since main makes /oldroot   *)
(* in the other root, a directory oldroot.                                  *)
Arrives == (/\ pc = "open" /\ NodeThere /\ ~faulty /\ ~bisect
            /\ intact /\ {"init", "oldroot"} \subseteq sure /\ InitComesOut) ~> (boot = "twrp")

(* bootstrap_bisect tells by how it ends whether unpacking was the problem: *)
(* it reboots exactly when the archive was unpacked, and powers off when    *)
(* anything up to there failed ("BISECT: stop after unpack", line 138).     *)
BisectSignal == bisect => /\ boot = "rebooted" => rc = "ok" /\ done = Len(names)
                          /\ boot = "off" => rc # "ok"
                          /\ boot # "twrp" /\ root = "rootfs"

(* "mount basics -> read vendor_boot_a TWRP cpio -> unpack to tmpfs ->      *)
(* pivot_root -> exec TWRP init" (bootstrap.c:2): with every call going     *)
(* well and a whole archive whose /init comes out as it went in, TWRP is    *)
(* reached.  The code makes /oldroot in the old root and gives pivot_root a *)
(* path in the new.                                                         *)
ReachesTWRP ==
  (~faulty /\ ~bisect /\ probed /\ intact /\ "init" \in sure /\ InitComesOut) => <>(boot = "twrp")
=============================================================================
