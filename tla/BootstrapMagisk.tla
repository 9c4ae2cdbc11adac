-------------------------- MODULE BootstrapMagisk --------------------------
(***************************************************************************)
(* main of tools/bootstrap_mb.c, run as PID 1: the bootstrapper that has   *)
(* magiskboot, in two child processes, take the ramdisk out of the image   *)
(* and unpack it.  It waits for each child, looks at neither result, and   *)
(* looks at no result of a mount or mkdir.  The kernel probes the storage  *)
(* meanwhile.                                                              *)
(***************************************************************************)
CONSTANTS Ramdisks,     \* the ramdisks in vendor_boot: sets of paths
          Faults        \* whether a system call, or magiskboot, may fail:
                        \* a subset of BOOLEAN

Paths == {"init", "dev", "etc"}
Jobs  == {"unpack", "extract"}

ASSUME RamdisksAssumption == Ramdisks \subseteq SUBSET Paths
ASSUME FaultsAssumption == Faults \subseteq BOOLEAN

VARIABLES faulty,       \* in this boot calls may fail
          pc,           \* the step main is at
          probed,       \* the kernel has found the partitions
          mounts,       \* what is mounted on the first root
          inside,       \* what is mounted on the new root
          log, said,    \* where logfd points, and the last line that came to it
          lost,         \* the last line given to L did not (main does not know)
          ramdisk,      \* what vendor_boot holds
          cpio,         \* /tmp/work/ramdisk.cpio: "none", "part" or "whole"
          made,         \* the paths that exist under /newroot
          child,        \* the job of the child process, or "none"
          done,         \* the jobs that are over
          oldroot,      \* /newroot/oldroot exists
          root, boot    \* as in Bootstrap

given == <<faulty, ramdisk>>
files == <<cpio, made>>
procs == <<child, done>>
text  == <<said, lost>>
vars  == <<pc, probed, mounts, inside, log, text, given, files, procs, oldroot, root, boot>>

Init == /\ faulty \in Faults /\ pc = "mount"
        /\ probed \in BOOLEAN
        /\ mounts = {} /\ inside = {} /\ log = "none" /\ said = "nothing" /\ lost = FALSE
        /\ ramdisk \in Ramdisks /\ cpio = "none" /\ made = {}
        /\ child = "none" /\ done = {} /\ oldroot = FALSE
        /\ root = "rootfs" /\ boot = "booting"

Probe == /\ ~probed
         /\ probed' = TRUE
         /\ UNCHANGED <<pc, mounts, inside, log, text, given, files, procs, oldroot, root, boot>>

-----------------------------------------------------------------------------
(* write and fsync may fail; neither result is looked at. *)
Write(line)  == \/ said' = line /\ lost' = FALSE
                \/ faulty /\ said' = said /\ lost' = TRUE
L(line)      == IF log = "none" THEN UNCHANGED text ELSE Write(line)
Go(from, to) == pc = from /\ pc' = to
MayFail      == IF faulty THEN BOOLEAN ELSE {FALSE}

(* L(line); do_poweroff(). *)
PowerOff(from, line) ==
  /\ Go(from, "end")
  /\ L(line)
  /\ boot' = "off"
  /\ UNCHANGED <<probed, mounts, inside, log, given, files, procs, oldroot, root>>

NodeThere == "dev" \in mounts /\ probed

(* proc, sys and dev, then /plog, then the log: no result is looked at. *)
MountBasics ==
  /\ Go("mount", "open")
  /\ \E basics \in (IF faulty THEN SUBSET {"proc", "sys", "dev"} ELSE {{"proc", "sys", "dev"}}),
        noPlog \in MayFail, noLog \in MayFail :
       /\ mounts' = basics \cup (IF probed /\ "dev" \in basics /\ ~noPlog THEN {"plog"} ELSE {})
       /\ log' = IF noLog THEN "none" ELSE IF "plog" \in mounts' THEN "disk" ELSE "ram"
       /\ IF noLog THEN UNCHANGED text ELSE Write("bootstrap v2")
  /\ UNCHANGED <<probed, inside, given, files, procs, oldroot, root, boot>>

OpenStorage ==
  /\ NodeThere
  /\ Go("open", "read")
  /\ UNCHANGED <<probed, mounts, inside, log, text, given, files, procs, oldroot, root, boot>>

NoStorage == /\ ~NodeThere \/ faulty
             /\ PowerOff("open", "no vb node")
NoMemory  == faulty /\ PowerOff("read", "malloc fail")

ReadImage ==
  /\ Go("read", "copy")
  /\ L("vb read")
  /\ UNCHANGED <<probed, mounts, inside, log, given, files, procs, oldroot, root, boot>>

(* "vb read" is written before the length is looked at. *)
ShortRead == faulty /\ PowerOff("read", "short read")

(* Both tmpfs are mounted, or not, and the image is copied, or part of it:  *)
(* what comes of a short read or copy is left to the first child.           *)
MountTmpfs == \E tmpfs \in (IF faulty THEN SUBSET {"tmp", "newroot"} ELSE {{"tmp", "newroot"}}) :
                mounts' = mounts \cup tmpfs

CopyImage ==
  /\ Go("copy", "unpack")
  /\ MountTmpfs
  /\ L("vb.img written")
  /\ UNCHANGED <<probed, inside, log, given, files, procs, oldroot, root, boot>>

NoCopy ==
  /\ faulty
  /\ Go("copy", "end")
  /\ MountTmpfs
  /\ L("open vb.img fail")
  /\ boot' = "off"
  /\ UNCHANGED <<probed, inside, log, given, files, procs, oldroot, root>>

-----------------------------------------------------------------------------
(* run(): fork, in the child chdir and execve, in the parent waitpid. *)
Fork(job) ==
  /\ pc = job /\ job \notin done /\ child = "none"
  /\ child' = job
  /\ UNCHANGED <<pc, probed, mounts, inside, log, text, given, files, done, oldroot, root, boot>>

ForkFails(job) ==
  /\ faulty
  /\ pc = job /\ job \notin done /\ child = "none"
  /\ done' = done \cup {job}
  /\ UNCHANGED <<pc, probed, mounts, inside, log, text, given, files, child, oldroot, root, boot>>

(* magiskboot: what it was asked for, or, when something is wrong with its  *)
(* input, its directory or itself, a part of it or nothing.                 *)
ChildEnds ==
  /\ child # "none"
  /\ child' = "none" /\ done' = done \cup {child}
  /\ \/ /\ child = "unpack"
        /\ cpio' \in (IF faulty THEN {"none", "part", "whole"} ELSE {"whole"})
        /\ UNCHANGED made
     \/ /\ child = "extract"
        /\ made' \in (IF cpio = "none" THEN {{}}
                       ELSE IF faulty \/ cpio = "part" THEN SUBSET ramdisk ELSE {ramdisk})
        /\ UNCHANGED cpio
  /\ UNCHANGED <<pc, probed, mounts, inside, log, text, given, oldroot, root, boot>>

GoesOnAtOnce(job, to, line) ==                                 \* MUTANT
  /\ child = job
  /\ Go(job, to)
  /\ L(line)
  /\ UNCHANGED <<probed, mounts, inside, log, given, files, procs, oldroot, root, boot>>

(* waitpid returns when the child has ended; its result is dropped. *)
GoesOn(job, to, line) ==
  /\ job \in done
  /\ Go(job, to)
  /\ L(line)
  /\ UNCHANGED <<probed, mounts, inside, log, given, files, procs, oldroot, root, boot>>

-----------------------------------------------------------------------------
(* MS_MOVE without a source moves nothing (EINVAL).  chdir needs the        *)
(* directory only, which the failed mount leaves behind.                    *)
MakeOldrootElsewhere ==                                        \* MUTANT
  /\ Go("chdir", "pivot")
  /\ UNCHANGED <<probed, mounts, inside, log, text, given, files, procs, oldroot, root, boot>>

MakeOldroot ==
  /\ Go("chdir", "pivot")
  /\ \E fails \in MayFail : oldroot' = ~fails
  /\ UNCHANGED <<probed, mounts, inside, log, text, given, files, procs, root, boot>>

NoChdir == faulty /\ PowerOff("chdir", "chdir fail")

(* pivot_root wants a mount point, and the directory in it. *)
MayPivot == "newroot" \in mounts /\ oldroot

PivotRoot ==
  /\ MayPivot
  /\ Go("pivot", "detach")
  /\ root' = "newroot"
  /\ UNCHANGED <<probed, mounts, inside, log, text, given, files, procs, oldroot, boot>>

PivotFailsIgnored ==                                           \* MUTANT
  /\ ~MayPivot \/ faulty
  /\ Go("pivot", "detach")
  /\ UNCHANGED <<probed, mounts, inside, log, text, given, files, procs, oldroot, root, boot>>

PivotFails == /\ ~MayPivot \/ faulty
              /\ PowerOff("pivot", "pivot fail")

(* devtmpfs for TWRP, when the ramdisk has a directory dev; then the old    *)
(* root goes.                                                               *)
DetachOldroot ==
  /\ Go("detach", "exec")
  /\ \E fails, stays \in MayFail :
       /\ inside' = IF "dev" \in made /\ ~fails THEN {"dev"} ELSE {}
       /\ mounts' = IF stays THEN mounts ELSE {}
  /\ L("exec twrp init")
  /\ UNCHANGED <<probed, log, given, files, procs, oldroot, root, boot>>

ExecInit ==
  /\ "init" \in made
  /\ Go("exec", "end")
  /\ boot' = "twrp"
  /\ UNCHANGED <<probed, mounts, inside, log, text, given, files, procs, oldroot, root>>

ExecStops == /\ "init" \notin made \/ faulty                  \* MUTANT
             /\ pc = "exec"
             /\ UNCHANGED vars

ExecFailsSilently ==                                           \* MUTANT
  /\ "init" \notin made \/ faulty
  /\ Go("exec", "end") /\ boot' = "off"
  /\ UNCHANGED <<probed, mounts, inside, log, text, given, files, procs, oldroot, root>>

ExecFails == /\ "init" \notin made \/ faulty
             /\ PowerOff("exec", "exec failed")

Main == \/ MountBasics \/ OpenStorage \/ NoStorage \/ NoMemory
        \/ ReadImage \/ ShortRead \/ CopyImage \/ NoCopy
        \/ \E job \in Jobs : Fork(job) \/ ForkFails(job)
        \/ GoesOn("unpack", "extract", "magiskboot unpack rc")
        \/ GoesOn("extract", "chdir", "magiskboot extract rc")
        \/ MakeOldroot \/ NoChdir \/ PivotRoot \/ PivotFails
        \/ DetachOldroot \/ ExecInit \/ ExecFails

Next == Main \/ ChildEnds \/ Probe

(* PID 1 and its child are run, and magiskboot is a program that ends; the  *)
(* storage may never appear.                                                *)
Spec == Init /\ [][Next]_vars /\ WF_vars(Main) /\ WF_vars(ChildEnds)
-----------------------------------------------------------------------------
(* Properties.                                                             *)

(* It keeps the order BootPromise asks for, in a weaker sense: the root is  *)
(* left, and TWRP run, only when both children are over -- though perhaps   *)
(* not with success -- and the decision is final.                           *)
Promise == INSTANCE BootPromise WITH walked <- (done = Jobs)
ImplementsPromise == Promise!Spec

(* The children run one at a time, in the first root, and the second never  *)
(* before the first is over; none is left when the root is changed, so that *)
(* nobody writes into a tree that TWRP already uses.                        *)
ChildrenInOrder == /\ child # "none" => root = "rootfs" /\ boot = "booting" /\ child \notin done
                   /\ child = "extract" => "unpack" \in done
                   /\ made # {} => cpio # "none"

(* Whatever line stands last in the log, the machine is where it says, or   *)
(* further; a complaint is followed by the end alone: a pivot fails in the  *)
(* first root and after both children, exec in the new root, and, unless    *)
(* the call itself was at fault, for want of a mount point, of /oldroot or  *)
(* of /init.  A device that was switched off has a complaint in its log     *)
(* unless L failed to write just that line.                                 *)
EarlyComplaints == {"no vb node", "malloc fail", "short read", "open vb.img fail"}
Complaints == EarlyComplaints \cup {"chdir fail", "pivot fail", "exec failed"}

DiagnosisTrue ==
  /\ boot = "off" /\ log # "none" /\ ~lost => said \in Complaints
  /\ said \in Complaints => boot = "off"
  /\ said \in EarlyComplaints => done = {} /\ made = {}
  /\ said = "magiskboot unpack rc" => "unpack" \in done
  /\ said \in {"magiskboot extract rc", "chdir fail"} => done = Jobs
  /\ said = "pivot fail"  => done = Jobs /\ root = "rootfs" /\ (faulty \/ ~MayPivot)
  /\ said = "exec twrp init" => done = Jobs /\ root = "newroot"
  /\ said = "exec failed" => done = Jobs /\ root = "newroot" /\ (faulty \/ "init" \notin made)

(* PID 1 hands over or powers off, whatever fails. *)
Decides == <>(boot # "booting")

(* What bootstrap.c misses: when nothing fails and the storage is there in  *)
(* time, TWRP is reached, with devtmpfs in place if the ramdisk has a dev   *)
(* ("put devtmpfs in place for TWRP init", bootstrap_mb.c:102).             *)
Arrives == (pc = "open" /\ NodeThere /\ ~faulty /\ "init" \in ramdisk)
             ~> (boot = "twrp" /\ ("dev" \in ramdisk => "dev" \in inside))
=============================================================================
