--------------------------- MODULE BootstrapExec ---------------------------
(***************************************************************************)
(* tools/bootstrap_v3.c and tools/bootstrap_v4.c, the bootstrappers that   *)
(* unpack nothing: the kernel has laid the ramdisk of init_boot over that  *)
(* of vendor_boot, TWRP's init waits as /init_recovery, and the program    *)
(* mounts the basics and executes it, with /init as the second choice.     *)
(* /init of init_boot is the bootstrapper itself.                          *)
(***************************************************************************)
CONSTANTS Versions,     \* which of the two programs: a subset of {"v3", "v4"}
          Faults        \* whether mount and execve may fail: a subset of BOOLEAN

ASSUME VersionsAssumption == Versions \subseteq {"v3", "v4"}
ASSUME FaultsAssumption   == Faults \subseteq BOOLEAN

Paths    == {"init", "init_recovery"}
Basics   == {"proc", "sys", "dev"}

(* What may be found at a path; "broken" is a file that cannot be executed. *)
Programs == {"bootstrap", "twrp", "broken"}

VARIABLES version,      \* the program in init_boot
          faulty,       \* in this boot system calls may fail
          vendor,       \* vendor_boot's ramdisk: path -> program
          files,        \* the initramfs: path -> program
          pc,           \* "mount", "look", "init_recovery", "init", "end"
          mounts,       \* which of the basics are mounted
          seen,         \* v4: the paths lstat found
          tried,        \* the paths whose execve has failed since the start
          boot          \* "booting", "twrp", "off"

vars == <<version, faulty, vendor, files, pc, mounts, seen, tried, boot>>

(* The kernel unpacks vendor_boot's ramdisk first, init_boot's over it. *)
Overlay(v) == [n \in DOMAIN v \cup {"init"} |-> IF n = "init" THEN "bootstrap" ELSE v[n]]

Init == /\ version \in Versions /\ faulty \in Faults
        /\ vendor \in UNION {[S -> {"twrp", "broken"}] : S \in SUBSET Paths}
        /\ files = Overlay(vendor)
        /\ pc = "mount" /\ mounts = {} /\ seen = {} /\ tried = {}
        /\ boot = "booting"

Go(from, to) == pc = from /\ pc' = to

(* A mount that is there already stays (EBUSY); every result is ignored. *)
MountBasics ==
  /\ Go("mount", IF version = "v4" THEN "look" ELSE "init_recovery")
  /\ \E S \in (IF faulty THEN SUBSET Basics ELSE {Basics}) : mounts' = mounts \cup S
  /\ UNCHANGED <<version, faulty, vendor, files, seen, tried, boot>>

LookFirst == Go("look", "init") /\ seen' = DOMAIN files \cap Paths   \* MUTANT
             /\ UNCHANGED <<version, faulty, vendor, files, mounts, tried, boot>>

(* v4 looks first and passes over what it did not see; v3 tries both. *)
Look ==
  /\ Go("look", "init_recovery")
  /\ seen' = DOMAIN files \cap Paths
  /\ UNCHANGED <<version, faulty, vendor, files, mounts, tried, boot>>

Executable(path) == path \in DOMAIN files /\ files[path] # "broken"

Tries(path) == version = "v3" \/ path \in seen

(* execve succeeds: TWRP takes over, or the bootstrapper starts from main. *)
Exec(path) ==
  /\ Tries(path) /\ Executable(path)
  /\ pc = path
  /\ IF files[path] = "twrp"
       THEN pc' = "end" /\ boot' = "twrp" /\ UNCHANGED <<seen, tried>>
       ELSE pc' = "mount" /\ seen' = {} /\ tried' = {} /\ UNCHANGED boot
  /\ UNCHANGED <<version, faulty, vendor, files, mounts>>

(* execve fails, or is not tried. *)
Pass(path, to) ==
  /\ Go(path, to)
  /\ Tries(path) /\ Executable(path) => faulty
  /\ tried' = IF Tries(path) THEN tried \cup {path} ELSE tried

NoRecoveryMeansNoInit ==                                       \* MUTANT
  /\ Pass("init_recovery", IF "init_recovery" \in seen THEN "end" ELSE "init")
  /\ boot' = IF "init_recovery" \in seen THEN "off" ELSE boot
  /\ UNCHANGED <<version, faulty, vendor, files, mounts, seen>>

NoRecovery ==
  /\ Pass("init_recovery", "init")
  /\ UNCHANGED <<version, faulty, vendor, files, mounts, seen, boot>>

PowerOff ==
  /\ Pass("init", "end")
  /\ boot' = "off"
  /\ UNCHANGED <<version, faulty, vendor, files, mounts, seen>>

Next == MountBasics \/ Look \/ (\E path \in Paths : Exec(path)) \/ NoRecovery \/ PowerOff

Spec == Init /\ [][Next]_vars /\ WF_vars(Next)
-----------------------------------------------------------------------------
(* Properties.                                                             *)

(* The device is switched off only as the last resort: each program that is *)
(* there was tried in this round and could not be executed.                 *)
OffIsLast == boot = "off" => DOMAIN files \cap Paths \subseteq tried

(* With TWRP's init renamed as the build does it, and no call failing, TWRP *)
(* is reached, with the basics mounted, by both versions.                   *)
TakesRenamed ==
  (~faulty /\ "init_recovery" \in DOMAIN vendor /\ vendor["init_recovery"] = "twrp")
    => <>(boot = "twrp" /\ mounts = Basics)

(* "fallback: original name" (bootstrap_v3.c:36): TWRP's init that was left *)
(* at its original name is found there.  In fact /init of init_boot covers  *)
(* it, the bootstrapper executes itself, and does so for ever.              *)
FallbackFinds ==
  (~faulty /\ "init" \in DOMAIN vendor /\ vendor["init"] = "twrp") => <>(boot = "twrp")
=============================================================================
