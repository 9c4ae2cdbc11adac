----------------------------- MODULE EarlyInit -----------------------------
(***************************************************************************)
(* tools/init.c, the first program that was tried as PID 1: it mounts what *)
(* it can, looks for a partition to leave a log on, lists /dev/block and   *)
(* then sleeps for ever.  The kernel probes the storage meanwhile.         *)
(***************************************************************************)
CONSTANT EarlyFaults         \* TRUE: a mount, an open or a write may fail

ASSUME EarlyFaultsAssumption == EarlyFaults \in BOOLEAN

Partitions == {"sdc4", "sdc5", "sdc13"}
Steps == {"mount", "stat5", "stat4", "stat13", "plog", "log", "plog4", "list", "sleep"}

VARIABLES step,         \* where main is: one step of Steps
          known,        \* the partitions whose node is in /dev/block
          devices,      \* devtmpfs is mounted
          found,        \* the partitions that stat has found
          plog,         \* m5: sdc5 is mounted on /plog
          log,          \* logfd: "none", "ram", "disk"
          lines,        \* the lines of the log that are whole
          holes,        \* some write to the log failed, so that not all of them
                        \* are and a number may stand behind another's name
                        \* (nothing in main looks at this)
          note,         \* the partition the note "V2 via sdc4" is on, or "none"
          listed        \* the partitions named in the list of /dev/block

text == <<lines, holes>>
earlyVars == <<step, known, devices, found, plog, log, text, note, listed>>

EarlyStart == /\ step = "mount" /\ known \in SUBSET Partitions
        /\ devices = FALSE /\ found = {} /\ plog = FALSE /\ log = "none"
        /\ lines = {} /\ holes = FALSE /\ note = "none" /\ listed = {}

(* External: the node of one more partition appears in /dev/block. *)
Probe == \E d \in Partitions \ known :
           /\ known' = known \cup {d}
           /\ UNCHANGED <<step, devices, found, plog, log, text, note, listed>>

-----------------------------------------------------------------------------
Then(from, to) == step = from /\ step' = to
MayFail      == IF EarlyFaults THEN BOOLEAN ELSE {FALSE}
Visible      == IF devices THEN known ELSE {}

(* A line takes two writes, L and LN, and any of them may fail unseen. *)
Write(new) == \/ lines' = lines \cup new /\ UNCHANGED holes
              \/ /\ EarlyFaults
                 /\ \E some \in SUBSET new : lines' = lines \cup some
                 /\ holes' = TRUE

(* L writes nothing while logfd is -1. *)
L(new) == IF log = "none" THEN UNCHANGED text ELSE Write(new)

MountFirst ==
  /\ Then("mount", "stat5")
  /\ \E fails \in MayFail : devices' = ~fails
  /\ UNCHANGED <<known, found, plog, log, text, note, listed>>

StatInverted(d, from, to) ==                                   \* MUTANT
  /\ Then(from, to)
  /\ found' = found \cup ({d} \ Visible)
  /\ UNCHANGED <<known, devices, plog, log, text, note, listed>>

(* One stat after the other: each sees the nodes of its moment. *)
Stat(d, from, to) ==
  /\ Then(from, to)
  /\ found' = found \cup ({d} \cap Visible)
  /\ UNCHANGED <<known, devices, plog, log, text, note, listed>>

MountPlog ==
  /\ Then("plog", "log")
  /\ \E fails \in MayFail : plog' = ("sdc5" \in Visible /\ ~fails)
  /\ UNCHANGED <<known, devices, found, log, text, note, listed>>

Report == {<<"stat", d, d \in found>> : d \in Partitions} \cup {<<"mount", "sdc5", plog>>}

OpenLogGoesOn ==                                               \* MUTANT
  /\ Then("log", "plog4")
  /\ \E fails \in MayFail :
       /\ log' = IF fails THEN "none" ELSE IF plog THEN "disk" ELSE "ram"
       /\ IF fails THEN UNCHANGED text ELSE Write(Report)
  /\ UNCHANGED <<known, devices, found, plog, note, listed>>

OpenLog ==
  /\ Then("log", IF plog THEN "list" ELSE "plog4")
  /\ \E fails \in MayFail :
       /\ log' = IF fails THEN "none" ELSE IF plog THEN "disk" ELSE "ram"
       /\ IF fails THEN UNCHANGED text ELSE Write(Report)
  /\ UNCHANGED <<known, devices, found, plog, note, listed>>

(* Only when sdc5 could not be mounted, and only sdc4. *)
MountPlog4 ==
  /\ Then("plog4", "list")
  /\ \E fails, noFile \in MayFail :
       LET mounted == "sdc4" \in Visible /\ ~fails IN
       /\ note' = IF mounted /\ ~noFile THEN "sdc4" ELSE note
       /\ L({<<"mount", "sdc4", mounted>>})
  /\ UNCHANGED <<known, devices, found, plog, log, listed>>

ListWaits ==                                                   \* MUTANT
  /\ Visible # {} /\ Then("list", "sleep")
  /\ listed' = IF log = "none" THEN {} ELSE Visible
  /\ UNCHANGED <<known, devices, found, plog, log, text, note>>

NotListed == <<"opendir", "block", FALSE>>

(* The list goes to the log, or the line that says why there is none: the   *)
(* directory is there from its first node on, and opendir may fail.  Then   *)
(* the log is closed, and main sleeps for ever.  readdir is taken to give   *)
(* all nodes that are known when it starts.                                 *)
ListDevices ==
  /\ Then("list", "sleep")
  /\ \/ /\ devices
        /\ \/ listed' = (IF log = "none" THEN {} ELSE Visible) /\ UNCHANGED text
           \/ /\ EarlyFaults /\ log # "none"
              /\ listed' \in SUBSET Visible
              /\ lines' = lines /\ holes' = TRUE
     \/ /\ Visible = {} \/ EarlyFaults
        /\ listed' = {}
        /\ L({NotListed})
  /\ UNCHANGED <<known, devices, found, plog, log, note>>

Main == \/ MountFirst
        \/ Stat("sdc5", "stat5", "stat4") \/ Stat("sdc4", "stat4", "stat13")
        \/ Stat("sdc13", "stat13", "plog")
        \/ MountPlog \/ OpenLog \/ MountPlog4 \/ ListDevices

EarlyNext == Main \/ Probe

(* PID 1 keeps being run; partitions may never appear. *)
EarlySpec == EarlyStart /\ [][EarlyNext]_earlyVars /\ WF_earlyVars(Main)
-----------------------------------------------------------------------------
(* Properties.                                                             *)

Says(line) == line \in lines

(* A log that came out whole does not contradict itself however the probing *)
(* goes: it never says both of a thing, and a partition that was once found *)
(* or mounted is in the list it ends with, unless it ends with the line     *)
(* that there is no list (init.c:82-84).  Of a log with holes nothing is    *)
(* claimed: a number may stand behind the name of another.                  *)
LogConsistent ==
  ~holes =>
    /\ \A w \in {"stat", "mount"}, d \in Partitions : ~(Says(<<w, d, TRUE>>) /\ Says(<<w, d, FALSE>>))
    /\ step = "sleep" /\ log # "none" =>
         \A w \in {"stat", "mount"}, d \in Partitions :
            Says(<<w, d, TRUE>>) => d \in listed \/ Says(NotListed)

(* The evidence is in one place: there is a note on sdc4 only when the log  *)
(* is not on sdc5, and the log, wherever it is, says so if it came out      *)
(* whole.                                                                   *)
OneTrace == note # "none" => /\ log # "disk"
                             /\ log # "none" /\ ~holes => /\ Says(<<"mount", "sdc5", FALSE>>)
                                                          /\ Says(<<"mount", "sdc4", TRUE>>)

(* PID 1 comes to its sleep whatever fails, and never leaves it: returning  *)
(* from main would panic the kernel.                                        *)
SleepsForEver == step = "mount" => <>[](step = "sleep")
=============================================================================
