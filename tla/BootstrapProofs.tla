-------------------------- MODULE BootstrapProofs --------------------------
(***************************************************************************)
(* Proofs about Bootstrap, for every set of archives, with faults or       *)
(* without, with early or late storage, and for both programs.             *)
(***************************************************************************)
EXTENDS Bootstrap, TLAPS

(* Where the root is, and how far the archive, at each step of main. *)
Before == {"mount", "plog", "log", "open", "read", "newroot", "chdir"}

Progress ==
  /\ pc \in Before => rc = "running" /\ done = 0 /\ made = {} /\ root = "rootfs"
  /\ pc = "unpack" => root = "rootfs" /\ (rc \in Walk!Codes /\ log # "none" /\ ~lost => said = rc)
  /\ pc \in {"mkold", "pivot"} => rc = "ok" /\ root = "rootfs"
  /\ pc \in {"detach", "exec"} => rc = "ok" /\ root = "newroot"
  /\ pc = "end" <=> boot # "booting"
  /\ rc = "ok" => done = Len(names)

IInv == TypeOK /\ Progress /\ DiagnosisTrue

-----------------------------------------------------------------------------
(* What unpack_cpio creates comes from the archive. *)
LEMMA UnpackTyped ==
  ASSUME TypeOK, Walk!Next
  PROVE  /\ done' \in 0..Len(names) /\ made' \subseteq Names
         /\ rc' \in {"running", "ok"} \cup Walk!Codes
         /\ rc = "running" /\ (rc' = "ok" => done' = Len(names))
         /\ UNCHANGED <<names, intact, sure>>
<1>1. names \in Seq(Names) /\ Len(names) \in Nat /\ done \in 0..Len(names)
  BY ArchivesAssumption DEF TypeOK
<1>2. CASE Walk!Visit
  <2>1. done + 1 \in 1..Len(names) BY <1>1, <1>2 DEF Walk!Visit
  <2>2. Walk!Visited(done + 1) \subseteq Names BY <1>1, <2>1 DEF Walk!Visited
  <2>3. made' \subseteq Names BY <1>2, <2>2 DEF Walk!Visit, TypeOK
  <2> QED BY <1>2, <2>1, <2>3 DEF Walk!Visit
<1>3. CASE Walk!Finish BY <1>1, <1>3 DEF Walk!Finish, TypeOK
<1>4. CASE \E code \in Walk!Codes : Walk!Refuse(code)
  BY <1>1, <1>4 DEF Walk!Refuse, TypeOK, Walk!Codes
<1> QED BY <1>2, <1>3, <1>4 DEF Walk!Next

(* What L leaves is a line of the program. *)
LEMMA TextTyped ==
  ASSUME said \in Complaints \cup Reports, lost \in BOOLEAN,
         NEW line \in Complaints \cup Reports, L(line)
  PROVE  said' \in Complaints \cup Reports /\ lost' \in BOOLEAN
<1>1. CASE UNCHANGED text BY <1>1 DEF text
<1>2. CASE Write(line) BY <1>2 DEF Write
<1> QED BY <1>1, <1>2 DEF L

(* The program keeps the order of its steps, and its log the truth. *)
LEMMA StepKeepsIInv ==
  ASSUME IInv, [Next]_vars
  PROVE  IInv'
<1> USE DEF IInv
<1>1. CASE UNCHANGED vars
  <2>1. TypeOK' BY <1>1 DEF vars, walk, mode, text, TypeOK
  <2>2. Progress' BY <1>1 DEF vars, walk, mode, text, Progress
  <2>3. DiagnosisTrue' BY <1>1 DEF vars, walk, mode, text, DiagnosisTrue, InitRuns, InitComesOut
  <2> QED BY <2>1, <2>2, <2>3
<1>2. CASE MountBasics
  <2>1. TypeOK' BY <1>2 DEF MountBasics, Go, walk, mode, text, TypeOK, Steps
  <2>2. Progress' BY <1>2 DEF MountBasics, Go, walk, mode, text, TypeOK, Progress, Before, Walk!Codes
  <2>3. DiagnosisTrue' BY <1>2 DEF MountBasics, Go, walk, mode, text, TypeOK, Progress, Before, DiagnosisTrue, Complaints, EarlyComplaints, Walk!Codes
  <2> QED BY <2>1, <2>2, <2>3
<1>3. CASE MountPlog
  <2>1. TypeOK' BY <1>3 DEF MountPlog, Go, walk, mode, text, TypeOK, Steps
  <2>2. Progress' BY <1>3 DEF MountPlog, Go, walk, mode, text, TypeOK, Progress, Before, Walk!Codes
  <2>3. DiagnosisTrue' BY <1>3 DEF MountPlog, Go, walk, mode, text, TypeOK, Progress, Before, DiagnosisTrue, Complaints, EarlyComplaints, Walk!Codes
  <2> QED BY <2>1, <2>2, <2>3
<1>4. CASE OpenLog
  <2>a. log' \in {"none", "ram", "disk"} BY <1>4 DEF OpenLog
  <2>b. UNCHANGED text \/ Write("bootstrap start") BY <1>4 DEF OpenLog
  <2>c. said' \in Complaints \cup Reports /\ lost' \in BOOLEAN
    BY <2>b DEF Write, text, TypeOK, Reports
  <2>1. TypeOK' BY <1>4, <2>a, <2>c DEF OpenLog, Go, walk, mode, TypeOK, Steps
  <2>2. Progress' BY <1>4 DEF OpenLog, L, Write, Go, walk, mode, text, TypeOK, Progress, Before, Walk!Codes
  <2>3. DiagnosisTrue' BY <1>4 DEF OpenLog, L, Write, Go, walk, mode, text, TypeOK, Progress, Before, DiagnosisTrue, Complaints, EarlyComplaints, Walk!Codes
  <2> QED BY <2>1, <2>2, <2>3
<1>5. CASE OpenStorage
  <2>1. TypeOK' BY <1>5 DEF OpenStorage, Go, walk, mode, text, TypeOK, Steps
  <2>2. Progress' BY <1>5 DEF OpenStorage, Go, walk, mode, text, TypeOK, Progress, Before, Walk!Codes
  <2>3. DiagnosisTrue' BY <1>5 DEF OpenStorage, Go, walk, mode, text, TypeOK, Progress, Before, DiagnosisTrue, Complaints, EarlyComplaints, Walk!Codes
  <2> QED BY <2>1, <2>2, <2>3
<1>6. CASE NoStorage
  <2>a. L("no vendor_boot node") BY <1>6 DEF NoStorage, PowerOff
  <2>b. "no vendor_boot node" \in Complaints \cup Reports BY DEF Complaints, EarlyComplaints, Reports
  <2>c. said' \in Complaints \cup Reports /\ lost' \in BOOLEAN BY <2>a, <2>b, TextTyped DEF TypeOK
  <2>1. TypeOK' BY <1>6, <2>c DEF NoStorage, PowerOff, Go, walk, mode, TypeOK, Steps
  <2>2. Progress' BY <1>6 DEF NoStorage, PowerOff, L, Write, Go, walk, mode, text, TypeOK, Progress, Before, Walk!Codes
  <2>3. DiagnosisTrue' BY <1>6 DEF NoStorage, PowerOff, L, Write, Go, walk, mode, text, TypeOK, Progress, Before, DiagnosisTrue, Complaints, EarlyComplaints, Walk!Codes
  <2> QED BY <2>1, <2>2, <2>3
<1>7. CASE NoMemory
  <2>a. L("malloc fail") BY <1>7 DEF NoMemory, PowerOff
  <2>b. "malloc fail" \in Complaints \cup Reports BY DEF Complaints, EarlyComplaints, Reports
  <2>c. said' \in Complaints \cup Reports /\ lost' \in BOOLEAN BY <2>a, <2>b, TextTyped DEF TypeOK
  <2>1. TypeOK' BY <1>7, <2>c DEF NoMemory, PowerOff, Go, walk, mode, TypeOK, Steps
  <2>2. Progress' BY <1>7 DEF NoMemory, PowerOff, L, Write, Go, walk, mode, text, TypeOK, Progress, Before, Walk!Codes
  <2>3. DiagnosisTrue' BY <1>7 DEF NoMemory, PowerOff, L, Write, Go, walk, mode, text, TypeOK, Progress, Before, DiagnosisTrue, Complaints, EarlyComplaints, Walk!Codes
  <2> QED BY <2>1, <2>2, <2>3
<1>8. CASE ReadSegment
  <2>a. L("read vb ok") BY <1>8 DEF ReadSegment
  <2>b. "read vb ok" \in Complaints \cup Reports BY DEF Complaints, EarlyComplaints, Reports
  <2>c. said' \in Complaints \cup Reports /\ lost' \in BOOLEAN BY <2>a, <2>b, TextTyped DEF TypeOK
  <2>1. TypeOK' BY <1>8, <2>c DEF ReadSegment, Go, walk, mode, TypeOK, Steps
  <2>2. Progress' BY <1>8 DEF ReadSegment, L, Write, Go, walk, mode, text, TypeOK, Progress, Before, Walk!Codes
  <2>3. DiagnosisTrue' BY <1>8 DEF ReadSegment, L, Write, Go, walk, mode, text, TypeOK, Progress, Before, DiagnosisTrue, Complaints, EarlyComplaints, Walk!Codes
  <2> QED BY <2>1, <2>2, <2>3
<1>9. CASE ShortRead
  <2>a. L("short read") BY <1>9 DEF ShortRead, PowerOff
  <2>b. "short read" \in Complaints \cup Reports BY DEF Complaints, EarlyComplaints, Reports
  <2>c. said' \in Complaints \cup Reports /\ lost' \in BOOLEAN BY <2>a, <2>b, TextTyped DEF TypeOK
  <2>1. TypeOK' BY <1>9, <2>c DEF ShortRead, PowerOff, Go, walk, mode, TypeOK, Steps
  <2>2. Progress' BY <1>9 DEF ShortRead, PowerOff, L, Write, Go, walk, mode, text, TypeOK, Progress, Before, Walk!Codes
  <2>3. DiagnosisTrue' BY <1>9 DEF ShortRead, PowerOff, L, Write, Go, walk, mode, text, TypeOK, Progress, Before, DiagnosisTrue, Complaints, EarlyComplaints, Walk!Codes
  <2> QED BY <2>1, <2>2, <2>3
<1>10. CASE MountNewroot
  <2>1. TypeOK' BY <1>10 DEF MountNewroot, Go, walk, mode, text, TypeOK, Steps
  <2>2. Progress' BY <1>10 DEF MountNewroot, Go, walk, mode, text, TypeOK, Progress, Before, Walk!Codes
  <2>3. DiagnosisTrue' BY <1>10 DEF MountNewroot, Go, walk, mode, text, TypeOK, Progress, Before, DiagnosisTrue, Complaints, EarlyComplaints, Walk!Codes
  <2> QED BY <2>1, <2>2, <2>3
<1>11. CASE NoNewroot
  <2>a. L("tmpfs fail") BY <1>11 DEF NoNewroot, PowerOff
  <2>b. "tmpfs fail" \in Complaints \cup Reports BY DEF Complaints, EarlyComplaints, Reports
  <2>c. said' \in Complaints \cup Reports /\ lost' \in BOOLEAN BY <2>a, <2>b, TextTyped DEF TypeOK
  <2>1. TypeOK' BY <1>11, <2>c DEF NoNewroot, PowerOff, Go, walk, mode, TypeOK, Steps
  <2>2. Progress' BY <1>11 DEF NoNewroot, PowerOff, L, Write, Go, walk, mode, text, TypeOK, Progress, Before, Walk!Codes
  <2>3. DiagnosisTrue' BY <1>11 DEF NoNewroot, PowerOff, L, Write, Go, walk, mode, text, TypeOK, Progress, Before, DiagnosisTrue, Complaints, EarlyComplaints, Walk!Codes
  <2> QED BY <2>1, <2>2, <2>3
<1>12. CASE EnterNewroot
  <2>1. TypeOK' BY <1>12 DEF EnterNewroot, Go, walk, mode, text, TypeOK, Steps
  <2>2. Progress' BY <1>12 DEF EnterNewroot, Go, walk, mode, text, TypeOK, Progress, Before, Walk!Codes
  <2>3. DiagnosisTrue' BY <1>12 DEF EnterNewroot, Go, walk, mode, text, TypeOK, Progress, Before, DiagnosisTrue, Complaints, EarlyComplaints, Walk!Codes
  <2> QED BY <2>1, <2>2, <2>3
<1>13. CASE NoChdir
  <2>a. L("chdir fail") BY <1>13 DEF NoChdir, PowerOff
  <2>b. "chdir fail" \in Complaints \cup Reports BY DEF Complaints, EarlyComplaints, Reports
  <2>c. said' \in Complaints \cup Reports /\ lost' \in BOOLEAN BY <2>a, <2>b, TextTyped DEF TypeOK
  <2>1. TypeOK' BY <1>13, <2>c DEF NoChdir, PowerOff, Go, walk, mode, TypeOK, Steps
  <2>2. Progress' BY <1>13 DEF NoChdir, PowerOff, L, Write, Go, walk, mode, text, TypeOK, Progress, Before, Walk!Codes
  <2>3. DiagnosisTrue' BY <1>13 DEF NoChdir, PowerOff, L, Write, Go, walk, mode, text, TypeOK, Progress, Before, DiagnosisTrue, Complaints, EarlyComplaints, Walk!Codes
  <2> QED BY <2>1, <2>2, <2>3
<1>14. CASE UnpackStep
  <2>1. /\ done' \in 0..Len(names) /\ made' \subseteq Names
        /\ rc' \in {"running", "ok"} \cup Walk!Codes
        /\ rc = "running" /\ (rc' = "ok" => done' = Len(names))
        /\ UNCHANGED <<names, intact, sure>>
    BY <1>14, UnpackTyped DEF UnpackStep
  <2>a. said' \in Complaints \cup Reports /\ lost' \in BOOLEAN
    <3>1. CASE rc' = "running" BY <1>14, <3>1 DEF UnpackStep, text, TypeOK
    <3>2. CASE rc' = "ok"
      <4>1. L("unpack done") BY <1>14, <3>2 DEF UnpackStep
      <4> QED BY <4>1, TextTyped DEF TypeOK, Reports
    <3>3. CASE rc' \in Walk!Codes
      <4>1. L(rc') BY <1>14, <3>3 DEF UnpackStep, Walk!Codes
      <4> QED BY <3>3, <4>1, TextTyped DEF TypeOK, Complaints
    <3> QED BY <2>1, <3>1, <3>2, <3>3
  <2>2. TypeOK' BY <1>14, <2>1, <2>a DEF UnpackStep, mode, TypeOK
  <2>3. Progress' BY <1>14, <2>1 DEF UnpackStep, TypeOK, Progress, Before, L, Write, Walk!Codes
  <2>4. DiagnosisTrue'
    <3>1. /\ boot = "booting" /\ pc = "unpack" /\ rc = "running" /\ root = "rootfs"
          /\ UNCHANGED <<boot, pc, root, log>>
      BY <1>14 DEF UnpackStep, Progress
    <3>2. said \notin Complaints \cup {"unpack done", "unpack ok", "exec twrp init"}
      <4>1. said \notin {"unpack done", "unpack ok", "exec twrp init"} BY <3>1 DEF DiagnosisTrue
      <4>2. said \in Complaints => said = "running" BY <3>1 DEF DiagnosisTrue
      <4>3. "running" \notin Complaints BY DEF Complaints, EarlyComplaints, Walk!Codes
      <4> QED BY <4>1, <4>2, <4>3
    <3>3. \/ said' = said
          \/ rc' # "running" /\ said' = (IF rc' = "ok" THEN "unpack done" ELSE rc')
      BY <1>14 DEF UnpackStep, L, Write, text
    <3>4. CASE said' = said BY <3>1, <3>2, <3>4 DEF DiagnosisTrue, Complaints
    <3>5. CASE rc' = "ok" /\ said' = "unpack done"
      BY <3>1, <3>5 DEF DiagnosisTrue, Complaints, EarlyComplaints, Walk!Codes
    <3>6. CASE rc' \in Walk!Codes /\ said' = rc'
      BY <3>1, <3>6 DEF DiagnosisTrue, Complaints, EarlyComplaints, Walk!Codes
    <3> QED BY <2>1, <3>3, <3>4, <3>5, <3>6
  <2> QED BY <2>2, <2>3, <2>4
<1>15. CASE Unpacked
  <2>a. L("unpack ok") BY <1>15 DEF Unpacked
  <2>b. "unpack ok" \in Complaints \cup Reports BY DEF Complaints, Reports
  <2>c. said' \in Complaints \cup Reports /\ lost' \in BOOLEAN BY <2>a, <2>b, TextTyped DEF TypeOK
  <2>1. TypeOK' BY <1>15, <2>c DEF Unpacked, Go, walk, mode, TypeOK, Steps
  <2>2. Progress' BY <1>15 DEF Unpacked, L, Write, Go, walk, mode, text, TypeOK, Progress, Before, Walk!Codes
  <2>3. DiagnosisTrue' BY <1>15 DEF Unpacked, L, Write, Go, walk, mode, text, TypeOK, Progress, Before, DiagnosisTrue, Complaints, EarlyComplaints, Walk!Codes
  <2> QED BY <2>1, <2>2, <2>3
<1>16. CASE UnpackedBisect
  <2>a. L("unpack ok") BY <1>16 DEF UnpackedBisect
  <2>b. "unpack ok" \in Complaints \cup Reports BY DEF Complaints, EarlyComplaints, Reports
  <2>c. said' \in Complaints \cup Reports /\ lost' \in BOOLEAN BY <2>a, <2>b, TextTyped DEF TypeOK
  <2>1. TypeOK' BY <1>16, <2>c DEF UnpackedBisect, Go, walk, mode, TypeOK, Steps
  <2>2. Progress' BY <1>16 DEF UnpackedBisect, L, Write, Go, walk, mode, text, TypeOK, Progress, Before, Walk!Codes
  <2>3. DiagnosisTrue' BY <1>16 DEF UnpackedBisect, L, Write, Go, walk, mode, text, TypeOK, Progress, Before, DiagnosisTrue, Complaints, EarlyComplaints, Walk!Codes
  <2> QED BY <2>1, <2>2, <2>3
<1>17. CASE UnpackFails
  <2>1. TypeOK' BY <1>17 DEF UnpackFails, Go, walk, mode, text, TypeOK, Steps
  <2>2. Progress' BY <1>17 DEF UnpackFails, Go, walk, mode, text, TypeOK, Progress, Before, Walk!Codes
  <2>3. DiagnosisTrue' BY <1>17 DEF UnpackFails, Go, walk, mode, text, TypeOK, Progress, Before, DiagnosisTrue, Complaints, EarlyComplaints, Walk!Codes
  <2> QED BY <2>1, <2>2, <2>3
<1>18. CASE MakeOldroot
  <2>1. TypeOK' BY <1>18 DEF MakeOldroot, Go, walk, mode, text, TypeOK, Steps
  <2>2. Progress' BY <1>18 DEF MakeOldroot, Go, walk, mode, text, TypeOK, Progress, Before, Walk!Codes
  <2>3. DiagnosisTrue' BY <1>18 DEF MakeOldroot, Go, walk, mode, text, TypeOK, Progress, Before, DiagnosisTrue, Complaints, EarlyComplaints, Walk!Codes
  <2> QED BY <2>1, <2>2, <2>3
<1>19. CASE PivotRoot
  <2>1. TypeOK' BY <1>19 DEF PivotRoot, Go, walk, mode, text, TypeOK, Steps
  <2>2. Progress' BY <1>19 DEF PivotRoot, Go, walk, mode, text, TypeOK, Progress, Before, Walk!Codes
  <2>3. DiagnosisTrue' BY <1>19 DEF PivotRoot, Go, walk, mode, text, TypeOK, Progress, Before, DiagnosisTrue, Complaints, EarlyComplaints, Walk!Codes
  <2> QED BY <2>1, <2>2, <2>3
<1>20. CASE PivotFails
  <2>a. L("pivot fail") BY <1>20 DEF PivotFails, PowerOff
  <2>b. "pivot fail" \in Complaints \cup Reports BY DEF Complaints, Reports
  <2>c. said' \in Complaints \cup Reports /\ lost' \in BOOLEAN BY <2>a, <2>b, TextTyped DEF TypeOK
  <2>1. TypeOK' BY <1>20, <2>c DEF PivotFails, PowerOff, Go, walk, mode, TypeOK, Steps
  <2>2. Progress' BY <1>20 DEF PivotFails, PowerOff, L, Write, Go, walk, mode, text, TypeOK, Progress, Before, Walk!Codes
  <2>3. DiagnosisTrue' BY <1>20 DEF PivotFails, PowerOff, L, Write, Go, walk, mode, text, TypeOK, Progress, Before, DiagnosisTrue, Complaints, EarlyComplaints, Walk!Codes
  <2> QED BY <2>1, <2>2, <2>3
<1>21. CASE DetachOldroot
  <2>0. mounts' \subseteq {"proc", "sys", "dev", "plog", "newroot"}
    <3>1. mounts' \in {mounts, {}} BY <1>21 DEF DetachOldroot
    <3> QED BY <3>1 DEF TypeOK
  <2>a. L("exec twrp init") BY <1>21 DEF DetachOldroot
  <2>b. "exec twrp init" \in Complaints \cup Reports BY DEF Complaints, Reports
  <2>c. said' \in Complaints \cup Reports /\ lost' \in BOOLEAN BY <2>a, <2>b, TextTyped DEF TypeOK
  <2>1. TypeOK' BY <1>21, <2>0, <2>c DEF DetachOldroot, Go, walk, mode, TypeOK, Steps
  <2>2. Progress' BY <1>21 DEF DetachOldroot, L, Write, Go, walk, mode, text, TypeOK, Progress, Before, Walk!Codes
  <2>3. DiagnosisTrue' BY <1>21 DEF DetachOldroot, L, Write, Go, walk, mode, text, TypeOK, Progress, Before, DiagnosisTrue, Complaints, EarlyComplaints, Walk!Codes
  <2> QED BY <2>1, <2>2, <2>3
<1>22. CASE ExecInit
  <2>1. TypeOK' BY <1>22 DEF ExecInit, Go, walk, mode, text, TypeOK, Steps
  <2>2. Progress' BY <1>22 DEF ExecInit, Go, walk, mode, text, TypeOK, Progress, Before, Walk!Codes
  <2>3. DiagnosisTrue' BY <1>22 DEF ExecInit, Go, walk, mode, text, TypeOK, Progress, Before, DiagnosisTrue, Complaints, EarlyComplaints, Walk!Codes
  <2> QED BY <2>1, <2>2, <2>3
<1>23. CASE ExecFails
  <2>a. L("exec failed") BY <1>23 DEF ExecFails, PowerOff
  <2>b. "exec failed" \in Complaints \cup Reports BY DEF Complaints, Reports
  <2>c. said' \in Complaints \cup Reports /\ lost' \in BOOLEAN BY <2>a, <2>b, TextTyped DEF TypeOK
  <2>1. TypeOK' BY <1>23, <2>c DEF ExecFails, PowerOff, Go, walk, mode, TypeOK, Steps
  <2>2. Progress' BY <1>23 DEF ExecFails, PowerOff, L, Write, Go, walk, mode, text, TypeOK, Progress, Before, Walk!Codes
  <2>3. DiagnosisTrue' BY <1>23 DEF ExecFails, InitRuns, InitComesOut, PowerOff, L, Write, Go, walk, mode, text, TypeOK, Progress, Before, DiagnosisTrue, Complaints, EarlyComplaints, Walk!Codes
  <2> QED BY <2>1, <2>2, <2>3
<1>24. CASE Probe
  <2>1. TypeOK' BY <1>24 DEF Probe, walk, mode, text, TypeOK, Steps
  <2>2. Progress' BY <1>24 DEF Probe, walk, mode, text, TypeOK, Progress, Before, Walk!Codes
  <2>3. DiagnosisTrue' BY <1>24 DEF Probe, InitRuns, InitComesOut, walk, mode, text, TypeOK, Progress, Before, DiagnosisTrue, Complaints, EarlyComplaints, Walk!Codes
  <2> QED BY <2>1, <2>2, <2>3
<1> QED
  BY <1>1, <1>2, <1>3, <1>4, <1>5, <1>6, <1>7, <1>8, <1>9, <1>10, <1>11, <1>12, <1>13, <1>14, <1>15, <1>16, <1>17, <1>18, <1>19, <1>20, <1>21, <1>22, <1>23, <1>24 DEF Next, Main

(* At the start nothing is known and nothing is done. *)
LEMMA InitIInv == Init => IInv
<1> SUFFICES ASSUME Init PROVE IInv OBVIOUS
<1>1. names \in Seq(Names) BY ArchivesAssumption DEF Init
<1>2. sure \subseteq Names BY <1>1 DEF Init
<1>3. Len(names) \in Nat BY <1>1
<1>4. faulty \in BOOLEAN /\ bisect \in BOOLEAN /\ probed \in BOOLEAN
  BY SwitchesAssumption DEF Init
<1>5. said \in Complaints \cup Reports /\ lost \in BOOLEAN /\ image \in Images BY DEF Init, Reports
<1>6. TypeOK BY <1>2, <1>3, <1>4, <1>5 DEF Init, TypeOK, Steps
<1>7. Progress BY DEF Init, Progress, Before, Walk!Codes
<1>8. DiagnosisTrue BY DEF Init, DiagnosisTrue, Complaints, EarlyComplaints, Walk!Codes
<1> QED BY <1>6, <1>7, <1>8 DEF IInv

(* It holds always. *)
LEMMA Invariance == Spec => []IInv
BY InitIInv, StepKeepsIInv, PTL DEF Spec

(* Every state is well typed. *)
THEOREM TypeCorrect == Spec => []TypeOK
<1>1. IInv => TypeOK BY DEF IInv
<1> QED BY <1>1, Invariance, PTL

(* Whatever fails, the writing of the log included, its last line is true   *)
(* of the machine, and names the reason of a power-off unless just that     *)
(* line was lost.                                                           *)
THEOREM DiagnosisIsTrue == Spec => []DiagnosisTrue
<1>1. IInv => DiagnosisTrue BY DEF IInv
<1> QED BY <1>1, Invariance, PTL

-----------------------------------------------------------------------------
(* What the walk has behind it.                                            *)

(* Of the entries behind the walk those exist that nothing kept from it. *)
Whole == /\ \A i \in 1..done : names[i] \in sure => names[i] \in made
         /\ \A path \in sure : \E i \in 1..Len(names) : names[i] = path

(* At the start nothing is behind it. *)
LEMMA InitWhole == Init => Whole
<1> SUFFICES ASSUME Init PROVE Whole OBVIOUS
<1>1. names \in Seq(Names) BY ArchivesAssumption DEF Init
<1>2. DOMAIN names = 1..Len(names) BY <1>1
<1> QED BY <1>2 DEF Init, Whole

(* Every step of the walk keeps that, and no other step changes the walk. *)
LEMMA StepKeepsWhole ==
  ASSUME IInv, Whole, [Next]_vars
  PROVE  Whole'
<1>1. CASE UnpackStep
  <2>1. UNCHANGED <<names, sure>> BY <1>1, UnpackTyped DEF UnpackStep, IInv
  <2>2. \A i \in 1..done' : names[i] \in sure => names[i] \in made'
    <3>1. done \in Nat BY <1>1, ArchivesAssumption DEF IInv, TypeOK
    <3>2. CASE Walk!Visit BY <3>1, <3>2 DEF Walk!Visit, Whole
    <3>3. CASE UNCHANGED <<done, made>> BY <3>3 DEF Whole
    <3> QED BY <1>1, <3>2, <3>3 DEF UnpackStep, Walk!Next, Walk!Finish, Walk!Refuse
  <2> QED BY <2>1, <2>2 DEF Whole
<1>2. CASE UNCHANGED <<names, sure, done, made>> BY <1>2 DEF Whole
<1>3. UnpackStep \/ UNCHANGED <<names, sure, done, made>>
  <2>1. CASE UNCHANGED vars BY <2>1 DEF vars, walk
  <2>2. CASE Next
    BY <2>2 DEF Next, Main, Probe, MountBasics, MountPlog, OpenLog, OpenStorage, NoStorage, NoMemory,
                ReadSegment, ShortRead, MountNewroot, NoNewroot, EnterNewroot, NoChdir,
                Unpacked, UnpackedBisect, UnpackFails, MakeOldroot, PivotRoot, PivotFails,
                DetachOldroot, ExecInit, ExecFails, PowerOff, walk
  <2> QED BY <2>1, <2>2
<1> QED BY <1>1, <1>2, <1>3

(* A walk that went to the end made all that nothing kept from it. *)
LEMMA WholeAtEnd == ASSUME Whole, done = Len(names) PROVE sure \subseteq made
BY DEF Whole

-----------------------------------------------------------------------------
(* The promise of the header.                                              *)

(* A step that keeps what the promise speaks of. *)
Silent == UNCHANGED <<boot, root, rc, done, names, sure, made>>

(* A step that the promise does not see. *)
LEMMA SilentKeepsPromise == ASSUME Silent PROVE UNCHANGED Promise!vars
BY DEF Silent, Promise!vars

(* A step that ends in a power-off or a reboot. *)
Ending == boot = "booting" /\ boot' \in {"off", "rebooted"} /\ UNCHANGED <<root, rc, done, names, sure, made>>

(* A step that ends the program ends the promise. *)
LEMMA EndingKeepsPromise == ASSUME Ending PROVE Promise!Next
<1>1. Promise!Stop(boot') BY DEF Ending, Promise!Stop
<1>2. boot' \in {"off", "rebooted"} BY DEF Ending
<1> QED BY <1>1, <1>2 DEF Promise!Next

(* Every step of main is a step of the promise, or none of its business. *)
LEMMA StepKeepsPromise ==
  ASSUME IInv, Whole, Whole', [Next]_vars
  PROVE  [Promise!Next]_Promise!vars
<1>1. CASE \/ MountBasics \/ MountPlog \/ OpenLog \/ OpenStorage \/ ReadSegment
           \/ MountNewroot \/ EnterNewroot \/ Unpacked \/ MakeOldroot \/ DetachOldroot
           \/ Probe \/ UNCHANGED vars
  <2>1. Silent
    BY <1>1 DEF Silent, MountBasics, MountPlog, OpenLog, OpenStorage, ReadSegment, MountNewroot,
                EnterNewroot, Unpacked, MakeOldroot, DetachOldroot, Probe, vars, walk, mode, text
  <2> QED BY <2>1, SilentKeepsPromise
<1>2. CASE \/ NoStorage \/ NoMemory \/ ShortRead \/ NoNewroot \/ NoChdir
           \/ PivotFails \/ ExecFails \/ UnpackFails \/ UnpackedBisect
  <2>1. pc # "end" /\ boot' \in {"off", "rebooted"} /\ UNCHANGED <<root, rc, done, names, sure, made>>
    BY <1>2 DEF NoStorage, NoMemory, ShortRead, NoNewroot, NoChdir, PivotFails, ExecFails,
                UnpackFails, UnpackedBisect, PowerOff, Go, walk, mode, text
  <2>2. boot = "booting" BY <2>1 DEF IInv, Progress
  <2>3. Ending BY <2>1, <2>2 DEF Ending
  <2> QED BY <2>3, EndingKeepsPromise
<1>3. CASE UnpackStep
  <2>1. /\ rc = "running" /\ (rc' = "ok" => done' = Len(names)) /\ names' = names
    BY <1>3, UnpackTyped DEF UnpackStep, IInv
  <2>2. UNCHANGED <<boot, root>> /\ boot = "booting" /\ root = "rootfs"
    BY <1>3 DEF UnpackStep, IInv, Progress
  <2>3. CASE rc' = "ok"
    <3>1. sure' \subseteq made' BY <2>1, <2>3 DEF Whole
    <3> QED BY <2>1, <2>2, <2>3, <3>1 DEF Promise!Next, Promise!Unpack
  <2>4. CASE rc' # "ok" BY <2>1, <2>2, <2>4 DEF Promise!vars
  <2> QED BY <2>3, <2>4
<1>4. CASE PivotRoot
  <2>1. boot = "booting" /\ rc = "ok" /\ done = Len(names)
    BY <1>4 DEF PivotRoot, Go, IInv, Progress
  <2>a. sure \subseteq made BY <2>1, WholeAtEnd
  <2>2. Promise!Pivot BY <1>4, <2>1, <2>a DEF PivotRoot, walk, mode, text, Promise!Pivot
  <2> QED BY <2>2 DEF Promise!Next
<1>5. CASE ExecInit
  <2>1. boot = "booting" /\ root = "newroot"
    BY <1>5 DEF ExecInit, Go, IInv, Progress
  <2>2. Promise!HandOver BY <1>5, <2>1 DEF ExecInit, walk, mode, text, Promise!HandOver
  <2> QED BY <2>2 DEF Promise!Next
<1> QED BY <1>1, <1>2, <1>3, <1>4, <1>5 DEF Next, Main

(* The bootstrapper takes the steps of its header in their order: TWRP's    *)
(* init runs only in the new root; the root is changed only when the walk   *)
(* has visited every entry and everything is there that nothing kept from   *)
(* being made; decisions are final.                                         *)
THEOREM KeepsPromise == Spec => ImplementsPromise
<1>1. Init => Promise!Init BY DEF Init, Promise!Init
<1>2. IInv /\ Whole /\ Whole' /\ [Next]_vars => [Promise!Next]_Promise!vars BY StepKeepsPromise
<1>3. IInv /\ Whole /\ [Next]_vars => Whole' BY StepKeepsWhole
<1> QED BY <1>1, <1>2, <1>3, InitWhole, Invariance, PTL DEF Spec, ImplementsPromise, Promise!Spec

-----------------------------------------------------------------------------
(* The signal of the bisect build.                                         *)

(* It never comes to the steps after the archive, and ends as rc says. *)
BisectEnds ==
  bisect => /\ pc \in Before \cup {"unpack", "end"} /\ root = "rootfs" /\ boot # "twrp"
            /\ boot = "rebooted" => rc = "ok"
            /\ boot = "off" => rc # "ok"

(* The arguments never change. *)
LEMMA ModeStays == ASSUME [Next]_vars PROVE bisect' = bisect
<1>1. CASE UNCHANGED vars BY <1>1 DEF vars, mode
<1>2. CASE Next
  BY <1>2 DEF Next, Main, Probe, MountBasics, MountPlog, OpenLog, OpenStorage, NoStorage, NoMemory,
              ReadSegment, ShortRead, MountNewroot, NoNewroot, EnterNewroot, NoChdir, UnpackStep,
              Unpacked, UnpackedBisect, UnpackFails, MakeOldroot, PivotRoot, PivotFails,
              DetachOldroot, ExecInit, ExecFails, PowerOff, mode
<1> QED BY <1>1, <1>2

(* Every step keeps the claim about the bisecting mode. *)
LEMMA StepKeepsBisectEnds ==
  ASSUME IInv, BisectEnds, [Next]_vars
  PROVE  BisectEnds'
<1>a. bisect' = bisect BY ModeStays
<1> SUFFICES ASSUME bisect
             PROVE  /\ pc' \in Before \cup {"unpack", "end"} /\ root' = "rootfs" /\ boot' # "twrp"
                    /\ boot' = "rebooted" => rc' = "ok"
                    /\ boot' = "off" => rc' # "ok"
  BY <1>a DEF BisectEnds
<1>0. /\ pc \in Before \cup {"unpack", "end"} /\ root = "rootfs" /\ boot # "twrp"
      /\ boot = "rebooted" => rc = "ok"
      /\ boot = "off" => rc # "ok"
  BY DEF BisectEnds
<1>1. CASE UNCHANGED vars \/ Probe BY <1>0, <1>1 DEF vars, walk, mode, text, Probe
<1>2. CASE \/ MountBasics \/ MountPlog \/ OpenLog \/ OpenStorage \/ ReadSegment
           \/ MountNewroot \/ EnterNewroot
  <2>1. pc' \in Before \cup {"unpack", "end"} /\ UNCHANGED <<root, boot, rc>>
    BY <1>2 DEF MountBasics, MountPlog, OpenLog, OpenStorage, ReadSegment, MountNewroot,
                EnterNewroot, Go, Before, walk, mode, text
  <2> QED BY <1>0, <2>1
<1>3. CASE NoStorage \/ NoMemory \/ ShortRead \/ NoNewroot \/ NoChdir
  <2>1. pc \in Before /\ pc' = "end" /\ boot' = "off" /\ UNCHANGED <<root, rc>>
    BY <1>3 DEF NoStorage, NoMemory, ShortRead, NoNewroot, NoChdir, PowerOff, Go, Before, walk, mode, text
  <2>2. rc = "running" BY <2>1 DEF IInv, Progress
  <2> QED BY <1>0, <2>1, <2>2
<1>4. CASE UnpackStep
  <2>1. boot = "booting" BY <1>4 DEF UnpackStep, IInv, Progress
  <2> QED BY <1>0, <1>4, <2>1 DEF UnpackStep
<1>5. CASE UnpackedBisect BY <1>0, <1>5 DEF UnpackedBisect, Go, walk, mode, text
<1>6. CASE UnpackFails
  <2>1. rc # "ok" BY <1>6 DEF UnpackFails, Walk!Codes
  <2> QED BY <1>0, <1>6, <2>1 DEF UnpackFails, Go, walk, mode, text
<1>7. CASE Unpacked BY <1>7 DEF Unpacked
<1>8. CASE MakeOldroot \/ PivotRoot \/ PivotFails \/ DetachOldroot \/ ExecInit \/ ExecFails
  <2>1. pc \in {"mkold", "pivot", "detach", "exec"}
    BY <1>8 DEF MakeOldroot, PivotRoot, PivotFails, DetachOldroot, ExecInit, ExecFails, PowerOff, Go
  <2> QED BY <1>0, <2>1 DEF Before
<1> QED BY <1>1, <1>2, <1>3, <1>4, <1>5, <1>6, <1>7, <1>8 DEF Next, Main

(* The bisect build reboots exactly when the archive was unpacked, and      *)
(* powers off when anything up to there failed.                             *)
THEOREM SignalIsRight == Spec => []BisectSignal
<1>1. Init => BisectEnds BY DEF Init, BisectEnds, Before
<1>2. IInv /\ BisectEnds /\ [Next]_vars => BisectEnds' BY StepKeepsBisectEnds
<1>3. IInv /\ BisectEnds => BisectSignal BY DEF IInv, Progress, BisectEnds, BisectSignal
<1> QED BY <1>1, <1>2, <1>3, Invariance, PTL DEF Spec
=============================================================================
