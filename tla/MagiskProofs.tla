---------------------------- MODULE MagiskProofs ----------------------------
(***************************************************************************)
(* Proofs about BootstrapMagisk, for every set of ramdisks, with faults or *)
(* without, and with early or late storage.                                *)
(***************************************************************************)
EXTENDS BootstrapMagisk, TLAPS

Early  == {"mount", "open", "read", "copy"}
Late   == {"chdir", "pivot", "detach", "exec"}

Typed == /\ pc \in Early \cup Jobs \cup Late \cup {"end"}
         /\ child \in {"none"} \cup Jobs
         /\ done \subseteq Jobs
         /\ root \in {"rootfs", "newroot"}
         /\ boot \in {"booting", "twrp", "off"}
         /\ cpio \in {"none", "part", "whole"}
         /\ made \subseteq ramdisk

(* A child lives at its own step only, and main leaves that step when the   *)
(* child is over; how many are over, and which root it is, follow from pc.  *)
Progress ==
  /\ child # "none" => pc = child /\ child \notin done
  /\ pc \in Early => done = {} /\ made = {}
  /\ pc = "unpack" => "extract" \notin done /\ made = {}
  /\ pc = "extract" => "unpack" \in done
  /\ pc \in Late => done = Jobs
  /\ pc \in Early \cup Jobs \cup {"chdir", "pivot"} => root = "rootfs"
  /\ pc \in {"detach", "exec"} => root = "newroot"
  /\ pc = "end" <=> boot # "booting"
  /\ made # {} => cpio # "none"

IInv == Typed /\ Progress /\ DiagnosisTrue

-----------------------------------------------------------------------------
(* At a step that powers off, the line that it writes is the truth. *)
LEMMA OffIsTold ==
  ASSUME IInv, NEW from \in Early \cup Late, NEW line,
         PowerOff(from, line),
         \/ from \in Early /\ line \in EarlyComplaints
         \/ from = "chdir" /\ line = "chdir fail"
         \/ from = "pivot" /\ line = "pivot fail" /\ (faulty \/ ~MayPivot)
         \/ from = "exec" /\ line = "exec failed" /\ (faulty \/ "init" \notin made)
  PROVE  IInv'
<1> USE DEF IInv, PowerOff, Go, given, files, procs
<1>1. Typed' BY DEF Typed
<1>2. Progress'
  <2>1. child = "none" BY DEF Progress, Typed, Early, Late, Jobs
  <2> QED BY <2>1 DEF Progress, Typed, Early, Late, Jobs
<1>3. DiagnosisTrue'
  <2>1. boot = "booting" /\ said \notin Complaints
    BY DEF Progress, DiagnosisTrue, Early, Late
  <2>2. \/ UNCHANGED text
        \/ said' = line
        \/ said' = said /\ lost' = TRUE
    BY DEF L, Write
  <2>3. ASSUME said' = said, log = "none" \/ lost' = TRUE PROVE DiagnosisTrue'
    BY <2>1, <2>3 DEF Progress, DiagnosisTrue, Complaints, Early, Late, Jobs
  <2>4. ASSUME said' = line PROVE DiagnosisTrue'
    BY <2>4 DEF Progress, DiagnosisTrue, MayPivot, Early, Late, Jobs, Complaints, EarlyComplaints
  <2> QED BY <2>3, <2>4 DEF L, Write, text
<1> QED BY <1>1, <1>2, <1>3

(* Main and the child keep their order, and the log the truth. *)
LEMMA StepKeepsIInv ==
  ASSUME IInv, [Next]_vars
  PROVE  IInv'
<1> USE DEF IInv, Typed, Progress, Go, given, files, procs, text, L, Write, Complaints, EarlyComplaints,
           MayPivot, Early, Late, Jobs
<1>0. CASE UNCHANGED vars
  <2>1. (Typed /\ Progress)' BY <1>0 DEF vars
  <2>2. DiagnosisTrue' BY <1>0 DEF vars, DiagnosisTrue, MayPivot
  <2> QED BY <2>1, <2>2
<1>1. CASE MountBasics BY <1>1 DEF MountBasics, DiagnosisTrue
<1>2. CASE OpenStorage BY <1>2 DEF OpenStorage, DiagnosisTrue
<1>3. CASE NoStorage BY <1>3, OffIsTold DEF NoStorage, EarlyComplaints
<1>4. CASE NoMemory BY <1>4, OffIsTold DEF NoMemory, EarlyComplaints
<1>5. CASE ReadImage BY <1>5 DEF ReadImage, DiagnosisTrue
<1>6. CASE ShortRead BY <1>6, OffIsTold DEF ShortRead, EarlyComplaints
<1>7. CASE CopyImage BY <1>7 DEF CopyImage, DiagnosisTrue
<1>8. CASE NoCopy BY <1>8 DEF NoCopy, L, DiagnosisTrue
<1>9. CASE \E job \in Jobs : Fork(job) BY <1>9 DEF Fork, DiagnosisTrue
<1>10. CASE \E job \in Jobs : ForkFails(job) BY <1>10 DEF ForkFails, DiagnosisTrue
<1>11. CASE GoesOn("unpack", "extract", "magiskboot unpack rc")
  BY <1>11 DEF GoesOn, DiagnosisTrue
<1>12. CASE GoesOn("extract", "chdir", "magiskboot extract rc")
  BY <1>12 DEF GoesOn, DiagnosisTrue
<1>13. CASE MakeOldroot BY <1>13 DEF MakeOldroot, DiagnosisTrue
<1>14. CASE NoChdir BY <1>14, OffIsTold DEF NoChdir
<1>15. CASE PivotRoot BY <1>15 DEF PivotRoot, DiagnosisTrue
<1>16. CASE PivotFails BY <1>16, OffIsTold DEF PivotFails
<1>17. CASE DetachOldroot BY <1>17 DEF DetachOldroot, DiagnosisTrue
<1>18. CASE ExecInit BY <1>18 DEF ExecInit, DiagnosisTrue
<1>19. CASE ExecFails BY <1>19, OffIsTold DEF ExecFails
<1>20. CASE ChildEnds BY <1>20 DEF ChildEnds, DiagnosisTrue
<1>21. CASE Probe
  <2>1. (Typed /\ Progress)' BY <1>21 DEF Probe
  <2>2. DiagnosisTrue' BY <1>21 DEF Probe, DiagnosisTrue, MayPivot
  <2> QED BY <2>1, <2>2
<1> QED
  BY <1>0, <1>1, <1>2, <1>3, <1>4, <1>5, <1>6, <1>7, <1>8, <1>9, <1>10, <1>11, <1>12, <1>13,
     <1>14, <1>15, <1>16, <1>17, <1>18, <1>19, <1>20, <1>21 DEF Next, Main

(* The invariant holds at the start, and so always. *)
LEMMA InvHolds == Spec => []IInv
<1>1. Init => IInv
  BY DEF Init, IInv, Typed, Progress, DiagnosisTrue, Complaints, EarlyComplaints, Early, Late, Jobs
<1>2. IInv /\ [Next]_vars => IInv' BY StepKeepsIInv
<1> QED BY <1>1, <1>2, PTL DEF Spec

(* bootstrap_mb.c, run(): one child at a time, each in the first root, the  *)
(* second after the first, and none left when the root is changed.          *)
THEOREM ChildrenInOrderTheorem == Spec => []ChildrenInOrder
<1>1. IInv => ChildrenInOrder
  BY DEF IInv, Typed, Progress, ChildrenInOrder, Early, Late, Jobs
<1> QED BY <1>1, InvHolds, PTL

(* The last line in the log of bootstrap_mb.c is true of the root and the   *)
(* children, whatever fails, and names the reason of a power-off unless     *)
(* just that line was lost.                                                 *)
THEOREM DiagnosisTheorem == Spec => []DiagnosisTrue
<1>1. IInv => DiagnosisTrue BY DEF IInv
<1> QED BY <1>1, InvHolds, PTL

-----------------------------------------------------------------------------
(* Each step of bootstrap_mb.c is a step of the promise, or none. *)
LEMMA StepKeepsPromise ==
  ASSUME IInv, [Next]_vars
  PROVE  [Promise!Next]_(Promise!vars)
<1> USE DEF Promise!vars, Promise!Next, Go, given, files, procs
<1>0. CASE UNCHANGED <<done, root, boot>> BY <1>0
<1>1. ASSUME NEW from \in Early \cup Late, NEW line, PowerOff(from, line)
      PROVE  Promise!Stop("off")
  BY <1>1 DEF PowerOff, Promise!Stop, IInv, Progress, Early, Late
<1>2. CASE NoStorage BY <1>1, <1>2 DEF NoStorage, Early
<1>3. CASE NoMemory BY <1>1, <1>3 DEF NoMemory, Early
<1>4. CASE ShortRead BY <1>1, <1>4 DEF ShortRead, Early
<1>5. CASE NoCopy BY <1>5 DEF NoCopy, Promise!Stop, IInv, Progress
<1>6. CASE NoChdir BY <1>1, <1>6 DEF NoChdir, Late
<1>7. CASE PivotFails BY <1>1, <1>7 DEF PivotFails, Late
<1>8. CASE ExecFails BY <1>1, <1>8 DEF ExecFails, Late
<1>9. CASE \E job \in Jobs : ForkFails(job)
  BY <1>9 DEF ForkFails, Promise!Unpack, IInv, Typed, Progress, Early, Jobs
<1>10. CASE ChildEnds
  BY <1>10 DEF ChildEnds, Promise!Unpack, IInv, Typed, Progress, Early, Jobs
<1>11. CASE PivotRoot BY <1>11 DEF PivotRoot, Promise!Pivot, IInv, Progress, Late
<1>12. CASE ExecInit BY <1>12 DEF ExecInit, Promise!HandOver, IInv, Progress
<1>13. CASE \/ MountBasics \/ OpenStorage \/ ReadImage \/ CopyImage
            \/ \E job \in Jobs : Fork(job)
            \/ GoesOn("unpack", "extract", "magiskboot unpack rc")
            \/ GoesOn("extract", "chdir", "magiskboot extract rc")
            \/ MakeOldroot \/ DetachOldroot \/ Probe \/ UNCHANGED vars
  <2>1. UNCHANGED <<done, root, boot>>
    BY <1>13 DEF MountBasics, OpenStorage, ReadImage, CopyImage, Fork, GoesOn,
                 MakeOldroot, DetachOldroot, Probe, vars
  <2> QED BY <2>1, <1>0
<1> QED
  BY <1>2, <1>3, <1>4, <1>5, <1>6, <1>7, <1>8, <1>9, <1>10, <1>11, <1>12, <1>13 DEF Next, Main

(* bootstrap_mb.c keeps the order of steps that the header of bootstrap.c   *)
(* promises: it leaves the root, and runs TWRP, after both children only,   *)
(* and does not go back on its decision.                                    *)
THEOREM ImplementsPromiseTheorem == Spec => ImplementsPromise
<1>1. Init => Promise!Init BY DEF Init, Promise!Init, Jobs
<1>2. IInv /\ [Next]_vars => [Promise!Next]_(Promise!vars) BY StepKeepsPromise
<1> QED BY <1>1, <1>2, InvHolds, PTL DEF Spec, ImplementsPromise, Promise!Spec
=============================================================================
