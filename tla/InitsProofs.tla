---------------------------- MODULE InitsProofs ----------------------------
(***************************************************************************)
(* Proofs about the programs that unpack nothing: BootstrapExec, for both  *)
(* versions and every content of vendor_boot, and EarlyInit, for partitions *)
(* that appear at any time.                                                *)
(***************************************************************************)
EXTENDS BootstrapExec, EarlyInit, TLAPS

(* Versions 3 and 4: what was seen and what was tried, at each step.        *)
ExecTyped == /\ pc \in {"mount", "look", "init_recovery", "init", "end"}
             /\ version \in {"v3", "v4"}
             /\ tried \subseteq Paths /\ seen \subseteq Paths
             /\ boot \in {"booting", "twrp", "off"}
             /\ pc # "end" => boot = "booting"

Looked == pc \in {"init_recovery", "init"} /\ version = "v4" => seen = DOMAIN files \cap Paths

FirstTried == pc = "init" /\ "init_recovery" \in DOMAIN files => "init_recovery" \in tried

ExecInv == ExecTyped /\ Looked /\ FirstTried /\ OffIsLast

(* A program that is there has been tried once its turn is over. *)
LEMMA PassTries ==
  ASSUME ExecInv, NEW path \in {"init_recovery", "init"}, NEW to, Pass(path, to)
  PROVE  path \in DOMAIN files => path \in tried'
<1>1. pc = path BY DEF Pass, Go
<1>2. path \in DOMAIN files => Tries(path) BY <1>1 DEF ExecInv, ExecTyped, Looked, Tries, Paths
<1> QED BY <1>2 DEF Pass

(* Every step keeps it. *)
LEMMA ExecStepKeeps ==
  ASSUME ExecInv, [Next]_vars
  PROVE  ExecInv'
<1> USE DEF ExecInv, ExecTyped
<1>1. CASE UNCHANGED vars BY <1>1 DEF vars, Looked, FirstTried, OffIsLast
<1>2. CASE MountBasics
  <2>1. /\ pc = "mount" /\ UNCHANGED <<version, files, seen, tried, boot>>
        /\ pc' = IF version = "v4" THEN "look" ELSE "init_recovery"
    BY <1>2 DEF MountBasics, Go
  <2> QED BY <2>1 DEF Looked, FirstTried, OffIsLast
<1>3. CASE Look BY <1>3 DEF Look, Go, Looked, FirstTried, OffIsLast
<1>4. CASE \E path \in Paths : Exec(path)
  <2>1. UNCHANGED <<version, files>> /\ pc # "end"
    BY <1>4 DEF Exec, Paths
  <2>2. \/ pc' = "end" /\ boot' = "twrp" /\ UNCHANGED <<seen, tried>>
        \/ pc' = "mount" /\ seen' = {} /\ tried' = {} /\ UNCHANGED boot
    BY <1>4 DEF Exec
  <2> QED BY <2>1, <2>2 DEF Looked, FirstTried, OffIsLast
<1>5. CASE NoRecovery
  <2>1. /\ pc = "init_recovery" /\ pc' = "init" /\ UNCHANGED <<version, files, seen, boot>>
        /\ tried' \in {tried, tried \cup {"init_recovery"}}
    BY <1>5 DEF NoRecovery, Pass, Go
  <2>2. "init_recovery" \in DOMAIN files => "init_recovery" \in tried'
    BY <1>5, PassTries DEF NoRecovery
  <2> QED BY <2>1, <2>2 DEF Looked, FirstTried, OffIsLast, Paths
<1>6. CASE PowerOff
  <2>1. /\ pc = "init" /\ pc' = "end" /\ boot' = "off" /\ UNCHANGED <<version, files, seen>>
        /\ tried' \in {tried, tried \cup {"init"}}
    BY <1>6 DEF PowerOff, Pass, Go
  <2>2. "init" \in DOMAIN files => "init" \in tried'
    BY <1>6, PassTries DEF PowerOff
  <2>3. "init_recovery" \in DOMAIN files => "init_recovery" \in tried'
    BY <2>1 DEF FirstTried
  <2>4. OffIsLast' BY <2>1, <2>2, <2>3 DEF OffIsLast, Paths
  <2> QED BY <2>1, <2>4 DEF Looked, FirstTried, Paths
<1> QED BY <1>1, <1>2, <1>3, <1>4, <1>5, <1>6 DEF Next

(* Versions 3 and 4 switch the device off only when each program that is    *)
(* there was tried (bootstrap_v3.c:40, bootstrap_v4.c:58).                  *)
THEOREM OffIsLastTheorem == Spec => []OffIsLast
<1>1. Init => ExecInv
  BY VersionsAssumption DEF Init, ExecInv, ExecTyped, Looked, FirstTried, OffIsLast
<1>2. ExecInv /\ [Next]_vars => ExecInv' BY ExecStepKeeps
<1>3. ExecInv => OffIsLast BY DEF ExecInv
<1> QED BY <1>1, <1>2, <1>3, PTL DEF Spec
-----------------------------------------------------------------------------
(* tools/init.c: what the log and the note can say at each step.            *)
First == {"mount", "stat5", "stat4", "stat13", "plog"}

EarlyTyped == /\ step \in Steps /\ devices \in BOOLEAN /\ plog \in BOOLEAN
              /\ log \in {"none", "ram", "disk"} /\ note \in {"none", "sdc4"}
              /\ holes \in BOOLEAN

(* What was found or mounted is still there. *)
Evidence == found \subseteq Visible /\ (plog => "sdc5" \in Visible)

(* A line says what was found when the log was opened; the line on sdc4     *)
(* comes afterwards, once, and the one on the list at the end.              *)
Sdc4Line(b) == <<"mount", "sdc4", b>>

LinesTrue ==
  /\ lines \subseteq Report \cup {Sdc4Line(TRUE), Sdc4Line(FALSE), NotListed}
  /\ Sdc4Line(TRUE) \in lines => "sdc4" \in Visible /\ Sdc4Line(FALSE) \notin lines
  /\ step \in First \cup {"log", "plog4"} => Sdc4Line(TRUE) \notin lines /\ Sdc4Line(FALSE) \notin lines
  /\ log # "none" /\ ~holes => Report \subseteq lines

Places ==
  /\ step \in First \cup {"log"} => lines = {}
  /\ log = "none" => lines = {}
  /\ step \in First \cup {"log"} => log = "none"
  /\ step \in First => ~plog
  /\ step = "mount" => found = {}
  /\ log = "disk" => plog
  /\ step = "plog4" => ~plog
  /\ step \in First \cup {"log", "plog4"} => note = "none"
  /\ note # "none" => ~plog /\ (log # "none" /\ ~holes => Sdc4Line(TRUE) \in lines)

Listing == step = "sleep" /\ log # "none" /\ ~holes /\ NotListed \notin lines =>
             /\ found \subseteq listed /\ (plog => "sdc5" \in listed)
             /\ Sdc4Line(TRUE) \in lines => "sdc4" \in listed

EarlyInv == EarlyTyped /\ Evidence /\ LinesTrue /\ Places /\ Listing

(* Every step keeps it. *)
LEMMA EarlyStepKeeps ==
  ASSUME EarlyInv, [EarlyNext]_earlyVars
  PROVE  EarlyInv'
<1> USE DEF EarlyInv, EarlyTyped, Steps, First, MayFail
<1>1. CASE UNCHANGED earlyVars
  BY ZenonT(60), <1>1 DEF earlyVars, text, Evidence, Visible, LinesTrue, Report, Sdc4Line, Places, Listing
<1>2. CASE Probe
  <2>1. UNCHANGED <<step, devices, found, plog, log, lines, holes, note, listed>> /\ Visible \subseteq Visible'
    BY <1>2 DEF Probe, text, Visible
  <2> QED BY ZenonT(60), <2>1 DEF Evidence, LinesTrue, Report, Sdc4Line, Places, Listing
<1>3. CASE MountFirst
  <2>1. /\ step = "mount" /\ step' = "stat5" /\ devices' \in BOOLEAN
        /\ UNCHANGED <<known, found, plog, log, lines, holes, note, listed>>
    BY <1>3 DEF MountFirst, Then, text
  <2>2. found = {} /\ lines = {} /\ log = "none" /\ note = "none" /\ ~plog BY <2>1 DEF Places
  <2> QED BY <2>1, <2>2 DEF Evidence, LinesTrue, Sdc4Line, Places, Listing
<1>4. ASSUME NEW d \in Partitions, NEW from \in First \ {"mount"}, NEW to \in First,
             to # "mount", Stat(d, from, to)
      PROVE  EarlyInv'
  <2>1. /\ step \in First /\ step # "mount" /\ step' \in First /\ step' # "mount"
        /\ found' = found \cup ({d} \cap Visible)
        /\ UNCHANGED <<known, devices, plog, log, lines, holes, note, listed>>
    BY <1>4 DEF Stat, Then, text
  <2>2. lines = {} /\ log = "none" /\ note = "none" /\ ~plog BY <2>1 DEF Places
  <2>3. Evidence' BY <2>1, <2>2 DEF Evidence, Visible
  <2> QED BY <2>1, <2>2, <2>3 DEF LinesTrue, Sdc4Line, Places, Listing
<1>5. CASE MountPlog
  <2>1. /\ step = "plog" /\ step' = "log" /\ plog' \in BOOLEAN /\ (plog' => "sdc5" \in Visible)
        /\ UNCHANGED <<known, devices, found, log, lines, holes, note, listed>>
    BY <1>5 DEF MountPlog, Then, text
  <2>2. lines = {} /\ log = "none" /\ note = "none" BY <2>1 DEF Places
  <2>3. Evidence' BY <2>1 DEF Evidence, Visible
  <2> QED BY <2>1, <2>2, <2>3 DEF LinesTrue, Sdc4Line, Places, Listing
<1>6. CASE OpenLog
  <2>1. /\ step = "log" /\ step' = (IF plog THEN "list" ELSE "plog4")
        /\ UNCHANGED <<known, devices, found, plog, note, listed>>
        /\ \/ log' = "none" /\ lines' = lines
           \/ log' = (IF plog THEN "disk" ELSE "ram") /\ lines' \subseteq Report \cup lines
    BY <1>6 DEF OpenLog, Then, Write, text
  <2>a. holes' \in BOOLEAN /\ (log' # "none" /\ ~holes' => Report \subseteq lines')
    BY <1>6 DEF OpenLog, Write, text
  <2>2. lines = {} /\ log = "none" /\ note = "none" BY <2>1 DEF Places
  <2>3. Sdc4Line(TRUE) \notin Report /\ Sdc4Line(FALSE) \notin Report /\ NotListed \notin Report
    BY DEF Report, Sdc4Line, NotListed
  <2>4. Report' = Report BY <2>1 DEF Report
  <2>5. Evidence' BY <2>1 DEF Evidence, Visible
  <2>6. LinesTrue' BY <2>1, <2>a, <2>2, <2>3, <2>4 DEF LinesTrue, Sdc4Line, NotListed, Visible
  <2> QED BY <2>1, <2>a, <2>2, <2>5, <2>6 DEF Places, Listing
<1>7. CASE MountPlog4
  <2>1. PICK mounted \in BOOLEAN :
          /\ step = "plog4" /\ step' = "list"
          /\ UNCHANGED <<known, devices, found, plog, log, listed>>
          /\ mounted => "sdc4" \in Visible
          /\ note' = note \/ (note' = "sdc4" /\ mounted)
          /\ log = "none" => UNCHANGED <<lines, holes>>
          /\ lines' \in {lines, lines \cup {Sdc4Line(mounted)}} /\ holes' \in {holes, TRUE}
          /\ log # "none" /\ ~holes' => ~holes /\ lines' = lines \cup {Sdc4Line(mounted)}
    <3>1. PICK fails \in MayFail, noFile \in MayFail :
            /\ note' = IF ("sdc4" \in Visible /\ ~fails) /\ ~noFile THEN "sdc4" ELSE note
            /\ L({<<"mount", "sdc4", "sdc4" \in Visible /\ ~fails>>})
      BY <1>7 DEF MountPlog4
    <3> DEFINE mounted == "sdc4" \in Visible /\ ~fails
    <3>2. mounted \in BOOLEAN /\ (mounted => "sdc4" \in Visible) OBVIOUS
    <3>3. L({Sdc4Line(mounted)}) /\ (note' = note \/ (note' = "sdc4" /\ mounted))
      BY <3>1 DEF Sdc4Line
    <3> HIDE DEF mounted
    <3>4. /\ step = "plog4" /\ step' = "list"
          /\ UNCHANGED <<known, devices, found, plog, log, listed>>
      BY <1>7 DEF MountPlog4, Then
    <3>5. \/ UNCHANGED <<lines, holes>> /\ log = "none"
          \/ lines' = lines \cup {Sdc4Line(mounted)} /\ holes' = holes /\ log # "none"
          \/ /\ lines' \in {lines, lines \cup {Sdc4Line(mounted)}} /\ holes' = TRUE
             /\ log # "none"
      BY <3>3 DEF L, Write, text
    <3> QED BY <3>2, <3>3, <3>4, <3>5
  <2>2. ~plog /\ note = "none" /\ Sdc4Line(TRUE) \notin lines /\ Sdc4Line(FALSE) \notin lines
    BY <2>1 DEF Places, LinesTrue
  <2>3. Report' = Report /\ Visible' = Visible BY <2>1 DEF Report, Visible
  <2>4. Sdc4Line(TRUE) # Sdc4Line(FALSE) /\ \A b : Sdc4Line(b)' = Sdc4Line(b) BY DEF Sdc4Line
  <2>5. LinesTrue' BY <2>1, <2>2, <2>3, <2>4 DEF LinesTrue
  <2>6. Evidence' BY <2>1, <2>3 DEF Evidence
  <2>7. Places' BY <2>1, <2>2, <2>4 DEF Places
  <2> QED BY <2>1, <2>5, <2>6, <2>7 DEF Listing
<1>8. CASE ListDevices
  <2>1. /\ step = "list" /\ step' = "sleep"
        /\ UNCHANGED <<known, devices, found, plog, log, note>>
    BY <1>8 DEF ListDevices, Then
  <2>2. Report' = Report /\ Visible' = Visible /\ Sdc4Line(TRUE)' = Sdc4Line(TRUE)
        /\ Sdc4Line(FALSE)' = Sdc4Line(FALSE)
    BY <2>1 DEF Report, Visible, Sdc4Line
  <2>3. /\ lines \subseteq lines' /\ lines' \subseteq lines \cup {NotListed}
        /\ log = "none" => lines' = lines
        /\ holes' \in {holes, TRUE}
        /\ log # "none" /\ ~holes' => ~holes /\ (listed' = Visible \/ NotListed \in lines')
    BY <1>8 DEF ListDevices, L, Write, text
  <2>4. NotListed \notin {Sdc4Line(TRUE), Sdc4Line(FALSE)} BY DEF NotListed, Sdc4Line
  <2>5. LinesTrue' BY <2>1, <2>2, <2>3, <2>4 DEF LinesTrue
  <2>6. Evidence' /\ Places' BY <2>1, <2>2, <2>3 DEF Evidence, Places
  <2>7. Listing' BY <2>1, <2>2, <2>3, <2>4 DEF Listing, Evidence, LinesTrue
  <2>8. EarlyTyped' BY <2>1, <2>3
  <2> QED BY <2>5, <2>6, <2>7, <2>8
<1> QED BY <1>1, <1>2, <1>3, <1>4, <1>5, <1>6, <1>7, <1>8 DEF EarlyNext, Main, Partitions

(* It holds always. *)
LEMMA EarlyInvariance == EarlySpec => []EarlyInv
<1>1. EarlyStart => EarlyInv
  BY DEF EarlyStart, EarlyInv, EarlyTyped, Steps, First, Evidence, LinesTrue, Sdc4Line, Places, Listing
<1> QED BY <1>1, EarlyStepKeeps, PTL DEF EarlySpec

(* A log of init.c that came out whole does not contradict itself: however  *)
(* the probing goes, and though opens and mounts fail, it ends with a list  *)
(* of what it found before or with the line that there is none (48-90).     *)
THEOREM LogConsistentTheorem == EarlySpec => []LogConsistent
<1>1. EarlyInv => LogConsistent
  <2> SUFFICES ASSUME EarlyInv, ~holes PROVE LogConsistent BY DEF LogConsistent
  <2> USE DEF EarlyInv, EarlyTyped
  <2>1. ASSUME NEW w \in {"stat", "mount"}, NEW d \in Partitions,
               Says(<<w, d, TRUE>>), Says(<<w, d, FALSE>>)
        PROVE  FALSE
    BY <2>1 DEF Says, LinesTrue, Report, Sdc4Line, NotListed, Partitions
  <2>2. ASSUME step = "sleep", log # "none", ~Says(NotListed),
               NEW w \in {"stat", "mount"}, NEW d \in Partitions, Says(<<w, d, TRUE>>)
        PROVE  d \in listed
    <3>1. \/ w = "stat" /\ d \in found
          \/ w = "mount" /\ d = "sdc5" /\ plog
          \/ w = "mount" /\ d = "sdc4" /\ Sdc4Line(TRUE) \in lines
      BY <2>2 DEF Says, LinesTrue, Report, Sdc4Line, NotListed, Partitions
    <3> QED BY <2>2, <3>1 DEF Listing, Says
  <2> QED BY <2>1, <2>2 DEF LogConsistent
<1> QED BY <1>1, EarlyInvariance, PTL

(* There is a note on sdc4 only when the log is not on sdc5, and a log that *)
(* came out whole says so (init.c:60-70).                                   *)
THEOREM OneTraceTheorem == EarlySpec => []OneTrace
<1>1. EarlyInv => OneTrace
  <2> SUFFICES ASSUME EarlyInv, note # "none" PROVE OneTrace BY DEF OneTrace
  <2>1. ~plog /\ log # "disk" /\ (log # "none" /\ ~holes => Sdc4Line(TRUE) \in lines /\ Report \subseteq lines)
    BY DEF EarlyInv, EarlyTyped, Places, LinesTrue
  <2>2. <<"mount", "sdc5", FALSE>> \in Report BY <2>1 DEF Report, EarlyInv, EarlyTyped
  <2> QED BY <2>1, <2>2 DEF OneTrace, Says, Sdc4Line
<1> QED BY <1>1, EarlyInvariance, PTL
=============================================================================
