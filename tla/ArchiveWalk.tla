---------------------------- MODULE ArchiveWalk ----------------------------
(***************************************************************************)
(* What unpack_cpio promises its caller, with no bytes in it: the entries  *)
(* of an archive are visited in order, each once; what is created comes    *)
(* from entries already visited, and those that are sure to be created are *)
(* created when they are visited; the result is "ok" only when all entries *)
(* have been visited; and an archive that was read to its end is never     *)
(* refused.                                                                *)
(***************************************************************************)
EXTENDS Integers, Sequences

CONSTANT Names          \* what an archive may hold: a set of paths

Codes == {"no resync", "bad namesize", "overflow", "no trailer"}

VARIABLES names,        \* the archive: the paths of its entries, in order
          intact,       \* the segment holds all of it and every name fits
          sure,         \* the paths that nothing keeps from being created
          done,         \* how many entries have been visited
          made,         \* the paths of the entries created so far
          rc            \* "running", "ok" or a failure code

vars == <<names, intact, sure, done, made, rc>>

Visited(n) == {names[i] : i \in 1..n}

Init == /\ names \in Seq(Names)
        /\ intact \in BOOLEAN
        /\ sure \subseteq Names
        /\ done = 0
        /\ made = {}
        /\ rc = "running"

(* A directory that could not be made may still be made above a later entry. *)
Visit == /\ rc = "running"
         /\ done < Len(names)
         /\ done' = done + 1
         /\ \E new \in SUBSET Visited(done + 1) :
              /\ names[done + 1] \in sure => names[done + 1] \in new
              /\ made' = made \cup new
         /\ UNCHANGED <<names, intact, sure, rc>>

Finish == /\ rc = "running"
          /\ done = Len(names)
          /\ rc' = "ok"
          /\ UNCHANGED <<names, intact, sure, done, made>>

Refuse(code) == /\ rc = "running"
                /\ ~intact
                /\ rc' = code
                /\ UNCHANGED <<names, intact, sure, done, made>>

Next == Visit \/ Finish \/ \E code \in Codes : Refuse(code)

Spec == Init /\ [][Next]_vars
=============================================================================
