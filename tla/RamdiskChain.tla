---------------------------- MODULE RamdiskChain ----------------------------
(***************************************************************************)
(* A ramdisk on its way: pack_cpio.py packs a tree, insert_devnodes.py may *)
(* put device nodes in, and unpack_cpio of the bootstrapper walks what     *)
(* comes out, on a device where no call fails.  Each tool starts when the  *)
(* one before it is done; what it reads is what that one wrote.  Or the    *)
(* ramdisk comes from elsewhere, and only gets its device nodes here.      *)
(***************************************************************************)
EXTENDS CpioPack

CONSTANTS Inserts,      \* whether insert_devnodes.py is run: a subset of BOOLEAN
          Sources       \* archives made elsewhere

VARIABLES inserts,                      \* it is run this time
          src, pos, dev, dst, step,     \* insert_devnodes.py
          faulty, arc, size, p, rc, made  \* unpack_cpio

DevNodes == INSTANCE DevNodes
Unpack   == INSTANCE CpioUnpack WITH Archives <- {}, Faults <- {}, tree <- made

ASSUME SourcesAssumption ==
  \A a \in Sources : IsArchive(a) /\ StraysInside(a) /\ IsTree(a) /\ DevNodes!IsRamdisk(a)

(* A tree whose archive can get its device nodes later: within the limits   *)
(* of insert_devnodes.py, with a dev that is packed as a directory, and     *)
(* without the nodes.                                                       *)
TakesNodes(t) ==
  /\ \A n \in DOMAIN t : /\ t[n].chars + 2 <= DevNodes!NAMELIMIT
                         /\ t[n].size < DevNodes!FILELIMIT
                         /\ n = <<"dev">> => t[n].kind \in {"dir", "dirlink"}
  /\ \A k \in DOMAIN DevNodes!NewNodes : DevNodes!NewNodes[k].name \notin DOMAIN t

ASSUME InsertsAssumption == /\ Inserts \subseteq BOOLEAN
                            /\ TRUE \in Inserts => \A t \in Trees : TakesNodes(t)

(* As in CpioPack, a literal is a string. *)
ASSUME NodesAssumption ==
  \A k \in DOMAIN DevNodes!NewNodes : DevNodes!NewNodes[k].name \in Seq(STRING)

insertVars == <<src, pos, dev, dst, step>>
unpackVars == <<faulty, arc, size, p, rc, made>>
chainVars  == <<packVars, inserts, insertVars, unpackVars>>

Packs == /\ Init
         /\ inserts \in {i \in Inserts : i => devs = <<>>}
         /\ src = Nothing /\ pos = 0 /\ dev = DevNodes!NoEntry /\ dst = Nothing
         /\ step = "idle"

FromElsewhere == /\ pc = "elsewhere" /\ tree = [n \in {} |-> {}] /\ devs = <<>> /\ unreadable = {}
                 /\ items = <<>> /\ out = Nothing
                 /\ inserts = TRUE /\ DevNodes!Init

ChainInit == /\ Packs \/ FromElsewhere
             /\ faulty = FALSE /\ arc = Nothing /\ size = 0 /\ p = 0 /\ rc = "idle"
             /\ made = [n \in {} |-> {}]

PackStep == Next /\ UNCHANGED <<inserts, insertVars, unpackVars>>

StartInsert == /\ pc = "written" /\ inserts /\ step = "idle"
               /\ src' = out /\ step' = "scan"
               /\ UNCHANGED <<packVars, inserts, pos, dev, dst, unpackVars>>

InsertStep == /\ step \in {"scan", "insert"}
              /\ DevNodes!Next
              /\ UNCHANGED <<packVars, inserts, unpackVars>>

(* The image is built from the last archive that was written. *)
Product == IF inserts THEN dst ELSE out

StartUnpack == /\ pc \in {"written", "elsewhere"} /\ (inserts => step = "written") /\ rc = "idle"
               /\ arc' = Product /\ size' = Product.len /\ rc' = "running"
               /\ UNCHANGED <<packVars, inserts, insertVars, faulty, p, made>>

UnpackStep == /\ rc = "running"
              /\ Unpack!Next
              /\ UNCHANGED <<packVars, inserts, insertVars>>

ChainNext == PackStep \/ StartInsert \/ InsertStep \/ StartUnpack \/ UnpackStep

ChainSpec == ChainInit /\ [][ChainNext]_chainVars /\ WF_chainVars(ChainNext)
-----------------------------------------------------------------------------
(* Properties.                                                             *)

(* What comes out of a packed tree: its nodes, a link to a directory as the *)
(* directory it was packed as, and without the links whose target the       *)
(* walker misreads; and the device nodes.                                   *)
KindOut(n)  == IF tree[n].kind = "dirlink" THEN "dir" ELSE tree[n].kind
Arriving    == {n \in Reachable : Unpack!Makes(NodeHeader(n))}
NodePaths   == Paths(devs) \cup (IF inserts
                                THEN {DevNodes!NewNodes[i].name : i \in DOMAIN DevNodes!NewNodes}
                                ELSE {})

(* The walker has room for the names (bootstrap.c:72); it ends at one that  *)
(* is longer, and makes nothing of what comes after.                        *)
ShortNames == /\ \A n \in Reachable : NodeHeader(n).ns < Unpack!NAMEMAX
              /\ \A i \in DOMAIN devs : devs[i].chars + 1 < Unpack!NAMEMAX

(* The round trip: once the walk is over, every node of the tree is there   *)
(* with its kind, the device nodes are there, and nothing is there that was *)
(* not packed -- through three programs whose paddings differ, whatever     *)
(* archives the files themselves hold.                                      *)
RoundTrip ==
  pc = "written" /\ rc \notin {"idle", "running"} /\ ShortNames =>
    /\ \A n \in Arriving : n \in DOMAIN made /\ made[n].kind = KindOut(n)
    /\ \A n \in NodePaths : n \in DOMAIN made /\ made[n].kind = "dev"
    /\ DOMAIN made \subseteq Arriving \cup NodePaths \cup UNION {Above(n) : n \in NodePaths}

(* Each tool hands on an archive that the next one can take as its own      *)
(* assumptions demand.                                                      *)
HandedOn == /\ src # Nothing => IsArchive(src) /\ StraysInside(src) /\ IsTree(src)
            /\ arc # Nothing => IsArchive(arc) /\ StraysInside(arc) /\ IsTree(arc)

(* "Insert device-node entries into an existing GNU newc cpio stream, right *)
(* after the './dev' directory entry" (insert_devnodes.py:2-3), whatever    *)
(* the files of the archive hold.                                           *)
InsertedBehindDev == DevNodes!InsertedBehindDev

(* The walk of insert_devnodes.py comes to dev whatever stands before it,   *)
(* and gives up exactly where there is none.                                *)
FindsDev == DevNodes!FindsDev

(* Each tool ends: the archive is unpacked or refused, or one of the tools  *)
(* has given up.                                                            *)
ChainEnds == <>(pc = "failed" \/ step = "exit" \/ rc \notin {"idle", "running"})

(* "Official mkbootfs trailer" (pack_cpio.py:38): a reader of newc takes    *)
(* the archive for complete.  trailer() leaves out two fields, so that      *)
(* unpack_cpio reads the length of the name out of the name and refuses the *)
(* archive at its very end.                                                 *)
Accepted == rc \in {"idle", "running", "ok"}
=============================================================================
