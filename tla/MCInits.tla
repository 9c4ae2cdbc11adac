------------------------------ MODULE MCInits ------------------------------
(***************************************************************************)
(* The programs that init_boot has carried and that unpack nothing: one of *)
(* the bootstrappers of BootstrapExec, or tools/init.c.                    *)
(***************************************************************************)
EXTENDS BootstrapExec, EarlyInit

NoEarly == /\ step = "none" /\ known = Partitions /\ devices = FALSE /\ found = {}
           /\ plog = FALSE /\ log = "none" /\ lines = {} /\ holes = FALSE /\ note = "none" /\ listed = {}

NoExec == /\ version = "v3" /\ faulty = FALSE /\ vendor = [n \in {} |-> ""] /\ files = vendor
          /\ pc = "none" /\ mounts = {} /\ seen = {} /\ tried = {} /\ boot = "none"

InitsInit == \/ Init /\ NoEarly
             \/ EarlyStart /\ NoExec

InitsNext == \/ Next /\ UNCHANGED earlyVars
             \/ EarlyNext /\ UNCHANGED vars

InitsSpec == /\ InitsInit /\ [][InitsNext]_<<vars, earlyVars>>
             /\ WF_vars(Next) /\ WF_earlyVars(Main)
=============================================================================
