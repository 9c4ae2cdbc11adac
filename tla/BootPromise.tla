---------------------------- MODULE BootPromise ----------------------------
(***************************************************************************)
(* What main of tools/bootstrap.c and of its successors promises by the    *)
(* order of its steps, "unpack to tmpfs -> pivot_root -> exec TWRP init":  *)
(* it hands over only in the new root and only when the walk through the   *)
(* ramdisk is over; it never goes back to the old root; and what it        *)
(* decided stays decided.  What the walk achieved is said by the program   *)
(* that gives walked its meaning.                                          *)
(***************************************************************************)

VARIABLES boot,         \* "booting", "twrp", "off" or "rebooted"
          walked,       \* the walk through the ramdisk is over
          root          \* "rootfs" or "newroot"

vars == <<boot, walked, root>>

Init == boot = "booting" /\ walked = FALSE /\ root = "rootfs"

Unpack == /\ boot = "booting" /\ root = "rootfs"
          /\ walked' = TRUE
          /\ UNCHANGED <<boot, root>>

Pivot == /\ boot = "booting" /\ walked
         /\ root' = "newroot"
         /\ UNCHANGED <<boot, walked>>

HandOver == /\ boot = "booting" /\ root = "newroot"
            /\ boot' = "twrp"
            /\ UNCHANGED <<walked, root>>

Stop(how) == /\ boot = "booting"
             /\ boot' = how
             /\ UNCHANGED <<walked, root>>

Next == Unpack \/ Pivot \/ HandOver \/ \E how \in {"off", "rebooted"} : Stop(how)

Spec == Init /\ [][Next]_vars
=============================================================================
