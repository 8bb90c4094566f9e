----------------------------- MODULE MCUsbUrbs -----------------------------
(***************************************************************************)
(* The transfers of the runs of UsbUrbs: the driver's own, of one URB, and *)
(* those that the library has to split into two and three.                 *)
(***************************************************************************)
EXTENDS UsbUrbsInv

Bulk == { [type |-> "bulk", lens |-> <<n>>, caps |-> c, reapAfter |-> r] :
            n \in {0, 2, 5}, c \in {"scatter", "continuation", "plain"}, r \in BOOLEAN }

Iso == { [type |-> "iso", lens |-> l, caps |-> "plain", reapAfter |-> r] :
           l \in {<<1, 1>>, <<1, 1, 2, 1>>}, r \in BOOLEAN }

Ctrl == { [type |-> "control", lens |-> <<1>>, caps |-> "plain", reapAfter |-> r] :
            r \in BOOLEAN }

AllRequests == Bulk \union Iso \union Ctrl

=============================================================================
