---------------------------- MODULE MCUsbHotplug ----------------------------
(***************************************************************************)
(* The instance of UsbHotplug for TLC: two contexts of the library, and a  *)
(* device that is plugged and unplugged behind a hub that stays.           *)
(***************************************************************************)
EXTENDS UsbHotplugInv, TLC

CONSTANTS c1, c2

Symmetry == Permutations(Ctx)

Hub == "hub"
Sdr == "sdr"

MCAddr == {Hub, Sdr}
MCFixed == {Hub}
MCDevs == {"d1", "d2", "d3", "d4", "d5", "d6", "d7", "d8", "d9", "d10"}

\* One device behind a hub that stays.
OneBehindHub == [a \in {Hub, Sdr} |-> IF a = Sdr THEN Hub ELSE None]

=============================================================================
