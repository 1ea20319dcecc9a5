------------------------- MODULE MCSnapshotManager -------------------------
(* Two dynamic partitions, system and vendor, in each of the two slots, so *)
(* that one snapshot can be merging while another has failed or finished. *)
EXTENDS SnapshotManager

CONSTANTS system_a, system_b, vendor_a, vendor_b

MCNames == {system_a, system_b, vendor_a, vendor_b}
MCSlotOf == [n \in MCNames |-> IF n \in {system_a, vendor_a} THEN "a" ELSE "b"]
=============================================================================
