-------------------------- MODULE MCDeviceManager --------------------------
(* d1 and d2 share an ID, d3 and d4 have one each. *)
EXTENDS DeviceManager, TLC

CONSTANTS d1, d2, d3, d4, i1, i2, i3

MCIdOf == [d \in Devices |-> CASE d = d3 -> i2 [] d = d4 -> i3 [] OTHER -> i1]

Symmetry == Permutations(Devices \cap {d1, d2}) \cup Permutations(Ops)
=============================================================================
