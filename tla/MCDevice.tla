------------------------------ MODULE MCDevice ------------------------------
(***************************************************************************)
(* Instances of Device.  s1 and s2 use the same transaction key, s3 has a  *)
(* key of its own, s4 and s6 send outside of any transaction and s5 with   *)
(* an empty key.                                                           *)
(***************************************************************************)
EXTENDS Device, TLC

CONSTANTS s1, s2, s3, s4, s5, s6, k1, k2

MCKeyOf == [s \in Senders |-> CASE s \in {s1, s2} -> k1
                                [] s = s3 -> k2
                                [] s \in {s4, s6} -> NoKey
                                [] s = s5 -> EmptyKey]

MCReasons == {[err |-> NoError, text |-> "requested"]}
MCBothReasons == MCReasons \cup {NoReason}

Symmetry == Permutations({s1, s2} \cap Senders)
=============================================================================
