---------------------------- MODULE MCDiscovery ----------------------------
(***************************************************************************)
(* Discovery for TLC: a participant with a writer, which may crash, and one *)
(* with a reader of the same topic, which may see a lease expire.           *)
(***************************************************************************)
EXTENDS Discovery

CONSTANTS a, b, w1, r1

OwnerAB == [e \in Endpoints |-> IF e = w1 THEN a ELSE b]
OneTopic == [e \in Endpoints |-> "t"]
OnlyB == [p \in Parts |-> IF p = b THEN 1 ELSE 0]
=============================================================================
