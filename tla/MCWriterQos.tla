---------------------------- MODULE MCWriterQos ----------------------------
(***************************************************************************)
(* WriterQos for TLC: a writer of the participant's own and two remote.     *)
(***************************************************************************)
EXTENDS WriterQos, TLC

CONSTANTS w1, w2, w3

Ranks == (w1 :> 2) @@ (w2 :> 1) @@ (w3 :> 3)
\* Two of the same strength, and a stronger one.
Tie == [w \in Writers |-> IF w = w3 THEN 6 ELSE 5]
OwnStronger == [w \in Writers |-> IF w = w1 THEN 2 ELSE 1]
=============================================================================
