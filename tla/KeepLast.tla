------------------------------ MODULE KeepLast ------------------------------
(***************************************************************************)
(* What sendHistory promises (REQ-REL-009): it keeps the messages stored    *)
(* under the last Depth sequence numbers, oldest-first eviction.  A map     *)
(* from sequence numbers to messages, as a set of pairs.                    *)
(***************************************************************************)
EXTENDS Integers

CONSTANTS Depth, Msg, SNs

VARIABLE kept

Init == kept = {}

Store(s, m) ==
  /\ \A p \in kept : p[1] < s
  /\ kept' = {p \in kept : p[1] > s - Depth} \cup {<<s, m>>}

Next == \E s \in SNs, m \in Msg : Store(s, m)

Spec == Init /\ [][Next]_kept
=============================================================================
