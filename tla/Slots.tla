------------------------------- MODULE Slots -------------------------------
(* A model that holds several components that do not interact, for TLC.  A  *)
(* behaviour is about one of them: part names it and never changes, and     *)
(* x1, x2, ... hold its variables in the order of its declarations.  The    *)
(* slots a component has no use for stay 0: Idle<n> and Same<n> speak of    *)
(* those after the n-th.                                                    *)
VARIABLES part, x1, x2, x3, x4, x5, x6, x7, x8, x9, x10, x11, x12, x13, x14, x15,
          x16, x17

slots == <<part, x1, x2, x3, x4, x5, x6, x7, x8, x9, x10, x11, x12, x13, x14,
           x15, x16, x17>>

Idle17 == TRUE
Idle16 == x17 = 0 /\ Idle17
Idle15 == x16 = 0 /\ Idle16
Idle14 == x15 = 0 /\ Idle15
Idle13 == x14 = 0 /\ Idle14
Idle12 == x13 = 0 /\ Idle13
Idle11 == x12 = 0 /\ Idle12
Idle10 == x11 = 0 /\ Idle11
Idle9 == x10 = 0 /\ Idle10
Idle8 == x9 = 0 /\ Idle9
Idle7 == x8 = 0 /\ Idle8
Idle6 == x7 = 0 /\ Idle7
Idle5 == x6 = 0 /\ Idle6
Idle4 == x5 = 0 /\ Idle5
Idle3 == x4 = 0 /\ Idle4

Same17 == UNCHANGED part
Same16 == UNCHANGED x17 /\ Same17
Same15 == UNCHANGED x16 /\ Same16
Same14 == UNCHANGED x15 /\ Same15
Same13 == UNCHANGED x14 /\ Same14
Same12 == UNCHANGED x13 /\ Same13
Same11 == UNCHANGED x12 /\ Same12
Same10 == UNCHANGED x11 /\ Same11
Same9 == UNCHANGED x10 /\ Same10
Same8 == UNCHANGED x9 /\ Same9
Same7 == UNCHANGED x8 /\ Same8
Same6 == UNCHANGED x7 /\ Same7
Same5 == UNCHANGED x6 /\ Same6
Same4 == UNCHANGED x5 /\ Same5
Same3 == UNCHANGED x4 /\ Same4
============================================================================
