--------------------------- MODULE MCRtpsReliable ---------------------------
(***************************************************************************)
(* RtpsReliable for TLC: two interchangeable readers.                       *)
(***************************************************************************)
EXTENDS RtpsReliable, TLC

CONSTANTS r1, r2

MCMsg == {"data", "frag"}
DataOnly == {"data"}
FragOnly == {"frag"}
AnyOutcome == {"data", "sealerr"}

\* The reader is matched on both sides before the first Write.
MatchedInit ==
  /\ seq = 0 /\ history = newSendHistory /\ acked = 0 /\ closed = FALSE
  /\ drainCh = FALSE /\ drain = "none"
  /\ remoteReaders = Readers /\ sources = Readers
  /\ tracker = [r \in Readers |-> newRecvTracker]
  /\ net = {} /\ drops = 0
  /\ anchor = [r \in Readers |-> 0]
  /\ copies = [r \in Readers |-> [s \in SN |-> 0]]

MatchedFairSpec == MatchedInit /\ [][Next]_vars /\ Fairness

Symmetry == Permutations({r1, r2})
=============================================================================
