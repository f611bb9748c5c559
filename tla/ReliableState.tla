--------------------------- MODULE ReliableState ---------------------------
(***************************************************************************)
(* The two data structures of rtps/reliable.go.  sendHistory is the ring in *)
(* which a reliable writer keeps its last Depth wire messages for           *)
(* retransmission; recvTracker is what a reliable reader has received from  *)
(* one writer: expected is the cumulative-acknowledgement watermark, ahead  *)
(* the sequence numbers received above it.  Each is a record with the       *)
(* fields of the Go struct and the operators are its methods.  A method     *)
(* holds the struct's mutex for its whole body, so it is one step of the    *)
(* component that calls it.                                                 *)
(***************************************************************************)
EXTENDS Integers

CONSTANTS
  Depth,  \* maxHistoryDepth (256 in the code)
  Msg,    \* the wire messages that can be stored
  NoMsg   \* get's nil result, and the content of a slot never written

ASSUME DepthAssumption == Depth \in Nat \ {0}
ASSUME NoMsgAssumption == NoMsg \notin Msg

Slots == 0 .. Depth - 1

History ==
  [msg : [Slots -> Msg \cup {NoMsg}], sn : [Slots -> Nat], filled : [Slots -> BOOLEAN],
   highest : Nat, lowest : Nat, any : BOOLEAN]

newSendHistory ==
  [msg |-> [i \in Slots |-> NoMsg], sn |-> [i \in Slots |-> 0],
   filled |-> [i \in Slots |-> FALSE], highest |-> 0, lowest |-> 0, any |-> FALSE]

Larger(a, b) == IF a >= b THEN a ELSE b

store(h, seq, m) ==
  LET i    == seq % Depth
      high == IF h.any THEN Larger(h.highest, seq) ELSE seq
      low  == IF h.any THEN h.lowest ELSE seq
  IN  [msg     |-> [h.msg EXCEPT ![i] = m],
       sn      |-> [h.sn EXCEPT ![i] = seq],
       filled  |-> [h.filled EXCEPT ![i] = TRUE],
       highest |-> high,
       lowest  |-> IF high >= Depth THEN Larger(low, high - Depth + 1) ELSE low,
       any     |-> TRUE]

\* A bug for the checks: the slot's own sequence number is not compared.
getUnchecked(h, seq) ==
  IF h.any /\ h.filled[seq % Depth] THEN h.msg[seq % Depth] ELSE NoMsg

get(h, seq) ==
  IF /\ h.any
     /\ h.lowest <= seq /\ seq <= h.highest
     /\ h.filled[seq % Depth]
     /\ h.sn[seq % Depth] = seq
  THEN h.msg[seq % Depth]
  ELSE NoMsg

\* firstLast: the window a HEARTBEAT advertises; ok is h.any.
firstLast(h) == [first |-> h.lowest, last |-> h.highest, ok |-> h.any]

\* The sequence numbers get can still answer.
Retained(h) == {s \in h.lowest .. h.highest : get(h, s) # NoMsg}

\* What get answers for the sequence numbers in sns, as a set of pairs.
Stored(h, sns) == {p \in sns \X Msg : get(h, p[1]) = p[2]}

-----------------------------------------------------------------------------
CONSTANTS
  NackWindow,       \* bits of an ACKNACK bitmap (32 in the code)
  MaxReorderAhead   \* maxReorderAhead (8192 in the code)

ASSUME TrackerAssumption == NackWindow \in Nat \ {0} /\ MaxReorderAhead \in Nat

Tracker == [expected : Nat, ahead : SUBSET Nat, initDone : BOOLEAN]

newRecvTracker == [expected |-> 0, ahead |-> {}, initDone |-> FALSE]

initExpected(rt, firstSN) ==
  IF rt.initDone THEN rt ELSE [rt EXCEPT !.expected = firstSN, !.initDone = TRUE]

\* The loop of record: the first sequence number from e on that is not buffered.
\* At most MaxReorderAhead are buffered above the watermark, so there is one.
Advance(e, ahead) ==
  CHOOSE n \in e .. e + MaxReorderAhead :
    n \notin ahead /\ \A k \in e .. n - 1 : k \in ahead

\* A bug for the checks: the buffer is cleared when the watermark advances.
recordForgets(rt, seq) ==
  LET t == initExpected(rt, seq)
  IN  IF seq < t.expected THEN t
      ELSE IF seq = t.expected THEN [t EXCEPT !.expected = seq + 1, !.ahead = {}]
      ELSE [t EXCEPT !.ahead = t.ahead \cup {seq}]

\* A bug for the checks: the loop does not delete what it advances over.
recordKeepsBuffered(rt, seq) ==
  LET t == initExpected(rt, seq)
  IN  IF seq < t.expected THEN t
      ELSE IF seq = t.expected THEN [t EXCEPT !.expected = Advance(seq + 1, t.ahead)]
      ELSE [t EXCEPT !.ahead = t.ahead \cup {seq}]

record(rt, seq) ==
  LET t == initExpected(rt, seq)
  IN  CASE seq < t.expected -> t
        [] seq = t.expected ->
             LET e == Advance(seq + 1, t.ahead)
             IN  [t EXCEPT !.expected = e, !.ahead = {n \in t.ahead : n > e}]
        [] seq > t.expected ->
             IF seq - t.expected <= MaxReorderAhead
             THEN [t EXCEPT !.ahead = t.ahead \cup {seq}]
             ELSE t

\* record's result: the sequence number was neither delivered nor buffered.
fresh(rt, seq) == ~rt.initDone \/ (seq >= rt.expected /\ seq \notin rt.ahead)

\* A bug for the checks: the bitmap leaves out the watermark itself.
missingAboveBase(rt, lastSN) ==
  LET bits == {s \in rt.expected + 1 .. lastSN :
                 s < rt.expected + NackWindow /\ s \notin rt.ahead}
  IN  [base |-> rt.expected, bits |-> bits, needAck |-> rt.initDone /\ bits # {}]

\* A bug for the checks: the base is the number after the watermark.
missingPastBase(rt, lastSN) ==
  LET bits == IF rt.initDone
              THEN {s \in rt.expected .. lastSN :
                      s < rt.expected + NackWindow /\ s \notin rt.ahead}
              ELSE {}
  IN  [base |-> rt.expected + 1, bits |-> bits, needAck |-> bits # {}]

\* The ACKNACK base, the requested sequence numbers (base + N for each bit N
\* that is set) and whether an ACKNACK is needed at all.
missing(rt, lastSN) ==
  LET bits == IF rt.initDone
              THEN {s \in rt.expected .. lastSN :
                      s < rt.expected + NackWindow /\ s \notin rt.ahead}
              ELSE {}
  IN  [base |-> rt.expected, bits |-> bits, needAck |-> bits # {}]
=============================================================================
