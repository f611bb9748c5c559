------------------------- MODULE RtpsReliableProofs -------------------------
(***************************************************************************)
(* Safety of the reliable data path, for any set of readers, any history    *)
(* depth, ACKNACK window and reorder bound, and any network.  First lemmas  *)
(* about the methods of sendHistory and recvTracker, then the protocol.     *)
(***************************************************************************)
EXTENDS RtpsReliable, WellFoundedInduction, TLAPS

\* Two sequence numbers that share a slot are at least Depth apart.
LEMMA SlotDistance ==
  ASSUME NEW D \in Nat \ {0}, NEW a \in Nat, NEW b \in Nat, a < b, a % D = b % D
  PROVE  b - a >= D
<1> DEFINE p == a \div D
           q == b \div D
<1>1. a = (D * p) + (a % D) /\ b = (D * q) + (b % D)
  OBVIOUS
<1>2. p \in Int /\ q \in Int
  OBVIOUS
<1> HIDE DEF p, q
<1>3. b - a = D * (q - p)
  BY <1>1, <1>2, SMT
<1>4. q - p >= 1
  BY <1>2, <1>3, SMT
<1>5. D * (q - p) >= D
  BY <1>2, <1>4, SMT
<1> QED
  BY <1>3, <1>5

\* seq % depth is the index of a slot.
LEMMA SlotType == ASSUME NEW s \in Nat PROVE s % Depth \in Slots
  BY DepthAssumption DEF Slots

\* The window lies within the positive sequence numbers and is at most Depth wide.
WindowOK(h) ==
  /\ h \in History
  /\ h.any => /\ h.lowest \in 1 .. h.highest
              /\ h.highest - h.lowest < Depth

\* What storing a new highest sequence number does to the fields: n is h after it.
AfterStore(h, s, m, n) ==
  /\ n \in History /\ n.any /\ n.highest = s
  /\ n.lowest \in 1 .. s /\ s - n.lowest < Depth
  /\ \A t \in Nat : n.lowest <= t <=>
       /\ t > s - Depth
       /\ h.any => h.lowest <= t
       /\ ~h.any => s <= t
  /\ n.msg = [h.msg EXCEPT ![s % Depth] = m]
  /\ n.sn = [h.sn EXCEPT ![s % Depth] = s]
  /\ n.filled = [h.filled EXCEPT ![s % Depth] = TRUE]

\* What store does to every field, given a sequence number above all stored ones.
LEMMA StoreFields ==
  ASSUME NEW h, WindowOK(h), NEW s \in Nat \ {0}, NEW m \in Msg, h.any => h.highest < s
  PROVE  AfterStore(h, s, m, store(h, s, m))
<1> DEFINE n == store(h, s, m)
<1>1. h \in History
  BY DEF WindowOK
<1>2. s % Depth \in Slots /\ s \in Nat \ {0} /\ Depth \in Nat \ {0}
  BY SlotType, DepthAssumption
<1>3. h.highest \in Nat /\ h.lowest \in Nat /\ h.any \in BOOLEAN
  BY <1>1 DEF History
<1>4. n.any /\ n.highest = s
  BY <1>1, <1>2, <1>3 DEF store, Larger
<1>5. h.any => h.lowest \in 1 .. h.highest /\ h.highest - h.lowest < Depth
  BY DEF WindowOK
<1>6. n.lowest = LET low == IF h.any THEN h.lowest ELSE s
                 IN  IF s >= Depth THEN Larger(low, s - Depth + 1) ELSE low
  BY <1>1, <1>2, <1>3 DEF store, Larger
<1>9. /\ n.msg = [h.msg EXCEPT ![s % Depth] = m]
      /\ n.sn = [h.sn EXCEPT ![s % Depth] = s]
      /\ n.filled = [h.filled EXCEPT ![s % Depth] = TRUE]
  BY DEF store
<1>11. n = [msg |-> n.msg, sn |-> n.sn, filled |-> n.filled,
            highest |-> n.highest, lowest |-> n.lowest, any |-> n.any]
  BY DEF store
<1> HIDE DEF n
<1>7. n.lowest \in 1 .. s /\ s - n.lowest < Depth
  <2>1. CASE s >= Depth
    BY <2>1, <1>2, <1>3, <1>5, <1>6 DEF Larger
  <2>2. CASE s < Depth
    BY <2>2, <1>2, <1>3, <1>5, <1>6 DEF Larger
  <2> QED
    BY <2>1, <2>2, <1>2
<1>8. \A t \in Nat : n.lowest <= t <=>
        /\ t > s - Depth
        /\ h.any => h.lowest <= t
        /\ ~h.any => s <= t
  BY <1>2, <1>3, <1>5, <1>6 DEF Larger
<1>10. n \in History
  <2>1. /\ n.msg \in [Slots -> Msg \cup {NoMsg}] /\ n.sn \in [Slots -> Nat]
        /\ n.filled \in [Slots -> BOOLEAN]
    BY <1>1, <1>2, <1>9 DEF History
  <2>2. n.highest \in Nat /\ n.lowest \in Nat /\ n.any \in BOOLEAN
    BY <1>2, <1>4, <1>7
  <2> QED
    BY <2>1, <2>2, <1>11 DEF History
<1>12. AfterStore(h, s, m, n)
  BY <1>4, <1>7, <1>8, <1>9, <1>10, Zenon DEF AfterStore
<1> QED
  BY <1>12, Zenon DEF n

----------------------------------------------------------------------------
\* The ring's shape: every occupied slot is the slot of its own sequence number.
RingOK(h) ==
  /\ WindowOK(h)
  /\ \A i \in Slots : h.filled[i] =>
       h.any /\ h.msg[i] \in Msg /\ h.sn[i] \in 1 .. h.highest /\ h.sn[i] % Depth = i

\* A new sendHistory has the shape of a ring.
LEMMA NewRing == RingOK(newSendHistory) /\ ~newSendHistory.any
  BY DepthAssumption DEF RingOK, WindowOK, newSendHistory, History

\* store keeps the shape of the ring.
LEMMA StoreRing ==
  ASSUME NEW h, RingOK(h), NEW s \in Nat \ {0}, NEW m \in Msg, h.any => h.highest < s
  PROVE  RingOK(store(h, s, m))
<1> DEFINE n == store(h, s, m)
<1>1. s % Depth \in Slots /\ s \in Nat
  BY SlotType
<1>2. WindowOK(h)
  BY DEF RingOK
<1>3. AfterStore(h, s, m, n)
  BY <1>2, StoreFields, Zenon
<1> HIDE DEF n
<1>4. /\ h.msg \in [Slots -> Msg \cup {NoMsg}] /\ h.sn \in [Slots -> Nat]
      /\ h.filled \in [Slots -> BOOLEAN] /\ h.highest \in Nat
  BY DEF RingOK, WindowOK, History
<1>5. ASSUME NEW i \in Slots, n.filled[i]
      PROVE  n.msg[i] \in Msg /\ n.sn[i] \in 1 .. s /\ n.sn[i] % Depth = i
  <2>1. CASE i = s % Depth
    BY <1>1, <1>3, <1>4, <2>1 DEF AfterStore
  <2>2. CASE i # s % Depth
    <3>1. h.filled[i] /\ n.msg[i] = h.msg[i] /\ n.sn[i] = h.sn[i]
      BY <1>1, <1>3, <1>4, <1>5, <2>2 DEF AfterStore
    <3>2. h.any /\ h.msg[i] \in Msg /\ h.sn[i] \in 1 .. h.highest /\ h.sn[i] % Depth = i
      BY <3>1 DEF RingOK
    <3> QED
      BY <1>1, <1>4, <3>1, <3>2
  <2> QED
    BY <2>1, <2>2
<1>6. RingOK(n)
  BY <1>1, <1>3, <1>5 DEF RingOK, WindowOK, AfterStore
<1> QED
  BY <1>6 DEF n

\* Everything stored is at most the highest sequence number.
LEMMA StoredBelow ==
  ASSUME NEW h, NEW S, NEW p \in Stored(h, S)
  PROVE  h.any /\ p[1] <= h.highest /\ p \in S \X Msg
<1>1. p \in S \X Msg /\ get(h, p[1]) = p[2]
  BY DEF Stored
<1>2. get(h, p[1]) # NoMsg
  BY <1>1, NoMsgAssumption
<1> QED
  BY <1>1, <1>2 DEF get

\* The map S after storing m under s: what is Depth or more behind is evicted.
Advanced(S, s, m) == {p \in S : p[1] > s - Depth} \cup {<<s, m>>}

\* What get answers after store: the new message, and the old ones of the last Depth numbers.
LEMMA StoreContents ==
  ASSUME NEW h, RingOK(h), NEW N \in Nat, NEW s \in 1 .. N, NEW m \in Msg,
         h.any => h.highest < s
  PROVE  Stored(store(h, s, m), 1 .. N) = Advanced(Stored(h, 1 .. N), s, m)
<1> DEFINE n == store(h, s, m)
<1>1. s % Depth \in Slots /\ s \in Nat \ {0} /\ Depth \in Nat \ {0}
  BY SlotType, DepthAssumption
<1>2. AfterStore(h, s, m, n)
  <2>1. WindowOK(h) /\ s \in Nat \ {0}
    BY <1>1 DEF RingOK
  <2> QED
    BY <2>1, StoreFields, Zenon
<1> HIDE DEF n
<1>3. /\ h.msg \in [Slots -> Msg \cup {NoMsg}] /\ h.sn \in [Slots -> Nat]
      /\ h.filled \in [Slots -> BOOLEAN] /\ h.highest \in Nat /\ h.lowest \in Nat
      /\ h.any \in BOOLEAN
  BY DEF RingOK, WindowOK, History
<1>4. \A i \in Slots : h.filled[i] => h.any /\ h.sn[i] \in 1 .. h.highest
  BY DEF RingOK
<1>6. ASSUME NEW t \in 1 .. N, NEW x \in Msg
      PROVE  get(n, t) = x <=> (get(h, t) = x /\ t > s - Depth) \/ (t = s /\ x = m)
  <2>1. t \in Nat /\ t % Depth \in Slots /\ x # NoMsg
    BY <1>1, SlotType, NoMsgAssumption
  <2>2. CASE t = s
    <3>1. get(n, t) = m
      BY <1>1, <1>2, <1>3, <2>2 DEF get, AfterStore
    <3>2. get(h, t) # x
      BY <1>3, <2>1, <2>2 DEF get
    <3> QED
      BY <2>2, <3>1, <3>2
  <2>3. CASE t # s /\ t % Depth = s % Depth
    <3>1. get(n, t) = NoMsg
      BY <1>1, <1>2, <1>3, <2>1, <2>3 DEF get, AfterStore
    <3>2. get(h, t) = x => t <= s - Depth
      <4> SUFFICES ASSUME get(h, t) = x
                   PROVE  t <= s - Depth
        OBVIOUS
      <4>1. h.any /\ t <= h.highest
        BY <2>1 DEF get
      <4>2. t < s
        BY <4>1, <1>1, <1>3, <2>1
      <4>3. s - t >= Depth
        BY <4>2, <1>1, <2>1, <2>3, SlotDistance
      <4> QED
        BY <4>3, <1>1, <2>1
    <3> QED
      BY <1>1, <2>1, <2>3, <3>1, <3>2
  <2>4. CASE t # s /\ t % Depth # s % Depth
    <3>1. /\ n.msg[t % Depth] = h.msg[t % Depth] /\ n.sn[t % Depth] = h.sn[t % Depth]
          /\ n.filled[t % Depth] = h.filled[t % Depth]
      BY <1>1, <1>2, <1>3, <2>1, <2>4 DEF AfterStore
    <3>2. ASSUME h.filled[t % Depth], h.sn[t % Depth] = t
          PROVE  h.any /\ t <= h.highest /\ t <= s
      <4>1. h.any /\ t \in 1 .. h.highest
        BY <3>2, <1>4, <2>1
      <4> QED
        BY <4>1, <1>1, <1>3
    <3>3. (get(n, t) = x) <=> /\ h.filled[t % Depth] /\ h.sn[t % Depth] = t
                              /\ n.lowest <= t /\ h.msg[t % Depth] = x
      BY <1>2, <2>1, <3>1, <3>2 DEF get, AfterStore
    <3>4. (get(h, t) = x) <=> /\ h.filled[t % Depth] /\ h.sn[t % Depth] = t
                              /\ h.lowest <= t /\ h.msg[t % Depth] = x
      BY <2>1, <3>2 DEF get
    <3>5. h.any => (n.lowest <= t <=> t > s - Depth /\ h.lowest <= t)
      BY <1>2, <2>1 DEF AfterStore
    <3> QED
      BY <2>4, <3>2, <3>3, <3>4, <3>5
  <2> QED
    BY <2>2, <2>3, <2>4
<1>7. ASSUME NEW p \in (1 .. N) \X Msg
      PROVE  get(n, p[1]) = p[2] <=>
               (get(h, p[1]) = p[2] /\ p[1] > s - Depth) \/ p = <<s, m>>
  BY <1>6
<1>8. Stored(n, 1 .. N) = Advanced(Stored(h, 1 .. N), s, m)
  BY <1>7 DEF Stored, Advanced
<1> QED
  BY <1>8, Zenon DEF n

-----------------------------------------------------------------------------
\* A set of naturals that is not empty has a least element (the end of Advance's run).
LEMMA LeastNatural ==
  ASSUME NEW T, T \subseteq Nat, T # {}
  PROVE  \E x \in T : \A y \in T : x <= y
<1> DEFINE R == OpToRel(<, Nat)
<1>1. IsWellFoundedOn(R, Nat)
  BY NatLessThanWellFounded
<1>2. \A ss \in Nat \X Nat : ss[1] < ss[2] => ss \in R
  BY DEF OpToRel
<1> HIDE DEF R
<1>3. PICK x \in T : \A y \in T : ~(<<y, x>> \in R)
  BY <1>1, WFMin
<1>4. ASSUME NEW y \in T
      PROVE  x <= y
  <2>1. x \in Nat /\ y \in Nat
    OBVIOUS
  <2>2. ~(y < x)
    BY <2>1, <1>2, <1>3, Zenon
  <2> QED
    BY <2>1, <2>2
<1> QED
  BY <1>4

\* The watermark loop stops at the first gap, within its bound.
LEMMA AdvanceGap ==
  ASSUME NEW e \in Nat, NEW ahead \in SUBSET Nat,
         \A k \in ahead : k < e + MaxReorderAhead
  PROVE  /\ Advance(e, ahead) \in e .. e + MaxReorderAhead
         /\ Advance(e, ahead) \notin ahead
         /\ \A k \in e .. Advance(e, ahead) - 1 : k \in ahead
<1> DEFINE T == {n \in e .. e + MaxReorderAhead : n \notin ahead}
<1>1. MaxReorderAhead \in Nat
  BY TrackerAssumption
<1>2. T \subseteq Nat /\ e + MaxReorderAhead \in T
  BY <1>1
<1>3. PICK n \in T : \A y \in T : n <= y
  <2> HIDE DEF T
  <2> QED
    BY <1>2, LeastNatural
<1>4. \A k \in e .. n - 1 : k \in ahead
  BY <1>1, <1>3
<1>5. n \in e .. e + MaxReorderAhead /\ n \notin ahead
  BY <1>3
<1> QED
  BY <1>4, <1>5 DEF Advance

\* The buffer lies above the watermark and within MaxReorderAhead of it.
TrackerOK(rt) ==
  /\ rt \in Tracker
  /\ \A k \in rt.ahead : rt.expected < k /\ k <= rt.expected + MaxReorderAhead
  /\ ~rt.initDone => rt.ahead = {}

\* A new recvTracker is well formed.
LEMMA NewTracker == TrackerOK(newRecvTracker)
  BY DEF TrackerOK, newRecvTracker, Tracker

\* initExpected sets the watermark at first contact and does nothing afterwards.
LEMMA InitExpectedEffect ==
  ASSUME NEW rt, TrackerOK(rt), NEW s \in Nat
  PROVE  /\ TrackerOK(initExpected(rt, s))
         /\ initExpected(rt, s).initDone
         /\ initExpected(rt, s).ahead = rt.ahead
         /\ rt.initDone => initExpected(rt, s).expected = rt.expected
         /\ ~rt.initDone => initExpected(rt, s).expected = s
  BY DEF TrackerOK, initExpected, Tracker

\* record keeps the shape of the tracker, never moves the watermark back, and
\* moves it over, or buffers, nothing but s and what was buffered before.
LEMMA RecordEffect ==
  ASSUME NEW rt, TrackerOK(rt), NEW s \in Nat
  PROVE  /\ TrackerOK(record(rt, s))
         /\ record(rt, s).initDone
         /\ record(rt, s).expected >= initExpected(rt, s).expected
         /\ \A k \in Nat : /\ initExpected(rt, s).expected <= k
                           /\ k < record(rt, s).expected
                           => k = s \/ k \in rt.ahead
         /\ \A k \in record(rt, s).ahead : k = s \/ k \in rt.ahead
         /\ \A k \in rt.ahead : k < record(rt, s).expected \/ k \in record(rt, s).ahead
         /\ s <= initExpected(rt, s).expected + MaxReorderAhead =>
              s < record(rt, s).expected \/ s \in record(rt, s).ahead
<1> DEFINE t == initExpected(rt, s)
<1>1. TrackerOK(t) /\ t.initDone /\ t.ahead = rt.ahead
  BY InitExpectedEffect
<1>2. /\ t \in Tracker /\ t.expected \in Nat /\ t.ahead \in SUBSET Nat
      /\ \A k \in t.ahead : t.expected < k /\ k <= t.expected + MaxReorderAhead
  BY <1>1 DEF TrackerOK, Tracker
<1>3. MaxReorderAhead \in Nat
  BY TrackerAssumption
<1> HIDE DEF t
<1>a. record(rt, s) = CASE s < t.expected -> t
        [] s = t.expected ->
             [t EXCEPT !.expected = Advance(s + 1, t.ahead),
                       !.ahead = {n \in t.ahead : n > Advance(s + 1, t.ahead)}]
        [] s > t.expected ->
             IF s - t.expected <= MaxReorderAhead
             THEN [t EXCEPT !.ahead = t.ahead \cup {s}]
             ELSE t
  BY DEF record, t
<1>4. CASE s < t.expected \/ (s > t.expected /\ s - t.expected > MaxReorderAhead)
  <2>1. record(rt, s) = t
    BY <1>a, <1>2, <1>3, <1>4
  <2>2. s < t.expected \/ s > t.expected + MaxReorderAhead
    BY ONLY <1>2, <1>3, <1>4, s \in Nat
  <2> QED
    BY <2>1, <2>2, <1>1, <1>2, <1>3 DEF t
<1>5. CASE s = t.expected
  <2> DEFINE e == Advance(s + 1, t.ahead)
  <2>1. /\ e \in s + 1 .. s + 1 + MaxReorderAhead /\ e \notin t.ahead
        /\ \A k \in s + 1 .. e - 1 : k \in t.ahead
    BY <1>2, <1>3, <1>5, AdvanceGap
  <2> HIDE DEF e
  <2>2. record(rt, s) = [t EXCEPT !.expected = e, !.ahead = {n \in t.ahead : n > e}]
    BY <1>a, <1>2, <1>5 DEF e
  <2>3. /\ record(rt, s).expected = e /\ record(rt, s).ahead = {n \in t.ahead : n > e}
        /\ record(rt, s).initDone /\ record(rt, s) \in Tracker
    <3> DEFINE n == [t EXCEPT !.expected = e, !.ahead = {k \in t.ahead : k > e}]
    <3>1. n.expected = e /\ n.ahead = {k \in t.ahead : k > e} /\ n.initDone = t.initDone
      BY <1>2 DEF Tracker
    <3>2. e \in Nat /\ {k \in t.ahead : k > e} \in SUBSET Nat
      BY <2>1, <1>2, <1>3
    <3>3. n \in Tracker
      BY <3>2, <1>2 DEF Tracker
    <3> QED
      BY <3>1, <3>3, <2>2, <1>1
  <2>4. TrackerOK(record(rt, s))
    BY <2>1, <2>3, <1>2, <1>3, <1>5 DEF TrackerOK
  <2> QED
    BY <2>1, <2>3, <2>4, <1>1, <1>2, <1>3, <1>5 DEF t
<1>6. CASE s > t.expected /\ s - t.expected <= MaxReorderAhead
  <2>1. record(rt, s) = [t EXCEPT !.ahead = t.ahead \cup {s}]
    BY <1>a, <1>2, <1>6
  <2>2. /\ record(rt, s).expected = t.expected /\ record(rt, s).ahead = t.ahead \cup {s}
        /\ record(rt, s).initDone /\ record(rt, s) \in Tracker
    BY <2>1, <1>1, <1>2 DEF Tracker
  <2>3. TrackerOK(record(rt, s))
    BY <2>2, <1>2, <1>3, <1>6 DEF TrackerOK
  <2> QED
    BY <2>2, <2>3, <1>1, <1>2, <1>6 DEF t
<1> QED
  BY <1>2, <1>3, <1>4, <1>5, <1>6

\* An ACKNACK is needed only for sequence numbers from the watermark up to the
\* last one, so its base never passes the last one.
LEMMA MissingEffect ==
  ASSUME NEW rt, TrackerOK(rt), NEW last \in Nat
  PROVE  /\ missing(rt, last).base = rt.expected
         /\ missing(rt, last).bits \subseteq rt.expected .. last
         /\ missing(rt, last).needAck => rt.initDone /\ rt.expected <= last
<1> DEFINE bits == {s \in rt.expected .. last : s < rt.expected + NackWindow /\ s \notin rt.ahead}
<1>1. rt.expected \in Nat
  BY DEF TrackerOK, Tracker
<1>2. /\ missing(rt, last).base = rt.expected
      /\ missing(rt, last).bits = IF rt.initDone THEN bits ELSE {}
  BY DEF missing
<1>3. missing(rt, last).needAck = (missing(rt, last).bits # {})
  BY DEF missing
<1>4. bits # {} => rt.expected <= last
  BY <1>1
<1>5. bits \subseteq rt.expected .. last
  OBVIOUS
<1> HIDE DEF bits
<1> QED
  BY <1>2, <1>3, <1>4, <1>5

-----------------------------------------------------------------------------

\* The writer: acked is below seq, the window lies within what was written.
WriterInv ==
  /\ seq > 0 => acked < seq
  /\ seq = 0 => acked = 0
  /\ ~drainCh
  /\ history.any => /\ history.lowest \in 1 .. history.highest
                    /\ history.highest <= seq
                    /\ history.highest - history.lowest < Depth
  /\ ~history.any => history.highest = 0 /\ history.lowest = 0

\* A reader: everything from its anchor to its watermark, and everything in its
\* buffer, has been received.
ReaderInv(r) ==
  /\ TrackerOK(tracker[r])
  /\ tracker[r].expected \in 0 .. MaxSeq + 1 /\ tracker[r].ahead \subseteq SN
  /\ tracker[r].initDone =>
       /\ anchor[r] >= 1 /\ anchor[r] <= tracker[r].expected
       /\ ReceivedUpTo(r, tracker[r].expected - 1)
       /\ \A k \in tracker[r].ahead : Received(r, k)

\* A datagram, however old: no sequence number in it is beyond seq, and an
\* ACKNACK's base is backed by what its reader has received.
DatagramInv(m) ==
  /\ m.type = "DATA" => m.sn <= seq
  /\ m.type = "HEARTBEAT" => m.first <= m.last /\ m.last <= history.highest /\ m.last <= seq
  /\ m.type = "ACKNACK" => m.base <= seq /\ ReceivedUpTo(m.reader, m.base - 1)

\* The types of the variables that no other part of the invariant speaks of.
Types ==
  /\ seq \in 0 .. MaxSeq /\ acked \in 0 .. MaxSeq
  /\ history \in History
  /\ closed \in BOOLEAN /\ drainCh \in BOOLEAN
  /\ drain \in {"none", "waiting", "drained", "cancelled"}
  /\ remoteReaders \subseteq Readers /\ sources \subseteq Readers
  /\ tracker \in [Readers -> Tracker]
  /\ net \subseteq Messages
  /\ drops \in 0 .. MaxDrops
  /\ anchor \in [Readers -> 0 .. MaxSeq]
  /\ copies \in [Readers -> [SN -> 0 .. MaxCopies]]

IInv ==
  /\ Types
  /\ WriterInv
  /\ \A r \in Readers : ReaderInv(r)
  /\ \A m \in net : DatagramInv(m)

\* The fields of a datagram, by its type.
LEMMA MessageFields ==
  ASSUME NEW m \in Messages
  PROVE  /\ m.type \in {"DATA", "HEARTBEAT", "ACKNACK", "GAP"}
         /\ m.reader \in Readers
         /\ m.type = "DATA" => m.sn \in SN /\ m.msg \in Msg
         /\ m.type = "HEARTBEAT" => m.first \in SN /\ m.last \in SN
         /\ m.type = "ACKNACK" => m.base \in SN /\ m.bits \subseteq SN
  BY DEF Messages

\* The invariant holds before the first Write.
LEMMA InitInv == Init => IInv
<1> SUFFICES ASSUME Init PROVE IInv
  OBVIOUS
<1>1. newSendHistory \in History /\ ~newSendHistory.any /\ newSendHistory.highest = 0
      /\ newSendHistory.lowest = 0
  BY DepthAssumption DEF newSendHistory, History
<1>2. newRecvTracker \in Tracker /\ TrackerOK(newRecvTracker) /\ ~newRecvTracker.initDone
      /\ newRecvTracker.expected = 0 /\ newRecvTracker.ahead = {}
  BY NewTracker DEF newRecvTracker, Tracker
<1>3. Types
  <2>1. closed \in BOOLEAN /\ drainCh \in BOOLEAN
    BY DEF Init
  <2>2. seq \in 0 .. MaxSeq /\ acked \in 0 .. MaxSeq /\ drops \in 0 .. MaxDrops
    BY ReliableAssumption DEF Init
  <2>3. anchor \in [Readers -> 0 .. MaxSeq] /\ tracker \in [Readers -> Tracker]
    BY <1>2, ReliableAssumption DEF Init
  <2>4. copies \in [Readers -> [SN -> 0 .. MaxCopies]]
    BY ReliableAssumption DEF Init
  <2> QED
    BY <1>1, <2>1, <2>2, <2>3, <2>4 DEF Init, Types
<1>4. WriterInv
  BY <1>1 DEF Init, WriterInv
<1>5. \A r \in Readers : ReaderInv(r)
  BY <1>2, ReliableAssumption DEF Init, ReaderInv
<1> QED
  BY <1>3, <1>4, <1>5 DEF Init, IInv

----------------------------------------------------------------------------
\* Facts that frame the actions: what readers have received does not depend on
\* the writer or on the network, and a datagram's invariant survives any step
\* that moves the writer and the readers forward.
LEMMA ReaderFrame ==
  ASSUME UNCHANGED readerVars
  PROVE  /\ \A r \in Readers : ReaderInv(r)' <=> ReaderInv(r)
         /\ \A r, k : ReceivedUpTo(r, k)' <=> ReceivedUpTo(r, k)
  BY DEF readerVars, ReaderInv, ReceivedUpTo, Received, TrackerOK

\* What a datagram in flight says stays true while the writer and the reader move forward.
LEMMA DatagramFrame ==
  ASSUME Types, NEW m \in Messages, DatagramInv(m),
         seq \in Nat, seq' \in Nat, seq' >= seq,
         history.highest \in Nat, history'.highest \in Nat, history'.highest >= history.highest,
         \A r \in Readers : \A k \in Int : ReceivedUpTo(r, k) => ReceivedUpTo(r, k)'
  PROVE  DatagramInv(m)'
<1>1. /\ m.reader \in Readers
      /\ m.type = "DATA" => m.sn \in Nat
      /\ m.type = "HEARTBEAT" => m.first \in Nat /\ m.last \in Nat
      /\ m.type = "ACKNACK" => m.base \in Nat /\ m.base - 1 \in Int
  BY MessageFields, ReliableAssumption DEF SN
<1>2. m.type = "DATA" => m.sn <= seq'
  BY <1>1 DEF DatagramInv
<1>3. m.type = "HEARTBEAT" => m.first <= m.last /\ m.last <= history'.highest /\ m.last <= seq'
  BY <1>1 DEF DatagramInv
<1>4. m.type = "ACKNACK" => m.base <= seq' /\ ReceivedUpTo(m.reader, m.base - 1)'
  <2> SUFFICES ASSUME m.type = "ACKNACK"
               PROVE  m.base <= seq' /\ ReceivedUpTo(m.reader, m.base - 1)'
    OBVIOUS
  <2>1. m.base <= seq /\ ReceivedUpTo(m.reader, m.base - 1)
    BY DEF DatagramInv
  <2>2. m.base <= seq'
    BY <1>1, <2>1
  <2> QED
    BY <1>1, <2>1, <2>2
<1> QED
  BY <1>2, <1>3, <1>4 DEF DatagramInv

\* Matching, closing and draining leave sequence numbers, receipts and the
\* network alone.
LEMMA QuietSteps ==
  ASSUME IInv,
         UNCHANGED <<seq, history, acked, drainCh, readerVars>>,
         net' \subseteq net, drops' \in 0 .. MaxDrops,
         closed' \in BOOLEAN, drain' \in {"none", "waiting", "drained", "cancelled"},
         remoteReaders' \subseteq Readers, sources' \subseteq Readers
  PROVE  IInv'
<1>1. Types'
  BY DEF IInv, Types, readerVars
<1>2. \A r \in Readers : ReaderInv(r)'
  BY ReaderFrame DEF IInv
<1>3. WriterInv'
  BY ReaderFrame DEF IInv, WriterInv
<1>4. \A m \in net' : DatagramInv(m)'
  BY ReaderFrame DEF IInv, DatagramInv
<1> QED
  BY <1>1, <1>2, <1>3, <1>4 DEF IInv

\* The HEARTBEATs of a history whose window lies within what was written.
LEMMA HeartbeatsOK ==
  ASSUME NEW h \in History, remoteReaders \subseteq Readers, NEW n \in 0 .. MaxSeq,
         h.any => h.lowest \in 1 .. h.highest /\ h.highest <= n
  PROVE  \A m \in Heartbeats(h) :
           /\ m \in Messages /\ m.type = "HEARTBEAT"
           /\ m.first <= m.last /\ m.last <= h.highest /\ m.last <= n
<1> SUFFICES ASSUME NEW m \in Heartbeats(h)
             PROVE  /\ m \in Messages /\ m.type = "HEARTBEAT"
                    /\ m.first <= m.last /\ m.last <= h.highest /\ m.last <= n
  OBVIOUS
<1>1. h.any
  BY DEF Heartbeats, firstLast
<1>2. PICK r \in Readers : m = [type |-> "HEARTBEAT", reader |-> r,
                              first |-> h.lowest, last |-> h.highest]
  BY DEF Heartbeats, Heartbeat, firstLast
<1>3. h.highest \in Nat /\ h.lowest \in Nat
  BY DEF History
<1>4. h.lowest \in SN /\ h.highest \in SN
  BY <1>1, <1>3, ReliableAssumption DEF SN
<1>5. m \in Messages
  BY <1>2, <1>4 DEF Messages
<1> QED
  BY <1>1, <1>2, <1>3, <1>5

\* A tick of heartbeatLoop keeps the invariant.
LEMMA HeartbeatTickStep ==
  ASSUME IInv, HeartbeatTick
  PROVE  IInv'
<1>1. /\ UNCHANGED <<seq, history, acked, closed, drainCh, drain, remoteReaders, sources>>
      /\ UNCHANGED readerVars /\ drops' = drops
      /\ net' = net \cup Heartbeats(history)
  BY DEF HeartbeatTick, writerVars, matchVars
<1>2. \A m \in Heartbeats(history) : m \in Messages /\ DatagramInv(m)
  BY HeartbeatsOK DEF IInv, Types, WriterInv, DatagramInv
<1>3. Types'
  BY <1>1, <1>2 DEF IInv, Types, readerVars
<1>4. WriterInv'
  BY <1>1, ReaderFrame DEF IInv, WriterInv
<1>5. \A m \in net' : DatagramInv(m)'
  BY <1>1, <1>2, ReaderFrame DEF IInv, DatagramInv
<1> QED
  BY <1>1, <1>3, <1>4, <1>5, ReaderFrame DEF IInv

\* Write keeps the invariant, whether or not Seal fails.
LEMMA WriteStep ==
  ASSUME IInv, NEW k \in Outcomes, Write(k)
  PROVE  IInv'
<1>1. /\ ~closed /\ seq < MaxSeq /\ seq' = seq + 1
      /\ UNCHANGED <<acked, closed, drainCh, drain, remoteReaders, sources, drops>>
      /\ UNCHANGED readerVars
  BY DEF Write, matchVars
<1>2. seq \in Nat /\ seq' \in 0 .. MaxSeq /\ seq' \in Nat /\ MaxSeq \in Nat /\ acked \in Nat
  BY <1>1, ReliableAssumption DEF IInv, Types
<1>3. history.highest \in Nat /\ WindowOK(history)
  BY DEF IInv, Types, WriterInv, WindowOK, History
<1>4. \A r, j : ReceivedUpTo(r, j)' <=> ReceivedUpTo(r, j)
  BY <1>1, ReaderFrame
<1>5. WriterInv' /\ history' \in History /\ history'.highest \in Nat
        /\ net' \subseteq Messages /\ (\A m \in net' : DatagramInv(m)')
  <2>1. CASE k = "sealerr"
    <3>1. history' = history /\ net' = net
      BY <2>1 DEF Write
    <3>2. \A m \in net' : DatagramInv(m)'
      BY <3>1, <1>2, <1>3, <1>4, DatagramFrame, <1>1 DEF IInv, Types
    <3>3. WriterInv'
      BY <3>1, <1>1, <1>2, <1>3, <1>4 DEF IInv, WriterInv
    <3> QED
      BY <3>1, <3>2, <3>3, <1>3 DEF IInv, Types
  <2>2. CASE k # "sealerr"
    <3>1. /\ history' = store(history, seq + 1, k)
          /\ net' = net \cup {Data(r, seq + 1, k) : r \in remoteReaders} \cup Heartbeats(history')
      BY <2>2 DEF Write
    <3>2. k \in Msg
      BY <2>2, ReliableAssumption
    <3>3. history.any => history.highest < seq + 1
      BY <1>2, <1>3 DEF IInv, WriterInv
    <3>4. /\ history' \in History /\ history'.any /\ history'.highest = seq + 1
          /\ history'.lowest \in 1 .. seq + 1 /\ seq + 1 - history'.lowest < Depth
      <4>1. PICK n \in Nat \ {0} : n = seq + 1
        BY <1>2
      <4>2. history' = store(history, n, k) /\ (history.any => history.highest < n)
        BY <3>1, <3>3, <4>1, Zenon
      <4>3. AfterStore(history, n, k, store(history, n, k))
        BY <4>2, <3>2, <1>3, StoreFields, Zenon
      <4>4. AfterStore(history, n, k, history')
        BY <4>2, <4>3, Zenon
      <4> QED
        BY <4>1, <4>4, <1>2 DEF AfterStore
    <3>5. \A m \in Heartbeats(history') : m \in Messages /\ DatagramInv(m)'
      <4>1. remoteReaders \subseteq Readers
        BY DEF IInv, Types
      <4>2. \A m \in Heartbeats(history') :
              /\ m \in Messages /\ m.type = "HEARTBEAT"
              /\ m.first <= m.last /\ m.last <= history'.highest /\ m.last <= seq'
        BY <1>1, <1>2, <3>4, <4>1, HeartbeatsOK
      <4> QED
        BY <4>2 DEF DatagramInv
    <3>6. \A m \in {Data(r, seq + 1, k) : r \in remoteReaders} :
            m \in Messages /\ DatagramInv(m)'
      <4> SUFFICES ASSUME NEW r \in remoteReaders, NEW m, m = Data(r, seq + 1, k)
                   PROVE  m \in Messages /\ DatagramInv(m)'
        OBVIOUS
      <4>1. seq + 1 \in SN /\ r \in Readers
        BY <1>1, <1>2 DEF SN, IInv, Types
      <4>2. m \in Messages /\ m.type = "DATA" /\ m.sn = seq + 1
        BY <4>1, <3>2 DEF Messages, Data
      <4> QED
        BY <4>2, <1>1, <1>2 DEF DatagramInv
    <3>7. ASSUME NEW m \in net PROVE m \in Messages /\ DatagramInv(m)'
      <4>1. m \in Messages /\ DatagramInv(m)
        BY DEF IInv, Types
      <4>2. history'.highest >= history.highest
        <5>1. CASE history.any
          BY <5>1, <3>3, <3>4, <1>2, <1>3
        <5>2. CASE ~history.any
          <6>1. history.highest = 0
            BY <5>2 DEF IInv, WriterInv
          <6> QED
            BY <6>1, <3>4, <1>2
        <5> QED
          BY <5>1, <5>2
      <4> QED
        BY <4>1, <4>2, <1>1, <1>2, <1>3, <1>4, <3>4, DatagramFrame DEF IInv
    <3>8. WriterInv'
      BY <1>1, <1>2, <1>4, <3>4 DEF IInv, WriterInv
    <3> QED
      BY <3>1, <3>4, <3>5, <3>6, <3>7, <3>8, <1>2
  <2> QED
    BY <2>1, <2>2
<1>6. Types'
  BY <1>1, <1>2, <1>5 DEF IInv, Types, readerVars
<1> QED
  BY <1>1, <1>5, <1>6, ReaderFrame DEF IInv

\* A retransmission from the history is a datagram that says the truth.
LEMMA RetransmitOK ==
  ASSUME IInv, NEW r \in remoteReaders, NEW s \in SN \cap Retained(history),
         NEW m, m = Data(r, s, get(history, s))
  PROVE  m \in Messages /\ DatagramInv(m)
<1>1. history.any /\ s <= history.highest /\ get(history, s) # NoMsg
  BY DEF Retained, get
<1>2. s % Depth \in Slots
  BY SlotType DEF SN
<1>3. get(history, s) \in Msg
  BY <1>1, <1>2 DEF get, IInv, Types, History
<1>4. r \in Readers /\ s \in SN
  BY DEF IInv, Types
<1>5. m \in Messages
  BY <1>3, <1>4 DEF Messages, Data
<1>6. m.type = "DATA" /\ m.sn = s
  BY DEF Data
<1>7. s <= seq
  <2>1. history.highest \in Nat /\ history.highest <= seq /\ seq \in Nat /\ s \in Nat
    BY <1>1, ReliableAssumption DEF IInv, Types, WriterInv, History, SN
  <2> QED
    BY <2>1, <1>1
<1> QED
  BY <1>5, <1>6, <1>7 DEF DatagramInv

\* The GAP that answers an ACKNACK is well formed.
LEMMA GapOK ==
  ASSUME IInv, NEW a \in net, a.type = "ACKNACK"
  PROVE  \A m \in GapFor(a) : m \in Messages /\ m.type = "GAP"
<1> SUFFICES ASSUME NEW m \in GapFor(a)
             PROVE  m \in Messages /\ m.type = "GAP"
  OBVIOUS
<1>1. a.base \in SN /\ a.reader \in Readers
  BY MessageFields DEF IInv, Types
<1>2. history.any /\ a.base < history.lowest
  BY DEF GapFor
<1> DEFINE e == IF history.lowest - 1 < a.base + NackWindow - 1
                THEN history.lowest - 1 ELSE a.base + NackWindow - 1
<1>3. PICK r \in remoteReaders \cup {a.reader} : m = Gap(r, a.base, e)
  BY <1>2 DEF GapFor
<1>4. r \in Readers
  BY <1>1 DEF IInv, Types
<1>5. e \in SN
  <2>1. history.lowest \in 1 .. history.highest /\ history.highest <= seq
        /\ history.highest \in Nat /\ seq \in 0 .. MaxSeq
    BY <1>2 DEF IInv, Types, WriterInv, History
  <2> QED
    BY <1>1, <1>2, <2>1, ReliableAssumption, TrackerAssumption DEF SN
<1> HIDE DEF e
<1> QED
  BY <1>1, <1>3, <1>4, <1>5 DEF Gap, Messages

\* The ACKNACK handler keeps the invariant.
LEMMA AckNackStep ==
  ASSUME IInv, NEW a \in net, HandleAckNack(a)
  PROVE  IInv'
<1>1. /\ a.type = "ACKNACK" /\ acked' = Larger(acked, a.base - 1)
      /\ drainCh' = (drainCh \/ acked' >= seq)
      /\ net' = Rest(a) \cup GapFor(a)
                  \cup {Data(r, s, get(history, s)) :
                         r \in remoteReaders, s \in a.bits \cap Retained(history)}
      /\ UNCHANGED <<seq, history, closed, drain, remoteReaders, sources, drops>>
      /\ UNCHANGED readerVars
  BY DEF HandleAckNack, matchVars
<1>2. /\ a \in Messages /\ a.base \in SN /\ a.bits \subseteq SN /\ a.reader \in Readers
      /\ a.base <= seq /\ ReceivedUpTo(a.reader, a.base - 1)
  BY <1>1, MessageFields DEF IInv, Types, DatagramInv
<1>3. seq \in Nat /\ acked \in 0 .. MaxSeq /\ seq \in 0 .. MaxSeq /\ MaxSeq \in Nat /\ a.base \in Nat \ {0}
  <2>1. acked \in 0 .. MaxSeq /\ seq \in 0 .. MaxSeq
    BY DEF IInv, Types
  <2>2. MaxSeq \in Nat
    BY ReliableAssumption
  <2>3. a.base \in SN
    BY <1>2
  <2> QED
    BY ONLY <2>1, <2>2, <2>3 DEF SN
<1>4. seq > 0 /\ acked < seq /\ ~drainCh
  <2>1. (seq > 0 => acked < seq) /\ ~drainCh
    BY DEF IInv, WriterInv
  <2>2. a.base <= seq
    BY <1>2
  <2> QED
    BY ONLY <2>1, <2>2, <1>3
<1>5. acked' < seq /\ acked' \in 0 .. MaxSeq /\ (acked' = acked \/ acked' = a.base - 1)
  <2>1. acked' = Larger(acked, a.base - 1)
    BY <1>1
  <2>2. a.base <= seq
    BY <1>2
  <2> QED
    BY ONLY <2>1, <2>2, <1>3, <1>4 DEF Larger
<1>6. ~drainCh' /\ drainCh' \in BOOLEAN
  <2>1. ~(acked' >= seq)
    BY <1>3, <1>5
  <2> QED
    BY <1>1, <1>4, <2>1, Zenon
<1>7. \A r, j : ReceivedUpTo(r, j)' <=> ReceivedUpTo(r, j)
  BY <1>1, ReaderFrame
<1>8. WriterInv'
  <2>1. seq' = seq /\ history' = history
    BY <1>1
  <2>2. WriterInv
    BY DEF IInv
  <2> QED
    BY ONLY <2>1, <2>2, <1>3, <1>4, <1>5, <1>6 DEF WriterInv
<1>9. \A m \in net' : m \in Messages /\ DatagramInv(m)
  <2> DEFINE Resent == {Data(r, s, get(history, s)) :
                          r \in remoteReaders, s \in a.bits \cap Retained(history)}
  <2>1. \A m \in Rest(a) : m \in net
    BY DEF Rest
  <2>2. \A m \in GapFor(a) : m \in Messages /\ DatagramInv(m)
    BY <1>1, GapOK DEF DatagramInv
  <2>3. \A m \in Resent : m \in Messages /\ DatagramInv(m)
    <3> SUFFICES ASSUME NEW r \in remoteReaders, NEW s \in a.bits \cap Retained(history),
                        NEW m, m = Data(r, s, get(history, s))
                 PROVE  m \in Messages /\ DatagramInv(m)
      OBVIOUS
    <3>1. s \in SN \cap Retained(history)
      BY <1>2
    <3> QED
      BY <3>1, RetransmitOK
  <2> QED
    <3>1. \A m \in net : m \in Messages /\ DatagramInv(m)
      BY DEF IInv, Types
    <3>2. net' = Rest(a) \cup GapFor(a) \cup Resent
      BY <1>1
    <3> HIDE DEF Resent
    <3> QED
      BY ONLY <2>1, <2>2, <2>3, <3>1, <3>2
<1>10. \A m \in net' : DatagramInv(m)'
  BY <1>1, <1>7, <1>9 DEF DatagramInv
<1>11. Types'
  BY <1>1, <1>5, <1>6, <1>9 DEF IInv, Types, readerVars
<1> QED
  BY <1>1, <1>8, <1>10, <1>11, ReaderFrame DEF IInv

\* The ACKNACK a reader sends from a tracker that satisfies the invariant.
LEMMA ReplyOK ==
  ASSUME NEW r \in Readers, NEW rt, TrackerOK(rt), NEW last \in SN,
         rt.initDone => rt.expected >= 1,
         NEW m \in Reply(r, missing(rt, last))
  PROVE  /\ m \in Messages /\ m.type = "ACKNACK" /\ m.reader = r
         /\ m.base = rt.expected /\ m.base <= last
<1>1. last \in Nat /\ MaxSeq \in Nat /\ last <= MaxSeq
  BY ReliableAssumption DEF SN
<1>2. /\ missing(rt, last).base = rt.expected
      /\ missing(rt, last).bits \subseteq rt.expected .. last
      /\ missing(rt, last).needAck => rt.initDone /\ rt.expected <= last
  BY <1>1, MissingEffect
<1>3. missing(rt, last).needAck
  BY DEF Reply
<1>4. m = AckNack(r, missing(rt, last).base, missing(rt, last).bits)
  BY <1>3 DEF Reply
<1>5. rt.expected \in Nat /\ rt.expected >= 1 /\ rt.expected <= last
  BY <1>2, <1>3 DEF TrackerOK, Tracker
<1>6. rt.expected \in SN /\ missing(rt, last).bits \subseteq SN
  BY <1>1, <1>2, <1>5 DEF SN
<1>7. /\ m.type = "ACKNACK" /\ m.reader = r
      /\ m.base = missing(rt, last).base
  BY <1>4 DEF AckNack
<1>8. m \in Messages
  BY <1>2, <1>4, <1>6 DEF AckNack, Messages
<1> QED
  BY <1>2, <1>5, <1>7, <1>8

\* A step that replaces one reader's tracker, its anchor on first contact, and
\* adds receipts: the invariant is kept when that reader's part of it is.
LEMMA TrackerStep ==
  ASSUME IInv, NEW r \in Readers, NEW rt, NEW a \in net, NEW last \in SN, NEW base \in SN,
         TrackerOK(rt), last <= seq,
         tracker' = [tracker EXCEPT ![r] = rt],
         anchor' = Anchored(r, base),
         copies' \in [Readers -> [SN -> 0 .. MaxCopies]],
         \A q \in Readers, k \in SN : Received(q, k) => Received(q, k)',
         net' = Rest(a) \cup Reply(r, missing(rt, last)),
         UNCHANGED <<writerVars, matchVars, drops>>,
         rt.initDone, ReaderInv(r)'
  PROVE  IInv'
<1>1. /\ UNCHANGED <<seq, history, acked, closed, drainCh, drain, remoteReaders, sources>>
  BY DEF writerVars, matchVars
<1>2. Types
  BY DEF IInv
<1>3. tracker' \in [Readers -> Tracker] /\ tracker'[r] = rt
  BY <1>2 DEF Types, TrackerOK
<1>4. anchor' \in [Readers -> 0 .. MaxSeq]
  BY <1>2, ReliableAssumption DEF Types, Anchored, SN
<1>5. \A q \in Readers : tracker[q].initDone => tracker'[q].initDone /\ anchor'[q] = anchor[q]
  <2>1. ASSUME NEW q \in Readers, tracker[q].initDone
        PROVE  tracker'[q].initDone /\ anchor'[q] = anchor[q]
    <3>1. CASE q = r
      BY <3>1, <2>1, <1>2, <1>3 DEF Anchored
    <3>2. CASE q # r
      BY <3>2, <2>1, <1>2 DEF Anchored, Types
    <3> QED
      BY <3>1, <3>2
  <2> QED
    BY <2>1
<1>6. \A q \in Readers : \A k \in Int : ReceivedUpTo(q, k) => ReceivedUpTo(q, k)'
  BY <1>5 DEF ReceivedUpTo
<1>7. \A q \in Readers : ReaderInv(q)'
  <2>1. ASSUME NEW q \in Readers, q # r
        PROVE  ReaderInv(q)'
    <3>1. tracker'[q] = tracker[q] /\ anchor'[q] = anchor[q]
      BY <2>1, <1>2 DEF Types, Anchored
    <3>2. ReaderInv(q)
      BY DEF IInv
    <3>3. tracker[q].expected - 1 \in Int
      BY <1>2 DEF Types, Tracker
    <3>4. ReceivedUpTo(q, tracker[q].expected - 1) => ReceivedUpTo(q, tracker[q].expected - 1)'
      BY <3>1, <1>5 DEF ReceivedUpTo
    <3> QED
      BY <3>1, <3>2, <3>4 DEF ReaderInv
  <2> QED
    BY <2>1
<1>8. WriterInv'
  BY <1>1 DEF IInv, WriterInv
<1>9. \A m \in net' : m \in Messages /\ DatagramInv(m)'
  <2>1. ASSUME NEW m \in Rest(a)
        PROVE  m \in Messages /\ DatagramInv(m)'
    <3>1. m \in Messages /\ DatagramInv(m) /\ seq \in Nat /\ history.highest \in Nat
      BY <1>2, ReliableAssumption DEF IInv, Types, Rest, History
    <3> QED
      BY <3>1, <1>1, <1>2, <1>6, DatagramFrame
  <2>2. ASSUME NEW m \in Reply(r, missing(rt, last))
        PROVE  m \in Messages /\ DatagramInv(m)'
    <3>1. anchor'[r] >= 1 /\ anchor'[r] <= rt.expected /\ ReceivedUpTo(r, rt.expected - 1)'
      <4>1. tracker'[r].initDone
        BY <1>3
      <4>2. anchor'[r] >= 1 /\ anchor'[r] <= tracker'[r].expected
             /\ ReceivedUpTo(r, tracker[r].expected - 1)'
        BY <4>1 DEF ReaderInv
      <4> QED
        BY <4>2, <1>3 DEF ReceivedUpTo
    <3>2. rt.expected >= 1
      BY <3>1, <1>4 DEF TrackerOK, Tracker
    <3>3. /\ m \in Messages /\ m.type = "ACKNACK" /\ m.reader = r
          /\ m.base = rt.expected /\ m.base <= last
      BY <3>2, ReplyOK
    <3>4. m.base <= seq'
      BY <3>3, <1>1, <1>2, ReliableAssumption DEF SN, Types, TrackerOK, Tracker
    <3> QED
      BY <3>1, <3>3, <3>4 DEF DatagramInv
  <2> QED
    BY <2>1, <2>2
<1>10. Types'
  BY <1>1, <1>2, <1>3, <1>4, <1>9 DEF Types
<1> QED
  BY <1>7, <1>8, <1>9, <1>10 DEF IInv

\* The HEARTBEAT handler keeps the invariant.
LEMMA HeartbeatStep ==
  ASSUME IInv, NEW a \in net, HandleHeartbeat(a)
  PROVE  IInv'
<1> DEFINE r  == a.reader
           rt == initExpected(tracker[r], a.first)
<1>1. /\ a.type = "HEARTBEAT" /\ tracker' = [tracker EXCEPT ![r] = rt]
      /\ anchor' = Anchored(r, a.first) /\ copies' = copies
      /\ net' = Rest(a) \cup Reply(r, missing(rt, a.last))
      /\ UNCHANGED <<writerVars, matchVars, drops>>
  BY DEF HandleHeartbeat
<1>2. /\ r \in Readers /\ a.first \in SN /\ a.last \in SN /\ a.last <= seq
  BY <1>1, MessageFields DEF IInv, Types, DatagramInv
<1>3. Types /\ ReaderInv(r) /\ TrackerOK(tracker[r])
  BY <1>2 DEF IInv, ReaderInv
<1>4. a.first \in Nat /\ a.first >= 1 /\ a.first <= MaxSeq /\ MaxSeq \in Nat
  BY <1>2, ReliableAssumption DEF SN
<1>5. /\ TrackerOK(rt) /\ rt.initDone /\ rt.ahead = tracker[r].ahead
      /\ tracker[r].initDone => rt.expected = tracker[r].expected
      /\ ~tracker[r].initDone => rt.expected = a.first
  BY <1>3, <1>4, InitExpectedEffect
<1>6. tracker'[r] = rt
  BY <1>1, <1>2, <1>3 DEF Types
<1> HIDE DEF rt
<1>7. ReaderInv(r)'
  <2>1. CASE tracker[r].initDone
    <3>1. anchor' = anchor /\ rt.expected = tracker[r].expected
      BY <1>1, <1>5, <2>1 DEF Anchored
    <3> QED
      BY <1>1, <1>3, <1>5, <1>6, <2>1, <3>1 DEF ReaderInv, ReceivedUpTo, Received
  <2>2. CASE ~tracker[r].initDone
    <3>1. anchor'[r] = a.first /\ rt.expected = a.first /\ rt.ahead = {}
      BY <1>1, <1>2, <1>3, <1>5, <2>2 DEF Anchored, Types, TrackerOK
    <3>2. tracker'[r].initDone /\ tracker'[r].expected = a.first /\ tracker'[r].ahead = {}
      BY <1>5, <1>6, <3>1
    <3>3. TrackerOK(tracker'[r])
      BY <1>5, <1>6
    <3>4. ReceivedUpTo(r, tracker[r].expected - 1)'
      BY ONLY <1>4, <3>1, <3>2 DEF ReceivedUpTo, SN
    <3>5. tracker'[r].expected \in 0 .. MaxSeq + 1
      BY ONLY <1>4, <3>2
    <3>6. anchor'[r] >= 1 /\ anchor'[r] <= tracker'[r].expected
      BY ONLY <1>4, <3>1, <3>2
    <3> QED
      BY ONLY <3>2, <3>3, <3>4, <3>5, <3>6 DEF ReaderInv
  <2> QED
    BY <2>1, <2>2
<1>8. \A q \in Readers, k \in SN : Received(q, k) => Received(q, k)'
  BY <1>1 DEF Received
<1>9. copies' \in [Readers -> [SN -> 0 .. MaxCopies]]
  BY <1>1, <1>3 DEF Types
<1> QED
  BY <1>1, <1>2, <1>5, <1>7, <1>8, <1>9, TrackerStep

\* The receipt of a DATA keeps the invariant.
LEMMA DataStep ==
  ASSUME IInv, NEW a \in net, HandleData(a)
  PROVE  IInv'
<1> DEFINE r  == a.reader
           s  == a.sn
           rt == record(tracker[r], s)
           t  == initExpected(tracker[r], s)
<1>1. /\ a.type = "DATA" /\ tracker' = [tracker EXCEPT ![r] = rt]
      /\ anchor' = Anchored(r, s)
      /\ copies' = [copies EXCEPT ![r][s] = IF @ < MaxCopies THEN @ + 1 ELSE @]
      /\ net' = Rest(a) \cup Reply(r, missing(rt, s))
      /\ UNCHANGED <<writerVars, matchVars, drops>>
  BY DEF HandleData
<1>2. /\ r \in Readers /\ s \in SN /\ s <= seq
  BY <1>1, MessageFields DEF IInv, Types, DatagramInv
<1>3. Types /\ ReaderInv(r) /\ TrackerOK(tracker[r])
  BY <1>2 DEF IInv, ReaderInv
<1>4. s \in Nat /\ s >= 1 /\ s <= MaxSeq /\ MaxSeq \in Nat /\ MaxCopies \in Nat \ {0}
  BY <1>2, ReliableAssumption DEF SN
<1>5. /\ TrackerOK(rt) /\ rt.initDone /\ rt.expected >= t.expected
      /\ \A k \in Nat : t.expected <= k /\ k < rt.expected => k = s \/ k \in tracker[r].ahead
      /\ \A k \in rt.ahead : k = s \/ k \in tracker[r].ahead
  BY <1>3, <1>4, RecordEffect
<1>6. /\ tracker[r].initDone => t.expected = tracker[r].expected
      /\ ~tracker[r].initDone => t.expected = s
  BY <1>3, <1>4, InitExpectedEffect
<1>7. tracker'[r] = rt
  BY <1>1, <1>2, <1>3 DEF Types
<1>8. copies' \in [Readers -> [SN -> 0 .. MaxCopies]]
  <2>1. copies \in [Readers -> [SN -> 0 .. MaxCopies]]
    BY <1>3 DEF Types
  <2>2. copies' = [copies EXCEPT ![r][s] = IF @ < MaxCopies THEN @ + 1 ELSE @]
    BY <1>1
  <2> HIDE DEF r, s
  <2> QED
    BY ONLY <2>1, <2>2, <1>2, <1>4
<1>9. /\ \A q \in Readers, k \in SN : Received(q, k) => Received(q, k)'
      /\ Received(r, s)'
  <2>1. copies \in [Readers -> [SN -> 0 .. MaxCopies]]
    BY <1>3 DEF Types
  <2>2. copies' = [copies EXCEPT ![r][s] = IF @ < MaxCopies THEN @ + 1 ELSE @]
    BY <1>1
  <2> HIDE DEF r, s
  <2> QED
    BY ONLY <2>1, <2>2, <1>2, <1>4 DEF Received
<1>10. anchor'[r] = IF tracker[r].initDone THEN anchor[r] ELSE s
  BY <1>1, <1>2, <1>3 DEF Anchored, Types
<1> HIDE DEF rt, t, r, s
<1>11. /\ rt.expected \in Nat /\ t.expected \in Nat /\ tracker[r].expected \in Nat
       /\ anchor[r] \in Nat /\ rt.ahead \subseteq Nat
  BY <1>2, <1>3, <1>4, <1>5, <1>6 DEF TrackerOK, Tracker, Types
<1>12. rt.expected \in 0 .. MaxSeq + 1 /\ rt.ahead \subseteq SN
  <2>1. tracker[r].ahead \subseteq SN /\ tracker[r].expected \in 0 .. MaxSeq + 1
    BY <1>3 DEF ReaderInv
  <2>2. rt.ahead \subseteq SN
    BY <2>1, <1>2, <1>5
  <2>3. t.expected <= MaxSeq + 1
    BY <2>1, <1>4, <1>6
  <2>4. rt.expected <= MaxSeq + 1
    <3>1. CASE rt.expected = t.expected
      BY <2>3, <3>1
    <3>2. CASE rt.expected > t.expected
      <4>1. rt.expected - 1 \in Nat /\ t.expected <= rt.expected - 1 /\ rt.expected - 1 < rt.expected
        BY <3>2, <1>11
      <4>2. rt.expected - 1 \in SN
        BY <4>1, <1>2, <1>5, <2>1
      <4> QED
        BY <4>2, <1>4, <1>11 DEF SN
    <3> QED
      BY <3>1, <3>2, <1>5, <1>11
  <2> QED
    BY <2>2, <2>4, <1>4, <1>11
<1>13. anchor'[r] >= 1 /\ anchor'[r] <= rt.expected
  <2>1. tracker[r].initDone => anchor[r] >= 1 /\ anchor[r] <= tracker[r].expected
    BY <1>3 DEF ReaderInv
  <2>2. rt.expected >= t.expected /\ s >= 1
    BY ONLY <1>4, <1>5
  <2>3. CASE tracker[r].initDone
    <3>1. anchor'[r] = anchor[r] /\ t.expected = tracker[r].expected
      BY ONLY <2>3, <1>6, <1>10
    <3> QED BY ONLY <2>1, <2>2, <2>3, <3>1, <1>11
  <2>4. CASE ~tracker[r].initDone
    <3>1. anchor'[r] = s /\ t.expected = s
      BY ONLY <2>4, <1>6, <1>10
    <3> QED BY ONLY <2>2, <3>1, <1>4, <1>11
  <2> QED BY ONLY <2>3, <2>4
<1>14. \A k \in rt.ahead : Received(r, k)'
  <2>1. \A k \in tracker[r].ahead : Received(r, k)
    BY <1>3 DEF ReaderInv, TrackerOK
  <2> QED
    BY <2>1, <1>2, <1>3, <1>5, <1>9, <1>12 DEF ReaderInv
<1>15. ReceivedUpTo(r, tracker[r].expected - 1)'
  <2>1. ASSUME NEW k \in SN, anchor'[r] <= k, k <= rt.expected - 1
        PROVE  Received(r, k)'
    <3>1. k \in Nat
      BY DEF SN
    <3>2. CASE k < t.expected
      <4>1. tracker[r].initDone
        BY <3>1, <3>2, <2>1, <1>4, <1>6, <1>10
      <4>2. anchor[r] <= k /\ k <= tracker[r].expected - 1
        BY <3>1, <3>2, <4>1, <2>1, <1>6, <1>10, <1>11
      <4>3. Received(r, k)
        BY <4>1, <4>2, <1>3 DEF ReaderInv, ReceivedUpTo
      <4> QED
        BY <4>3, <1>2, <1>9
    <3>3. CASE t.expected <= k
      <4>1. k = s \/ k \in tracker[r].ahead
        BY <3>1, <3>3, <2>1, <1>5, <1>11
      <4>2. tracker[r].ahead # {} => tracker[r].initDone
        BY <1>3 DEF TrackerOK
      <4>3. k \in tracker[r].ahead => Received(r, k)
        BY <4>2, <1>3 DEF ReaderInv
      <4> QED
        BY <4>1, <4>3, <1>2, <1>9
    <3>4. k < t.expected \/ t.expected <= k
      BY ONLY <3>1, <1>11
    <3> QED
      BY ONLY <3>2, <3>3, <3>4
  <2> QED
    BY <2>1, <1>5, <1>7 DEF ReceivedUpTo
<1>16. ReaderInv(r)'
  BY <1>5, <1>7, <1>12, <1>13, <1>14, <1>15 DEF ReaderInv
<1> QED
  BY <1>1, <1>2, <1>5, <1>8, <1>9, <1>16, TrackerStep, Zenon

----------------------------------------------------------------------------
\* Every step keeps the invariant.
LEMMA StepInv == IInv /\ [Next]_vars => IInv'
<1> SUFFICES ASSUME IInv, [Next]_vars PROVE IInv'
  OBVIOUS
<1>1. ASSUME NEW k \in Outcomes, Write(k) PROVE IInv'
  BY <1>1, WriteStep
<1>2. CASE HeartbeatTick
  BY <1>2, HeartbeatTickStep
<1>3. ASSUME NEW a \in net, HandleData(a) PROVE IInv'
  BY <1>3, DataStep
<1>4. ASSUME NEW a \in net, HandleHeartbeat(a) PROVE IInv'
  BY <1>4, HeartbeatStep
<1>5. ASSUME NEW a \in net, HandleAckNack(a) PROVE IInv'
  BY <1>5, AckNackStep
<1>6. CASE \/ \E m \in net : Ignore(m) \/ Drop(m)
           \/ \E r \in Readers : WriterLearns(r) \/ ReaderLearns(r)
           \/ waitDrain \/ DrainEnds \/ Close
  <2>1. /\ drops \in 0 .. MaxDrops /\ remoteReaders \subseteq Readers /\ sources \subseteq Readers
        /\ drain \in {"none", "waiting", "drained", "cancelled"} /\ closed \in BOOLEAN
    BY DEF IInv, Types
  <2>2. ASSUME NEW m \in net, Ignore(m) PROVE IInv'
    <3>1. net' \subseteq net /\ UNCHANGED <<writerVars, matchVars, readerVars, drops>>
      BY <2>2 DEF Ignore, Rest
    <3> QED
      BY <3>1, <2>1, QuietSteps DEF writerVars, matchVars
  <2>3. ASSUME NEW m \in net, Drop(m) PROVE IInv'
    <3>1. drops' \in 0 .. MaxDrops
      BY <2>1, <2>3, ReliableAssumption DEF Drop
    <3>2. net' \subseteq net /\ UNCHANGED <<writerVars, matchVars, readerVars>>
      BY <2>3 DEF Drop
    <3> QED
      BY <3>1, <3>2, <2>1, QuietSteps DEF writerVars, matchVars
  <2>4. ASSUME NEW r \in Readers, WriterLearns(r) \/ ReaderLearns(r) PROVE IInv'
    <3>1. /\ remoteReaders' \subseteq Readers /\ sources' \subseteq Readers
          /\ UNCHANGED <<writerVars, readerVars, net, drops>>
      BY <2>1, <2>4 DEF WriterLearns, ReaderLearns
    <3> QED
      BY <3>1, <2>1, QuietSteps DEF writerVars
  <2>5. CASE waitDrain \/ DrainEnds \/ Close
    <3>1. UNCHANGED <<seq, history, acked, drainCh, remoteReaders, sources, readerVars, net, drops>>
      BY <2>5 DEF waitDrain, DrainEnds, Close, matchVars
    <3>2. drain' \in {"none", "waiting", "drained", "cancelled"}
      BY <2>1, <2>5 DEF waitDrain, DrainEnds, Close
    <3>3. closed' \in BOOLEAN
      BY <2>1, <2>5 DEF waitDrain, DrainEnds, Close
    <3> QED
      BY <3>1, <3>2, <3>3, <2>1, QuietSteps
  <2> QED
    BY <1>6, <2>2, <2>3, <2>4, <2>5
<1>7. CASE UNCHANGED vars
  BY <1>7 DEF vars, writerVars, readerVars, matchVars, IInv, Types, WriterInv, ReaderInv,
              DatagramInv, ReceivedUpTo, Received, TrackerOK
<1> QED
  BY <1>1, <1>2, <1>3, <1>4, <1>5, <1>6, <1>7 DEF Next

\* The inductive invariant of the reliable protocol holds in every reachable state.
THEOREM Inductive == Spec => []IInv
  BY InitInv, StepInv, PTL DEF Spec

\* The variables of the reliable protocol keep their types, whatever the network
\* loses, duplicates and reorders.
THEOREM TypeCorrect == Spec => []TypeOK
<1>1. IInv => TypeOK
  <2> SUFFICES ASSUME IInv PROVE TypeOK
    OBVIOUS
  <2>1. \A r \in Readers : tracker[r].expected \in 0 .. MaxSeq + 1 /\ tracker[r].ahead \subseteq
            {s \in SN : tracker[r].expected < s /\ s <= tracker[r].expected + MaxReorderAhead}
    BY DEF IInv, ReaderInv, TrackerOK
  <2> QED
    BY <2>1 DEF IInv, Types, TypeOK
<1> QED
  BY <1>1, Inductive, PTL

\* No watermark and no ACKNACK in flight covers a sample that its reader has not
\* received since first contact (record, missing).
THEOREM AcksAreTrue == Spec => []NoFalseAck
<1>1. IInv => NoFalseAck
  BY DEF IInv, ReaderInv, DatagramInv, NoFalseAck
<1> QED
  BY <1>1, Inductive, PTL

\* Why CloseWithDrain does not do what its documentation says (DrainCompletes), for
\* any readers and any network: advanceAcked never reaches seq and so never closes
\* drainCh, and a drain that has to wait ends only with its context.
THEOREM DrainStaysOpen == Spec => []AckNeverComplete
<1>1. IInv => AckNeverComplete
  BY DEF IInv, WriterInv, AckNeverComplete
<1> QED
  BY <1>1, Inductive, PTL

----------------------------------------------------------------------------
\* Nothing a reader has received is asked for again: it lies below the watermark or
\* in the buffer, if the buffer reaches far enough.
Remembered ==
  MaxReorderAhead >= MaxSeq =>
    \A r \in Readers, k \in SN : Received(r, k) =>
      tracker[r].initDone /\ (k < tracker[r].expected \/ k \in tracker[r].ahead)

\* Every step keeps it: HEARTBEATs anchor only a reader that has received nothing,
\* and record drops nothing but numbers too far ahead.
LEMMA StepRemembered == ASSUME IInv, Remembered, [Next]_vars PROVE Remembered'
<1>1. ASSUME NEW a \in net, HandleData(a) PROVE Remembered'
  <2> DEFINE r  == a.reader
             s  == a.sn
             rt == record(tracker[r], s)
             t  == initExpected(tracker[r], s)
  <2>1. /\ tracker' = [tracker EXCEPT ![r] = rt]
        /\ copies' = [copies EXCEPT ![r][s] = IF @ < MaxCopies THEN @ + 1 ELSE @]
    BY <1>1 DEF HandleData
  <2>2. r \in Readers /\ s \in SN /\ s \in Nat /\ s <= MaxSeq /\ MaxSeq \in Nat /\ MaxReorderAhead \in Nat
    <3>1. a \in Messages /\ a.type = "DATA"
      BY <1>1 DEF HandleData, IInv, Types
    <3>2. r \in Readers /\ s \in SN
      BY <3>1, MessageFields
    <3> QED BY ONLY <3>2, ReliableAssumption, TrackerAssumption DEF SN
  <2>3. TrackerOK(tracker[r]) /\ tracker \in [Readers -> Tracker]
    BY <2>2 DEF IInv, ReaderInv, Types
  <2>4. /\ TrackerOK(rt) /\ rt.initDone /\ rt.expected >= t.expected
        /\ \A k \in tracker[r].ahead : k < rt.expected \/ k \in rt.ahead
        /\ s <= t.expected + MaxReorderAhead => s < rt.expected \/ s \in rt.ahead
    BY <2>2, <2>3, RecordEffect
  <2>5. tracker[r].initDone => t.expected = tracker[r].expected
    BY <2>2, <2>3, InitExpectedEffect
  <2>6. copies \in [Readers -> [SN -> 0 .. MaxCopies]]
    BY DEF IInv, Types
  <2> HIDE DEF rt, t, r, s
  <2>7. /\ tracker'[r] = rt /\ \A q \in Readers \ {r} : tracker'[q] = tracker[q]
        /\ \A q \in Readers, k \in SN : ~(q = r /\ k = s) => copies'[q][k] = copies[q][k]
    BY <2>1, <2>2, <2>3, <2>6
  <2>8. rt.expected \in Nat /\ t.expected \in Nat /\ SN \subseteq Nat
    <3>1. TrackerOK(t)
      BY <2>2, <2>3, InitExpectedEffect DEF t
    <3>2. t \in Tracker /\ rt \in Tracker
      BY ONLY <3>1, <2>4 DEF TrackerOK
    <3>3. t.expected \in Nat /\ rt.expected \in Nat
      BY ONLY <3>2 DEF Tracker
    <3>4. SN \subseteq Nat
      BY ONLY ReliableAssumption DEF SN
    <3> QED BY ONLY <3>3, <3>4
  <2>9. ASSUME MaxReorderAhead >= MaxSeq, NEW k \in SN, Received(r, k)'
        PROVE  k < rt.expected \/ k \in rt.ahead
    <3>1. CASE k = s
      BY <2>2, <2>4, <2>8, <2>9, <3>1
    <3>2. CASE k # s
      <4>1. Received(r, k)
        BY <2>2, <2>7, <2>9, <3>2 DEF Received
      <4>2. tracker[r].initDone /\ (k < tracker[r].expected \/ k \in tracker[r].ahead)
        BY <2>2, <2>9, <4>1 DEF Remembered
      <4>3. CASE k \in tracker[r].ahead
        BY <2>4, <4>3
      <4>4. CASE k < tracker[r].expected
        <5>1. t.expected = tracker[r].expected /\ rt.expected >= t.expected /\ k \in Nat
          BY <2>4, <2>5, <2>8, <4>2
        <5> QED BY ONLY <2>8, <4>4, <5>1
      <4> QED BY <4>2, <4>3, <4>4
    <3> QED BY <3>1, <3>2
  <2>10. ASSUME NEW q \in Readers \ {r}, NEW k \in SN PROVE Received(q, k)' <=> Received(q, k)
    BY <2>7 DEF Received
  <2> QED BY <2>2, <2>4, <2>7, <2>9, <2>10 DEF Remembered
<1>2. ASSUME NEW a \in net, HandleHeartbeat(a) PROVE Remembered'
  <2> DEFINE r == a.reader
  <2>1. tracker' = [tracker EXCEPT ![r] = initExpected(tracker[r], a.first)] /\ copies' = copies
    BY <1>2 DEF HandleHeartbeat
  <2>2. tracker \in [Readers -> Tracker] /\ r \in Readers
    BY <1>2, MessageFields DEF HandleHeartbeat, IInv, Types
  <2>3. /\ tracker[r].initDone => tracker'[r] = tracker[r]
        /\ \A q \in Readers \ {r} : tracker'[q] = tracker[q]
    BY <2>1, <2>2 DEF initExpected
  <2> QED BY <2>1, <2>2, <2>3 DEF Remembered, Received
<1>3. CASE UNCHANGED <<tracker, copies>>
  BY <1>3 DEF Remembered, Received
<1>4. CASE \/ \E k \in Outcomes : Write(k)
           \/ HeartbeatTick
           \/ \E m \in net : HandleAckNack(m) \/ Ignore(m) \/ Drop(m)
  <2>1. ASSUME NEW k \in Outcomes, Write(k) PROVE UNCHANGED readerVars
    BY <2>1 DEF Write
  <2>2. ASSUME HeartbeatTick PROVE UNCHANGED readerVars
    BY <2>2 DEF HeartbeatTick
  <2>3. ASSUME NEW m \in net, HandleAckNack(m) PROVE UNCHANGED readerVars
    BY <2>3 DEF HandleAckNack
  <2>4. ASSUME NEW m \in net, Ignore(m) \/ Drop(m) PROVE UNCHANGED readerVars
    BY <2>4 DEF Ignore, Drop
  <2> QED BY <1>3, <1>4, <2>1, <2>2, <2>3, <2>4 DEF readerVars
<1>5. CASE \/ \E r \in Readers : WriterLearns(r) \/ ReaderLearns(r)
           \/ waitDrain \/ DrainEnds \/ Close \/ UNCHANGED vars
  BY <1>3, <1>5 DEF WriterLearns, ReaderLearns, waitDrain, DrainEnds, Close, vars, readerVars
<1> QED BY <1>1, <1>2, <1>4, <1>5 DEF Next

\* What a reader asks for it really lacks: its watermark and its buffer are exactly
\* what it has received since first contact (record, initExpected, missing).
THEOREM TrackersExact == Spec => []TrackerExact
<1>1. Init => Remembered
  <2>1. ASSUME Init, NEW r \in Readers, NEW k \in SN PROVE ~Received(r, k)
    BY <2>1 DEF Init, Received
  <2> QED BY <2>1 DEF Remembered
<1>2. IInv /\ Remembered /\ [Next]_vars => Remembered'
  BY StepRemembered
<1>3. IInv /\ Remembered => TrackerExact
  <2> SUFFICES ASSUME IInv, Remembered, MaxReorderAhead >= MaxSeq, NEW r \in Readers,
                      tracker[r].initDone, NEW s \in SN, s >= anchor[r]
               PROVE  Received(r, s) <=> s < tracker[r].expected \/ s \in tracker[r].ahead
    BY DEF TrackerExact
  <2>1. Received(r, s) => s < tracker[r].expected \/ s \in tracker[r].ahead
    BY DEF Remembered
  <2>2. /\ ReceivedUpTo(r, tracker[r].expected - 1)
        /\ \A k \in tracker[r].ahead : Received(r, k)
        /\ tracker[r].expected \in Nat /\ anchor[r] \in Nat
    <3>1. ReaderInv(r) /\ anchor \in [Readers -> 0 .. MaxSeq]
      BY DEF IInv, Types
    <3>2. /\ ReceivedUpTo(r, tracker[r].expected - 1)
          /\ \A k \in tracker[r].ahead : Received(r, k)
      BY <3>1 DEF ReaderInv
    <3>3. tracker[r].expected \in Nat
      BY <3>1 DEF ReaderInv, TrackerOK, Tracker
    <3>4. anchor[r] \in Nat
      BY <3>1
    <3> QED BY <3>2, <3>3, <3>4
  <2>3. s < tracker[r].expected => Received(r, s)
    <3>1. s \in Nat
      BY DEF SN
    <3>2. s < tracker[r].expected => s <= tracker[r].expected - 1
      BY ONLY <3>1, <2>2
    <3>3. \A k \in SN : anchor[r] <= k /\ k <= tracker[r].expected - 1 => Received(r, k)
      BY ONLY <2>2 DEF ReceivedUpTo
    <3>4. anchor[r] <= s
      BY ONLY <3>1, <2>2, s >= anchor[r]
    <3> QED BY ONLY <3>2, <3>3, <3>4, s \in SN
  <2> QED BY <2>1, <2>2, <2>3
<1> QED BY <1>1, <1>2, <1>3, Inductive, PTL DEF Spec

\* A step of the writer that leaves the readers alone moves nothing back.
LEMMA WriterForward ==
  ASSUME IInv, UNCHANGED readerVars, acked' \in Nat, acked' >= acked,
         history'.lowest \in Nat, history'.lowest >= history.lowest
  PROVE  Forward
<1>1. \A r \in Readers : tracker[r].expected \in Int
  BY DEF IInv, Types, Tracker
<1> QED
  BY <1>1 DEF readerVars, Forward

\* A step that changes one tracker without moving its watermark back moves forward.
LEMMA ReaderForward ==
  ASSUME IInv, NEW r \in Readers, NEW rt, rt.initDone, rt.expected \in Nat,
         tracker[r].initDone => rt.expected >= tracker[r].expected,
         tracker' = [tracker EXCEPT ![r] = rt], UNCHANGED writerVars
  PROVE  Forward
<1>1. /\ \A q \in Readers : tracker[q].expected \in Int
      /\ acked \in Int /\ history.lowest \in Int
      /\ tracker \in [Readers -> Tracker]
  BY DEF IInv, Types, Tracker, History
<1>2. \A q \in Readers : tracker'[q] = IF q = r THEN rt ELSE tracker[q]
  BY <1>1
<1>3. ASSUME NEW q \in Readers, tracker[q].initDone
      PROVE  tracker'[q].initDone /\ tracker'[q].expected >= tracker[q].expected
  <2>1. CASE q = r
    BY <2>1, <1>1, <1>2, <1>3
  <2>2. CASE q # r
    BY <2>2, <1>1, <1>2, <1>3
  <2> QED
    BY <2>1, <2>2
<1> QED
  BY <1>1, <1>3 DEF Forward, writerVars

\* No step moves a watermark, acked or the window back.
LEMMA StepForward == IInv /\ [Next]_vars => [Forward]_vars
<1> SUFFICES ASSUME IInv, Next PROVE Forward
  OBVIOUS
<1>1. acked \in Nat /\ history.lowest \in Nat /\ history \in History /\ seq \in Nat
  BY ReliableAssumption DEF IInv, Types, History
<1>2. ASSUME NEW k \in Outcomes, Write(k) PROVE Forward
  <2>1. UNCHANGED readerVars /\ acked' = acked
    BY <1>2 DEF Write
  <2>2. history'.lowest \in Nat /\ history'.lowest >= history.lowest
    <3>1. CASE k = "sealerr"
      BY <1>1, <1>2, <3>1 DEF Write
    <3>2. CASE k # "sealerr"
      <4>1. PICK n \in Nat : n = seq + 1
        BY <1>1
      <4>2. history' = store(history, n, k)
        BY <1>2, <3>2, <4>1 DEF Write
      <4>3. history'.lowest = LET high == IF history.any THEN Larger(history.highest, n) ELSE n
                                  low  == IF history.any THEN history.lowest ELSE n
                              IN  IF high >= Depth THEN Larger(low, high - Depth + 1) ELSE low
        BY <4>2 DEF store
      <4>4. history.highest \in Nat /\ Depth \in Nat /\ (~history.any => history.lowest = 0)
        BY <1>1, DepthAssumption DEF History, IInv, WriterInv
      <4>5. CASE history.any
        BY <4>1, <4>3, <4>4, <4>5, <1>1 DEF Larger
      <4>6. CASE ~history.any
        BY <4>1, <4>3, <4>4, <4>6, <1>1 DEF Larger
      <4> QED
        BY <4>5, <4>6
    <3> QED
      BY <3>1, <3>2
  <2> QED
    BY <2>1, <2>2, <1>1, WriterForward
<1>3. ASSUME NEW a \in net, HandleAckNack(a) PROVE Forward
  <2>1. UNCHANGED readerVars /\ acked' = Larger(acked, a.base - 1) /\ history' = history
    BY <1>3 DEF HandleAckNack
  <2>a. a \in Messages /\ a.type = "ACKNACK"
    BY <1>3 DEF HandleAckNack, IInv, Types
  <2>2. a.base \in Nat
    BY <2>a, MessageFields DEF SN
  <2> QED
    BY <2>1, <2>2, <1>1, WriterForward DEF Larger
<1>4. ASSUME NEW a \in net, HandleData(a) PROVE Forward
  <2> DEFINE rt == record(tracker[a.reader], a.sn)
             t  == initExpected(tracker[a.reader], a.sn)
  <2>1. tracker' = [tracker EXCEPT ![a.reader] = rt] /\ UNCHANGED writerVars
    BY <1>4 DEF HandleData
  <2>a. a \in Messages /\ a.type = "DATA"
    BY <1>4 DEF HandleData, IInv, Types
  <2>2. a.reader \in Readers /\ a.sn \in Nat
    BY <2>a, MessageFields DEF SN
  <2>3. TrackerOK(tracker[a.reader]) /\ tracker[a.reader].expected \in Nat
    BY <2>2 DEF IInv, ReaderInv, TrackerOK, Tracker
  <2>4. TrackerOK(rt) /\ rt.initDone /\ rt.expected >= t.expected
    BY <2>2, <2>3, RecordEffect
  <2>5. tracker[a.reader].initDone => t.expected = tracker[a.reader].expected
    BY <2>2, <2>3, InitExpectedEffect
  <2>6. rt.expected \in Nat
    BY <2>4 DEF TrackerOK, Tracker
  <2> HIDE DEF rt, t
  <2> QED
    BY <2>1, <2>2, <2>4, <2>5, <2>6, ReaderForward
<1>5. ASSUME NEW a \in net, HandleHeartbeat(a) PROVE Forward
  <2> DEFINE rt == initExpected(tracker[a.reader], a.first)
  <2>1. tracker' = [tracker EXCEPT ![a.reader] = rt] /\ UNCHANGED writerVars
    BY <1>5 DEF HandleHeartbeat
  <2>a. a \in Messages /\ a.type = "HEARTBEAT"
    BY <1>5 DEF HandleHeartbeat, IInv, Types
  <2>2. a.reader \in Readers /\ a.first \in Nat
    BY <2>a, MessageFields DEF SN
  <2>3. TrackerOK(tracker[a.reader]) /\ tracker[a.reader].expected \in Nat
    BY <2>2 DEF IInv, ReaderInv, TrackerOK, Tracker
  <2>4. /\ TrackerOK(rt) /\ rt.initDone
        /\ tracker[a.reader].initDone => rt.expected = tracker[a.reader].expected
    BY <2>2, <2>3, InitExpectedEffect
  <2>5. rt.expected \in Nat
    BY <2>4 DEF TrackerOK, Tracker
  <2> HIDE DEF rt
  <2>6. tracker[a.reader].initDone => rt.expected >= tracker[a.reader].expected
    BY <2>3, <2>4
  <2> QED
    BY <2>1, <2>2, <2>4, <2>5, <2>6, ReaderForward
<1>6. CASE \/ HeartbeatTick
           \/ \E m \in net : Ignore(m) \/ Drop(m)
           \/ \E r \in Readers : WriterLearns(r) \/ ReaderLearns(r)
           \/ waitDrain \/ DrainEnds \/ Close
  <2>1. UNCHANGED <<acked, history, readerVars>>
    BY <1>6 DEF HeartbeatTick, Ignore, Drop, WriterLearns, ReaderLearns, waitDrain, DrainEnds,
                Close, writerVars
  <2> QED
    BY <2>1, <1>1, WriterForward
<1> QED
  BY <1>2, <1>3, <1>4, <1>5, <1>6 DEF Next

\* acked, the retained window and every watermark move forward only, whatever
\* stale, duplicated or reordered datagram is handled (record, initExpected,
\* advanceAcked, store).
THEOREM MovesForward == Spec => ForwardOnly
  BY Inductive, StepForward, PTL DEF Spec, ForwardOnly

----------------------------------------------------------------------------
\* The history is a keep-last map.  Its shape is an invariant of its own, which
\* only Write can disturb.
LEMMA HistorySteps ==
  ASSUME IInv, RingOK(history), [Next]_vars
  PROVE  \/ UNCHANGED history
         \/ \E s \in SN, m \in Msg : history' = store(history, s, m) /\ (history.any => history.highest < s)
<1>1. ASSUME NEW k \in Outcomes, Write(k), k # "sealerr"
      PROVE  \E s \in SN, m \in Msg :
               history' = store(history, s, m) /\ (history.any => history.highest < s)
  <2>1. k \in Msg
    BY <1>1, ReliableAssumption
  <2>2. seq \in Nat /\ MaxSeq \in Nat /\ seq < MaxSeq /\ history.highest \in Nat
    <3>1. history \in History /\ seq \in 0 .. MaxSeq
      BY DEF IInv, Types
    <3>2. seq < MaxSeq
      BY <1>1 DEF Write
    <3>3. history.highest \in Nat
      BY ONLY <3>1 DEF History
    <3> QED BY ONLY <3>1, <3>2, <3>3, ReliableAssumption
  <2>3. seq + 1 \in SN
    BY <2>2 DEF SN
  <2>4. history.any => history.highest < seq + 1
    BY <2>2 DEF IInv, WriterInv
  <2>5. history' = store(history, seq + 1, k)
    BY <1>1 DEF Write
  <2> QED
    BY <2>1, <2>3, <2>4, <2>5, Zenon
<1>2. ASSUME NEW k \in Outcomes, Write(k), k = "sealerr"
      PROVE  UNCHANGED history
  BY <1>2 DEF Write
<1>3. ASSUME NEW m \in net, HandleData(m) \/ HandleHeartbeat(m) \/ HandleAckNack(m)
      PROVE  UNCHANGED history
  <2>1. CASE HandleData(m)
    BY <2>1 DEF HandleData, writerVars
  <2>2. CASE HandleHeartbeat(m)
    BY <2>2 DEF HandleHeartbeat, writerVars
  <2>3. CASE HandleAckNack(m)
    BY <2>3 DEF HandleAckNack
  <2> QED BY <1>3, <2>1, <2>2, <2>3
<1>5. ASSUME NEW m \in net, Ignore(m) \/ Drop(m) PROVE UNCHANGED history
  BY <1>5 DEF Ignore, Drop, writerVars
<1>6. ASSUME NEW r \in Readers, WriterLearns(r) \/ ReaderLearns(r) PROVE UNCHANGED history
  BY <1>6 DEF WriterLearns, ReaderLearns, writerVars
<1>7. ASSUME HeartbeatTick \/ waitDrain \/ DrainEnds \/ Close PROVE UNCHANGED history
  BY <1>7 DEF HeartbeatTick, waitDrain, DrainEnds, Close, writerVars
<1>4. CASE UNCHANGED vars
  BY <1>4 DEF vars
<1> QED
  BY <1>1, <1>2, <1>3, <1>4, <1>5, <1>6, <1>7 DEF Next

\* Every step keeps the shape of the ring: only Write touches the history.
LEMMA RingStep == IInv /\ RingOK(history) /\ [Next]_vars => RingOK(history)'
<1> SUFFICES ASSUME IInv, RingOK(history), [Next]_vars PROVE RingOK(history')
  OBVIOUS
<1>1. CASE UNCHANGED history
  BY <1>1
<1>2. ASSUME NEW s \in SN, NEW m \in Msg, history' = store(history, s, m),
             history.any => history.highest < s
      PROVE  RingOK(history')
  <2>1. s \in Nat \ {0}
    BY ReliableAssumption DEF SN
  <2>2. RingOK(store(history, s, m))
    BY <1>2, <2>1, StoreRing, Zenon
  <2> QED
    BY <1>2, <2>2, Zenon
<1> QED
  BY <1>1, <1>2, HistorySteps

\* The writer's history implements the keep-last-Depth map (ImplementsKeepLast): a
\* message can be retransmitted until Depth later sequence numbers have gone by,
\* and get never returns it for another sequence number.
THEOREM HistoryImplementsKeepLast == Spec => ImplementsKeepLast
<1>1. Init => RingOK(history) /\ Abstract!Init
  <2> SUFFICES ASSUME Init PROVE RingOK(history) /\ Abstract!Init
    OBVIOUS
  <2>1. history = newSendHistory
    BY DEF Init
  <2>2. ASSUME NEW p \in Contents PROVE FALSE
    BY <2>1, <2>2, NewRing, StoredBelow DEF Contents
  <2> QED
    BY <2>1, <2>2, NewRing DEF Abstract!Init
<1>2. IInv /\ RingOK(history) /\ [Next]_vars => [Abstract!Next]_Contents
  <2> SUFFICES ASSUME IInv, RingOK(history), [Next]_vars
               PROVE  [Abstract!Next]_Contents
    OBVIOUS
  <2>1. CASE UNCHANGED history
    BY <2>1 DEF Contents
  <2>2. ASSUME NEW s \in SN, NEW m \in Msg, history' = store(history, s, m),
               history.any => history.highest < s
        PROVE  Abstract!Store(s, m)
    <3>1. ASSUME NEW p \in Contents PROVE p[1] < s
      <4>1. history.any /\ p[1] <= history.highest /\ p \in SN \X Msg
        BY StoredBelow DEF Contents
      <4>2. history.highest \in Nat
        BY DEF IInv, Types, History
      <4> QED
        BY <4>1, <4>2, <2>2 DEF SN
    <3>2. Contents' = {p \in Contents : p[1] > s - Depth} \cup {<<s, m>>}
      <4>1. MaxSeq \in Nat /\ s \in 1 .. MaxSeq
        BY ReliableAssumption DEF SN
      <4>2. Stored(store(history, s, m), 1 .. MaxSeq) = Advanced(Stored(history, 1 .. MaxSeq), s, m)
        BY <4>1, <2>2, StoreContents, Zenon
      <4>3. Contents' = Advanced(Contents, s, m)
        BY <4>2, <2>2, Zenon DEF Contents, SN
      <4> QED
        BY <4>3 DEF Advanced
    <3> QED
      BY <3>1, <3>2 DEF Abstract!Store
  <2> QED
    BY <2>1, <2>2, HistorySteps DEF Abstract!Next
<1> QED
  BY <1>1, <1>2, RingStep, Inductive, PTL DEF Spec, ImplementsKeepLast, Abstract!Spec
=============================================================================
