---------------------------- MODULE RtpsReliable ----------------------------
(***************************************************************************)
(* The reliable data path of rtps/participant.go: one reliable writer, a    *)
(* set of remote reliable readers (each in a participant of its own), and   *)
(* the datagram network between them.                                       *)
(*                                                                          *)
(* The network is the set of datagrams in flight, received in any order.    *)
(* When it duplicates, a receive leaves the datagram in flight, so that     *)
(* every datagram arrives any number of times, zero included: this has the  *)
(* most behaviours and is what the safety properties are checked on.  When  *)
(* it does not, a receive consumes the datagram and at most MaxDrops are    *)
(* lost: this is what liveness is checked on.                               *)
(*                                                                          *)
(* HEARTBEAT and ACKNACK carry a Count that no handler reads; it is left    *)
(* out.  DATA carries its sequence number and what Write put in it.         *)
(***************************************************************************)
EXTENDS ReliableState

CONSTANTS
  Readers,    \* the remote reliable readers
  MaxSeq,     \* bound: how often Write is called
  Outcomes,   \* what Write may do, a subset of {"data", "frag", "sealerr"}
  TsnSocket,  \* whether the writer sends from a traffic-class socket (tsnSock)
  Guarded,    \* whether the readers' participants have a security plugin or a replay guard
  Closing,    \* whether the application ever closes the writer
  Duplicating, \* whether a receive leaves the datagram in flight
  MaxDrops,   \* bound: how many datagrams are lost
  MaxCopies   \* bound: deliveries of one sample counted up to this number

ASSUME ReliableAssumption ==
  /\ MaxSeq \in Nat /\ MaxCopies \in Nat \ {0}
  /\ Outcomes \subseteq {"data", "frag", "sealerr"}
  /\ Msg = {"data", "frag"}
  /\ TsnSocket \in BOOLEAN /\ Guarded \in BOOLEAN /\ Closing \in BOOLEAN /\ Duplicating \in BOOLEAN /\ MaxDrops \in Nat

VARIABLES
  seq,            \* w.seq, the last sequence number Write took
  history,        \* w.history
  acked,          \* w.acked
  closed,         \* w.closed
  drainCh,        \* whether w.drainCh is closed
  drain,          \* CloseWithDrain: none, waiting, drained, cancelled
  remoteReaders,  \* the readers the writer's participant has matched (SEDP)
  sources,        \* the readers whose r.sources holds the writer (SEDP)
  tracker,        \* r.trackers[writer] of each reader
  net,            \* the datagrams in flight
  drops,          \* history: how many datagrams were lost
  anchor,         \* history: the watermark each tracker started from
  copies          \* history: how often each sample was delivered to a reader

vars == <<seq, history, acked, closed, drainCh, drain, remoteReaders, sources,
          tracker, net, drops, anchor, copies>>

writerVars == <<seq, history, acked, closed, drainCh, drain>>
readerVars == <<tracker, anchor, copies>>
matchVars  == <<remoteReaders, sources>>

SN == 1 .. MaxSeq

Data(r, s, m)     == [type |-> "DATA", reader |-> r, sn |-> s, msg |-> m]
Heartbeat(r, f, l) == [type |-> "HEARTBEAT", reader |-> r, first |-> f, last |-> l]
AckNack(r, b, bits) == [type |-> "ACKNACK", reader |-> r, base |-> b, bits |-> bits]
Gap(r, s, e)      == [type |-> "GAP", reader |-> r, start |-> s, end |-> e]

Messages ==
  [type : {"DATA"}, reader : Readers, sn : SN, msg : Msg]
    \cup [type : {"HEARTBEAT"}, reader : Readers, first : SN, last : SN]
    \cup [type : {"ACKNACK"}, reader : Readers, base : SN, bits : SUBSET SN]
    \cup [type : {"GAP"}, reader : Readers, start : SN, end : SN]

Init ==
  /\ seq = 0 /\ history = newSendHistory /\ acked = 0 /\ closed = FALSE
  /\ drainCh = FALSE /\ drain = "none"
  /\ remoteReaders = {} /\ sources = {}
  /\ tracker = [r \in Readers |-> newRecvTracker]
  /\ net = {} /\ drops = 0
  /\ anchor = [r \in Readers |-> 0]
  /\ copies = [r \in Readers |-> [s \in SN |-> 0]]

----------------------------------------------------------------------------
\* sendHeartbeatLocked: the advertised window, to every matched reader.
Heartbeats(h) ==
  IF firstLast(h).ok
  THEN {Heartbeat(r, firstLast(h).first, firstLast(h).last) : r \in remoteReaders}
  ELSE {}

\* rtpsWriter.Write: the sequence number is taken first; a failing Seal returns
\* with it used up.  Otherwise the message (for a payload that needs several
\* datagrams, the first DATA_FRAG) is stored and sent, then a HEARTBEAT.
Write(m) ==
  /\ ~closed /\ seq < MaxSeq
  /\ seq' = seq + 1
  /\ IF m = "sealerr"
     THEN UNCHANGED <<history, net>>
     ELSE /\ history' = store(history, seq + 1, m)
          /\ net' = net \cup {Data(r, seq + 1, m) : r \in remoteReaders}
                        \cup Heartbeats(history')
  /\ UNCHANGED <<acked, closed, drainCh, drain, matchVars, readerVars, drops>>

\* heartbeatLoop: one tick.
HeartbeatTick ==
  /\ ~closed /\ history.any
  /\ net' = net \cup Heartbeats(history)
  /\ UNCHANGED <<writerVars, matchVars, readerVars, drops>>

\* What stays in flight when m is received.
Rest(m) == IF Duplicating THEN net ELSE net \ {m}

\* The ACKNACK a reader sends for what missing() reports, if it sends one.
Reply(r, mis) == IF mis.needAck THEN {AckNack(r, mis.base, mis.bits)} ELSE {}

Anchored(r, base) == IF tracker[r].initDone THEN anchor ELSE [anchor EXCEPT ![r] = base]

\* handleDataPacket, DATA: notifyReliableReaders records the sequence number
\* (its fresh result is not used) and requests what is missing up to it; then
\* dispatchToReaders delivers the sample.  A reader that has not matched the
\* writer ignores it, DATA_FRAG has no case in the switch, and security.Open or
\* antiReplay.Check may refuse it before all this (Ignore).
HandleData(m) ==
  LET r  == m.reader
      rt == record(tracker[r], m.sn)
  IN  /\ m.type = "DATA" /\ m.msg = "data" /\ r \in sources
      /\ tracker' = [tracker EXCEPT ![r] = rt]
      /\ anchor' = Anchored(r, m.sn)
      /\ copies' = [copies EXCEPT ![r][m.sn] = IF @ < MaxCopies THEN @ + 1 ELSE @]
      /\ net' = Rest(m) \cup Reply(r, missing(rt, m.sn))
      /\ UNCHANGED <<writerVars, matchVars, drops>>

\* handleHeartbeat.
HandleHeartbeat(m) ==
  LET r  == m.reader
      rt == initExpected(tracker[r], m.first)
  IN  /\ m.type = "HEARTBEAT" /\ r \in sources
      /\ tracker' = [tracker EXCEPT ![r] = rt]
      /\ anchor' = Anchored(r, m.first)
      /\ net' = Rest(m) \cup Reply(r, missing(rt, m.last))
      /\ UNCHANGED <<writerVars, matchVars, copies, drops>>

\* The GAP handleAckNack sends when the request starts below the window.
GapFor(m) ==
  IF history.any /\ m.base < history.lowest
  THEN {Gap(r, m.base, IF history.lowest - 1 < m.base + NackWindow - 1
                       THEN history.lowest - 1 ELSE m.base + NackWindow - 1) :
          r \in remoteReaders \cup {m.reader}}
  ELSE {}

\* CloseWithDrain has closed the participant, and with it its sockets.
Down == drain \in {"drained", "cancelled"}

\* A bug for the checks: a stale ACKNACK moves acked back.
HandleAckNackStale(m) ==
  /\ m.type = "ACKNACK" /\ ~TsnSocket /\ ~Down
  /\ acked' = m.base - 1
  /\ drainCh' = (drainCh \/ acked' >= seq)
  /\ net' = Rest(m) \cup GapFor(m)
                \cup {Data(r, s, get(history, s)) :
                        r \in remoteReaders, s \in m.bits \cap Retained(history)}
  /\ UNCHANGED <<seq, history, closed, drain, matchVars, readerVars, drops>>

\* handleAckNack: advanceAcked (whichever reader sent it), then every requested sample still in the
\* history goes to every matched reader, then the GAP.  A reader answers to the
\* address the DATA or HEARTBEAT came from, and dataReceiveLoop does not read the
\* traffic-class sockets.
HandleAckNack(m) ==
  /\ m.type = "ACKNACK" /\ ~TsnSocket /\ ~Down
  /\ acked' = Larger(acked, m.base - 1)
  /\ drainCh' = (drainCh \/ acked' >= seq)
  /\ net' = Rest(m) \cup GapFor(m)
                \cup {Data(r, s, get(history, s)) :
                        r \in remoteReaders, s \in m.bits \cap Retained(history)}
  /\ UNCHANGED <<seq, history, closed, drain, matchVars, readerVars, drops>>

\* A datagram no handler acts on: its reader has not matched the writer, its
\* submessage (DATA_FRAG, GAP) has no case in handleDataPacket, security.Open or
\* antiReplay.Check refuses it, or its socket is not read.
Ignore(m) ==
  /\ \/ m.type \in {"DATA", "HEARTBEAT"} /\ m.reader \notin sources
     \/ m.type = "DATA" /\ (m.msg = "frag" \/ Guarded)
     \/ m.type = "GAP"
     \/ m.type = "ACKNACK" /\ (TsnSocket \/ Down)
  /\ net' = Rest(m)
  /\ UNCHANGED <<writerVars, matchVars, readerVars, drops>>

handleDataPacket(m) ==
  HandleData(m) \/ HandleHeartbeat(m) \/ HandleAckNack(m) \/ Ignore(m)

----------------------------------------------------------------------------
\* SEDP: the writer's participant learns of the reader (onRemoteReader), and
\* the reader's participant of the writer (onRemoteWriter, addSourceGUID).
WriterLearns(r) ==
  /\ r \notin remoteReaders
  /\ remoteReaders' = remoteReaders \cup {r}
  /\ UNCHANGED <<writerVars, readerVars, sources, net, drops>>

ReaderLearns(r) ==
  /\ r \notin sources
  /\ sources' = sources \cup {r}
  /\ UNCHANGED <<writerVars, readerVars, remoteReaders, net, drops>>

\* CloseWithDrain calls waitDrain, which returns at once or waits for drainCh
\* or for its context; then the participant is closed.
waitDrain ==
  /\ Closing /\ drain = "none" /\ ~closed
  /\ IF acked >= seq
     THEN drain' = "drained" /\ closed' = TRUE
     ELSE drain' = "waiting" /\ UNCHANGED closed
  /\ UNCHANGED <<seq, history, acked, drainCh, matchVars, readerVars, net, drops>>

DrainEnds ==
  /\ drain = "waiting"
  /\ drain' \in {"cancelled"} \cup (IF drainCh THEN {"drained"} ELSE {})
  /\ closed' = TRUE
  /\ UNCHANGED <<seq, history, acked, drainCh, matchVars, readerVars, net, drops>>

\* rtpsWriter.Close stops the heartbeats; ACKNACKs are still answered.
Close ==
  /\ Closing /\ ~closed
  /\ closed' = TRUE
  /\ UNCHANGED <<seq, history, acked, drainCh, drain, matchVars, readerVars, net, drops>>

\* The network loses a datagram.
Drop(m) ==
  /\ drops < MaxDrops
  /\ net' = net \ {m} /\ drops' = drops + 1
  /\ UNCHANGED <<writerVars, matchVars, readerVars>>

Next ==
  \/ \E m \in Outcomes : Write(m)
  \/ HeartbeatTick
  \/ \E m \in net : HandleData(m)
  \/ \E m \in net : HandleHeartbeat(m)
  \/ \E m \in net : HandleAckNack(m)
  \/ \E m \in net : Ignore(m)
  \/ \E m \in net : Drop(m)
  \/ \E r \in Readers : WriterLearns(r)
  \/ \E r \in Readers : ReaderLearns(r)
  \/ waitDrain
  \/ DrainEnds
  \/ Close

Spec == Init /\ [][Next]_vars

\* The ticker of heartbeatLoop keeps firing, SEDP announcements are repeated
\* until both sides have matched, and the receive loops keep running: of the
\* datagrams for a reader that carry one sample, of its HEARTBEATs and of its
\* ACKNACKs, some datagram that stays in flight is received.  A waitDrain whose
\* channel is closed returns; its context need not end.
Fairness ==
  /\ WF_vars(HeartbeatTick)
  /\ \A r \in Readers : WF_vars(WriterLearns(r)) /\ WF_vars(ReaderLearns(r))
  /\ \A r \in Readers, s \in SN :
       WF_vars(\E m \in net : m.type = "DATA" /\ m.reader = r /\ m.sn = s /\ handleDataPacket(m))
  /\ \A r \in Readers, t \in {"HEARTBEAT", "ACKNACK"} :
       WF_vars(\E m \in net : m.type = t /\ m.reader = r /\ handleDataPacket(m))
  /\ WF_vars(DrainEnds /\ drain' = "drained")

FairSpec == Spec /\ Fairness

----------------------------------------------------------------------------
\* The variables keep their types; a reader has at most MaxReorderAhead
\* sequence numbers buffered, all above its watermark.
TypeOK ==
  /\ seq \in 0 .. MaxSeq /\ acked \in 0 .. MaxSeq
  /\ history \in History
  /\ closed \in BOOLEAN /\ drainCh \in BOOLEAN
  /\ drain \in {"none", "waiting", "drained", "cancelled"}
  /\ remoteReaders \subseteq Readers /\ sources \subseteq Readers
  /\ tracker \in [Readers -> Tracker]
  /\ \A r \in Readers :
       /\ tracker[r].expected \in 0 .. MaxSeq + 1
       /\ tracker[r].ahead \subseteq
            {s \in SN : tracker[r].expected < s /\ s <= tracker[r].expected + MaxReorderAhead}
  /\ net \subseteq Messages
  /\ drops \in 0 .. MaxDrops
  /\ anchor \in [Readers -> 0 .. MaxSeq]
  /\ copies \in [Readers -> [SN -> 0 .. MaxCopies]]

Received(r, s) == copies[r][s] > 0

\* Everything from the sequence number a reader started at up to s has arrived.
ReceivedUpTo(r, s) == tracker[r].initDone /\ \A k \in SN : anchor[r] <= k /\ k <= s => Received(r, k)

\* No cumulative acknowledgement covers a sample its reader does not have
\* (REQ-LLR-001), counting from the reader's first contact with the writer:
\* neither a watermark nor an ACKNACK in flight, however old, is ahead of what that
\* reader has received.
NoFalseAck ==
  /\ \A r \in Readers : tracker[r].initDone => ReceivedUpTo(r, tracker[r].expected - 1)
  /\ \A m \in net : m.type = "ACKNACK" => ReceivedUpTo(m.reader, m.base - 1)

\* What the comment of w.acked says, "fully acknowledged by all readers", even if
\* only the readers are meant that were there.  It does not hold: advanceAcked
\* takes the maximum over the ACKNACKs of any reader.
AckedByAll ==
  \A r \in remoteReaders : tracker[r].initDone => ReceivedUpTo(r, acked)

\* The documentation of CloseWithDrain (dds.go): it waits for the pending
\* acknowledgements, so it is done waiting some time after every matched reader
\* has received everything, if nobody closes the writer meanwhile.
DrainCompletes ==
  (drain = "waiting" /\ \A r \in remoteReaders : ReceivedUpTo(r, seq))
    ~> (drain # "waiting" \/ closed)

\* Why DrainCompletes does not hold: a reader sends an ACKNACK only when it lacks
\* something, so its base is never past the last sequence number, acked stays below
\* seq, and advanceAcked never closes drainCh.
AckNeverComplete == (seq > 0 => acked < seq) /\ ~drainCh

\* What a reader asks for it really lacks, as far as its buffer reaches: its
\* watermark and its buffer hold exactly the samples received since first
\* contact, when no sequence number was too far ahead to be buffered.
TrackerExact ==
  MaxReorderAhead >= MaxSeq =>
    \A r \in Readers : tracker[r].initDone =>
      \A s \in SN : s >= anchor[r] =>
        (Received(r, s) <=> s < tracker[r].expected \/ s \in tracker[r].ahead)

Contents == Stored(history, SN)

Abstract == INSTANCE KeepLast WITH SNs <- SN, kept <- Contents

\* The writer's ring implements a keep-last-Depth map (REQ-REL-009): a message
\* can be retransmitted from its Write until Depth later sequence numbers have
\* gone by, those a failing Seal used up included, and get never returns it for
\* any other sequence number.
ImplementsKeepLast == Abstract!Spec

Forward ==
  /\ acked' >= acked /\ history'.lowest >= history.lowest
  /\ \A r \in Readers : tracker[r].initDone =>
       tracker'[r].initDone /\ tracker'[r].expected >= tracker[r].expected

\* Watermarks, the writer's acked mark and the retained window only move
\* forward, whatever stale or duplicated datagram is handled.
ForwardOnly == [][Forward]_vars

\* The watermark of r waits for a number the history does not have (evicted, or
\* used up by a failing Seal) and s is too far beyond it to be requested.
OutOfReach(r, s) ==
  /\ tracker[r].expected \notin Retained(history)
  /\ s >= tracker[r].expected + NackWindow

\* While the writer is open, every sample of the history that a matched reader's
\* tracker is waiting for is recovered, whichever datagrams were lost
\* (participant.go: a missing number is requested on every HEARTBEAT until it
\* arrives).  A hole does not prevent it within the ACKNACK window of the watermark;
\* beyond, it does (there is no handler for GAP), as EveryRecovery would deny.
Recovery ==
  \A r \in Readers, s \in SN :
    (tracker[r].initDone /\ anchor[r] <= s /\ s \in Retained(history))
      ~> (Received(r, s) \/ closed \/ s \notin Retained(history) \/ OutOfReach(r, s))

\* What handleAckNack's comment promises of the GAP ("allows the reader to advance
\* its expected-SN pointer instead of stalling"): a hole never prevents the recovery.
\* It does not hold.
EveryRecovery ==
  \A r \in Readers, s \in SN :
    (tracker[r].initDone /\ anchor[r] <= s /\ s \in Retained(history))
      ~> (Received(r, s) \/ closed \/ s \notin Retained(history))
=============================================================================
