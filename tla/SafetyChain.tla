----------------------------- MODULE SafetyChain -----------------------------
(* The safety package end to end: DeterministicQueue (safety/queue.go) drains *)
(* into an E2EPublisher (safety/e2e.go), which other goroutines also write to; *)
(* an E2ESubscriber checks the frames; a RateMonitor (safety/rate.go) polls    *)
(* its counters.  Transport may lose, corrupt, shorten or delay a frame.       *)
EXTENDS Integers, Sequences, FiniteSets, SequenceTheorems, TLAPS

CONSTANTS M,           \* modulus of the sequence counter (2^32 in the code)
          QueueDepth, OutDepth, \* capacities of the queue and of the subscriber's channel
          MaxEnqueue,  \* bound on Enqueue calls
          MaxDirect,   \* bound on direct Writes of the application
          Threshold    \* violations per window that are still tolerated

VARIABLES queue,       \* q.ch: payload numbers
          enqueued,    \* Enqueue calls so far
          sent,        \* history: payload numbers drain has passed to Write
          writer,      \* each goroutine's Write: the frame number it took, or 0
          direct,      \* direct Writes so far
          halt,        \* the queue: "run", "done" (Stop called) or "stopped" (drain returned)
          counter,     \* p.counter, as the number of increments (the wire has it % M)
          net,         \* frames in flight
          first, lastN,\* s.hasFirst, and the number of the frame s.lastCounter is of
          metrics,     \* the subscriber's counters
          outLen,      \* samples in s.ch
          prev,        \* rm.prev
          mon,         \* what check has read and not yet stored, or << >>
          counted,     \* history: violations check has compared with the threshold
          alerts       \* kinds alerted

vars == <<queue, enqueued, sent, writer, direct, halt, counter, net, first, lastN, metrics,
          outLen, prev, mon, counted, alerts>>
qvars == <<queue, enqueued, sent, halt>>
rvars == <<first, lastN, metrics, outLen>>
mvars == <<prev, mon, counted, alerts>>

Kinds == {"crc", "gap", "stale"}
Counters == Kinds \cup {"short", "valid"}
Zero == [k \in Counters |-> 0]
Frame == [n : 1..(MaxEnqueue + MaxDirect), as : {"good", "crc", "stale", "short"}]

\* The variables hold what the fields they model can hold.
TypeOK ==
  /\ queue \in Seq(1..MaxEnqueue) /\ Len(queue) <= QueueDepth
  /\ writer \in [{"drain", "app"} -> 0..(MaxEnqueue + MaxDirect)]
  /\ halt \in {"run", "done", "stopped"} /\ net \in Seq(Frame)
  /\ DOMAIN metrics = Counters /\ outLen \in 0..OutDepth /\ alerts \subseteq Kinds

Init ==
  /\ queue = << >> /\ enqueued = 0 /\ sent = << >> /\ halt = "run" /\ direct = 0
  /\ writer = [g \in {"drain", "app"} |-> 0] /\ counter = 0 /\ net = << >>
  /\ first = FALSE /\ lastN = 0 /\ metrics = Zero /\ outLen = 0
  /\ prev = Zero /\ mon = << >> /\ counted = Zero /\ alerts = {}

-----------------------------------------------------------------------------
\* Enqueue never blocks; a full queue is ErrQueueFull.  It does not look at done.
Enqueue ==
  /\ enqueued < MaxEnqueue /\ enqueued' = enqueued + 1
  /\ queue' = IF Len(queue) < QueueDepth THEN Append(queue, enqueued') ELSE queue
  /\ UNCHANGED <<sent, halt, writer, direct, counter, net, rvars, mvars>>

\* E2EPublisher.Write takes the counter under the lock ...
Number(g) ==
  /\ writer' = [writer EXCEPT ![g] = counter + 1]
  /\ counter' = counter + 1

\* (a bug for the checks: the queue is taken from its end)
DrainLast ==
  /\ halt # "stopped" /\ writer["drain"] = 0 /\ queue # << >>
  /\ queue' = SubSeq(queue, 1, Len(queue) - 1) /\ sent' = Append(sent, queue[Len(queue)])
  /\ Number("drain")
  /\ UNCHANGED <<enqueued, halt, direct, net, rvars, mvars>>

\* drain: the next payload or done, whichever its select picks.
Drain ==
  /\ halt # "stopped" /\ writer["drain"] = 0 /\ queue # << >>
  /\ queue' = Tail(queue) /\ sent' = Append(sent, Head(queue))
  /\ Number("drain")
  /\ UNCHANGED <<enqueued, halt, direct, net, rvars, mvars>>

DirectWrite ==
  /\ direct < MaxDirect /\ direct' = direct + 1 /\ writer["app"] = 0
  /\ Number("app")
  /\ UNCHANGED <<qvars, net, rvars, mvars>>

\* ... and writes the frame after releasing it.  Transport loses it (an error
\* or a panic of the publisher, which safeWrite contains, loses it too), damages
\* it or delivers it.
PutFrame(g) ==
  /\ writer[g] > 0
  /\ \E as \in {"good", "crc", "stale", "short", "lost"} :
        net' = IF as = "lost" THEN net ELSE Append(net, [n |-> writer[g], as |-> as])
  /\ writer' = [writer EXCEPT ![g] = 0]
  /\ UNCHANGED <<qvars, direct, counter, rvars, mvars>>

Stop ==
  /\ halt = "run" /\ halt' = "done"
  /\ UNCHANGED <<queue, enqueued, sent, writer, direct, counter, net, rvars, mvars>>

DrainReturn ==
  /\ halt = "done" /\ writer["drain"] = 0 /\ halt' = "stopped"
  /\ UNCHANGED <<queue, enqueued, sent, writer, direct, counter, net, rvars, mvars>>

-----------------------------------------------------------------------------
\* (a bug for the checks: the counter is not wrapped)
IsGapUnwrapped(n) == first /\ (n % M) # (lastN % M) + 1

\* process: short, CRC and stale frames are dropped before the counter check; a
\* gap is reported and the sample is still delivered, if there is room.
IsGap(n) == first /\ (n % M) # (lastN + 1) % M

Count(ks) == [k \in Counters |-> IF k \in ks THEN metrics[k] + 1 ELSE metrics[k]]

process ==
  /\ net # << >> /\ net' = Tail(net)
  /\ LET f == Head(net) IN
     IF f.as # "good"
     THEN metrics' = Count({f.as}) /\ UNCHANGED <<first, lastN, outLen>>
     ELSE /\ metrics' = Count({"valid"} \cup (IF IsGap(f.n) THEN {"gap"} ELSE {}))
          /\ first' = TRUE /\ lastN' = f.n
          /\ outLen' = IF outLen < OutDepth THEN outLen + 1 ELSE outLen
  /\ UNCHANGED <<qvars, writer, direct, counter, mvars>>

Consume ==
  /\ outLen > 0 /\ outLen' = outLen - 1
  /\ UNCHANGED <<qvars, writer, direct, counter, net, first, lastN, metrics, mvars>>

\* RateMonitor.check reads a snapshot, compares it with rm.prev ...
check ==
  LET delta == [k \in Counters |-> metrics[k] - prev[k]] IN
  /\ mon = << >> /\ \E k \in Kinds : delta[k] > 0
  /\ mon' = metrics
  /\ counted' = [k \in Counters |-> counted[k] + delta[k]]
  /\ alerts' = alerts \cup {k \in Kinds : delta[k] > Threshold}
  /\ UNCHANGED <<qvars, writer, direct, counter, net, rvars, prev>>

\* (a bug for the checks: the count is read again instead of the snapshot)
storeFresh ==
  /\ mon # << >>
  /\ prev' = metrics /\ mon' = << >>
  /\ UNCHANGED <<qvars, writer, direct, counter, net, rvars, counted, alerts>>

\* ... and stores the snapshot it compared.
store ==
  /\ mon # << >>
  /\ prev' = mon /\ mon' = << >>
  /\ UNCHANGED <<qvars, writer, direct, counter, net, rvars, counted, alerts>>

Next ==
  \/ Enqueue \/ Drain \/ DirectWrite \/ PutFrame("drain") \/ PutFrame("app") \/ Stop
  \/ DrainReturn \/ process \/ Consume \/ check \/ store

Spec == Init /\ [][Next]_vars

-----------------------------------------------------------------------------
GapReported ==
  \A n \in 1..(MaxEnqueue + MaxDirect) :
     (lastN # 0 /\ lastN' = n /\ lastN' # lastN /\ n - lastN < M /\ lastN - n < M - 1) =>
        (metrics'["gap"] > metrics["gap"] <=> n # lastN + 1)

\* A sequence gap is reported for a valid frame exactly when the frame written
\* just before it is not the valid frame received just before it, across the
\* counter's wrap-around, as long as fewer than M frames are missing in between.
GapExact == [][GapReported]_vars

\* The queue is FIFO: what drain has written, followed by what is queued, is
\* increasing, so no accepted payload overtakes another.
QueueFifo ==
  LET all == sent \o queue IN \A i \in 1..Len(all) - 1 : all[i] < all[i + 1]

\* Between two checks no violation escapes: everything counted up to rm.prev was
\* compared with the threshold once, although the counters move while check runs.
NothingUncounted == mon = << >> => counted = prev
-----------------------------------------------------------------------------
\* Proofs.  What the constructors provide: a modulus (2^32), capacities and bounds.
Settings ==
  /\ M \in Nat \ {0} /\ QueueDepth \in Nat /\ OutDepth \in Nat
  /\ MaxEnqueue \in Nat /\ MaxDirect \in Nat /\ Threshold \in Nat

\* Two numbers less than a modulus apart are told apart by their residues.
LEMMA SameResidue ==
  ASSUME NEW m \in Nat \ {0}, NEW a \in Nat, NEW b \in Nat, a % m = b % m, a < b + m, b < a + m
  PROVE  a = b
<1> DEFINE p == a \div m
           q == b \div m
<1>1. /\ p \in Nat /\ a = (p * m) + (a % m) /\ a % m \in 0 .. m - 1
      /\ q \in Nat /\ b = (q * m) + (b % m) /\ b % m \in 0 .. m - 1
  OBVIOUS
<1> HIDE DEF p, q
<1>2. p * m \in Nat /\ q * m \in Nat /\ p * m < q * m + m /\ q * m < p * m + m
  BY <1>1
<1>3. p <= q
  BY <1>1, <1>2
<1>4. q <= p
  BY <1>1, <1>2
<1> QED BY <1>1, <1>3, <1>4

\* Putting a payload at the end of the queue puts it at the end of everything;
LEMMA PutLast ==
  ASSUME NEW S, NEW s \in Seq(S), NEW q \in Seq(S), NEW x \in S
  PROVE  s \o Append(q, x) = Append(s \o q, x)
OBVIOUS

\* taking it from the front to the end of what was written changes nothing.
LEMMA TakeFirst ==
  ASSUME NEW S, NEW s \in Seq(S), NEW q \in Seq(S), q # << >>
  PROVE  Append(s, Head(q)) \o Tail(q) = s \o q
OBVIOUS

\* Payload numbers in the order of their Enqueue calls, of which there were e.
UpTo(s, e) ==
  /\ \A i \in 1 .. Len(s) : s[i] \in 1 .. e
  /\ \A i \in 1 .. Len(s) - 1 : s[i] < s[i + 1]

\* The next Enqueue call keeps the order, whether it is accepted or refused.
LEMMA UpToGrows ==
  ASSUME NEW s \in Seq(Nat), NEW e \in Nat, UpTo(s, e)
  PROVE  UpTo(Append(s, e + 1), e + 1) /\ UpTo(s, e + 1)
<1> DEFINE t == Append(s, e + 1)
           n == Len(s)
<1>1. /\ n \in Nat /\ Len(t) = n + 1 /\ t[n + 1] = e + 1
      /\ \A i \in 1 .. n : t[i] = s[i]
  OBVIOUS
<1>2. /\ \A i \in 1 .. n : s[i] \in 1 .. e
      /\ \A i \in 1 .. n - 1 : s[i] < s[i + 1]
  BY DEF UpTo
<1> HIDE DEF t, n
<1>3. \A i \in 1 .. n + 1 : t[i] \in 1 .. e + 1
  <2> SUFFICES ASSUME NEW i \in 1 .. n + 1 PROVE t[i] \in 1 .. e + 1
    OBVIOUS
  <2>1. CASE i \in 1 .. n
    <3>1. t[i] = s[i] /\ s[i] \in 1 .. e
      BY <1>1, <1>2, <2>1
    <3> QED BY <3>1
  <2>2. CASE i = n + 1
    BY <1>1, <2>2
  <2> QED BY <1>1, <2>1, <2>2
<1>4. \A i \in 1 .. n : t[i] < t[i + 1]
  <2> SUFFICES ASSUME NEW i \in 1 .. n PROVE t[i] < t[i + 1]
    OBVIOUS
  <2>1. CASE i = n
    <3>1. t[i] \in 1 .. e /\ t[i + 1] = e + 1
      BY <1>1, <1>2, <2>1
    <3> QED BY <3>1
  <2>2. CASE i # n
    <3>1. i \in 1 .. n - 1 /\ i \in 1 .. n /\ i + 1 \in 1 .. n
      BY <1>1, <2>2
    <3> QED BY <1>1, <1>2, <3>1
  <2> QED BY <2>1, <2>2
<1>5. UpTo(t, e + 1)
  BY <1>1, <1>3, <1>4 DEF UpTo
<1>6. UpTo(s, e + 1)
  BY <1>1, <1>2 DEF UpTo, n
<1> QED BY <1>5, <1>6 DEF t

\* The queue: what was written and what waits is in the order of the calls.
QueueInv ==
  /\ sent \in Seq(Nat) /\ queue \in Seq(Nat) /\ enqueued \in 0 .. MaxEnqueue /\ direct \in 0 .. MaxDirect
  /\ Len(queue) <= QueueDepth /\ Len(sent) + Len(queue) <= enqueued
  /\ UpTo(sent \o queue, enqueued)

\* The frames: numbers come from the counter, which counts the Writes.
Numbers == 1 .. (MaxEnqueue + MaxDirect)

FrameInv ==
  /\ counter = Len(sent) + direct
  /\ writer \in [{"drain", "app"} -> {0} \cup Numbers] /\ net \in Seq(Frame)
  /\ halt \in {"run", "done", "stopped"}

\* The subscriber: it has a first frame once it has the number of one.
CheckInv ==
  /\ metrics \in [Counters -> Nat] /\ outLen \in 0 .. OutDepth
  /\ lastN \in {0} \cup Numbers /\ first \in BOOLEAN /\ (lastN # 0 => first)

\* The monitor: while it holds a snapshot, that is what has been counted.
MonitorInv ==
  /\ prev \in [Counters -> Nat] /\ counted \in [Counters -> Int] /\ alerts \subseteq Kinds
  /\ NothingUncounted
  /\ mon # << >> => mon \in [Counters -> Nat] /\ counted = mon

Inv == QueueInv /\ FrameInv /\ CheckInv /\ MonitorInv

\* The steps of the queue and of the other parts leave each other's state alone,
\* so each invariant is shown for the steps that can disturb it.
LEMMA QueueStep == ASSUME Settings, Inv, [Next]_vars PROVE QueueInv'
<1> USE DEF Settings
<1>0. QueueInv /\ sent \o queue \in Seq(Nat) /\ enqueued \in Nat
  BY DEF Inv, QueueInv
<1>1. CASE Enqueue
  <2>1. /\ sent' = sent /\ enqueued' = enqueued + 1 /\ direct' = direct /\ enqueued' \in 0 .. MaxEnqueue
        /\ queue' = IF Len(queue) < QueueDepth THEN Append(queue, enqueued + 1) ELSE queue
    BY <1>0, <1>1 DEF Enqueue, QueueInv
  <2>2. UpTo(Append(sent \o queue, enqueued + 1), enqueued + 1) /\ UpTo(sent \o queue, enqueued + 1)
    <3> DEFINE all == sent \o queue
    <3>1. all \in Seq(Nat) /\ enqueued \in Nat /\ UpTo(all, enqueued)
      BY <1>0 DEF QueueInv
    <3> HIDE DEF all
    <3>2. UpTo(Append(all, enqueued + 1), enqueued + 1) /\ UpTo(all, enqueued + 1)
      BY ONLY <3>1, UpToGrows
    <3> QED BY <3>2 DEF all
  <2>3. sent \o Append(queue, enqueued + 1) = Append(sent \o queue, enqueued + 1)
    <3> DEFINE x == enqueued + 1
    <3>1. sent \in Seq(Nat) /\ queue \in Seq(Nat) /\ x \in Nat
      BY <1>0 DEF QueueInv
    <3> HIDE DEF x
    <3>2. sent \o Append(queue, x) = Append(sent \o queue, x)
      BY ONLY <3>1, PutLast
    <3> QED BY <3>2 DEF x
  <2>4. UpTo(sent' \o queue', enqueued')
    <3>1. CASE queue' = Append(queue, enqueued + 1)
      BY ONLY <2>1, <2>2, <2>3, <3>1
    <3>2. CASE queue' = queue
      BY ONLY <2>1, <2>2, <3>2
    <3> QED BY ONLY <2>1, <3>1, <3>2
  <2>5. queue' \in Seq(Nat) /\ Len(queue') <= QueueDepth /\ Len(queue') <= Len(queue) + 1
    BY <1>0, <2>1 DEF QueueInv
  <2> QED BY <1>0, <2>1, <2>4, <2>5 DEF QueueInv
<1>3. CASE Drain
  <2>1. /\ queue # << >> /\ queue' = Tail(queue) /\ sent' = Append(sent, Head(queue))
        /\ enqueued' = enqueued /\ direct' = direct
    BY <1>3 DEF Drain
  <2>2. sent' \o queue' = sent \o queue
    BY <1>0, <2>1, TakeFirst DEF QueueInv
  <2>3. /\ queue' \in Seq(Nat) /\ sent' \in Seq(Nat) /\ Len(queue') = Len(queue) - 1
        /\ Len(sent') = Len(sent) + 1
    BY <1>0, <2>1 DEF QueueInv
  <2>4. Len(queue) \in Nat /\ Len(sent) \in Nat
    BY <1>0 DEF QueueInv
  <2>5. UpTo(sent' \o queue', enqueued')
    BY <1>0, <2>1, <2>2 DEF QueueInv
  <2>6. Len(queue') <= QueueDepth /\ Len(sent') + Len(queue') <= enqueued
    BY <1>0, <2>3, <2>4 DEF QueueInv
  <2> QED BY <1>0, <2>1, <2>3, <2>5, <2>6 DEF QueueInv
<1>4. CASE UNCHANGED <<queue, sent, enqueued>> /\ direct' \in 0 .. MaxDirect
  BY <1>0, <1>4 DEF QueueInv
<1>5. Enqueue \/ Drain \/ (UNCHANGED <<queue, sent, enqueued>> /\ direct' \in 0 .. MaxDirect)
  BY <1>0 DEF QueueInv, Next, vars, qvars, DirectWrite, PutFrame, Stop, DrainReturn, process, Consume, check, store
<1> QED BY <1>1, <1>3, <1>4, <1>5

\* A Write takes the next number, and there are no more Writes than the bounds allow.
LEMMA FrameStep == ASSUME Settings, Inv, [Next]_vars PROVE FrameInv'
<1> USE DEF Settings
<1>0. /\ QueueInv /\ FrameInv /\ QueueInv'
  BY QueueStep DEF Inv
<1>1. CASE Drain
  <2>1. Len(sent') = Len(sent) + 1 /\ Len(sent') <= MaxEnqueue
    BY <1>0, <1>1 DEF Drain, QueueInv
  <2>2. Len(sent) \in Nat /\ direct \in 0 .. MaxDirect /\ counter = Len(sent) + direct
    BY <1>0 DEF QueueInv, FrameInv
  <2>3. counter + 1 \in Numbers /\ counter + 1 = Len(sent') + direct
    BY <2>1, <2>2 DEF Numbers
  <2> QED BY <1>0, <1>1, <2>3 DEF Drain, Number, FrameInv
<1>2. CASE DirectWrite
  BY <1>0, <1>2 DEF DirectWrite, Number, FrameInv, QueueInv, Numbers, qvars
<1>3. ASSUME NEW g \in {"drain", "app"}, PutFrame(g) PROVE FrameInv'
  <2>1. writer[g] \in Numbers
    BY <1>0, <1>3 DEF PutFrame, FrameInv
  <2>2. PICK as \in {"good", "crc", "stale", "short", "lost"} :
          net' = IF as = "lost" THEN net ELSE Append(net, [n |-> writer[g], as |-> as])
    BY <1>3 DEF PutFrame
  <2>3. as # "lost" => [n |-> writer[g], as |-> as] \in Frame
    BY <2>1 DEF Frame, Numbers
  <2>4. net' \in Seq(Frame)
    <3>1. CASE as = "lost"
      BY <1>0, <2>2, <3>1 DEF FrameInv
    <3>2. CASE as # "lost"
      <4> DEFINE f == [n |-> writer[g], as |-> as]
      <4>1. f \in Frame /\ net' = Append(net, f)
        BY <2>2, <2>3, <3>2
      <4> HIDE DEF f
      <4> QED BY <1>0, <4>1 DEF FrameInv
    <3> QED BY <3>1, <3>2
  <2> QED BY <1>0, <1>3, <2>4 DEF PutFrame, FrameInv, qvars
<1>4. CASE process
  BY <1>0, <1>4 DEF process, FrameInv, qvars
<1>5. CASE Enqueue \/ Stop \/ DrainReturn \/ Consume \/ check \/ store \/ UNCHANGED vars
  BY <1>0, <1>5 DEF FrameInv, Enqueue, Stop, DrainReturn, Consume, check, store, vars, qvars
<1> QED BY <1>1, <1>2, <1>3, <1>4, <1>5 DEF Next

\* Only process touches what the subscriber knows of the frames.
LEMMA CheckStep == ASSUME Settings, Inv, [Next]_vars PROVE CheckInv'
<1> USE DEF Settings
<1>0. FrameInv /\ CheckInv
  BY DEF Inv
<1>1. CASE process
  <2> DEFINE f == Head(net)
  <2>1. f \in Frame
    BY <1>0, <1>1 DEF process, FrameInv
  <2>2. f.n \in Numbers
    BY <2>1 DEF Frame, Numbers
  <2>3. \A ks : Count(ks) \in [Counters -> Nat]
    BY <1>0 DEF CheckInv, Count
  <2> HIDE DEF f
  <2>4. CASE f.as # "good"
    BY <1>0, <1>1, <2>3, <2>4 DEF process, CheckInv, f
  <2>5. CASE f.as = "good"
    <3>1. /\ metrics' \in [Counters -> Nat] /\ first' = TRUE /\ lastN' = f.n
          /\ outLen' = IF outLen < OutDepth THEN outLen + 1 ELSE outLen
      BY <1>1, <2>3, <2>5 DEF process, f
    <3> QED BY <1>0, <2>2, <3>1 DEF CheckInv
  <2> QED BY <2>4, <2>5
<1>2. CASE Consume
  BY <1>0, <1>2 DEF Consume, CheckInv
<1>3. CASE UNCHANGED rvars
  BY <1>0, <1>3 DEF rvars, CheckInv
<1>4. process \/ Consume \/ UNCHANGED rvars
  BY DEF Next, vars, rvars, Enqueue, Drain, DirectWrite, PutFrame, Stop, DrainReturn, check, store
<1> QED BY <1>1, <1>2, <1>3, <1>4

\* check adds what is new in its snapshot to what was counted, so the snapshot is
\* what has been counted when store makes it rm.prev.
LEMMA MonitorStep == ASSUME Settings, Inv, [Next]_vars PROVE MonitorInv'
<1>0. CheckInv /\ MonitorInv
  BY DEF Inv
<1>1. CASE check
  <2>1. /\ mon = << >> /\ mon' = metrics /\ prev' = prev
        /\ counted' = [k \in Counters |-> counted[k] + (metrics[k] - prev[k])]
        /\ alerts' \subseteq Kinds
    BY <1>0, <1>1 DEF check, MonitorInv
  <2>2. counted = prev
    BY <1>0, <2>1 DEF MonitorInv, NothingUncounted
  <2>3. \A k \in Counters : prev[k] + (metrics[k] - prev[k]) = metrics[k]
    BY <1>0 DEF CheckInv, MonitorInv
  <2>4. metrics = [k \in Counters |-> metrics[k]] /\ metrics \in [Counters -> Nat]
    BY <1>0 DEF CheckInv
  <2>5. counted' = metrics
    BY <2>1, <2>2, <2>3, <2>4
  <2>6. metrics # << >> /\ metrics \in [Counters -> Int]
    BY <2>4 DEF Counters, Kinds
  <2> QED BY <1>0, <2>1, <2>4, <2>5, <2>6 DEF MonitorInv, NothingUncounted
<1>2. CASE store
  BY <1>0, <1>2 DEF store, MonitorInv, NothingUncounted
<1>3. CASE UNCHANGED mvars
  BY <1>0, <1>3 DEF mvars, MonitorInv, NothingUncounted
<1>4. check \/ store \/ UNCHANGED mvars
  BY DEF Next, vars, mvars, Enqueue, Drain, DirectWrite, PutFrame, Stop, DrainReturn, process, Consume
<1> QED BY <1>1, <1>2, <1>3, <1>4

\* The invariant holds at the start ...
LEMMA InitInv == ASSUME Settings, Init PROVE Inv
<1> USE DEF Settings, Init
<1>1. sent \o queue = << >> /\ Len(sent \o queue) = 0
  OBVIOUS
<1>2. QueueInv
  BY <1>1 DEF QueueInv, UpTo
<1>3. FrameInv
  BY DEF FrameInv
<1>4. CheckInv
  <2>1. Zero \in [Counters -> Nat]
    BY DEF Zero
  <2>2. 0 \in 0 .. OutDepth
    OBVIOUS
  <2> QED BY <2>1, <2>2 DEF CheckInv
<1>5. MonitorInv
  BY DEF MonitorInv, NothingUncounted, Zero
<1> QED BY <1>2, <1>3, <1>4, <1>5 DEF Inv

\* ... and is kept by every step.
LEMMA StepInv == ASSUME Settings, Inv, [Next]_vars PROVE Inv'
BY QueueStep, FrameStep, CheckStep, MonitorStep DEF Inv

\* A step that takes a new valid frame within the counter's range reports a gap
\* exactly when a frame is missing.
LEMMA GapStep == ASSUME Settings, Inv, [Next]_vars PROVE GapReported
<1> USE DEF Settings
<1>0. FrameInv /\ CheckInv
  BY DEF Inv
<1> SUFFICES ASSUME NEW n \in Numbers, lastN # 0, lastN' = n, lastN' # lastN,
                    n - lastN < M, lastN - n < M - 1
             PROVE  metrics'["gap"] > metrics["gap"] <=> n # lastN + 1
  BY DEF GapReported, Numbers
<1>1. process /\ Head(net).as = "good"
  BY DEF Next, vars, rvars, Enqueue, Drain, DirectWrite, PutFrame, Stop, DrainReturn, process, Consume,
         check, store
<1>2. metrics' = Count({"valid"} \cup (IF IsGap(n) THEN {"gap"} ELSE {}))
  BY <1>1 DEF process
<1>3. metrics["gap"] \in Nat /\ "gap" \in Counters
  BY <1>0 DEF CheckInv, Counters, Kinds
<1>4. metrics'["gap"] > metrics["gap"] <=> IsGap(n)
  BY <1>2, <1>3 DEF Count
<1>5. first /\ lastN \in Nat /\ n \in Nat
  BY <1>0 DEF CheckInv, Numbers
<1>6. n % M = (lastN + 1) % M => n = lastN + 1
  <2>1. /\ n < (lastN + 1) + M /\ lastN + 1 < n + M /\ lastN + 1 \in Nat
    BY <1>5
  <2> QED BY ONLY <1>5, <2>1, SameResidue, M \in Nat \ {0}
<1> QED BY <1>4, <1>5, <1>6 DEF IsGap

\* The fields keep their types under any interleaving, and the counter never
\* runs past the number of Writes.
THEOREM TypeCorrect == ASSUME Settings PROVE Spec => []TypeOK
<1>1. Inv => TypeOK
  <2> SUFFICES ASSUME Inv PROVE TypeOK
    OBVIOUS
  <2>1. \A i \in 1 .. Len(queue) : queue[i] = (sent \o queue)[Len(sent) + i]
    BY DEF Inv, QueueInv
  <2>2. queue \in Seq(1 .. MaxEnqueue)
    <3>1. \A i \in 1 .. Len(queue) : queue[i] \in 1 .. MaxEnqueue
      <4>1. \A i \in 1 .. Len(queue) : Len(sent) + i \in 1 .. Len(sent \o queue)
        BY DEF Inv, QueueInv
      <4>2. \A i \in 1 .. Len(sent \o queue) : (sent \o queue)[i] \in 1 .. enqueued
        BY DEF Inv, QueueInv, UpTo
      <4>3. enqueued \in 0 .. MaxEnqueue
        BY DEF Inv, QueueInv
      <4> QED BY <2>1, <4>1, <4>2, <4>3 DEF Settings
    <3> DEFINE S == 1 .. MaxEnqueue
    <3>2. queue \in Seq(Nat) /\ \A i \in 1 .. Len(queue) : queue[i] \in S
      BY <3>1 DEF Inv, QueueInv
    <3> HIDE DEF S
    <3>3. queue \in Seq(S)
      BY ONLY <3>2
    <3> QED BY <3>3 DEF S
  <2>3. writer \in [{"drain", "app"} -> 0 .. (MaxEnqueue + MaxDirect)]
    BY DEF Inv, FrameInv, Numbers, Settings
  <2> QED BY <2>2, <2>3 DEF Inv, QueueInv, FrameInv, CheckInv, MonitorInv, TypeOK
<1> QED BY <1>1, InitInv, StepInv, PTL DEF Spec

\* For every modulus (2^32 included), depth and number of Writes: a gap is
\* reported exactly when frames are missing, across the wrap-around.
THEOREM GapsExact == ASSUME Settings PROVE Spec => GapExact
<1>1. [Next]_vars /\ Inv => [GapReported]_vars
  BY GapStep
<1> QED BY <1>1, InitInv, StepInv, PTL DEF Spec, GapExact

\* No payload that Enqueue accepted overtakes another, whatever the depth.
THEOREM QueueInOrder == ASSUME Settings PROVE Spec => []QueueFifo
<1>1. Inv => QueueFifo
  BY DEF Inv, QueueInv, QueueFifo, UpTo
<1> QED BY <1>1, InitInv, StepInv, PTL DEF Spec

\* No violation escapes the rate monitor, whatever moves between check's read
\* and its store.
THEOREM AllCounted == ASSUME Settings PROVE Spec => []NothingUncounted
<1>1. Inv => NothingUncounted
  BY DEF Inv, MonitorInv
<1> QED BY <1>1, InitInv, StepInv, PTL DEF Spec
=============================================================================
