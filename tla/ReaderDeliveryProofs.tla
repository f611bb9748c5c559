------------------------ MODULE ReaderDeliveryProofs ------------------------
(***************************************************************************)
(* The safety of local delivery, for every number of writers, readers,      *)
(* samples and every channel capacity.                                      *)
(***************************************************************************)
EXTENDS ReaderDelivery, SequenceTheorems, TLAPS

\* The goroutine is between the entry of deliverToReader and its return.
Sending(t) == pc[t] \in {"send", "evict", "retry"}

\* It has not come to the reader with its sample yet.
Ahead(t, r) ==
  \/ pc[t] = "stored"
  \/ pc[t] = "dispatch" /\ r \in todo[t]
  \/ Sending(t) /\ (r = cur[t] \/ r \in todo[t])

\* TypeOK, by what a step changes together.
AppTypes ==
  /\ qos \in [Readers -> QoS \cup {NoQoS}] /\ readers \subseteq Readers
  /\ sub \in [Readers -> {"new", "open", "unsub", "closing", "locked", "closed"}]
  /\ wclosed \subseteq Writers /\ pstate \in {"open", "closing", "closed"}
LockTypes ==
  /\ closed \in [Readers -> BOOLEAN] /\ chClosed \in [Readers -> BOOLEAN]
  /\ matched \in [Readers -> BOOLEAN] /\ waiting \in [Readers -> SUBSET {"close", "match"}]
WriteTypes ==
  /\ lastSample \in Samples \cup {NoSample} /\ wrote \in [Threads -> 0 .. MaxWrites]
  /\ pc \in [Threads -> {"idle", "stored", "dispatch", "send", "evict", "retry"}]
  /\ sample \in [Threads -> Samples \cup {NoSample}]
  /\ todo \in [Threads -> SUBSET Readers] /\ cur \in [Threads -> Readers \cup {NoSample}]
ChanTypes ==
  /\ ch \in [Readers -> Seq(Samples)] /\ got \in [Readers -> Seq(Samples)]
  /\ \A r \in Readers : Len(ch[r]) <= Depth
  /\ lost \in [Readers -> SUBSET Samples] /\ holders \in [Readers -> SUBSET Threads]
Types == AppTypes /\ LockTypes /\ WriteTypes /\ ChanTypes

\* A goroutine in Write dispatches its newest sample, the receive loop one of the
\* remote writer; one that sends holds r.mu of a reader that is not closed.
ThreadInv ==
  \A t \in Threads :
    /\ pc[t] # "idle" => /\ sample[t] \in Samples /\ sample[t][1] = t
                         /\ t \in Writers => sample[t] = <<t, wrote[t]>>
    /\ Sending(t) => /\ cur[t] \in Readers /\ cur[t] \notin todo[t]
                     /\ t \in holders[cur[t]] /\ ~closed[cur[t]]

\* closed comes before close(r.ch), and after Unsubscribe.
CloseInv ==
  \A r \in Readers :
    /\ chClosed[r] => closed[r]
    /\ closed[r] <=> sub[r] \in {"locked", "closed"}
    /\ r \in readers <=> sub[r] = "open"

\* lastSample is the newest sample of the writer that wrote it.
LastInv ==
  IF lastSample = NoSample THEN \A t \in Writers : wrote[t] = 0
  ELSE lastSample[1] \in Writers /\ lastSample[2] = wrote[lastSample[1]]

\* InOrder of one reader: of what was put into its channel, and its durability.
Ordered(g, durable) ==
  \A i, j \in DOMAIN g : i < j /\ g[i][1] = g[j][1] /\ g[i][1] \in Writers =>
    g[i][2] <= g[j][2] /\ (g[i] = g[j] => durable)

\* Nothing is newer than its writer's last sample, and a Volatile reader that a
\* writer has not come to does not have its sample.
OrderInv ==
  /\ \A r \in Readers : Ordered(got[r], qos[r].durable)
  /\ \A r \in Readers : \A i \in DOMAIN got[r] :
       got[r][i][1] \in Writers => got[r][i][2] <= wrote[got[r][i][1]]
  /\ \A r \in Readers, t \in Writers :
       Ahead(t, r) /\ ~qos[r].durable => \A i \in DOMAIN got[r] : got[r][i] # sample[t]

\* The reader JoinersCurrent is about.
Joined(r) ==
  qos[r].durable /\ sub[r] = "open" /\ lost[r] = {} /\ \A t \in Writers : Partition[t] = qos[r].partition

\* It has the last sample, or the writer of it is on its way.
JoinInv ==
  lastSample # NoSample =>
    \A r \in Readers : Joined(r) =>
      \/ \E i \in DOMAIN got[r] : got[r][i] = lastSample
      \/ Ahead(lastSample[1], r)

IInv == Types /\ ThreadInv /\ CloseInv /\ LastInv /\ OrderInv /\ JoinInv

USE DeliveryAssumption

----------------------------------------------------------------------------
\* Samples of the wire are samples, and the receive loop handles a bounded number.
LEMMA WireSamples ==
  ASSUME Types, NEW s \in Wire
  PROVE  s \in Samples /\ (s[1] = Rx => wrote[Rx] + 1 \in 1 .. MaxWrites)
BY DEF Types, WriteTypes, Wire, Samples, Threads

\* Init satisfies the invariant.
LEMMA InitIInv == Init => IInv
<1> SUFFICES ASSUME Init PROVE IInv
  OBVIOUS
<1>1. Types
  BY DEF Init, Types, AppTypes, LockTypes, WriteTypes, ChanTypes
<1>2. ThreadInv /\ CloseInv /\ LastInv
  BY DEF Init, ThreadInv, CloseInv, LastInv, Sending, Threads
<1>3. OrderInv
  BY DEF Init, OrderInv, Ordered, Ahead, Sending
<1>4. JoinInv
  BY DEF Init, JoinInv
<1> QED BY <1>1, <1>2, <1>3, <1>4 DEF IInv


----------------------------------------------------------------------------
\* A step that leaves a group of variables alone keeps their types.
LEMMA Unchanged ==
  /\ AppTypes /\ UNCHANGED appVars => AppTypes'
  /\ LockTypes /\ UNCHANGED lockVars => LockTypes'
  /\ WriteTypes /\ UNCHANGED writeVars => WriteTypes'
  /\ ChanTypes /\ UNCHANGED <<ch, got, lost, holders>> => ChanTypes'
BY DEF AppTypes, LockTypes, WriteTypes, ChanTypes, appVars, lockVars, writeVars

\* What a goroutine that sends has in hand.
LEMMA InHand ==
  ASSUME Types, ThreadInv, NEW t \in Threads, Sending(t)
  PROVE  /\ cur[t] \in Readers /\ sample[t] \in Samples /\ sample[t][1] = t
         /\ t \in Writers => sample[t] = <<t, wrote[t]>>
BY DEF ThreadInv, Sending, Samples, Types, WriteTypes

\* Put keeps a channel within its capacity if there is room.
LEMMA PutTypes ==
  ASSUME Types, NEW t \in Threads, NEW r \in Readers, sample[t] \in Samples,
         \/ Room(r) /\ Put(t, r)
         \/ GiveUp(t, r),
         Leave(t, r)
  PROVE  ChanTypes'
<1> USE DEF Types, ChanTypes
<1>1. holders' \in [Readers -> SUBSET Threads]
  BY DEF Leave
<1>2. CASE Room(r) /\ Put(t, r)
  <2>1. /\ Append(ch[r], sample[t]) \in Seq(Samples) /\ Len(Append(ch[r], sample[t])) <= Depth
        /\ Append(got[r], sample[t]) \in Seq(Samples)
    BY <1>2 DEF Room
  <2>2. ch' \in [Readers -> Seq(Samples)] /\ \A x \in Readers : Len(ch'[x]) <= Depth
    BY <1>2, <2>1 DEF Put
  <2>3. got' \in [Readers -> Seq(Samples)] /\ lost' = lost
    BY <1>2, <2>1 DEF Put
  <2> QED BY <1>1, <2>2, <2>3
<1>3. CASE GiveUp(t, r)
  <2>1. lost' \in [Readers -> SUBSET Samples] /\ UNCHANGED <<ch, got>>
    BY <1>3 DEF GiveUp
  <2> QED BY <1>1, <2>1
<1> QED BY <1>2, <1>3

\* Taking a sample out of a channel keeps the types.
LEMMA TailTypes ==
  ASSUME ChanTypes, NEW r \in Readers, ch[r] # <<>>, ch' = [ch EXCEPT ![r] = Tail(@)],
         UNCHANGED <<got, lost, holders>>
  PROVE  ChanTypes'
<1>1. Tail(ch[r]) \in Seq(Samples) /\ Len(Tail(ch[r])) <= Depth
  BY DEF ChanTypes
<1> QED BY <1>1 DEF ChanTypes

\* The steps of dispatchToReaders keep the types.
LEMMA TypesOfDispatch ==
  ASSUME Types, ThreadInv, NEW t \in Threads,
         Snapshot(t) \/ Send(t) \/ Evict(t) \/ Retry(t) \/ Return(t) \/ \E r \in Readers : Visit(t, r)
  PROVE  Types'
<1> USE DEF Types
<1>1. AppTypes' /\ LockTypes'
  BY Unchanged DEF Snapshot, Send, Evict, Retry, Return, Visit
<1>2. WriteTypes'
  <2> USE DEF WriteTypes
  <2>1. CASE Snapshot(t)
    BY <2>1 DEF Snapshot, AppTypes
  <2>2. CASE \E r \in Readers : Visit(t, r)
    BY <2>2 DEF Visit
  <2>3. CASE Send(t) \/ Evict(t) \/ Retry(t) \/ Return(t)
    <3>1. pc' \in [Threads -> {"idle", "stored", "dispatch", "send", "evict", "retry"}]
      BY <2>3 DEF Send, Evict, Retry, Return, Leave
    <3>2. UNCHANGED <<lastSample, wrote, sample, todo, cur>>
      BY <2>3 DEF Send, Evict, Retry, Return
    <3> QED BY <3>1, <3>2
  <2> QED BY <2>1, <2>2, <2>3
<1>3. ChanTypes'
  <2>1. CASE Snapshot(t) \/ Return(t)
    BY <2>1, Unchanged DEF Snapshot, Return
  <2>2. CASE \E r \in Readers : Visit(t, r)
    <3>1. UNCHANGED <<ch, got, lost>>
      BY <2>2 DEF Visit
    <3>2. holders' \in [Readers -> SUBSET Threads]
      <4> PICK r \in Readers : Visit(t, r)
        BY <2>2
      <4>1. holders' = holders \/ holders' = [holders EXCEPT ![r] = @ \cup {t}]
        BY DEF Visit
      <4>2. holders \in [Readers -> SUBSET Threads]
        BY DEF ChanTypes
      <4> QED BY ONLY <4>1, <4>2, t \in Threads, r \in Readers
    <3> QED BY <3>1, <3>2 DEF ChanTypes
  <2>3. CASE Send(t)
    <3>1. cur[t] \in Readers /\ sample[t] \in Samples
      BY <2>3, InHand DEF Send, Sending
    <3> QED BY <2>3, <3>1, PutTypes, Unchanged DEF Send
  <2>4. CASE Evict(t)
    <3>1. cur[t] \in Readers
      BY <2>4, InHand DEF Evict, Sending
    <3>2. CASE ch[cur[t]] = <<>>
      <4>1. ch' = ch
        BY <2>4, <3>1, <3>2 DEF Evict, ChanTypes
      <4> QED BY <2>4, <4>1, Unchanged DEF Evict
    <3>3. CASE ch[cur[t]] # <<>>
      <4>1. ch' = [ch EXCEPT ![cur[t]] = Tail(@)]
        BY <2>4, <3>1, <3>3 DEF Evict, ChanTypes
      <4> QED BY <2>4, <3>1, <3>3, <4>1, TailTypes DEF Evict
    <3> QED BY <3>2, <3>3
  <2>5. CASE Retry(t)
    <3>1. cur[t] \in Readers /\ sample[t] \in Samples
      BY <2>5, InHand DEF Retry, Sending
    <3> QED BY <2>5, <3>1, PutTypes DEF Retry
  <2> QED BY <2>1, <2>2, <2>3, <2>4, <2>5
<1> QED BY <1>1, <1>2, <1>3

\* Every step keeps the types.
LEMMA NextTypes == ASSUME Types, ThreadInv, [Next]_vars PROVE Types'
<1> USE DEF Types
<1>1. ASSUME NEW t \in Writers, Write(t) PROVE Types'
  <2>1. WriteTypes'
    BY <1>1 DEF Write, WriteTypes, Samples, Threads
  <2> QED BY <1>1, <2>1, Unchanged DEF Write
<1>2. ASSUME NEW s \in Wire, handleDataPacket(s) PROVE Types'
  <2>1. s[1] = Rx => s \in Samples /\ wrote[Rx] + 1 \in 0 .. MaxWrites
    BY <1>2, WireSamples
  <2>2. WriteTypes'
    BY <1>2, <2>1 DEF handleDataPacket, WriteTypes, Threads
  <2> QED BY <1>2, <2>2, Unchanged DEF handleDataPacket
<1>3. ASSUME NEW r \in Readers, NEW q \in QoS, NewSubscriber(r, q) PROVE Types'
  <2> DEFINE replay == IF q.durable /\ lastSample # NoSample THEN <<lastSample>> ELSE <<>>
  <2>1. replay \in Seq(Samples) /\ Len(replay) <= Depth
    BY DEF WriteTypes
  <2> HIDE DEF replay
  <2>2. ch' = [ch EXCEPT ![r] = replay] /\ got' = [got EXCEPT ![r] = replay]
    BY <1>3 DEF NewSubscriber, replay
  <2>3. ChanTypes'
    <3>1. ch' \in [Readers -> Seq(Samples)] /\ got' \in [Readers -> Seq(Samples)]
      BY <2>1, <2>2 DEF ChanTypes
    <3>2. \A x \in Readers : Len(ch'[x]) <= Depth
      BY <2>1, <2>2 DEF ChanTypes
    <3> QED BY <1>3, <3>1, <3>2 DEF NewSubscriber, ChanTypes
  <2>4. AppTypes'
    BY <1>3 DEF NewSubscriber, AppTypes
  <2> QED BY <1>3, <2>3, <2>4, Unchanged DEF NewSubscriber
<1>4. ASSUME NEW r \in Readers, Receive(r) PROVE Types'
  BY <1>4, TailTypes, Unchanged DEF Receive
<1>5. ASSUME NEW r \in Readers, Unsubscribe(r) PROVE Types'
  BY <1>5, Unchanged DEF Unsubscribe, AppTypes
<1>6. ASSUME NEW r \in Readers, CloseLock(r) \/ CloseFlip(r) \/ CloseChan(r) PROVE Types'
  <2>1. AppTypes'
    BY <1>6 DEF CloseLock, CloseFlip, CloseChan, AppTypes
  <2>2. LockTypes'
    <3>1. CASE CloseLock(r)
      BY <3>1 DEF CloseLock, LockTypes
    <3>2. CASE CloseFlip(r)
      BY <3>2 DEF CloseFlip, LockTypes
    <3>3. CASE CloseChan(r)
      BY <3>3 DEF CloseChan, LockTypes
    <3> QED BY <1>6, <3>1, <3>2, <3>3
  <2> QED BY <1>6, <2>1, <2>2, Unchanged DEF CloseLock, CloseFlip, CloseChan
<1>7. ASSUME NEW r \in Readers, MatchLock(r) \/ addSourceGUID(r) PROVE Types'
  <2>1. LockTypes'
    <3>1. CASE MatchLock(r)
      BY <3>1 DEF MatchLock, LockTypes
    <3>2. CASE addSourceGUID(r)
      BY <3>2 DEF addSourceGUID, LockTypes
    <3> QED BY <1>7, <3>1, <3>2
  <2> QED BY <1>7, <2>1, Unchanged DEF MatchLock, addSourceGUID
<1>8. ASSUME Close \/ CloseSockets \/ \E t \in Writers : CloseWriter(t) PROVE Types'
  <2>1. AppTypes'
    BY <1>8 DEF Close, CloseSockets, CloseWriter, AppTypes
  <2> QED BY <1>8, <2>1, Unchanged DEF Close, CloseSockets, CloseWriter
<1>9. CASE UNCHANGED vars
  BY <1>9, Unchanged DEF vars, appVars, lockVars, writeVars
<1> QED BY <1>1, <1>2, <1>3, <1>4, <1>5, <1>6, <1>7, <1>8, <1>9, TypesOfDispatch DEF Next

----------------------------------------------------------------------------
\* A goroutine that sends keeps r.mu, so the reader's Close waits for it.
LEMMA NextThreads ==
  ASSUME Types, ThreadInv, CloseInv, [Next]_vars
  PROVE  ThreadInv'
<1> USE DEF Types, WriteTypes, ThreadInv, Sending, lockVars, appVars, writeVars
<1>1. ASSUME NEW t \in Writers, Write(t) PROVE ThreadInv'
  <2>1. /\ wrote'[t] = wrote[t] + 1 /\ sample'[t] = <<t, wrote[t] + 1>> /\ pc'[t] = "stored"
        /\ wrote[t] \in Nat
    BY <1>1 DEF Write, Threads
  <2>2. \A u \in Threads \ {t} : pc'[u] = pc[u] /\ wrote'[u] = wrote[u] /\ sample'[u] = sample[u]
    BY <1>1 DEF Write, Threads
  <2>3. UNCHANGED <<cur, todo, holders, closed>>
    BY <1>1 DEF Write
  <2>4. sample'[t] \in Samples
    BY <1>1, <2>1 DEF Write, Samples, Threads
  <2> QED BY <2>1, <2>2, <2>3, <2>4
<1>2. ASSUME NEW s \in Wire, handleDataPacket(s) PROVE ThreadInv'
  <2>1. s \in Samples
    BY <1>2, WireSamples
  <2> QED BY <1>2, <2>1 DEF handleDataPacket, Threads
<1>3. ASSUME NEW t \in Threads, Snapshot(t) \/ Return(t) PROVE ThreadInv'
  BY <1>3 DEF Snapshot, Return
<1>4. ASSUME NEW t \in Threads, NEW r \in Readers, Visit(t, r) PROVE ThreadInv'
  <2>1. CASE Accepts(r, t) /\ ~closed[r]
    BY <1>4, <2>1 DEF Visit, ChanTypes
  <2>2. CASE ~(Accepts(r, t) /\ ~closed[r])
    BY <1>4, <2>2 DEF Visit
  <2> QED BY <2>1, <2>2
<1>5. ASSUME NEW t \in Threads, Send(t) \/ Evict(t) \/ Retry(t) PROVE ThreadInv'
  <2>1. cur[t] \in Readers
    BY <1>5 DEF Send, Evict, Retry
  <2>2. UNCHANGED <<wrote, sample, todo, cur, closed>>
    BY <1>5 DEF Send, Evict, Retry
  <2>3. \/ Leave(t, cur[t])
        \/ holders' = holders /\ \E x \in {"evict", "retry"} : pc' = [pc EXCEPT ![t] = x]
    BY <1>5 DEF Send, Evict, Retry
  <2>4. pc[t] \in {"send", "evict", "retry"}
    BY <1>5 DEF Send, Evict, Retry
  <2> QED BY <2>1, <2>2, <2>3, <2>4 DEF Leave, ChanTypes
<1>6. ASSUME NEW r \in Readers, CloseFlip(r) PROVE ThreadInv'
  BY <1>6 DEF CloseFlip, LockTypes
<1>7. ASSUME UNCHANGED <<wrote, pc, sample, todo, cur, holders, closed>> PROVE ThreadInv'
  BY <1>7
<1>8. ASSUME NEW r \in Readers,
             \/ Receive(r) \/ Unsubscribe(r) \/ CloseLock(r) \/ CloseChan(r)
             \/ MatchLock(r) \/ addSourceGUID(r) \/ \E q \in QoS : NewSubscriber(r, q)
      PROVE  UNCHANGED <<wrote, pc, sample, todo, cur, holders, closed>>
  BY <1>8 DEF Receive, Unsubscribe, CloseLock, CloseChan, MatchLock, addSourceGUID, NewSubscriber
<1>9. ASSUME Close \/ CloseSockets \/ (\E t \in Writers : CloseWriter(t)) \/ UNCHANGED vars
      PROVE  UNCHANGED <<wrote, pc, sample, todo, cur, holders, closed>>
  BY <1>9 DEF Close, CloseSockets, CloseWriter, vars
<1> QED BY <1>1, <1>2, <1>3, <1>4, <1>5, <1>6, <1>7, <1>8, <1>9 DEF Next

\* A reader is flagged closed before its channel is, and only once unsubscribed.
LEMMA NextClose == ASSUME Types, CloseInv, [Next]_vars PROVE CloseInv'
<1> USE DEF Types, AppTypes, LockTypes, CloseInv
<1>1. ASSUME NEW r \in Readers, NEW q \in QoS, NewSubscriber(r, q) PROVE CloseInv'
  BY <1>1 DEF NewSubscriber, lockVars
<1>2. ASSUME NEW r \in Readers, Unsubscribe(r) PROVE CloseInv'
  BY <1>2 DEF Unsubscribe, lockVars
<1>3. ASSUME NEW r \in Readers, CloseLock(r) PROVE CloseInv'
  BY <1>3 DEF CloseLock
<1>4. ASSUME NEW r \in Readers, CloseFlip(r) PROVE CloseInv'
  BY <1>4 DEF CloseFlip
<1>5. ASSUME NEW r \in Readers, CloseChan(r) PROVE CloseInv'
  BY <1>5 DEF CloseChan
<1>6. ASSUME UNCHANGED <<readers, sub, closed, chClosed>> PROVE CloseInv'
  BY <1>6
<1>7. ASSUME NEW t \in Threads,
             \/ Snapshot(t) \/ Send(t) \/ Evict(t) \/ Retry(t) \/ Return(t)
             \/ Write(t) \/ CloseWriter(t) \/ (\E s \in Wire : handleDataPacket(s))
             \/ \E r \in Readers : Visit(t, r)
      PROVE  UNCHANGED <<readers, sub, closed, chClosed>>
  BY <1>7 DEF Snapshot, Send, Evict, Retry, Return, Write, CloseWriter, handleDataPacket, Visit,
              lockVars, appVars
<1>8. ASSUME \/ Close \/ CloseSockets \/ UNCHANGED vars
             \/ \E r \in Readers : Receive(r) \/ MatchLock(r) \/ addSourceGUID(r)
      PROVE  UNCHANGED <<readers, sub, closed, chClosed>>
  BY <1>8 DEF Close, CloseSockets, vars, Receive, MatchLock, addSourceGUID, lockVars, appVars
<1> QED BY <1>1, <1>2, <1>3, <1>4, <1>5, <1>6, <1>7, <1>8 DEF Next, Threads

----------------------------------------------------------------------------
\* Write records its sample for late joiners, and nobody else records one.
LEMMA NextLast == ASSUME Types, LastInv, [Next]_vars PROVE LastInv'
<1> USE DEF Types, WriteTypes, LastInv
<1>1. ASSUME NEW t \in Writers, Write(t) PROVE LastInv'
  <2>1. lastSample' = <<t, wrote[t] + 1>> /\ wrote'[t] = wrote[t] + 1 /\ lastSample' \in Samples
    BY <1>1 DEF Write, Threads, Samples
  <2>2. lastSample' # NoSample
    BY <2>1 DEF Samples
  <2> QED BY <2>1, <2>2
<1>2. ASSUME NEW s \in Wire, handleDataPacket(s) PROVE LastInv'
  BY <1>2 DEF handleDataPacket, Threads
<1>3. ASSUME UNCHANGED <<lastSample, wrote>> PROVE LastInv'
  BY <1>3
<1>4. ASSUME NEW t \in Threads,
             \/ Snapshot(t) \/ Send(t) \/ Evict(t) \/ Retry(t) \/ Return(t) \/ CloseWriter(t)
             \/ \E r \in Readers : Visit(t, r)
      PROVE  UNCHANGED <<lastSample, wrote>>
  BY <1>4 DEF Snapshot, Send, Evict, Retry, Return, CloseWriter, Visit, writeVars
<1>5. ASSUME NEW r \in Readers,
             \/ Receive(r) \/ Unsubscribe(r) \/ CloseLock(r) \/ CloseFlip(r) \/ CloseChan(r)
             \/ MatchLock(r) \/ addSourceGUID(r) \/ \E q \in QoS : NewSubscriber(r, q)
      PROVE  UNCHANGED <<lastSample, wrote>>
  BY <1>5 DEF Receive, Unsubscribe, CloseLock, CloseFlip, CloseChan, MatchLock, addSourceGUID,
              NewSubscriber, writeVars
<1>6. ASSUME Close \/ CloseSockets \/ UNCHANGED vars PROVE UNCHANGED <<lastSample, wrote>>
  BY <1>6 DEF Close, CloseSockets, vars, writeVars
<1> QED BY <1>1, <1>2, <1>3, <1>4, <1>5, <1>6 DEF Next, Threads

\* A sample that comes after all those of its writer keeps the order.
LEMMA AppendOrdered ==
  ASSUME NEW g \in Seq(Samples), NEW d \in BOOLEAN, NEW s \in Samples, Ordered(g, d),
         \A i \in DOMAIN g : g[i][1] = s[1] /\ s[1] \in Writers => g[i][2] <= s[2] /\ (g[i] = s => d)
  PROVE  Ordered(Append(g, s), d)
<1> DEFINE h == Append(g, s)
<1>1. /\ DOMAIN h = 1 .. Len(g) + 1 /\ DOMAIN g = 1 .. Len(g) /\ Len(g) \in Nat
      /\ \A i \in DOMAIN g : h[i] = g[i]
      /\ h[Len(g) + 1] = s
  <2>1. DOMAIN g = 1 .. Len(g) /\ Len(g) \in Nat
    OBVIOUS
  <2>2. DOMAIN h = 1 .. Len(g) + 1
    BY AppendProperties
  <2>3. \A i \in 1 .. Len(g) : h[i] = g[i]
    BY AppendProperties
  <2>4. h[Len(g) + 1] = s
    BY AppendProperties
  <2> QED BY <2>1, <2>2, <2>3, <2>4
<1> HIDE DEF h
<1> SUFFICES ASSUME NEW i \in DOMAIN h, NEW j \in DOMAIN h, i < j, h[i][1] = h[j][1],
                    h[i][1] \in Writers
             PROVE  h[i][2] <= h[j][2] /\ (h[i] = h[j] => d)
  BY DEF Ordered, h
<1>2. i \in DOMAIN g
  BY <1>1
<1>3. CASE j \in DOMAIN g
  BY <1>1, <1>2, <1>3 DEF Ordered
<1>4. CASE j = Len(g) + 1
  BY <1>1, <1>2, <1>4
<1>5. j \in DOMAIN g \/ j = Len(g) + 1
  BY ONLY <1>1, j \in DOMAIN h
<1> QED BY <1>3, <1>4, <1>5

\* A sample put into a channel comes after everything of its writer.
LEMMA PutOrder ==
  ASSUME IInv, NEW t \in Threads, NEW r \in Readers, Sending(t), r = cur[t],
         got' = [got EXCEPT ![r] = Append(@, sample[t])], Leave(t, r),
         UNCHANGED <<qos, wrote, sample, todo, cur>>
  PROVE  OrderInv'
<1> USE DEF IInv, Types, WriteTypes, ChanTypes
<1>1. sample[t] \in Samples /\ sample[t][1] = t /\ (t \in Writers => sample[t] = <<t, wrote[t]>>)
  BY InHand
<1>2. \A x \in Readers \ {r} : got'[x] = got[x]
  OBVIOUS
<1>3. got'[r] = Append(got[r], sample[t])
  OBVIOUS
<1>4. /\ DOMAIN got'[r] = 1 .. Len(got[r]) + 1 /\ DOMAIN got[r] = 1 .. Len(got[r])
      /\ \A i \in DOMAIN got[r] : got'[r][i] = got[r][i]
      /\ got'[r][Len(got[r]) + 1] = sample[t] /\ Len(got[r]) \in Nat
  BY <1>1, <1>3
<1>5. \A x \in Readers, u \in Threads : Ahead(u, x)' => Ahead(u, x) /\ ~(u = t /\ x = r)
  BY DEF Leave, Ahead, Sending, ThreadInv
<1>6. ASSUME NEW x \in Readers PROVE Ordered(got'[x], qos'[x].durable)
  <2>1. qos[r].durable \in BOOLEAN /\ got[r] \in Seq(Samples)
    <3>1. qos[r] \in QoS \/ qos[r] = NoQoS
      BY DEF AppTypes
    <3>2. CASE qos[r] \in QoS
      <4>1. qos[r] \in [policy : {"DropNewest", "DropOldest", "Block"}, durable : BOOLEAN, partition : STRING]
        BY <3>2
      <4> QED BY <4>1
    <3>3. CASE qos[r] = NoQoS
      <4>1. NoQoS.durable = FALSE
        BY ONLY DEF NoQoS
      <4> QED BY <3>3, <4>1
    <3> QED BY <3>1, <3>2, <3>3
  <2>2. Ahead(t, r)
    BY DEF Ahead, Sending
  <2>3. ASSUME NEW i \in DOMAIN got[r], got[r][i][1] = sample[t][1], sample[t][1] \in Writers
        PROVE  got[r][i][2] <= sample[t][2]
    BY <1>1, <2>3 DEF OrderInv
  <2>4. ASSUME NEW i \in DOMAIN got[r], got[r][i] = sample[t], sample[t][1] \in Writers
        PROVE  qos[r].durable
    <3> SUFFICES ASSUME ~qos[r].durable PROVE FALSE
      BY <2>1
    <3>1. \A k \in DOMAIN got[r] : got[r][k] # sample[t]
      BY <1>1, <2>2, <2>4 DEF OrderInv
    <3> QED BY <2>4, <3>1
  <2>5. Ordered(got[r], qos[r].durable)
    BY DEF OrderInv
  <2>6. Ordered(Append(got[r], sample[t]), qos[r].durable)
    BY ONLY <1>1, <2>1, <2>3, <2>4, <2>5, AppendOrdered
  <2>7. CASE x # r
    BY <1>2, <2>7 DEF OrderInv
  <2> QED BY <1>3, <2>6, <2>7
<1>7. \A x \in Readers : \A i \in DOMAIN got'[x] :
        got'[x][i][1] \in Writers => got'[x][i][2] <= wrote'[got'[x][i][1]]
  <2>1. \A x \in Readers \ {r} : \A i \in DOMAIN got'[x] :
          got'[x][i][1] \in Writers => got'[x][i][2] <= wrote'[got'[x][i][1]]
    BY <1>2 DEF OrderInv
  <2>2. \A i \in DOMAIN got[r] :
          got'[r][i][1] \in Writers => got'[r][i][2] <= wrote'[got'[r][i][1]]
    BY <1>4 DEF OrderInv
  <2>3. LET s == got'[r][Len(got[r]) + 1] IN s[1] \in Writers => s[2] <= wrote'[s[1]]
    BY <1>1, <1>4
  <2>4. \A i \in DOMAIN got'[r] : i \in DOMAIN got[r] \/ i = Len(got[r]) + 1
    BY ONLY <1>4
  <2> QED BY <2>1, <2>2, <2>3, <2>4
<1>8. ASSUME NEW x \in Readers, NEW u \in Writers, Ahead(u, x)', ~qos'[x].durable,
             NEW i \in DOMAIN got'[x]
      PROVE  got'[x][i] # sample'[u]
  <2>1. Ahead(u, x) /\ ~(u = t /\ x = r)
    BY <1>5, <1>8 DEF Threads
  <2>2. CASE x # r
    BY <1>2, <1>8, <2>1, <2>2 DEF OrderInv
  <2>3. CASE x = r /\ i \in DOMAIN got[r]
    BY <1>4, <1>8, <2>1, <2>3 DEF OrderInv
  <2>4. CASE x = r /\ i = Len(got[r]) + 1
    <3>1. sample[u][1] = u
      BY <2>1 DEF Ahead, Sending, ThreadInv, Threads
    <3> QED BY <1>1, <1>4, <2>1, <2>4, <3>1
  <2> QED BY <1>4, <1>8, <2>2, <2>3, <2>4
<1> QED BY ONLY <1>6, <1>7, <1>8 DEF OrderInv

\* Goroutines that have a sample in hand do not lose their place in the order.
LEMMA KeepsOrder ==
  ASSUME OrderInv, UNCHANGED <<got, qos, wrote, sample>>,
         \A r \in Readers, t \in Writers : Ahead(t, r)' => Ahead(t, r)
  PROVE  OrderInv'
BY DEF OrderInv

\* What is in a channel is a sample, no newer than its writer's last.
LEMMA GotFields ==
  ASSUME IInv, NEW r \in Readers, NEW i \in DOMAIN got[r]
  PROVE  /\ got[r][i][1] \in Threads /\ got[r][i][2] \in Nat
         /\ got[r][i][1] \in Writers => got[r][i][2] <= wrote[got[r][i][1]]
<1>1. got[r] \in Seq(Samples)
  BY DEF IInv, Types, ChanTypes
<1>2. got[r][i] \in Samples
  BY ONLY <1>1, i \in DOMAIN got[r]
<1>3. got[r][i][1] \in Writers => got[r][i][2] <= wrote[got[r][i][1]]
  BY DEF IInv, OrderInv
<1>4. got[r][i][1] \in Threads /\ got[r][i][2] \in Nat
  <2>1. got[r][i] \in Threads \X (1 .. MaxWrites)
    BY ONLY <1>2 DEF Samples
  <2> QED BY ONLY <2>1, DeliveryAssumption DEF DeliveryAssumption
<1> QED BY <1>3, <1>4

\* Every step keeps the order.
LEMMA NextOrder == ASSUME IInv, [Next]_vars PROVE OrderInv'
<1> USE DEF IInv, Types, lockVars, appVars, writeVars
<1>1. ASSUME NEW t \in Writers, Write(t) PROVE OrderInv'
  <2>1. /\ \A u \in Threads : wrote[u] \in Nat /\ wrote'[u] \in Nat /\ wrote[u] <= wrote'[u]
        /\ wrote'[t] = wrote[t] + 1 /\ sample'[t] = <<t, wrote[t] + 1>>
        /\ \A u \in Threads \ {t} : sample'[u] = sample[u] /\ pc'[u] = pc[u]
    BY <1>1 DEF Write, WriteTypes, Threads
  <2>2. \A r \in Readers : \A i \in DOMAIN got[r] :
          /\ got[r][i][1] \in Threads /\ got[r][i][2] \in Nat
          /\ got[r][i][1] \in Writers => got[r][i][2] <= wrote[got[r][i][1]]
    BY GotFields
  <2>3. \A r \in Readers : \A i \in DOMAIN got[r] :
          got[r][i][1] \in Writers => got[r][i][2] <= wrote'[got[r][i][1]]
    BY ONLY <2>1, <2>2
  <2>4. \A r \in Readers : \A i \in DOMAIN got[r] : got[r][i] # <<t, wrote[t] + 1>>
    BY <2>1, <2>2
  <2>5. \A r \in Readers, u \in Threads \ {t} : Ahead(u, r)' => Ahead(u, r)
    BY <1>1, <2>1 DEF Write, Ahead, Sending
  <2>6. UNCHANGED <<got, qos>>
    BY <1>1 DEF Write
  <2>7. ASSUME NEW r \in Readers, NEW u \in Writers, Ahead(u, r)', ~qos[r].durable
        PROVE  \A i \in DOMAIN got[r] : got[r][i] # sample'[u]
    <3>1. CASE u = t
      BY ONLY <2>1, <2>4, <3>1, r \in Readers
    <3>2. CASE u # t
      <4>1. Ahead(u, r) /\ sample'[u] = sample[u]
        BY ONLY <2>1, <2>5, <2>7, <3>2 DEF Threads
      <4>2. OrderInv
        OBVIOUS
      <4> QED BY ONLY <2>7, <4>1, <4>2 DEF OrderInv
    <3> QED BY <3>1, <3>2
  <2> QED BY <2>3, <2>6, <2>7 DEF OrderInv
<1>2. ASSUME NEW s \in Wire, handleDataPacket(s), s[1] = Rx PROVE OrderInv'
  <2>1. /\ \A u \in Writers : wrote'[u] = wrote[u] /\ sample'[u] = sample[u] /\ pc'[u] = pc[u]
        /\ UNCHANGED <<got, qos, todo, cur>>
    BY <1>2 DEF handleDataPacket, WriteTypes, Threads
  <2>2. \A r \in Readers, u \in Writers : Ahead(u, r)' => Ahead(u, r)
    BY <2>1 DEF Ahead, Sending
  <2>3. OrderInv
    OBVIOUS
  <2> QED BY ONLY <2>1, <2>2, <2>3 DEF OrderInv
<1>3. ASSUME NEW r \in Readers, NEW q \in QoS, NewSubscriber(r, q) PROVE OrderInv'
  <2> DEFINE replay == IF q.durable /\ lastSample # NoSample THEN <<lastSample>> ELSE <<>>
  <2>1. /\ \A x \in Readers \ {r} : got'[x] = got[x] /\ qos'[x] = qos[x]
        /\ got'[r] = replay /\ qos'[r] = q
    BY <1>3 DEF NewSubscriber, ChanTypes, AppTypes
  <2>2. \A i \in DOMAIN replay : q.durable /\ i = 1 /\ replay[i] = lastSample /\ lastSample # NoSample
    OBVIOUS
  <2> HIDE DEF replay
  <2>3. /\ Ordered(replay, q.durable)
        /\ \A i \in DOMAIN replay : replay[i][1] \in Writers => replay[i][2] <= wrote[replay[i][1]]
    BY <2>2 DEF Ordered, LastInv, WriteTypes, Threads
  <2>4. \A x \in Readers, u \in Threads : Ahead(u, x)' <=> Ahead(u, x)
    BY <1>3 DEF NewSubscriber, Ahead, Sending
  <2>5. UNCHANGED <<wrote, sample>>
    BY <1>3 DEF NewSubscriber
  <2>6. \A x \in Readers : Ordered(got'[x], qos'[x].durable)
    BY <2>1, <2>3 DEF OrderInv
  <2>7. \A x \in Readers : \A i \in DOMAIN got'[x] :
          got'[x][i][1] \in Writers => got'[x][i][2] <= wrote'[got'[x][i][1]]
    BY <2>1, <2>3, <2>5 DEF OrderInv
  <2>8. ASSUME NEW x \in Readers, NEW u \in Writers, Ahead(u, x)', ~qos'[x].durable
        PROVE  \A i \in DOMAIN got'[x] : got'[x][i] # sample'[u]
    <3>1. CASE x = r
      BY ONLY <2>1, <2>2, <2>8, <3>1
    <3>2. CASE x # r
      <4>1. Ahead(u, x) /\ ~qos[x].durable /\ got'[x] = got[x] /\ sample'[u] = sample[u]
        BY ONLY <2>1, <2>4, <2>5, <2>8, <3>2 DEF Threads
      <4>2. OrderInv
        OBVIOUS
      <4> QED BY ONLY <4>1, <4>2, x \in Readers, u \in Writers DEF OrderInv
    <3> QED BY <3>1, <3>2
  <2> QED BY <2>6, <2>7, <2>8 DEF OrderInv
<1>4. ASSUME NEW t \in Threads, Snapshot(t) \/ Evict(t) \/ Return(t) PROVE OrderInv'
  <2>1. \A r \in Readers, u \in Threads : Ahead(u, r)' => Ahead(u, r)
    BY <1>4 DEF Snapshot, Evict, Return, Ahead, Sending, WriteTypes
  <2> QED BY <1>4, <2>1, KeepsOrder DEF Threads, Snapshot, Evict, Return
<1>5. ASSUME NEW t \in Threads, NEW x \in Readers, Visit(t, x) PROVE OrderInv'
  <2>1. \A r \in Readers, u \in Threads : Ahead(u, r)' => Ahead(u, r)
    BY <1>5 DEF Visit, Ahead, Sending, WriteTypes
  <2> QED BY <1>5, <2>1, KeepsOrder DEF Visit, Threads
<1>6. ASSUME NEW t \in Threads, Send(t) \/ Retry(t) PROVE OrderInv'
  <2>1. Sending(t) /\ cur[t] \in Readers /\ UNCHANGED <<qos, wrote, sample, todo, cur>>
    BY <1>6, InHand DEF Send, Retry, Sending
  <2>2. CASE Put(t, cur[t]) /\ Leave(t, cur[t]) /\ OwnSample(t)
    BY <2>1, <2>2, PutOrder DEF Put
  <2>3. CASE \/ GiveUp(t, cur[t]) /\ Leave(t, cur[t])
             \/ Put(t, cur[t]) /\ Leave(t, cur[t]) /\ ~OwnSample(t)
             \/ got' = got /\ pc[t] = "send" /\ pc' = [pc EXCEPT ![t] = "evict"]
    <3>1. \A r \in Readers, u \in Threads : Ahead(u, r)' => Ahead(u, r)
      BY <2>1, <2>3 DEF Leave, Ahead, Sending, WriteTypes
    <3>2. got' = got
      BY <2>1, <2>3 DEF GiveUp, Put, ChanTypes
    <3> QED BY <2>1, <3>1, <3>2, KeepsOrder DEF Threads
  <2> QED BY <1>6, <2>2, <2>3 DEF Send, Retry
<1>7. ASSUME UNCHANGED <<got, qos, wrote, sample, pc, todo, cur>> PROVE OrderInv'
  BY <1>7, KeepsOrder DEF Ahead, Sending
<1>8. ASSUME NEW r \in Readers,
             \/ Receive(r) \/ Unsubscribe(r) \/ CloseLock(r) \/ CloseFlip(r) \/ CloseChan(r)
             \/ MatchLock(r) \/ addSourceGUID(r)
      PROVE  UNCHANGED <<got, qos, wrote, sample, pc, todo, cur>>
  BY <1>8 DEF Receive, Unsubscribe, CloseLock, CloseFlip, CloseChan, MatchLock, addSourceGUID
<1>9. ASSUME \/ Close \/ CloseSockets \/ UNCHANGED vars \/ (\E t \in Writers : CloseWriter(t))
             \/ \E s \in Wire : handleDataPacket(s) /\ s[1] # Rx
      PROVE  UNCHANGED <<got, qos, wrote, sample, pc, todo, cur>>
  BY <1>9 DEF Close, CloseSockets, CloseWriter, handleDataPacket, vars
<1> QED BY <1>1, <1>2, <1>3, <1>4, <1>5, <1>6, <1>7, <1>8, <1>9 DEF Next

----------------------------------------------------------------------------
\* What JoinInv says of one reader.
Current(r) == (\E i \in DOMAIN got[r] : got[r][i] = lastSample) \/ Ahead(lastSample[1], r)

\* A reader that has the last sample, or is about to get it, stays so.
LEMMA NextJoin == ASSUME IInv, [Next]_vars PROVE JoinInv'
<1> USE DEF IInv, Types, lockVars, appVars, writeVars
<1>0. ASSUME UNCHANGED lastSample,
             \A r \in Readers : Joined(r)' => Joined(r),
             \A r \in Readers : Joined(r)' /\ Current(r) /\ lastSample # NoSample => Current(r)'
      PROVE  JoinInv'
  BY <1>0 DEF JoinInv, Current
<1>1. ASSUME NEW t \in Writers, Write(t) PROVE JoinInv'
  BY <1>1 DEF Write, JoinInv, Ahead, WriteTypes, Threads
<1>2. ASSUME NEW r \in Readers, NEW q \in QoS, NewSubscriber(r, q) PROVE JoinInv'
  <2>1. /\ \A x \in Readers \ {r} : Joined(x)' <=> Joined(x)
        /\ \A x \in Readers \ {r} : got'[x] = got[x]
        /\ \A x \in Readers, u \in Threads : Ahead(u, x)' <=> Ahead(u, x)
        /\ UNCHANGED lastSample /\ qos'[r] = q
    <3>1. /\ UNCHANGED <<lastSample, pc, todo, cur, lost>>
          /\ got' = [got EXCEPT ![r] = IF q.durable /\ lastSample # NoSample THEN <<lastSample>> ELSE <<>>]
          /\ qos' = [qos EXCEPT ![r] = q] /\ sub' = [sub EXCEPT ![r] = "open"]
      BY <1>2 DEF NewSubscriber
    <3>2. \A x \in Readers \ {r} : got'[x] = got[x] /\ qos'[x] = qos[x] /\ sub'[x] = sub[x]
      BY <3>1 DEF ChanTypes, AppTypes
    <3>3. \A x \in Readers \ {r} : Joined(x)' <=> Joined(x)
      BY <3>1, <3>2 DEF Joined
    <3>4. \A x \in Readers, u \in Threads : Ahead(u, x)' <=> Ahead(u, x)
      BY <3>1 DEF Ahead, Sending
    <3> QED BY <3>1, <3>2, <3>3, <3>4 DEF AppTypes
  <2>2. q.durable /\ lastSample # NoSample => got'[r] = <<lastSample>>
    BY <1>2 DEF NewSubscriber, ChanTypes
  <2>3. q.durable /\ lastSample # NoSample => \E i \in DOMAIN got'[r] : got'[r][i] = lastSample
    BY <2>2
  <2>4. lastSample # NoSample => lastSample[1] \in Threads
    BY DEF LastInv, Threads
  <2>5. ASSUME lastSample # NoSample, NEW x \in Readers, Joined(x)' PROVE Current(x)'
    <3>1. CASE x = r
      <4>1. q.durable
        BY <2>1, <2>5, <3>1 DEF Joined
      <4> QED BY <2>1, <2>3, <2>5, <3>1, <4>1 DEF Current
    <3>2. CASE x # r
      <4>1. Joined(x)
        BY <2>1, <2>5, <3>2
      <4>2. Current(x)
        BY <2>5, <4>1 DEF JoinInv, Current
      <4> QED BY <2>1, <2>4, <2>5, <3>2, <4>2 DEF Current
    <3> QED BY <3>1, <3>2
  <2> QED BY <2>1, <2>5 DEF JoinInv, Current
<1>3. ASSUME NEW t \in Threads, Snapshot(t) \/ Evict(t) \/ Return(t) PROVE JoinInv'
  <2>1. UNCHANGED <<lastSample, got, lost, sub, qos>>
    BY <1>3 DEF Snapshot, Evict, Return
  <2>2. ASSUME NEW r \in Readers, NEW u \in Threads, sub[r] = "open", Ahead(u, r)
        PROVE  Ahead(u, r)'
    <3>1. r \in readers
      BY <2>2 DEF CloseInv
    <3>2. CASE Snapshot(t)
      BY <2>2, <3>1, <3>2 DEF Snapshot, Ahead, Sending, WriteTypes
    <3>3. CASE Evict(t)
      BY <2>2, <3>3 DEF Evict, Ahead, Sending, WriteTypes
    <3>4. CASE Return(t)
      BY <2>2, <3>4 DEF Return, Ahead, Sending, WriteTypes
    <3> QED BY <1>3, <3>2, <3>3, <3>4
  <2>3. lastSample # NoSample => lastSample[1] \in Threads
    BY DEF LastInv, Threads
  <2> QED BY <1>0, <2>1, <2>2, <2>3 DEF Joined, Current
<1>4. ASSUME NEW t \in Threads, NEW x \in Readers, Visit(t, x) PROVE JoinInv'
  <2>1. UNCHANGED <<lastSample, got, lost, sub, qos>>
    BY <1>4 DEF Visit
  <2>2. ASSUME NEW r \in Readers, Joined(r), NEW u \in Writers, Ahead(u, r)
        PROVE  Ahead(u, r)'
    <3>1. u = t /\ r = x => Accepts(x, t) /\ ~closed[x]
      <4>1. sample[u][1] = u
        <5>1. pc[u] # "idle"
          BY ONLY <2>2 DEF Ahead, Sending
        <5>2. ThreadInv /\ u \in Threads
          BY DEF Threads
        <5> QED BY ONLY <5>1, <5>2 DEF ThreadInv
      <4>2. u # Rx
        OBVIOUS
      <4>3. Partition[u] = qos[r].partition /\ sub[r] = "open"
        BY <2>2 DEF Joined
      <4>4. ~closed[r]
        BY <4>3 DEF CloseInv
      <4> QED BY ONLY <4>1, <4>2, <4>3, <4>4 DEF Accepts
    <3>2. /\ pc[t] = "dispatch" /\ todo' = [todo EXCEPT ![t] = @ \ {x}]
          /\ IF Accepts(x, t) /\ ~closed[x]
             THEN pc' = [pc EXCEPT ![t] = "send"] /\ cur' = [cur EXCEPT ![t] = x]
             ELSE UNCHANGED <<pc, cur>>
      BY <1>4 DEF Visit
    <3>3. \A v \in {t, u} : v \in DOMAIN pc /\ v \in DOMAIN todo /\ v \in DOMAIN cur
      BY DEF WriteTypes, Threads
    <3>4. CASE u # t
      <4>1. pc'[u] = pc[u] /\ todo'[u] = todo[u] /\ cur'[u] = cur[u]
        BY ONLY <3>2, <3>3, <3>4
      <4> QED BY ONLY <2>2, <4>1 DEF Ahead, Sending
    <3>5. CASE u = t /\ r # x
      <4>1. r \in todo[t] /\ todo'[t] = todo[t] \ {x} /\ pc'[t] \in {"send", "dispatch"}
        BY ONLY <2>2, <3>2, <3>3, <3>5 DEF Ahead, Sending
      <4> QED BY ONLY <3>5, <4>1 DEF Ahead, Sending
    <3>6. CASE u = t /\ r = x
      <4>1. pc'[t] = "send" /\ cur'[t] = x
        BY ONLY <3>1, <3>2, <3>3, <3>6
      <4> QED BY ONLY <3>6, <4>1 DEF Ahead, Sending
    <3> QED BY <3>4, <3>5, <3>6
  <2>3. lastSample # NoSample => lastSample[1] \in Writers
    BY DEF LastInv
  <2> QED BY <1>0, <2>1, <2>2, <2>3 DEF Joined, Current
<1>5. ASSUME NEW t \in Threads, Send(t) \/ Retry(t) PROVE JoinInv'
  <2>1. /\ Sending(t) /\ cur[t] \in Readers
        /\ t \in Writers => sample[t] = <<t, wrote[t]>> /\ OwnSample(t)
        /\ UNCHANGED <<lastSample, qos, wrote, sample, todo, cur, sub>>
    BY <1>5, InHand DEF Send, Retry, Sending, OwnSample
  <2>2. lastSample # NoSample => /\ lastSample[1] \in Threads /\ lastSample[1] \in Writers
                                 /\ lastSample = <<lastSample[1], wrote[lastSample[1]]>>
    BY DEF LastInv, Threads, WriteTypes, Samples
  <2>3. CASE Put(t, cur[t]) /\ Leave(t, cur[t])
    <3>1. \A r \in Readers : \A i \in DOMAIN got[r] : i \in DOMAIN got'[r] /\ got'[r][i] = got[r][i]
      <4>1. ASSUME NEW r \in Readers PROVE got'[r] = got[r] \/ got'[r] = Append(got[r], sample[t])
        BY <2>3 DEF Put, ChanTypes
      <4>2. ASSUME NEW g \in Seq(Samples), NEW s \in Samples, NEW i \in DOMAIN g
            PROVE  i \in DOMAIN Append(g, s) /\ Append(g, s)[i] = g[i]
        BY ONLY <4>2, AppendProperties
      <4>3. sample[t] \in Samples /\ \A r \in Readers : got[r] \in Seq(Samples)
        BY <2>1, InHand DEF ChanTypes
      <4> QED BY <4>1, <4>2, <4>3
    <3>2. ASSUME t \in Writers PROVE \E i \in DOMAIN got'[cur[t]] : got'[cur[t]][i] = sample[t]
      <4>1. got'[cur[t]] = Append(got[cur[t]], sample[t]) /\ got[cur[t]] \in Seq(Samples)
        BY <2>1, <2>3, <3>2 DEF Put, ChanTypes
      <4>2. /\ Len(got[cur[t]]) + 1 \in DOMAIN Append(got[cur[t]], sample[t])
            /\ Append(got[cur[t]], sample[t])[Len(got[cur[t]]) + 1] = sample[t]
        <5>1. sample[t] \in Samples
          BY <2>1, InHand
        <5> QED BY <4>1, <5>1
      <4> QED BY <4>1, <4>2
    <3>3. \A r \in Readers, u \in Threads : Ahead(u, r) /\ ~(u = t /\ r = cur[t]) => Ahead(u, r)'
      BY <2>1, <2>3 DEF Leave, Ahead, Sending, WriteTypes
    <3>4. ASSUME NEW r \in Readers, Current(r), lastSample # NoSample PROVE Current(r)'
      <4>1. CASE \E i \in DOMAIN got[r] : got[r][i] = lastSample
        BY <2>1, <3>1, <4>1 DEF Current
      <4>2. CASE lastSample[1] = t /\ r = cur[t]
        BY <2>1, <2>2, <3>2, <3>4, <4>2 DEF Current
      <4>3. CASE Ahead(lastSample[1], r) /\ ~(lastSample[1] = t /\ r = cur[t])
        BY <2>1, <2>2, <3>3, <3>4, <4>3 DEF Current
      <4> QED BY <3>4, <4>1, <4>2, <4>3 DEF Current
    <3>5. \A r \in Readers : Joined(r)' => Joined(r)
      BY <2>1, <2>3 DEF Joined, Put
    <3> QED BY <1>0, <2>1, <3>4, <3>5
  <2>4. CASE GiveUp(t, cur[t]) /\ Leave(t, cur[t])
    <3>1. (t \in Writers => lost'[cur[t]] # {}) /\ got' = got /\ \A r \in Readers : lost'[r] = {} => lost[r] = {}
      BY <2>1, <2>4 DEF GiveUp, ChanTypes
    <3>2. \A r \in Readers, u \in Threads : Ahead(u, r) /\ ~(u = t /\ r = cur[t]) => Ahead(u, r)'
      BY <2>1, <2>4 DEF Leave, Ahead, Sending, WriteTypes
    <3> QED BY <1>0, <2>1, <2>2, <3>1, <3>2 DEF Joined, Current
  <2>5. CASE pc[t] = "send" /\ pc' = [pc EXCEPT ![t] = "evict"] /\ UNCHANGED <<got, lost>>
    <3>1. \A r \in Readers, u \in Threads : Ahead(u, r) => Ahead(u, r)'
      BY <2>1, <2>5 DEF Ahead, Sending, WriteTypes
    <3> QED BY <1>0, <2>1, <2>2, <2>5, <3>1 DEF Joined, Current
  <2> QED BY <1>5, <2>3, <2>4, <2>5 DEF Send, Retry
<1>6. ASSUME UNCHANGED <<lastSample, got, lost, qos, pc, todo, cur>>,
             \A r \in Readers : sub'[r] = "open" => sub[r] = "open"
      PROVE  JoinInv'
  BY <1>0, <1>6 DEF Joined, Current, Ahead, Sending
<1>7. ASSUME NEW r \in Readers,
             \/ Receive(r) \/ Unsubscribe(r) \/ CloseLock(r) \/ CloseFlip(r) \/ CloseChan(r)
             \/ MatchLock(r) \/ addSourceGUID(r)
      PROVE  /\ UNCHANGED <<lastSample, got, lost, qos, pc, todo, cur>>
             /\ \A x \in Readers : sub'[x] = "open" => sub[x] = "open"
  BY <1>7 DEF Receive, Unsubscribe, CloseLock, CloseFlip, CloseChan, MatchLock, addSourceGUID, AppTypes
<1>8. ASSUME \/ Close \/ CloseSockets \/ UNCHANGED vars \/ (\E t \in Writers : CloseWriter(t))
             \/ \E s \in Wire : handleDataPacket(s) /\ s[1] # Rx
      PROVE  UNCHANGED <<lastSample, got, lost, qos, pc, todo, cur, sub>>
  BY <1>8 DEF Close, CloseSockets, CloseWriter, handleDataPacket, vars
<1>9. ASSUME NEW s \in Wire, handleDataPacket(s), s[1] = Rx PROVE JoinInv'
  <2>1. UNCHANGED <<lastSample, got, lost, sub, qos>>
    BY <1>9 DEF handleDataPacket
  <2>2. \A r \in Readers, u \in Writers : Ahead(u, r) => Ahead(u, r)'
    BY <1>9 DEF handleDataPacket, Ahead, Sending, WriteTypes, Threads
  <2>3. lastSample # NoSample => lastSample[1] \in Writers
    BY DEF LastInv
  <2> QED BY <1>0, <2>1, <2>2, <2>3 DEF Joined, Current
<1> QED BY <1>1, <1>2, <1>3, <1>4, <1>5, <1>6, <1>7, <1>8, <1>9 DEF Next

----------------------------------------------------------------------------
\* The invariant is inductive.
LEMMA Inductive == IInv /\ [Next]_vars => IInv'
BY NextTypes, NextThreads, NextClose, NextLast, NextOrder, NextJoin DEF IInv

\* It implies the properties.
LEMMA Implied == IInv => TypeOK /\ NoSendOnClosed /\ InOrder /\ JoinersCurrent
<1> SUFFICES ASSUME IInv PROVE TypeOK /\ NoSendOnClosed /\ InOrder /\ JoinersCurrent
  OBVIOUS
<1> USE DEF IInv, Types
<1>1. TypeOK
  BY DEF TypeOK, AppTypes, LockTypes, WriteTypes, ChanTypes
<1>2. NoSendOnClosed
  BY DEF NoSendOnClosed, ThreadInv, CloseInv, Sending
<1>3. InOrder
  BY DEF InOrder, OrderInv, Ordered
<1>4. JoinersCurrent
  <2> SUFFICES ASSUME \A t \in Writers : pc[t] = "idle", \E t \in Writers : wrote[t] > 0,
                      NEW r \in Readers, Joined(r)
               PROVE  \E t \in Writers : wrote[t] > 0 /\ <<t, wrote[t]>> \in {got[r][i] : i \in DOMAIN got[r]}
    BY DEF JoinersCurrent, Joined
  <2> DEFINE t == lastSample[1]
  <2>1. lastSample # NoSample
    <3>1. PICK v \in Writers : wrote[v] > 0
      OBVIOUS
    <3>2. LastInv
      OBVIOUS
    <3> QED BY ONLY <3>1, <3>2 DEF LastInv
  <2>2. t \in Writers /\ lastSample = <<t, wrote[t]>> /\ wrote[t] > 0
    BY <2>1 DEF LastInv, WriteTypes, Samples
  <2>3. \E i \in DOMAIN got[r] : got[r][i] = lastSample
    BY <2>1, <2>2 DEF JoinInv, Ahead, Sending
  <2> QED BY <2>2, <2>3
<1> QED BY <1>1, <1>2, <1>3, <1>4

\* Every variable keeps its type and no channel grows past its capacity, whatever
\* the writers, readers and bounds.
THEOREM TypeCorrect == Spec => []TypeOK
BY InitIInv, Inductive, Implied, PTL DEF Spec

\* deliverToReader never sends on a channel that Close has closed: r.mu and the
\* flag protect the send for any number of writers and readers.
THEOREM SendsAreSafe == Spec => []NoSendOnClosed
BY InitIInv, Inductive, Implied, PTL DEF Spec

\* The samples of a writer of the participant go into every channel in the order of
\* its Writes, and for a Volatile reader once, whatever DATA arrives meanwhile, in
\* whatever order and however often.
THEOREM DeliveredInOrder == Spec => []InOrder
BY InitIInv, Inductive, Implied, PTL DEF Spec

\* A TransientLocal subscriber is not left without the current value by a race
\* between newSubscriberLocked and Write.
THEOREM LateJoinersCurrent == Spec => []JoinersCurrent
BY InitIInv, Inductive, Implied, PTL DEF Spec
=============================================================================
