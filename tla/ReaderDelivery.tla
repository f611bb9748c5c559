-------------------------- MODULE ReaderDelivery --------------------------
(***************************************************************************)
(* How one RTPS participant delivers samples of a topic to its own readers: *)
(* dispatchToReaders and deliverToReader of rtps/participant.go, run by     *)
(* every local writer's Write and by the receive loop, against subscribers  *)
(* that are created, read, unsubscribed and closed, SEDP matches and the    *)
(* participant's Close.                                                     *)
(*                                                                          *)
(* p.mu is held for one step at a time and is left implicit.  r.mu is the   *)
(* Go RWMutex: holders are the goroutines that hold it for reading, and     *)
(* while somebody waits to lock it nobody new may.  A writer's w.mu is held *)
(* from its Write to its return, so a writer is one goroutine.              *)
(***************************************************************************)
EXTENDS Integers, Sequences, FiniteSets

CONSTANTS
  Writers,    \* the participant's own writers of the topic
  Rx,         \* the receive loop, which dispatches a remote writer's samples
  Readers,    \* the subscribers the application may create
  QoS,        \* the QoS a subscriber may ask for: a BackPressurePolicy, whether
              \* its durability is TransientLocal, and its partition
  Partition,  \* the partition of each writer, the remote one (Rx) included
  Depth,      \* the capacity of a reader's channel
  MaxWrites,  \* bound: samples per writer, and DATA the receive loop handles
  NoSample

Threads == Writers \cup {Rx}

ASSUME DeliveryAssumption ==
  /\ Rx \notin Writers
  /\ QoS \subseteq [policy : {"DropNewest", "DropOldest", "Block"}, durable : BOOLEAN,
             partition : STRING]
  /\ Partition \in [Threads -> STRING]
  /\ Depth \in Nat \ {0} /\ MaxWrites \in Nat
  /\ NoSample \notin Threads \X (1 .. MaxWrites)

VARIABLES
  readers,     \* p.readers
  qos,         \* r.qos, NoQoS before the reader exists
  lastSample,  \* p.lastSample of the topic
  wrote,       \* how many samples each writer has written, and Rx has received
  pc,          \* where each goroutine is in Write / dispatchToReaders
  sample,      \* the sample it dispatches
  todo,        \* the readers of its snapshot it has not come to yet
  cur,         \* the reader it is delivering to
  ch,          \* r.ch
  closed,      \* r.closed
  chClosed,    \* whether r.ch has been closed
  holders,     \* who holds r.mu for reading
  waiting,     \* who waits to lock r.mu for writing: "close", "match"
  matched,     \* whether r.sources holds the remote writer
  sub,         \* the application's view: new, open, unsub, closing, locked, closed
  pstate,      \* the participant: open, closing, closed
  wclosed,     \* the writers that are closed
  got,         \* history: what of the own writers has been put into each r.ch, in order
  lost         \* history: the new samples of theirs deliverToReader gave up on

vars == <<readers, qos, lastSample, wrote, pc, sample, todo, cur, ch, closed, chClosed, holders,
          waiting, matched, sub, pstate, wclosed, got, lost>>
writeVars  == <<wrote, pc, sample, todo, cur, lastSample>>
lockVars   == <<closed, chClosed, waiting, matched>>
appVars    == <<sub, pstate, wclosed, readers, qos>>

NoQoS == [policy |-> "none", durable |-> FALSE, partition |-> ""]

Samples == Threads \X (1 .. MaxWrites)

Init ==
  /\ readers = {} /\ lastSample = NoSample /\ qos = [r \in Readers |-> NoQoS]
  /\ wrote = [t \in Threads |-> 0]
  /\ pc = [t \in Threads |-> "idle"] /\ sample = [t \in Threads |-> NoSample]
  /\ todo = [t \in Threads |-> {}] /\ cur = [t \in Threads |-> NoSample]
  /\ ch = [r \in Readers |-> <<>>] /\ holders = [r \in Readers |-> {}]
  /\ closed = [r \in Readers |-> FALSE] /\ chClosed = [r \in Readers |-> FALSE]
  /\ waiting = [r \in Readers |-> {}] /\ matched = [r \in Readers |-> FALSE]
  /\ sub = [r \in Readers |-> "new"] /\ pstate = "open" /\ wclosed = {}
  /\ got = [r \in Readers |-> <<>>] /\ lost = [r \in Readers |-> {}]

----------------------------------------------------------------------------
\* A bug for the checks: the sample is not recorded for late joiners.
WriteUncached(t) ==
  /\ t \notin wclosed /\ pc[t] = "idle" /\ wrote[t] < MaxWrites
  /\ wrote' = [wrote EXCEPT ![t] = @ + 1]
  /\ sample' = [sample EXCEPT ![t] = <<t, wrote[t] + 1>>]
  /\ pc' = [pc EXCEPT ![t] = "stored"]
  /\ UNCHANGED <<lastSample, todo, cur, ch, got, lost, holders, lockVars, appVars>>

\* Write, up to lastSample.Store.
Write(t) ==
  /\ t \notin wclosed /\ pc[t] = "idle" /\ wrote[t] < MaxWrites
  /\ wrote' = [wrote EXCEPT ![t] = @ + 1]
  /\ sample' = [sample EXCEPT ![t] = <<t, wrote[t] + 1>>]
  /\ lastSample' = <<t, wrote[t] + 1>>
  /\ pc' = [pc EXCEPT ![t] = "stored"]
  /\ UNCHANGED <<todo, cur, ch, got, lost, holders, lockVars, appVars>>

\* A bug for the checks: a datagram of the participant's own, looped back by
\* multicast, is dispatched again.
handleDataPacketLoops(s) ==
  /\ pc[Rx] = "idle" /\ pstate # "closed"
  /\ sample' = [sample EXCEPT ![Rx] = s]
  /\ wrote' = [wrote EXCEPT ![Rx] = IF s[1] = Rx THEN @ + 1 ELSE @]
  /\ pc' = [pc EXCEPT ![Rx] = "stored"]
  /\ UNCHANGED <<lastSample, todo, cur, ch, got, lost, holders, lockVars, appVars>>

\* handleDataPacket for a DATA from the wire: one of the remote writer, which is
\* dispatched whatever came before (record's result is not used), or one of the
\* participant's own, looped back by multicast and ignored.
handleDataPacket(s) ==
  /\ pc[Rx] = "idle" /\ pstate # "closed"
  /\ IF s[1] = Rx
     THEN /\ sample' = [sample EXCEPT ![Rx] = s]
          /\ wrote' = [wrote EXCEPT ![Rx] = @ + 1]
          /\ pc' = [pc EXCEPT ![Rx] = "stored"]
     ELSE UNCHANGED <<sample, wrote, pc>>
  /\ UNCHANGED <<lastSample, todo, cur, ch, got, lost, holders, lockVars, appVars>>

\* The DATA that may arrive: any sample of the remote writer, in any order and any
\* number of times, and what the participant's own writers have sent.
Wire == {s \in {Rx} \X (1 .. MaxWrites) : wrote[Rx] < MaxWrites}
          \cup {s \in Writers \X (1 .. MaxWrites) : s[2] <= wrote[s[1]]}

\* dispatchToReaders: the readers are snapshot under p.mu ...
Snapshot(t) ==
  /\ pc[t] = "stored"
  /\ pc' = [pc EXCEPT ![t] = "dispatch"]
  /\ todo' = [todo EXCEPT ![t] = readers]
  /\ UNCHANGED <<lastSample, wrote, sample, cur, ch, got, lost, holders, lockVars, appVars>>

\* ... and visited in map order.  Partitions are compared for own writers only:
\* a remote writer is in r.sources only if SEDP has compared them.
Accepts(r, t) ==
  IF sample[t][1] = Rx THEN matched[r] ELSE Partition[sample[t][1]] = qos[r].partition

\* acceptsSource and the entry of deliverToReader, which lock r.mu for reading.
Visit(t, r) ==
  /\ pc[t] = "dispatch" /\ r \in todo[t] /\ waiting[r] = {}
  /\ todo' = [todo EXCEPT ![t] = @ \ {r}]
  /\ IF Accepts(r, t) /\ ~closed[r]
     THEN /\ holders' = [holders EXCEPT ![r] = @ \cup {t}]
          /\ pc' = [pc EXCEPT ![t] = "send"]
          /\ cur' = [cur EXCEPT ![t] = r]
     ELSE UNCHANGED <<holders, pc, cur>>
  /\ UNCHANGED <<lastSample, wrote, sample, ch, got, lost, lockVars, appVars>>

\* A bug for the checks: one sample too many is queued.
RoomOffByOne(r) == Len(ch[r]) <= Depth

Room(r) == Len(ch[r]) < Depth

\* The sample comes from a writer of this participant.
OwnSample(t) == sample[t][1] \in Writers

Put(t, r) ==
  /\ ch' = [ch EXCEPT ![r] = Append(@, sample[t])]
  /\ got' = [got EXCEPT ![r] = IF OwnSample(t) THEN Append(@, sample[t]) ELSE @]
  /\ UNCHANGED lost

GiveUp(t, r) ==
  /\ lost' = [lost EXCEPT ![r] = IF OwnSample(t) THEN @ \cup {sample[t]} ELSE @]
  /\ UNCHANGED <<ch, got>>

\* A bug for the checks: deliverToReader returns without unlocking r.mu.
LeaveLocked(t, r) ==
  /\ pc' = [pc EXCEPT ![t] = "dispatch"]
  /\ UNCHANGED holders

\* deliverToReader returns and unlocks r.mu.
Leave(t, r) ==
  /\ holders' = [holders EXCEPT ![r] = @ \ {t}]
  /\ pc' = [pc EXCEPT ![t] = "dispatch"]

\* The first select (or, for Block, the send) of deliverToReader.
Send(t) ==
  LET r == cur[t]
  IN  /\ pc[t] = "send"
      /\ \/ Room(r) /\ Put(t, r) /\ Leave(t, r)
         \/ ~Room(r) /\ qos[r].policy = "DropNewest" /\ GiveUp(t, r) /\ Leave(t, r)
         \/ /\ ~Room(r) /\ qos[r].policy = "DropOldest"
            /\ pc' = [pc EXCEPT ![t] = "evict"]
            /\ UNCHANGED <<ch, got, lost, holders>>
      /\ UNCHANGED <<lastSample, wrote, sample, todo, cur, lockVars, appVars>>

\* DropOldest: take one sample out, if there is one ...
Evict(t) ==
  /\ pc[t] = "evict"
  /\ ch' = [ch EXCEPT ![cur[t]] = IF @ = <<>> THEN @ ELSE Tail(@)]
  /\ pc' = [pc EXCEPT ![t] = "retry"]
  /\ UNCHANGED <<lastSample, wrote, sample, todo, cur, got, lost, holders, lockVars, appVars>>

\* ... and try again, once.
Retry(t) ==
  LET r == cur[t]
  IN  /\ pc[t] = "retry"
      /\ IF Room(r) THEN Put(t, r) ELSE GiveUp(t, r)
      /\ Leave(t, r)
      /\ UNCHANGED <<lastSample, wrote, sample, todo, cur, lockVars, appVars>>

\* dispatchToReaders, and with it Write, returns.
Return(t) ==
  /\ pc[t] = "dispatch" /\ todo[t] = {}
  /\ pc' = [pc EXCEPT ![t] = "idle"]
  /\ UNCHANGED <<lastSample, wrote, sample, todo, cur, ch, got, lost, holders, lockVars, appVars>>

----------------------------------------------------------------------------
\* newSubscriberLocked, under p.mu: register, then replay the last sample.
NewSubscriber(r, q) ==
  LET replay == IF q.durable /\ lastSample # NoSample THEN <<lastSample>> ELSE <<>>
  IN  /\ sub[r] = "new" /\ pstate = "open"
      /\ sub' = [sub EXCEPT ![r] = "open"] /\ qos' = [qos EXCEPT ![r] = q]
      /\ readers' = readers \cup {r}
      /\ ch' = [ch EXCEPT ![r] = replay] /\ got' = [got EXCEPT ![r] = replay]
      /\ UNCHANGED <<writeVars, lost, holders, lockVars, pstate, wclosed>>

\* The application takes a sample from C().
Receive(r) ==
  /\ sub[r] # "new" /\ ch[r] # <<>>
  /\ ch' = [ch EXCEPT ![r] = Tail(@)]
  /\ UNCHANGED <<writeVars, got, lost, holders, lockVars, appVars>>

Unsubscribe(r) ==
  /\ sub[r] = "open"
  /\ sub' = [sub EXCEPT ![r] = "unsub"] /\ readers' = readers \ {r}
  /\ UNCHANGED <<writeVars, ch, got, lost, holders, lockVars, qos, pstate, wclosed>>

\* Close after Unsubscribe: ask for r.mu ...
CloseLock(r) ==
  /\ sub[r] = "unsub"
  /\ sub' = [sub EXCEPT ![r] = "closing"]
  /\ waiting' = [waiting EXCEPT ![r] = @ \cup {"close"}]
  /\ UNCHANGED <<writeVars, ch, got, lost, holders, closed, chClosed, matched, readers, qos, pstate, wclosed>>

\* A bug for the checks: Close flips closed without r.mu.
CloseFlipUnlocked(r) ==
  /\ sub[r] = "closing"
  /\ closed' = [closed EXCEPT ![r] = TRUE]
  /\ waiting' = [waiting EXCEPT ![r] = @ \ {"close"}]
  /\ sub' = [sub EXCEPT ![r] = "locked"]
  /\ UNCHANGED <<writeVars, ch, got, lost, holders, chClosed, matched, readers, qos, pstate, wclosed>>

\* ... flip closed under it ...
CloseFlip(r) ==
  /\ sub[r] = "closing" /\ holders[r] = {}
  /\ closed' = [closed EXCEPT ![r] = TRUE]
  /\ waiting' = [waiting EXCEPT ![r] = @ \ {"close"}]
  /\ sub' = [sub EXCEPT ![r] = "locked"]
  /\ UNCHANGED <<writeVars, ch, got, lost, holders, chClosed, matched, readers, qos, pstate, wclosed>>

\* ... and close the channel.
CloseChan(r) ==
  /\ sub[r] = "locked"
  /\ chClosed' = [chClosed EXCEPT ![r] = TRUE]
  /\ sub' = [sub EXCEPT ![r] = "closed"]
  /\ UNCHANGED <<writeVars, ch, got, lost, holders, closed, waiting, matched, readers, qos, pstate, wclosed>>

\* SEDP matches the remote writer (onRemoteWriter, addSourceGUID): readerByEID
\* finds the reader, then r.mu is locked.
MatchLock(r) ==
  /\ r \in readers /\ ~matched[r] /\ "match" \notin waiting[r]
  /\ Partition[Rx] = qos[r].partition
  /\ waiting' = [waiting EXCEPT ![r] = @ \cup {"match"}]
  /\ UNCHANGED <<writeVars, ch, got, lost, holders, closed, chClosed, matched, appVars>>

addSourceGUID(r) ==
  /\ "match" \in waiting[r] /\ holders[r] = {}
  /\ matched' = [matched EXCEPT ![r] = TRUE]
  /\ waiting' = [waiting EXCEPT ![r] = @ \ {"match"}]
  /\ UNCHANGED <<writeVars, ch, got, lost, holders, closed, chClosed, appVars>>

\* participant.Close: no new endpoints, then every writer (w.mu), then the sockets.
Close ==
  /\ pstate = "open"
  /\ pstate' = "closing"
  /\ UNCHANGED <<writeVars, ch, got, lost, holders, lockVars, sub, wclosed, readers, qos>>

CloseWriter(t) ==
  /\ pstate = "closing" /\ t \notin wclosed /\ pc[t] = "idle"
  /\ wclosed' = wclosed \cup {t}
  /\ UNCHANGED <<writeVars, ch, got, lost, holders, lockVars, sub, pstate, readers, qos>>

CloseSockets ==
  /\ pstate = "closing" /\ Writers \subseteq wclosed
  /\ pstate' = "closed"
  /\ UNCHANGED <<writeVars, ch, got, lost, holders, lockVars, sub, wclosed, readers, qos>>

dispatch(t) == Snapshot(t) \/ (\E r \in Readers : Visit(t, r)) \/ Send(t) \/ Evict(t) \/ Retry(t) \/ Return(t)

Next ==
  \/ \E t \in Writers : Write(t)
  \/ \E s \in Wire : handleDataPacket(s)
  \/ \E t \in Threads : Snapshot(t)
  \/ \E t \in Threads, r \in Readers : Visit(t, r)
  \/ \E t \in Threads : Send(t)
  \/ \E t \in Threads : Evict(t)
  \/ \E t \in Threads : Retry(t)
  \/ \E t \in Threads : Return(t)
  \/ \E r \in Readers, q \in QoS : NewSubscriber(r, q)
  \/ \E r \in Readers : Receive(r)
  \/ \E r \in Readers : Unsubscribe(r)
  \/ \E r \in Readers : CloseLock(r)
  \/ \E r \in Readers : CloseFlip(r)
  \/ \E r \in Readers : CloseChan(r)
  \/ \E r \in Readers : MatchLock(r)
  \/ \E r \in Readers : addSourceGUID(r)
  \/ Close
  \/ \E t \in Writers : CloseWriter(t)
  \/ CloseSockets

Spec == Init /\ [][Next]_vars

\* Goroutines that can run do run, and a Close once called is carried on.  The
\* application need not read its channels.
Fairness ==
  /\ \A t \in Threads : WF_vars(dispatch(t))
  /\ \A r \in Readers : WF_vars(CloseFlip(r)) /\ WF_vars(CloseChan(r)) /\ WF_vars(addSourceGUID(r))
  /\ \A t \in Writers : WF_vars(CloseWriter(t))
  /\ WF_vars(CloseSockets)

FairSpec == Spec /\ Fairness

----------------------------------------------------------------------------
\* The variables have their types; no channel holds more than its capacity.
TypeOK ==
  /\ qos \in [Readers -> QoS \cup {NoQoS}]
  /\ readers \subseteq Readers /\ wclosed \subseteq Writers
  /\ lastSample \in Samples \cup {NoSample} /\ wrote \in [Threads -> 0 .. MaxWrites]
  /\ pc \in [Threads -> {"idle", "stored", "dispatch", "send", "evict", "retry"}]
  /\ sample \in [Threads -> Samples \cup {NoSample}]
  /\ todo \in [Threads -> SUBSET Readers] /\ cur \in [Threads -> Readers \cup {NoSample}]
  /\ \A r \in Readers : ch[r] \in Seq(Samples) /\ got[r] \in Seq(Samples) /\ Len(ch[r]) <= Depth
  /\ holders \in [Readers -> SUBSET Threads] /\ waiting \in [Readers -> SUBSET {"close", "match"}]
  /\ lost \in [Readers -> SUBSET Samples]
  /\ {closed, chClosed, matched} \subseteq [Readers -> BOOLEAN]
  /\ sub \in [Readers -> {"new", "open", "unsub", "closing", "locked", "closed"}]
  /\ pstate \in {"open", "closing", "closed"}

\* deliverToReader's comment: Close can never race a send against the channel
\* close, even for a goroutine that took its snapshot before Unsubscribe.
NoSendOnClosed ==
  \A t \in Threads : pc[t] \in {"send", "evict", "retry"} => ~chClosed[cur[t]]

\* A reader gets the samples of a writer of its own participant in the order they
\* were written, and a Volatile reader none of them twice (a TransientLocal one may
\* get the sample it joined on again from the Write that was under way), although
\* the receive loop delivers to the same channel and sees them looped back.  Of a
\* remote writer nothing of the kind holds: DATA is handed on as it arrives.
InOrder ==
  \A r \in Readers : \A i, j \in DOMAIN got[r] :
    i < j /\ got[r][i][1] = got[r][j][1] /\ got[r][i][1] \in Writers =>
      got[r][i][2] <= got[r][j][2] /\ (got[r][i] = got[r][j] => qos[r].durable)

\* A TransientLocal subscriber is never left without the current value: when no
\* Write is under way and something was written, an open reader that lost nothing
\* has been given the last sample of one of its writers, whenever it was created.
JoinersCurrent ==
  (\A t \in Writers : pc[t] = "idle") /\ (\E t \in Writers : wrote[t] > 0) =>
    \A r \in Readers : qos[r].durable /\ sub[r] = "open" /\ lost[r] = {} /\ (\A t \in Writers : Partition[t] = qos[r].partition) =>
      \E t \in Writers : wrote[t] > 0 /\ <<t, wrote[t]>> \in {got[r][i] : i \in DOMAIN got[r]}

SomeBlock == \E r \in Readers : qos[r].policy = "Block"

\* As long as no reader blocks, every Write returns and every Close, of a
\* subscriber or of the participant, completes, though nobody reads the channels.
Completes ==
  /\ \A t \in Threads : pc[t] # "idle" ~> (pc[t] = "idle" \/ SomeBlock)
  /\ \A r \in Readers : sub[r] = "closing" ~> (chClosed[r] \/ SomeBlock)
  /\ pstate = "closing" ~> (pstate = "closed" \/ SomeBlock)

\* What REQ-SUB-001 says of Close for every subscriber, a Block one included: it
\* closes the channel.
CloseCompletes == \A r \in Readers : sub[r] = "closing" ~> chClosed[r]
=============================================================================
