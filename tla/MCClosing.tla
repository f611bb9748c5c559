------------------------------ MODULE MCClosing ------------------------------
(* What must happen in the end, for TLC: Close and Stop return and their    *)
(* goroutines end, leases and crashes are noticed, the operator converges.  *)
(* The components do not share state; a behaviour is about one of them.     *)
EXTENDS Slots, Integers, Sequences, FiniteSets

CONSTANTS None, Register, NoWriter

Homes == [w1 |-> 1, r1 |-> 1]
Sizes == [w1 |-> 1]
Message(s, l) == [prefix |-> "p", eid |-> "w1", seq |-> s, len |-> l]
Messages == {Message(1, 5), Message(2, 4)}

\* The WAN bridge, client and server.
Wide == INSTANCE Wan WITH
  Topics <- {"t1", "t2"}, MaxPub <- 1, Buf <- 3,
  subch <- x1, npub <- x2, sender <- x3, wmu <- x4, cend <- x5, cclose <- x6,
  pipe <- x7, send <- x8, accept <- x9, tracked <- x10, recv <- x11, sclose <- x12,
  passed <- x13, garbled <- x14

\* The relay, with a client that reconnects,
Turn == INSTANCE Relay WITH
  Conns <- {"k1", "k2"}, IDs <- {"a"}, IdOf <- [k1 |-> "a", k2 |-> "a"], MaxSend <- 0,
  Pipe <- 1,
  ksock <- x1, kloop <- x2, ksent <- x3, up <- x4, down <- x5, kend <- x6, hend <- x7,
  handler <- x8, clients <- x9, raccept <- x10, rclose <- x11, latest <- x12

\* and with one that sends.
Send == INSTANCE Relay WITH
  Conns <- {"k1"}, IDs <- {"a"}, IdOf <- [k1 |-> "a"], MaxSend <- 2, Pipe <- 1,
  ksock <- x1, kloop <- x2, ksent <- x3, up <- x4, down <- x5, kend <- x6, hend <- x7,
  handler <- x8, clients <- x9, raccept <- x10, rclose <- x11, latest <- x12

\* A process that listens to shared memory.
Listening == INSTANCE Shmem WITH
  Writers <- {"w1"}, Readers <- {"r1"}, Home <- Homes, Size <- Sizes, Depth <- 1,
  Durable <- {"w1", "r1"},
  shm <- x1, rest <- x2, last <- x3, dataFile <- x4, sock <- x5, shmSub <- x6, replay <- x7,
  inProc <- x8, loop <- x9, pump <- x10, out <- x11, crashed <- x12, toucher <- x13,
  told <- x14, overlap <- x15, lastRead <- x16, offered <- x17

\* A WebSocket session.
Bridge == INSTANCE WsBridge WITH
  Sessions <- {"s1"}, MaxSubs <- 1, MaxMsgs <- 2, Pipe <- 1,
  bclosed <- x1, bclose <- x2, left <- x3, sessions <- x4, run <- x5, closed <- x6,
  closer <- x7, by <- x8, done <- x9, conn <- x10, subs <- x11, pub <- x12, sub <- x13,
  fwd <- x14, writeMu <- x15, wire <- x16, msgs <- x17

\* The gRPC and the REST gateway.
Gateway == INSTANCE Gateways WITH
  Streams <- {"s1", "s2"}, Publishes <- {"p1"}, MaxEach <- 2, MaxSamples <- 1,
  gate <- x1, gclose <- x2, subs <- x3, pubs <- x4, gsub <- x5, gpub <- x6,
  gchan <- x7, arrived <- x8, stream <- x9, gone <- x10, pcall <- x11

\* The monitor, with two event streams.
Monitoring == INSTANCE Monitor WITH
  Clients <- {"c1", "c2"}, Buf <- 1, MaxEvents <- 1, MaxTrackers <- 1, MaxProm <- 1,
  ctx <- x1, mclose <- x2, clients <- x3, sse <- x4, stalled <- x5, events <- x6,
  loop <- x7, trackers <- x8, iter <- x9, fatal <- x10, proms <- x11, prom <- x12

\* The replayer of a recording.
Replaying == INSTANCE Replayer WITH
  Lines <- 3, Topics <- 2, MaxStops <- 2,
  once <- x1, loopOpt <- x2, player <- x3, pos <- x4, pubs <- x5, rctx <- x6,
  played <- x7, stop <- x8

\* The operator, with a restart and a failing API call.
Operating == INSTANCE Operator WITH
  MaxChanges <- 2, MaxErrors <- 1, MaxCrashes <- 1, MaxQueue <- 2,
  objs <- x1, up <- x2, synced <- x3, store <- x4, noteQ <- x5, handling <- x6,
  dirty <- x7, cached <- x8, work <- x9, policy <- x10, spent <- x11, orphan <- x12

\* Writers under the mock's liveliness lease.
Leases == INSTANCE MockLiveliness WITH
  Writers <- {"w1"}, Subs <- {"s1", "s2"}, Lease <- 2, MinPeriod <- 1,
  MaxSilences <- 2,
  kind <- x1, lastSeen <- x2, fired <- x3, since <- x4, callbacks <- x5, calls <- x6,
  silences <- x7, present <- x8, told <- x9, heard <- x10

\* A writer of our own and two remote, all exclusive.
Qos == INSTANCE WriterQos WITH
  Writers <- {"w1", "w2", "w3"}, Own <- {"w1"},
  GuidRank <- [w1 |-> 2, w2 |-> 1, w3 |-> 3],
  Strength <- [w1 |-> 5, w2 |-> 5, w3 |-> 6], Exclusive <- {"w1", "w2", "w3"},
  Manual <- {"w2"}, Lease <- 1, MinSeparation <- 1,
  wstate <- x1, remoteUp <- x2, strengths <- x3, active <- x4, sources <- x5,
  tracked <- x6, age <- x7, fired <- x8, lastAge <- x9, gotAge <- x10,
  early <- x11

\* The deadline timer of a reader or a writer.
Late == INSTANCE Deadlines WITH
  Period <- 2, Calls <- {"c1", "c2"},
  kind <- x1, end <- x2, timer <- x3, calls <- x4, delivery <- x5, since <- x6,
  told <- x7, clean <- x8, panicked <- x9

\* A wait set of two subscribers.
Waiting == INSTANCE WaitSet WITH
  Subs <- {"a", "b"}, MaxSamples <- 1, MaxAttached <- 2,
  subs <- x1, queue <- x2, published <- x3, closed <- x4, cancelled <- x5, pc <- x6,
  snapshot <- x7, dir <- x8, result <- x9

\* Two messages of two and three fragments.
Fragmenting == INSTANCE Fragments WITH
  Msgs <- Messages, Size <- 2, StaleAge <- 0, MaxReassembly <- 5,
  sent <- x1, net <- x2, buffers <- x3, delivered <- x4, hurt <- x5, panicked <- x6

Init ==
  \/ part = "wan" /\ Idle14 /\ Wide!Init
  \/ part = "relay" /\ Idle12 /\ Turn!Init
  \/ part = "relayed" /\ Idle12 /\ Send!Init
  \/ part = "shmem" /\ Idle17 /\ Listening!Init
  \/ part = "bridge" /\ Idle17 /\ Bridge!Init
  \/ part = "gateways" /\ Idle11 /\ Gateway!Init
  \/ part = "monitor" /\ Idle12 /\ Monitoring!Init
  \/ part = "replayer" /\ Idle8 /\ Replaying!Init
  \/ part = "operator" /\ Idle12 /\ Operating!Init
  \/ part = "leases" /\ Idle10 /\ Leases!Init
  \/ part = "qos" /\ Idle11 /\ Qos!Init
  \/ part = "deadlines" /\ Idle9 /\ Late!Init
  \/ part = "waiting" /\ Idle9 /\ Waiting!Init
  \/ part = "fragments" /\ Idle6 /\ Fragmenting!Init

Next ==
  \/ part = "wan" /\ Same14 /\ Wide!Next
  \/ part = "relay" /\ Same12 /\ Turn!Next
  \/ part = "relayed" /\ Same12 /\ Send!Next
  \/ part = "shmem" /\ Same17 /\ Listening!Next
  \/ part = "bridge" /\ Same17 /\ Bridge!Next
  \/ part = "gateways" /\ Same11 /\ Gateway!Next
  \/ part = "monitor" /\ Same12 /\ Monitoring!Next
  \/ part = "replayer" /\ Same8 /\ Replaying!Next
  \/ part = "operator" /\ Same12 /\ Operating!Next
  \/ part = "leases" /\ Same10 /\ Leases!Next
  \/ part = "qos" /\ Same11 /\ Qos!Next
  \/ part = "deadlines" /\ Same9 /\ Late!Next
  \/ part = "waiting" /\ Same9 /\ Waiting!Next
  \/ part = "fragments" /\ Same6 /\ Fragmenting!Next

\* What each component's scheduling is fair to.
\* The accept and receive loops of the server, both Closes, the senders.
WideRuns(i) ==
  CASE i = 1 -> Wide!acceptLoop [] i = 2 -> Wide!receiveLoop [] i = 3 -> Wide!ServerGoesOn
    [] i = 4 -> Wide!ClientGoesOn [] i = 5 -> Wide!SendLoopEnds
    [] i = 6 -> Wide!TopicLoop("t1") [] i = 7 -> Wide!TopicLoop("t2") [] OTHER -> FALSE

\* The accept loop, Close, the handlers and the client sockets' readers.
TurnRuns(i) ==
  CASE i = 1 -> Turn!acceptLoop [] i = 2 -> Turn!CloseGoesOn
    [] i = 3 -> Turn!handleConn("k1") [] i = 4 -> Turn!handleConn("k2")
    [] i = 5 -> Turn!readLoop("k1") [] i = 6 -> Turn!readLoop("k2") [] OTHER -> FALSE

\* The pump and the listener.
ListeningRuns(i) ==
  CASE i = 1 -> Listening!Pump("r1") [] i = 2 -> Listening!Receive("r1")
    [] i = 3 -> Listening!ReadHeader("r1") [] i = 4 -> Listening!ReadBody("r1")
    [] OTHER -> FALSE

\* Close, the session and its forwarder.
BridgeRuns(i) ==
  CASE i = 1 -> Bridge!CloseGoesOn [] i = 2 -> Bridge!RunLoop("s1")
    [] i = 3 -> Bridge!Teardown("s1") [] i = 4 -> Bridge!WriteFrame("s1", 1)
    [] OTHER -> FALSE

\* Close and the handlers.
GatewayRuns(i) ==
  CASE i = 1 -> Gateway!CloseGoesOn [] i = 2 -> Gateway!getOrCreateSub("s1")
    [] i = 3 -> Gateway!getOrCreateSub("s2") [] i = 4 -> Gateway!SendFails("s1")
    [] i = 5 -> Gateway!SendFails("s2") [] i = 6 -> Gateway!getOrCreatePub("p1")
    [] i = 7 -> Gateway!PublishWrites("p1") [] OTHER -> FALSE

\* Close, the metrics loop and the handlers.
MonitoringRuns(i) ==
  CASE i = 1 -> Monitoring!CloseGoesOn [] i = 2 -> Monitoring!metricsLoopEnds
    [] i = 3 -> Monitoring!IterationEnds("tick")
    [] i = 4 -> Monitoring!IterationEnds("api") [] i = 5 -> Monitoring!SseEvent("c1")
    [] i = 6 -> Monitoring!SseEvent("c2") [] OTHER -> FALSE

\* The replay goroutine and Stop.
ReplayingRuns(i) ==
  CASE i = 1 -> Replaying!playFiltered [] i = 2 -> Replaying!Rewind
    [] i = 3 -> Replaying!StopGoesOn(1) [] i = 4 -> Replaying!StopGoesOn(2)
    [] OTHER -> FALSE

\* A crashed operator is restarted; its goroutines and the API server go on.
OperatingRuns(i) ==
  CASE i = 1 -> Operating!run [] i = 2 -> Operating!Run [] i = 3 -> Operating!Reconcile
    [] i = 4 -> Operating!deletePolicy [] i = 5 -> Operating!applyPolicy
    [] i = 6 -> Operating!Informer("domain") [] i = 7 -> Operating!Informer("participant")
    [] i = 8 -> Operating!Resync("domain") [] i = 9 -> Operating!Resync("participant")
    [] i = 10 -> Operating!Notify("domain") [] i = 11 -> Operating!Notify("participant")
    [] OTHER -> FALSE

\* The monitor's ticker and the callbacks it starts.
LeasesRuns(i) ==
  CASE i = 1 -> Leases!check [] i = 2 -> Leases!SomeCallback [] OTHER -> FALSE

\* Time, the polls, and the periodic announcements.
QosRuns(i) ==
  CASE i = 1 -> Qos!Tick [] i = 2 -> Qos!checkLiveliness [] i = 3 -> Qos!onPeerEvicted
    [] i = 4 -> Qos!onRemoteWriter("w1") [] i = 5 -> Qos!onRemoteWriter("w2")
    [] i = 6 -> Qos!onRemoteWriter("w3") [] i = 7 -> Qos!assertLiveliness("w1")
    [] i = 8 -> Qos!assertLiveliness("w2") [] i = 9 -> Qos!assertLiveliness("w3")
    [] OTHER -> FALSE

\* Time, the timer and its goroutines, a delivery that has begun.
LateRuns(i) ==
  CASE i = 1 -> Late!Live(Late!Tick) [] i = 2 -> Late!Live(Late!Fire("c1"))
    [] i = 3 -> Late!Live(Late!Fire("c2")) [] i = 4 -> Late!Live(Late!fn("c1"))
    [] i = 5 -> Late!Live(Late!fn("c2")) [] i = 6 -> Late!Live(Late!Reset("c1"))
    [] i = 7 -> Late!Live(Late!Reset("c2")) [] i = 8 -> Late!Live(Late!deliverToReader)
    [] OTHER -> FALSE

\* The goroutine in Wait.
WaitingRuns(i) ==
  CASE i = 1 -> Waiting!Select [] OTHER -> FALSE

SendRuns(i) ==
  CASE i = 1 -> Send!acceptLoop [] i = 2 -> Send!CloseGoesOn [] i = 3 -> Send!handleConn("k1")
    [] i = 4 -> Send!readLoop("k1") [] OTHER -> FALSE

\* A behaviour is about one component, so one formula serves one goroutine of each.
Runs(i) ==
  CASE part = "wan" -> Same14 /\ WideRuns(i)
    [] part = "relay" -> Same12 /\ TurnRuns(i)
    [] part = "relayed" -> Same12 /\ SendRuns(i)
    [] part = "shmem" -> Same17 /\ ListeningRuns(i)
    [] part = "bridge" -> Same17 /\ BridgeRuns(i)
    [] part = "gateways" -> Same11 /\ GatewayRuns(i)
    [] part = "monitor" -> Same12 /\ MonitoringRuns(i)
    [] part = "replayer" -> Same8 /\ ReplayingRuns(i)
    [] part = "operator" -> Same12 /\ OperatingRuns(i)
    [] part = "leases" -> Same10 /\ LeasesRuns(i)
    [] part = "qos" -> Same11 /\ QosRuns(i)
    [] part = "deadlines" -> Same9 /\ LateRuns(i)
    [] part = "waiting" -> Same9 /\ WaitingRuns(i)
    [] OTHER -> FALSE

\* A mutex and a ready select case are not passed over for ever.
IsServed(i) ==
  \/ part = "wan" /\ Same14 /\ (CASE i = 1 -> Wide!Lock("t1")
                                  [] i = 2 -> Wide!Lock("t2") [] OTHER -> FALSE)
  \/ part = "bridge" /\ Same17 /\ (CASE i = 1 -> Bridge!Lock("s1", 0)
                                     [] i = 2 -> Bridge!Lock("s1", 1)
                                     [] i = 3 -> Bridge!SelectEnds("s1", 1) [] OTHER -> FALSE)
  \/ part = "gateways" /\ Same11 /\ (CASE i = 1 -> Gateway!StreamEnds("s1") \/ Gateway!StreamSample("s1")
                                       [] i = 2 -> Gateway!StreamEnds("s2") \/ Gateway!StreamSample("s2")
                                       [] OTHER -> FALSE)
  \/ part = "monitor" /\ Same12 /\ (CASE i = 1 -> Monitoring!SseEnds("c1")
                                      [] i = 2 -> Monitoring!SseEnds("c2") [] OTHER -> FALSE)

\* The network does not hold a fragment for ever.
Spec ==
  /\ Init /\ [][Next]_slots
  /\ \A i \in 1..11 : WF_slots(Runs(i))
  /\ \A i \in 1..3 : SF_slots(IsServed(i))
  /\ \A m \in Messages : WF_x2(part = "fragments" /\ Fragmenting!Consumed(m))

\* Calls return and goroutines end: Close of the WAN bridge, the relay, the
\* monitor and of shared memory, Stop of the replayer, every goroutine of a
\* WebSocket session and every established REST stream after Close, and Wait
\* when it has a sample, is cancelled or all are closed. What each may still
\* wait for is said where Stuck is defined; a REST stream, for a client that
\* stays and does not read.
Returns ==
 /\ \A s \in {"s1", "s2"} : \/ []<>(part = "gateways" => ~Gateway!Orphaned(s))
                            \/ <>[](part = "gateways" /\ Gateway!Unread(s))
 /\ []<>(
  /\ part = "wan" => ~Wide!ClientStuck /\ ~Wide!ServerStuck
  /\ part = "relay" => ~Turn!CloseStuck
  /\ part = "relayed" => ~Send!CloseStuck
  /\ part = "shmem" => ~Listening!Stuck("r1")
  /\ part = "bridge" => ~Bridge!Stuck
  /\ part = "monitor" => ~Monitoring!CloseStuck
  /\ part = "replayer" => \A i \in 1..2 : ~Replaying!StopStuck(i)
  /\ part = "waiting" => ~Waiting!WaitStuck)

\* What is owed comes: a silence is reported to every subscriber that stays
\* registered, and an earlier one does not swallow a later one; every period
\* without a sample is reported by the deadline timer; a message of which no
\* fragment is lost or late is put together.
Arrives == []<>(
  /\ part = "leases" => \A s \in {"s1", "s2"} : ~Leases!Unreported("w1", s)
  /\ part = "deadlines" => ~Late!Unmissed
  /\ part = "fragments" => \A m \in Messages : ~Fragmenting!Missing(m))

\* State comes right for good: the NetworkPolicy and the webhook caches follow
\* the objects through edits, failing calls and a restart (unless a deletion
\* went unheard or an object does not decode), and every writer of a crashed
\* participant is reported lost and gives up its ownership.
Settles == <>[](
  /\ part = "operator" => Operating!PolicyRight /\ \A k \in {"domain", "participant"} : Operating!CacheRight(k)
  /\ part = "qos" => \A w \in {"w2", "w3"} : Qos!Noticed(w))
==============================================================================
