# A TLA+ verification of go-DDS

go-DDS is a Go implementation of the OMG Data Distribution Service: publishers
and subscribers of typed topics, over several interchangeable transports.  This
directory holds TLA+ modules for its concurrent and distributed parts, TLC
configurations that model-check small instances of them, and TLAPS proofs that
hold for every value of the constants.  Paths below are relative to the
repository root.

## The system and its parts

| part | code | what it does |
|---|---|---|
| DDS API | `dds.go` | QoS, samples, the bounded sample buffer, WaitSet and conditions, loans |
| RTPS participant | `rtps/participant.go` | writers and readers, the receive loop, local and remote delivery |
| reliable protocol | `rtps/reliable.go`, `rtps/participant.go` | send history, HEARTBEAT / ACKNACK / GAP, receive tracker, drain |
| fragmentation | `rtps/fragment.go` | DATA_FRAG split and reassembly |
| QoS enforcement | `rtps/qos_enforce.go` | partitions, exclusive ownership, liveliness, time-based filter |
| discovery | `rtps/spdp.go`, `rtps/sedp.go`, `rtps/discovery.go` | participants (SPDP), endpoints (SEDP), eviction |
| durability | `rtps/persist.go` | last-sample file per topic |
| wire formats | `rtps/message.go`, `rtps/cdr.go`, `rtps/guid.go`, `rtps/locator.go` | submessages, CDR, locators |
| socket transports | `rtps/transport*.go`, `rtps/stun.go` | UDP, TCP, relay, DTLS, QUIC, WebSocket, STUN |
| in-process transport | `mock/` | broker used in tests and in one process |
| shared-memory transport | `shmem/` | file-backed ring between processes on one host |
| safety layer | `safety/` | end-to-end protection, deterministic queue, rate monitor |
| security layer | `security/` | payload protection, replay guard, access control, discovery auth |
| request/reply | `rpc/` | correlation of replies with requests |
| bridges | `bridge/` | WAN, relay server, gRPC, REST, WebSocket gateways |
| observability | `observability/` | recorder and player, fault injection, monitor, metrics, admin |
| pools | `pool/`, `*/loan.go` | byte pool and loaned samples |
| content filters | `cfilter/` | predicate language of filtered subscribers |
| TSN | `tsn/` | stream configuration, gate schedules |
| ROS 2 | `ros2/` | naming, graph, CDR helpers |
| Kubernetes operator | `k8s/operator/` | informer cache, controller, webhook |
| tools and examples | `tools/`, `examples/`, `testutil/`, `config/`, `auto/`, `cyclone/`, `adapt.go` | code generation, command lines, adapters |

`rtps` is the core.  A writer numbers its samples, keeps the last 256 wire
messages, sends DATA to every matched reader and advertises its history with
HEARTBEATs; a reader tracks what it has received and requests what it lacks
with ACKNACKs.  SPDP and SEDP decide who is matched with whom.  Everything above
(safety, security, RPC, bridges, ROS 2) uses only the DDS API.

## Reliable protocol

### `ReliableState`, `KeepLast`

The two data structures of `rtps/reliable.go`.  A `sendHistory` is a record with the
fields of the Go struct, and `store`, `get` and `firstLast` are its methods; a
`recvTracker` has `expected` (the watermark), `ahead` (the out-of-order buffer) and
`initDone`, and the inner loop of `record` is `Advance`, the first number that is
not buffered.  Each method holds the struct's mutex, so each is one step.  An ACKNACK
bitmap is the set of sequence numbers it names.  `KeepLast` is the abstract map that
keeps the last `Depth` sequence numbers (REQ-REL-009).  The history of the writer in
`RtpsReliable`, whose numbers increase with gaps where `Seal` failed, is shown to
implement it under the mapping `kept <- Contents`, what `get` would answer.

### `RtpsReliable`

One reliable writer and a set of remote readers, each in a participant of its
own.  The actions and the code:

| action | code |
|---|---|
| `Write` | `rtpsWriter.Write`: take a number, `Seal`, store, send DATA, send HEARTBEAT |
| `HeartbeatTick` | one tick of `heartbeatLoop` |
| `HandleData` | `handleDataPacket` on DATA: `notifyReliableReaders`, then delivery |
| `HandleHeartbeat`, `HandleAckNack` | the handlers of those submessages |
| `Ignore` | a datagram the `switch` of `handleDataPacket` has no case for, or that `security.Open` or the replay guard refuses |
| `WriterLearns`, `ReaderLearns` | SEDP: the two sides match at different times |
| `waitDrain`, `DrainEnds`, `Close` | `CloseWithDrain`, its context, `rtpsWriter.Close` |
| `Drop` | the network |

`net` is the set of datagrams in flight, received in any order.  With
`Duplicating` a receive leaves the datagram in flight, so every datagram may
arrive any number of times or never; without it a receive consumes the datagram
and at most `MaxDrops` are lost.  What `Write` does for readers in its own process
and for late joiners is in other modules.  The handler that takes `w.mu` is
atomic; `advanceAcked` and the retransmissions of one ACKNACK are one step, since
nothing else in this model reads the state between them.
`anchor` and `copies` are history variables: the watermark a tracker started from
and how often a sample was delivered.

## Delivery within a participant: `ReaderDelivery`

One topic of one participant.  Every local writer's `Write`, and the receive loop
for a remote writer, is a goroutine that takes a snapshot of `p.readers`
(`Snapshot`), then comes to each reader (`Visit`), sends to its channel under
`r.mu` (`Send`; for `DropOldest` also `Evict` and `Retry`) and lets go of the lock
(`Leave`).  Readers are created (`NewSubscriber`, with a QoS out of the set `QoS` and
the replay of the last sample), read, unsubscribed and closed; `CloseLock`, `CloseFlip`
and `CloseChan`
are the three steps of `rtpsReader.Close`.  `addSourceGUID` is SEDP's write of
`r.sources`, which needs the same lock.  `r.mu` is Go's `RWMutex`: a waiting writer
keeps new readers out.  The receive loop handles whatever arrives: DATA of a remote
writer in any order and any number of times, and the local writers' own samples
when multicast loops them back, which `handleDataPacket` recognises by their prefix.  The checks `dispatchToReaders` makes of ownership,
liveliness and time-based filter are in `WriterQos`; the two modules split
the function, and neither makes the other's checks.

## Discovery: `Discovery`

Participants that find each other by SPDP and match endpoints by SEDP.  Each
participant has four goroutines, whose program counters are `spdp`, `sedp`, `evict`
and `app`, and the locks `participant.mu` and `sedp.mu`; a step is what happens
between two lock operations.  `storePeer` and `onNewPeer` are the receipt of an
announcement, `evictExpired` to `forgetLocators` the eviction, `onRemoteReader`,
`onRemoteWriter`, `readerByEID` and `addWriterLocator` the receipt of an endpoint,
`NewEndpoint`, `register` and `broadcast` the application's call.  SPDP announcements
repeat for ever and carry nothing that changes, so `storePeer` may happen whenever
both participants live; a SEDP datagram is in `net` until it is received or lost.
`late` is a history variable: the peers that were evicted while one of their
endpoint announcements was still under way.  The participant's liveliness callbacks
are not modelled.

## The parts around the protocol

### QoS and timers

* `WriterQos`: one reader and the writers it hears, some in its own participant and
  some in a remote one that may crash.  `early` is a history variable: the writers of
  which two samples were given to the reader too close together.  `recompute` folds `better` over the writers in
  every order, because Go walks a map in random order.  Time is ages in ticks, capped
  just above the duration they are compared with, so that runs are finite and never end.
* `Deadlines`: the deadline timer of a reader or a writer.  `time.AfterFunc` runs its
  function in a goroutine that `Stop` does not wait for, so `Fire`, `fn` and `Reset` are
  steps of up to two such goroutines, against `deliverToReader`, `Unsubscribe` and `Close`.
* `WaitSet`: `Attach`, `Detach` and one goroutine in `Wait`.  The disjuncts of `Select`
  are the outcomes of `reflect.Select`, including the panic on two default cases; a
  closed channel's case becomes a default case, after which `Select` does not block.

### Start-up and routing

* `Startup`: `newParticipant` and `Close`.  A bind is one step, so that participants
  of one host interleave within their search for a pair of ports.  Every error path
  closes what the code closes there, and no more (`ClosedOnError` has one entry for
  each transport that may fail to start).  A participant starts up to `MaxStarts` times.
* `Routing`: `sendUnicast` tries its transports one after the other, each with a look
  into the peer table, which `storePeer`, `recordRelayID` and `evictExpired` change
  meanwhile.  A peer that was heard of only through the relay has no address
  (`Nowhere`), and a dial to it may be answered by this host.
* `ReaderLocators`: `matchedReaderLocators` and `matches`, over every order of the map.
* `WsJoin`: SPDP over WebSocket between a listener and a participant that can only dial.

### Formats

* `Wire` (`rtps/message.go`): marshal functions, the loop that takes submessages apart,
  and the parse functions.  Every width is a constant, so that a small instance wraps.
* `Announcements` (`rtps/cdr.go`, `spdp.go`, `sedp.go`, `locator.go`): the parameter
  lists, written and read, with their padding and length fields, and the token.
* `Fragments` (`rtps/fragment.go`): `splitIntoFragmentsN` and `fragmentAssembler.receive`.
  A byte is its message and its place in it, so that a payload assembled wrongly differs
  from every payload written.  `fragKey` leaves out the participant, so messages of two
  participants may share a buffer; `panicked` says that a copy ran past the end of one
  (`Overruns`).  `hurt` is a history variable: the messages of which a fragment was lost
  or a buffer grew stale.  A DATA_FRAG carries one fragment, as `splitIntoFragmentsN`
  makes them; the loop of `receive` over several is not modelled.  The receive loop does
  not call the assembler (see `large_sample`); the module is about the assembler by itself.
* `Cdr` (`tools/cdr/cdr.go`): one `Write` or `Read` per field, with alignment.
* `WsFrames` (`rtps/transport_ws.go`, `bridge/ws/wsframe.go`): frames at every border of
  the length encoding, fragmentation, control frames in between.
* `ContentFilter` (`cfilter/`): the recursive-descent parser over tokens and the
  evaluation, against a grammar and a meaning (`Means`) that are defined separately, by
  splitting at the last operator outside parentheses instead of by descent.

### Other transports

* `MockBroker` (`mock/mock.go`): a Go slice is a backing array and a length, and a
  snapshot shares the array, since that is what a `Write` iterates over without the lock;
  so does the list of a matching pattern's subscribers that `publish` appends to it.
  A subscriber that joins takes the last sample under the lock and sends it after.
* `MockLiveliness` (`mock/qos_enforce.go`): the lease table, its monitor, the assertion
  ticker, callbacks called after the lock is released.
* `Shmem` (`shmem/shmem.go`): every access to the data file and the socket is a step;
  nothing orders those of two processes.  A subscriber of the writer's own process is
  registered, given the last sample, and only then begins to listen to the socket.
* `Persist` (`rtps/persist.go`): a flush is open, header, body; the process may crash
  between any two.
* `PeerSockets` (`rtps/transport_{tcp,dtls,quic,ws}.go`): one socket of any of the four
  kinds, its cache of connections, the per-peer lock, a send with one retry, the
  readers' evictions, `Close`.
* `Relay` (`bridge/relay/`, `rtps/transport_relay.go`), `Wan` (`bridge/wan/`),
  `WsBridge` (`bridge/ws/`), `Gateways` (`bridge/grpc/`, `bridge/rest/`): each goroutine of
  server and client a program counter, connections as bounded pipes whose writers
  block with the mutex they hold, `Close` step by step.  A stream of a gateway waits in
  its write ("send") for as long as its client does not read.

### Services

* `Rpc` (`rpc/`): calls, the demultiplexer (it looks up a channel, then sends to it),
  repliers that may both answer, time-outs, close.
* `SafetyChain` (`safety/`): the deterministic queue feeds the E2E publisher, other
  goroutines write directly, the subscriber checks, the rate monitor polls.  The
  counter is modulo 3 instead of 2^32, so that it wraps.
* `ReplayGuard` (`security/replay.go`): acceptances and purges, timestamps in any order.
* `Recorder`, `Replayer`, `FaultPublisher`, `Monitor` (`observability/`): services with
  goroutines that are started, fail half way, and are stopped.
* `Operator` and `Admission` (`k8s/operator/`): informers, caches, work queue and
  reconciler through API errors and restarts; the webhook's patch.

## Runs over many components

`Slots` declares variables `x1` to `x17` and `part`.  The modules `MCServices`,
`MCNetwork` and `MCClosing` instantiate the components with their variables
substituted by the slots; `part` says which component a behaviour is about and never
changes.  Their `Spec` is the sum of the components' specifications, and one run checks
them all.  The components in one of these runs do not interact: those that do
are composed in one module (server and client of `Wan`, `Relay`, `Rpc`; the
safety chain; informers, caches and reconciler of `Operator`; SPDP, SEDP and the
application in `Discovery`).

A property of such a run is one promise, and a conjunct of it is what the promise
means for one component: `NothingLeaks`, for instance, is `SocketsGivenBack`,
`EveryConnOwned`, `NoSessionMissed`, `NothingLeftOpen` and `GrpcClosedClean`, each
defined and explained in its component's module.

## What the runs check

| run | instance | what it shows |
|---|---|---|
| `reliable` | 1 reader, ring of 2, 4 samples, failing `Seal`, drain and close, everything duplicated and reordered for ever | `NoFalseAck`, `TrackerExact`, `ForwardOnly`; the history implements `KeepLast`.  Readers meet only in the writer's `acked`; the proofs are for any number of them |
| `reliable_live` | 1 reader, ring and ACKNACK window of 2, 3 samples of which a `Seal` may fail, a reorder buffer of 1, 1 loss | `Recovery`: a sample in the history reaches a reader that waits for it, unless it lies a window beyond a hole |
| `delivery` | a local writer, the receive loop, 1 reader with any policy, all closes | no send on a closed channel; samples of one local writer in order and, to a Volatile reader, once; a late joiner gets the last sample; calls return when nobody blocks |
| `discovery` | a writer and a reader in 2 participants, losses, one expiry, a crash | no missed match, no cycle of locks, both sides end up matched, a crashed peer is forgotten |
| `services` | the components of one process or host, and the formats: 24 instances | 12 invariants and 2 action properties, below |
| `network` | start-up, routing, fragments, sockets and bridges: 14 instances | 5 invariants and 1 action property, below |
| `closing` | 14 instances with the fairness of their goroutines | 3 liveness properties, below |

| property | what it says, by component |
|---|---|
| `NewestGiven` | a late joiner gets the newest sample: `MockBroker` and `Shmem` `JoinersCurrent`, `Shmem` `CaughtUp` (once the writers are done), `Persist` `RestoredWhole` (over crashes; of flushes that do not overlap) |
| `EveryoneServed` | nobody is passed over, in `MockBroker` by a `Write` that no removal overlaps: `MockBroker` `StayersServed`, `ReaderLocators` `SentIffWanted`, `FaultPublisher` `FaultFlushed`, `Replayer` `WholePass` |
| `NoFalseAlarm` | reports of silence are true: `MockLiveliness` `OncePerSilence`, `AutomaticStaysAlive`; `WriterQos` `LostIsSilent`; `Deadlines` `NeverEarly`, `QuietAfterClose` |
| `ActiveIsStrongest` | `WriterQos`: one owner whatever the order of the map |
| `RightAnswer` | `WaitSet` `RightSubscriber`, `ClosedMeansAll`; `Rpc` `RightReply`, `Answerable` |
| `NothingHeld` | `Rpc` `NoLeak`, `Recorder` `IdleHoldsNothing` |
| `OrderedAndCounted` | `SafetyChain` `QueueFifo`, `NothingUncounted` |
| `OncePerWindow` | `ReplayGuard`: no number twice within a window, of messages in the order of their timestamps |
| `ReadAsWritten` | `Wire` `ReadAsSent`; `Announcements` `PeerLearntRight`, `EndpointLearntRight`; `Cdr` `DecodedAsEncoded`; `WsFrames` `Reassembled`, `OnlyLargeRefused` |
| `FilterRight` | `ContentFilter` `GrammarAccepted`, `VerdictRight` |
| `DeclaredWins` | `Admission`: what the application declared stays |
| `VerdictsExact` | `SafetyChain` `GapReported`, `Announcements` `Accepted` |
| `Withheld` | `WriterQos` `SeparationKept`, `Recorder` `Quiet` |
| `PeersKept` | `Routing` `RelayIDKept`, `AloneIsReached`; `WsJoin` `ListenerKeepsDialler`, `DiallerIntroduced`; `Relay` `NewestReachable` |
| `PortsFound` | `Startup` `PairFound`, `PortsCovered`: of three participants that start once and of two that restart |
| `StreamsIntact` | `Fragments` `Intact`, for one participant and for two that share a key; `Wan` `ForwardedInOrder` |
| `NothingLeaks` | `Startup` `SocketsGivenBack`; `PeerSockets` `EveryConnOwned`; `WsBridge` `NoSessionMissed`, `NothingLeftOpen`; `Gateways` `GrpcClosedClean` |
| `LiveTcpKept` | `PeerSockets`: a live TCP connection is not closed by an earlier one's cleanup |
| `Returns` | `Close`, `Stop` and `Wait` return: `Wan`, `Relay`, `Shmem`, `WsBridge`, `Gateways` (REST), `Monitor`, `Replayer`, `WaitSet` |
| `Arrives` | `MockLiveliness` `SilenceReported`, `Deadlines` `DeadlineReported`, `Fragments` `AllArrive` |
| `Settles` | `Operator` `PolicyConverges`, `CachesConverge`; `WriterQos` `CrashNoticed` |

A liveness property is of the form `[]<>~Stuck` where `Stuck` is the wait that must
not last, or `<>[]Right`; what a wait may be excused by (a client that no longer
reads, a blocking subscriber, a connection accepted while `Close` runs) is part of
`Stuck` and is explained there.  A REST stream may instead stay for ever in a write
that its client never reads (`Unread`).

The bounds are the smallest at which the interesting cases happen: the ring wraps
(more samples than slots), the ACKNACK window is smaller than the gap, the reorder
buffer overflows, a channel is full (depth 1 and two samples), two goroutines are in
one reader at once, a lease expires while announcements are under way, one buffer of
fragments is stale and another is not, three participants search for ports at once, a
connection is replaced while its predecessor's reader cleans up, a pipe is full while
its writer holds the mutex, every counter and length field wraps.  Constants whose
name begins with `Max` bound the model, with three exceptions that are the code's own
limits made small: `MaxReorderAhead`, `MaxReassembly`, and `MaxBits` of `Wire`
(`MaxSize` of `WsFrames` has its real value).  `Depth`, `NackWindow`, `Size`,
`StaleAge`, `Lease`, `MinSeparation`, `Period`, `Window`, `Range` and `Span` are the code's
constants or settings made small.  Deadlock is not checked where the bound on writes, or
the close of everything, really ends the system.

Every property has a mutant in `PROJECT.json`: an operator next to the one it
replaces, marked "a bug for the checks", under which TLC finds the property violated.
For a property of several conjuncts `PROJECT.json` names the mutant of one; most of the
other conjuncts have mutants of their own in the modules, marked in the same way.

### Fairness

Goroutines that can run do (weak fairness of their steps; `Runs(i)` in `MCClosing` is
the i-th goroutine of whichever component the behaviour is about).  Tickers and time
go on (`HeartbeatTick`, `Tick`, the monitors, the SPDP announcements).  A datagram kind
that stays in flight is received: losses are bounded in `reliable_live`, and in
`Discovery` a SEDP datagram that is sent again and again is received (strong
fairness, since each copy may be lost).  A fragment is not duplicated for ever.  Go's
mutexes do not starve a waiter and `select` chooses among its ready cases at random,
which gives strong fairness to a turn at a mutex and to the case of a closed `done`
channel (`IsServed(i)`); of a gateway's stream, to the end of its context or channel and
to a sample, which its keepalive would otherwise precede for ever.  A crashed operator is restarted by Kubernetes.  The
application is never assumed to write, to read its channels or to close anything, nor
a client to read.

## Where the code and its documentation differ

Each of these runs states what a comment, a requirement or a document says, and TLC
shows an execution in which the code does something else.  `PROJECT.json` has the
quotations.

| run | what happens |
|---|---|
| `drain` | `CloseWithDrain` waits although every matched reader has everything, because a complete reader sends no ACKNACK |
| `large_sample` | a sample sent in fragments is not received: DATA_FRAG has no handler |
| `close_completes` | `Close` waits behind a Block delivery to a full channel |
| `ownership_yields` | a writer that lost liveliness keeps ownership |
| `wait_set_panics` | two closed subscribers of three make `Wait` panic |

Other differences met while modelling, which the models contain but no run is
about:

* A reader whose first contact is DATA n takes n as its watermark, and so
  acknowledges 1 .. n-1 (`rtps/reliable.go:172`); `NoFalseAck` counts from there.
* `record`'s result is not used, so a repeated DATA is delivered again
  (`rtps/participant.go:1479`), and DATA of a remote writer is handed on as it arrives:
  `InOrder` is of local writers.
* A failing `Seal` leaves a hole in sequence numbers that are called contiguous.
* ACKNACKs addressed to a TSN writer's own socket are not read (`TsnSocket`).
* Two goroutines that evict from one DropOldest channel can drop the new sample.
* The sample replayed to a late joiner is not checked against partitions.
* An evicted writer stays in `r.sources`, and an endpoint may be matched before its
  participant is known.
* A re-announcement renews the lease of a writer that has stopped.

The following are stated as properties in their modules (the name is given), and no run
checks them: TLC finds each of them violated.  Where a run checks a weaker property in
its place, that is named too.

Protocol and delivery:

* `RtpsReliable.EveryRecovery` (checked: `Recovery`): GAP is sent but has no handler
  (`rtps/participant.go:1373`), so a reader asks for a number that was evicted or used up
  by a failing `Seal` for ever, and what lies a window beyond it is not requested.
* `RtpsReliable.AckedByAll`: `acked` is commented "highest sequence number fully
  acknowledged by all readers", and is the maximum over the ACKNACKs of any one.
* `WriterQos.DropsEarlyOnly` (checked: `SeparationKept`): the time-based filter books a
  sample that a later step rejects, and then drops one that is not early.
* `Deadlines.CalledInSilence` (checked: `NeverEarly`, of the timer): a sample may come
  between the end of the timer and the callback, which runs all the same.
* `Fragments.IntactPerWriter`, `NeverPanics` (checked: `Intact`): REQ-LLR-003 keys a
  buffer by "writer GUID", `fragKey` by entity id.  The fragments of two participants
  with the same entity id and number go into one buffer: the payload may be a mixture,
  or `receive` slices past the end of the shorter buffer and panics.
* `Startup.PortsAlwaysCovered` (checked: `PortsCovered`): `newUnicastSocket` walks on from
  an index's port while others start and stop, and so past ports freed behind it; when
  three participants restart, one lands outside the band of `DomainPortRange`.  With the
  code's own 16 indices and 16 steps a walk may end at the domain's first port + 56, and
  the band ends at + 43.  `PairFound` has the same condition (`Steady`).
* `Startup.FailedHoldsNothing` (checked: `SocketsGivenBack`): the error paths of the
  transports leave the IPv6 sockets open.  `CloseReleasesAll`: some receive loops wait
  for ever on sockets whose channel nobody closes.
* `Routing.ReachesAddressee` (checked: `AloneIsReached`): transports are looked up by IP
  address, and of two participants on one host the wrong one may be reached.
  `RelayedIsReached`: the locators of a peer known only through the relay stay `0.0.0.0`;
  a unicast to it may be dialled on this host, succeed, and never be given to the relay.
* `WsJoin.BothStayKnown` (checked: `ListenerKeepsDialler`, `DiallerIntroduced`): a
  listener answers only peers that are new to it, so a peer that can only dial evicts
  the listener when its lease ends.
* `PeerSockets.LiveConnKept` (checked: `LiveTcpKept`): the readers of DTLS, QUIC and
  WebSocket connections evict by address, and take along the connection that has
  replaced theirs.  `SendSurvivesClose`: a send that overlaps `Close` can panic.

Other transports, durability:

* `MockBroker.DeliveredToAll` (checked: `StayersServed`): `remove` shifts the array a
  `Write` in progress is iterating over (`mock/mock.go:229`), so that a subscriber that
  stays is skipped; and `publish` appends the subscribers by pattern to the snapshot,
  whose spare slot a joiner overwrites, so that one by pattern is skipped.
* `MockBroker.ReplayedInOrder`: the sample a joiner found may be sent after a newer one.
  `PartitionsApart`: it is sent across partitions.  `NoPanic`: a `Write` may
  send on a channel that `Close` has closed.
* `MockLiveliness.AutomaticNeverLost` (checked: `AutomaticStaysAlive`, of leases of two
  assertion periods): the period of assertion has a floor, so a shorter lease is lost
  while the process runs.  `QuietAfterUnsubscribe`: callbacks collected before
  `removeCallback` still run after it.
* `Shmem.ReadWhole` (checked: `CaughtUp`): a listener may read a file between the two
  writes of another process, or while two write it.  `NoPanic`: a delivery may send
  on a channel that `Close` has closed.
* `Persist.RestoredWritten` (checked: `RestoredWhole`): two flushes of one file at once, or a
  flush during the load, give a mixture.  `FileKeepsSample`: a crash after the file was
  truncated loses the sample before as well.  `JoinersGetNewest`: a sample loaded
  from disk by a joiner replaces a newer one that was written meanwhile.

Services, bridges and the operator:

* `ReplayGuard.OnceInAnyOrder` (checked: `OncePerWindow`): the timestamp of a later message
  moves the window, so an entry is purged, and the same number with the same timestamp
  is accepted again.
* `ContentFilter.GrammarOnly` (checked: `GrammarAccepted`, of the wider grammar): the parser
  also accepts `field op field` and `value op value`.  `FailsClosed` (checked:
  `VerdictRight`): `NOT` of a comparison that cannot be made passes.
* `FaultPublisher.NothingForgotten` (checked: `FaultFlushed`): a sample that a `Write`
  overlapping `Close` puts into the window stays there, although the `Write` returned nil.
* `Gateways.RestClosedClean` (checked of gRPC: `GrpcClosedClean`): a REST call that races
  `Close` creates a subscriber or publisher afterwards.  `RestStreamsAlwaysEnd`
  (checked: `RestStreamsEnd`): a stream whose client does not read stays in its write
  after `Close`.  `GrpcCloseReturns`: `GracefulStop` waits for streams that `Close`
  would end only afterwards.
* `WsBridge.CleanBeforeReturning` (checked: `NothingLeftOpen`, once the close is over as
  well): `run` may return while the close that `Bridge.Close` began is half way.
* `Wan.CloseAlwaysReturns`, `Relay.RelayCloseAlways` (checked: `Returns`): a connection
  accepted while `Close` runs is closed by nobody, and `Close` waits for it.
* `Monitor.RegisterAnytime`: `RegisterTSNHealth` writes a map the metrics loop ranges over.
* `Replayer.ReplayStopAlways`: `Stop` before `Start` waits for ever.
* `Operator.PolicyAlwaysConverges` (checked: `PolicyConverges`): the policy of a domain
  that was deleted while the operator was down stays; `MalformedDropped`: an object that
  no longer decodes stays cached in its earlier form.

Others are exceptions within the properties that are checked:

* A text longer than its length field is not read as it was written; `ReadAsWritten` and
  `VerdictsExact` are of announcements whose values fit (`AllFit`).
* A second `WithPrometheus` leaves the first server running (`Monitor`).
* The deadline function panics if it fires before its timer is stored, and a delivery
  or callback in progress sets the timer again after `Unsubscribe` (`Deadlines`,
  `QuietAfterClose` is of a `Close` that overlaps neither).

## What is proved

Every theorem is for all values of the constants: any number of readers, writers,
participants or calls, any bound.

| module | theorems | assumes |
|---|---|---|
| `RtpsReliableProofs` | `TypeCorrect` (`TypeOK`), `AcksAreTrue` (`NoFalseAck`), `DrainStaysOpen` (`AckNeverComplete`, the cause of what `drain` finds), `MovesForward` (`ForwardOnly`), `TrackersExact` (`TrackerExact`), `HistoryImplementsKeepLast` (`ImplementsKeepLast`) | positive depth, window and bounds (`ReliableState`, `RtpsReliable`) |
| `ReaderDeliveryProofs` | `TypeCorrect` (`TypeOK`), `SendsAreSafe` (`NoSendOnClosed`), `DeliveredInOrder` (`InOrder`), `LateJoinersCurrent` (`JoinersCurrent`) | `DeliveryAssumption`: the receive loop is no local writer, the capacity is positive, `NoSample` is no sample |
| `Discovery` | `TypeCorrect` (`TypeOK`), `MatchesKept` (`NoMissedMatch`), `LocksOrdered` (`NoLockCycle`) | `DiscoveryAssumption`: each endpoint has one owner and one topic, `None` is nobody |
| `Rpc` | `TypeCorrect` (`TypeOK`), `RepliesMatch` (`RightReply`), `PendingBounded` (`NoLeak`), `NoReplyLost` (`Answerable`) | `Fresh`: `None` is no reply |
| `ReplayGuard` | `TypeCorrect` (`TypeOK`), `AcceptedOnce` (`OncePerWindow`) | `Window` is an integer, the two bounds are naturals |
| `WriterQos` | `TypeCorrect` (`TypeOK`), `StrongestOwns` (`ActiveIsStrongest`), `LostAreSilent` (`LostIsSilent`), `SeparationHolds` (`SeparationKept`) | `Settings`: finitely many writers, integer strengths, distinct GUIDs |
| `Fragments` | `TypeCorrect` (`TypeOK`), `PayloadsIntact` (`Intact`) | `Settings`: a positive fragment size; within one participant, entity id and number name one message |
| `SafetyChain` | `TypeCorrect` (`TypeOK`), `GapsExact` (`GapExact`), `QueueInOrder` (`QueueFifo`), `AllCounted` (`NothingUncounted`) | `Settings`: a positive modulus, natural depths and bounds |

**The reliable protocol.**  First lemmas about the methods: `store` keeps `WindowOK`
(the window is at most `Depth` wide) and `RingOK` (every occupied slot is the slot of
the number it holds); `StoreContents`: what `get` answers after a `store` is the keep-last
map after its `Store`; what `record`, `initExpected` and `missing` do to `expected` and
`ahead`.  `NoFalseAck` says that no watermark and no ACKNACK in flight covers a
sample its reader did not get since first contact.  It is not inductive: an ACKNACK
is true only if the tracker it was made from was.  The inductive invariant is
`IInv`, the conjunction of `Types`, `WriterInv` (the window and `acked` lie within
what was written), `ReaderInv` (everything between `anchor` and `expected`, and
everything in `ahead`, was delivered) and `DatagramInv` (a datagram in flight says
what was true when it was sent, and watermarks only grow, so it is still true).
`DrainStaysOpen` follows from `DatagramInv`: an ACKNACK is sent only when something
is missing, so its base is at most `seq`.  `TrackersExact` adds `Remembered` to `IInv`:
when the reorder buffer reaches far enough, whatever the reader received lies below
the watermark or in the buffer.  It is kept because a HEARTBEAT sets the watermark
only of a reader that has received nothing, and `record` drops only numbers too far
ahead.  `HistoryImplementsKeepLast`: the initial
history maps to the empty map, `Write` to a `Store` or a stutter, every other step to a
stutter.

**Local delivery.**  `ThreadInv`: a goroutine inside `Write` carries its newest sample, and
one that sends holds `r.mu` of a reader that is not closed.  `CloseInv`: `closed` is set
before the channel is closed, and after the reader left the table.  Together they give
`NoSendOnClosed`.  `InOrder` and `JoinersCurrent` need to know where a `Write` is:
`Ahead(t, r)` says that goroutine `t` has its sample and has not come to reader `r` yet.
`OrderInv`: what a reader got of each local writer is in order, nothing of it is newer than
the writer's count, and a Volatile reader that `t` has not come to does not have its
sample.  It is kept because the receive loop drops what multicast loops back.  `LastInv`: `lastSample` is the newest
sample of the writer that wrote it.  `JoinInv`: an open, durable reader that lost
nothing has `lastSample`, or the sample's writer has not come to it yet; when all writers are
idle only the first is left.

**Discovery.**  `NoMissedMatch` is inductive with `Owing` (the SEDP loop has nobody left to
tell when it is idle or adds the locator, and holds `sedp.mu` only inside
`onRemoteWriter`), `Foreign` (a loop's peer is another participant, the endpoint being
registered is an own one, an announcement is never addressed to its sender) and the
types.  `NoLockCycle` follows from `Owing` alone.

**Request-reply.**  `Addressed` (what `demux` holds or a channel contains carries the id it was
looked up with), `Once` (an id whose reply is taken is no longer pending, and comes in
once) and `Reachable` (`Answerable`, from the registration on).

**Replay guard.**  `SeenInv`: an entry is the last acceptance of its number, and a number
accepted before that has no entry was purged for a time more than `Window` later
(`peak`).  A message that is no earlier than that one (`ahead = 0`) is therefore more than
`Window` after the acceptance; of an earlier one nothing follows, and nothing holds.

**QoS enforcement.**  `ActiveIsStrongest` is about a loop over a map in random order, which
the model writes as the set of results of a fold of `better` over every order.
`LoopPicksBest` shows that the set has one member, the writer that beats all
others (`Best`): `BeatsOrder` makes "stronger, or as strong with the smaller GUID" a
strict total order, `BestExists` gives a finite set its best member, `BetterAdds` is one
round of the loop.  With `FilterInv` (the filter's clock of a writer is never behind
its deliveries) the invariant is inductive; `SeparationKept`, about what was really put into
the channel, follows from it at each delivery.

**Fragments.**  `FragBounds` and `FragmentCarries`: each byte of a payload is in exactly one
of the fragments `split` makes, at the offset `receive` computes.  `BufferOK`: a buffer has
the size of the message that began it and has counted each fragment it has seen once.
`BuffersInv` adds that every byte in it is one of a message with its key, at its place
(`InPlace`), and, when one participant alone uses the key (`Alone`), that it holds the
bytes of the fragments seen (`Holds`).  `CompleteIsPayload`: when the count reaches the
total every fragment has been seen, so the buffer is then the payload.  `IntactStays`: a
message written later can take `Alone` away, never spoil what was said of a payload.
The assumption is that one participant does not use a number of one writer twice.

**Safety chain.**  `SameResidue`: two numbers less than a modulus apart that have the same
residue are equal, so that comparing counters modulo 2^32 loses nothing while fewer
than 2^32 frames are missing.  `QueueInv`: what was written followed by what waits is in
the order of the `Enqueue` calls (`UpTo`).  `MonitorInv`: while `check` holds a snapshot,
the snapshot is what has been compared with the threshold.

In each, one lemma per conjunct of the invariant has one step per action.  The library's
induction theorems are parameterised by a predicate, which the provers cannot
instantiate.  The two inductions over data in `WriterQos` are therefore arguments by a
least counterexample: `LeastNat` (a set of naturals that is not empty has a least
member) and `MinimalSubset` (a set of finite sets has a minimal one).

Only model-checked:

* all liveness (`Recovery`, `Completes`, `Converges`, `CrashedForgotten`, `Returns`,
  `Arrives`, `Settles`), which is out of TLAPS's reach;
* what `Wire`, `Announcements` and `ContentFilter` compute, whose parsers are RECURSIVE
  operators, which the prover does not take; `MCServices` reaches them, so its
  properties, conjunctions over the components, are not theorems either: the theorems
  are about the components' own specifications, of which `WriterQos`, `Fragments`,
  `SafetyChain`, `Rpc` and `ReplayGuard` are five;
* the safety properties of the remaining components: `Cdr`, `WsFrames`, the mock and
  shared-memory transports, `Persist`, the sockets and bridges, `Startup`, `Routing`,
  `ReaderLocators`, `WsJoin`, `Deadlines`, `WaitSet`, the observability services and
  the operator.

## Not modelled, and the plan

`PROJECT.json` lists every part with its status.  Left out, and why:

* DDS API types and the adapter: values that each transport interprets, no state.
* Pools and loans: a `sync.Pool` and a flag; a property would restate the flag.
* Cryptography, certificates, handshakes, the HTTP upgrade, the CRC: arithmetic on
  bytes.  Their outcome (accepted or not, corrupted or not) is an input of the models.
* UDP sockets, STUN, socket options, the browser socket: kernel or browser calls.
* TSN: configuration and kernel calls; its effect on retransmission is `TsnSocket`.
* ROS 2: names, hashes and encodings over the DDS API.
* Tools, configuration files, transport selection, Cyclone binding: one pass over an
  input, or foreign code.
* Text: metrics, log lines, GUIDs, topic patterns, the tokenizer of filters.

Next: topic patterns and the tokenizer against reference definitions; the topic bus
that `MockBroker` and `ReaderDelivery` both promise as an abstract specification;
proofs of `EveryConnOwned` (`PeerSockets`) and `ForwardedInOrder` (`Wan`).
