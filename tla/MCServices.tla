----------------------------- MODULE MCServices ------------------------------
(* The components around a participant, for TLC: the in-process broker, the *)
(* shared-memory transport, persistence, the QoS policies, deadlines,       *)
(* content filters, wait sets, RPC, the safety layer, the recording tools,  *)
(* the admission webhook, and the formats messages are written in. They do  *)
(* not share state; a behaviour is about one of them.                       *)
EXTENDS Slots, Integers, Sequences, FiniteSets

CONSTANTS None, NoWriter, NoFilter, NoLocator, Key, NoKey

\* The mock broker, with TransientLocal: p2 may own the topic; s2 is in another
\* partition than p2.
Durable == {"p1", "p2", "s1", "s2"}
Strength == [p1 |-> 0, p2 |-> 1]
Passes == {"p1", "p2"} \X {"s1", "s2", "w1"}
Together == Passes \ {<<"p2", "s2">>}
Depths == [s1 |-> 1, s2 |-> 1, w1 |-> 1]

\* The shared-memory writers and readers; r2 is in a process of its own.
Homes == [w1 |-> 1, w2 |-> 1, r1 |-> 1, r2 |-> 2]
Sizes == [w1 |-> 1, w2 |-> 2]

\* Submessages of this implementation, and bitmaps and byte orders of others.
DATA(s, p) == [id |-> "DATA", reader |-> "r", writer |-> "w", sn |-> s, payload |-> p]
HEARTBEAT(s) == [id |-> "HEARTBEAT", reader |-> "r", writer |-> "w", first |-> 3, last |-> s, count |-> 1]
ACKNACK(s, b, f) == [id |-> "ACKNACK", reader |-> "r", writer |-> "w", base |-> s, bitmap |-> b,
                     count |-> 1, foreign |-> f]
GAP(s, t) == [id |-> "GAP", reader |-> "r", writer |-> "w", from |-> s, to |-> t]
Submessages ==
  {DATA(s, p) : s \in {1, 3, 4, 7}, p \in {0, 2, 10}} \cup {HEARTBEAT(s) : s \in {3, 4}}
  \cup {ACKNACK(4, b, f) : b \in SUBSET (0..2), f \in BOOLEAN}
  \cup {ACKNACK(3, b, TRUE) : b \in {{0, 3}, {2, 4, 5}, {5}, {7}}}
  \cup {GAP(s, t) : s \in {1, 4}, t \in {3, 7}}
  \cup {[id |-> "INFO_TS", sec |-> s, nsec |-> n] : s \in {6, 7, 8, 16}, n \in 0..4}
  \cup {[id |-> "BIGENDIAN", payload |-> p] : p \in {0, 1, 5}}

\* Announcements whose texts fit their length field, and some that do not.
Text(t, k) == [text |-> t, n |-> k]
Participants ==
  {[what |-> "participant", guid |-> "g1", meta |-> 1, data |-> 2, ports |-> pt, relay |-> r] :
     pt \in {<<>>, [tcp |-> 3], [tcp |-> 3, quic |-> 4, ws |-> 0], [quic |-> 4, ws |-> 5]},
     r \in {<<>>, Text("id", 2), Text("long", 60)}}
Endpoint(w, t, ps, f, ex, l) ==
  [what |-> "endpoint", guid |-> "g2", writer |-> w, topic |-> t, type |-> Text("T", 1), data |-> 2,
   partitions |-> ps, filter |-> f, exclusive |-> ex, strength |-> 7, lease |-> l]
TopicNames == {Text("", 0), Text("t", 3), Text("u", 60)}
Partitions == {<<>>, <<Text("a", 1)>>, <<Text("a", 1), Text("b", 4)>>}
FilterTexts == {<<>>, <<Text("ok", 7)>>, <<Text("ok", 7), Text("1", 1), Text("2", 2)>>,
                <<Text("bad", 3), Text("1", 1)>>}
Endpoints ==
  {Endpoint(TRUE, t, ps, <<>>, ex, l) : t \in TopicNames, ps \in Partitions, ex \in BOOLEAN, l \in {0, 5}}
  \cup {Endpoint(FALSE, t, ps, f, FALSE, 0) : t \in TopicNames, ps \in Partitions, f \in FilterTexts}
SourceAddrs == {[v4 |-> TRUE, host |-> "h"], [v4 |-> FALSE, host |-> "h6"]}

\* Fields of every width, and strings and octet sequences of several lengths.
Fields == {[kind |-> "number", size |-> k, is |-> "a"] : k \in {1, 2, 4, 8}}
  \cup {[kind |-> t, n |-> m, is |-> "t"] : t \in {"string", "bytes"}, m \in {0, 1, 3}}

\* Filter expressions over two fields, a literal and one parameter.
Words == {<<"x", "<", "n">>, <<"y", "<>", "p0">>, <<"AND">>, <<"OR">>, <<"NOT">>,
          <<"(">>, <<")">>, <<"x">>, <<"=">>, <<"n">>, <<"p1">>}
Literal == [n |-> [type |-> "num", rank |-> 1], s |-> [type |-> "str", rank |-> 1]]
Params == <<[type |-> "param", numeric |-> TRUE, rank |-> 1]>>
FieldValues == {[type |-> "num", rank |-> 0], [type |-> "num", rank |-> 1],
                [type |-> "str", rank |-> 0], [type |-> "other", rank |-> 0]}
Payloads == {[json |-> "bad", fields |-> <<>>], [json |-> "null", fields |-> <<>>]}
  \cup {[json |-> "object", fields |-> f] : f \in UNION {[D -> FieldValues] : D \in SUBSET {"x", "y"}}}

\* Two publishers that compete for ownership.
Owners == INSTANCE MockBroker WITH
  Pubs <- {"p1", "p2"}, Exact <- {"s1", "s2"}, Wild <- {}, MaxWrites <- 1,
  Depth <- Depths, Policy <- [s1 |-> "DropNewest", s2 |-> "DropOldest"],
  array <- x1, subs <- x2, wild <- x3, last <- x4, owners <- x5, pub <- x6,
  member <- x7, chan <- x8, panic <- x9, newest <- x10, sent <- x11

\* A pattern subscriber and a blocking one.
Pattern == INSTANCE MockBroker WITH
  Pubs <- {"p1"}, Exact <- {"s1", "s2"}, Wild <- {"w1"}, MaxWrites <- 2,
  Depth <- Depths,
  Policy <- [s1 |-> "DropNewest", s2 |-> "Block", w1 |-> "DropOldest"],
  array <- x1, subs <- x2, wild <- x3, last <- x4, owners <- x5, pub <- x6,
  member <- x7, chan <- x8, panic <- x9, newest <- x10, sent <- x11

\* Writers of either liveliness kind under one lease.
Leases == INSTANCE MockLiveliness WITH
  Writers <- {"w1", "w2"}, Subs <- {"s1"}, Lease <- 3, MinPeriod <- 1,
  MaxSilences <- 2,
  kind <- x1, lastSeen <- x2, fired <- x3, since <- x4, callbacks <- x5, calls <- x6,
  silences <- x7, present <- x8, told <- x9, heard <- x10

\* A lease whose third is below the floor of the assertion period.
Floored == INSTANCE MockLiveliness WITH
  Writers <- {"w1"}, Subs <- {"s1"}, Lease <- 4, MinPeriod <- 2,
  MaxSilences <- 2,
  kind <- x1, lastSeen <- x2, fired <- x3, since <- x4, callbacks <- x5, calls <- x6,
  silences <- x7, present <- x8, told <- x9, heard <- x10

\* Two writers and the listener of one process.
Writing == INSTANCE Shmem WITH
  Writers <- {"w1", "w2"}, Readers <- {"r1"}, Home <- Homes, Size <- Sizes, Depth <- 1,
  Durable <- {"w1", "w2", "r1"},
  shm <- x1, rest <- x2, last <- x3, dataFile <- x4, sock <- x5, shmSub <- x6, replay <- x7,
  inProc <- x8, loop <- x9, pump <- x10, out <- x11, crashed <- x12, toucher <- x13,
  told <- x14, overlap <- x15, lastRead <- x16, offered <- x17

\* One process that writes, two that listen.
Listening == INSTANCE Shmem WITH
  Writers <- {"w1"}, Readers <- {"r1", "r2"}, Home <- Homes, Size <- Sizes, Depth <- 1,
  Durable <- {"w1", "r1", "r2"},
  shm <- x1, rest <- x2, last <- x3, dataFile <- x4, sock <- x5, shmSub <- x6, replay <- x7,
  inProc <- x8, loop <- x9, pump <- x10, out <- x11, crashed <- x12, toucher <- x13,
  told <- x14, overlap <- x15, lastRead <- x16, offered <- x17

\* Flushes of a short and a long sample, and a crash.
Disk == INSTANCE Persist WITH
  Writers <- {"w1", "w2"}, Size <- Sizes, MaxWrites <- 2, MaxJoins <- 2,
  MaxCrashes <- 1,
  mem <- x1, file <- x2, flush <- x3, seq <- x4, joiner <- x5, joins <- x6,
  crashes <- x7, newest <- x8, flushed <- x9, calm <- x10, alone <- x11

\* A writer of our own and two remote; two of the same strength, one stronger.
Qos == INSTANCE WriterQos WITH
  Writers <- {"w1", "w2", "w3"}, Own <- {"w1"},
  GuidRank <- [w1 |-> 2, w2 |-> 1, w3 |-> 3],
  Strength <- [w1 |-> 5, w2 |-> 5, w3 |-> 6], Exclusive <- {"w1", "w2", "w3"},
  Manual <- {"w2"}, Lease <- 1, MinSeparation <- 2,
  wstate <- x1, remoteUp <- x2, strengths <- x3, active <- x4, sources <- x5,
  tracked <- x6, age <- x7, fired <- x8, lastAge <- x9, gotAge <- x10,
  early <- x11

\* Deadline timers of two ticks, with two of their goroutines at once.
Late == INSTANCE Deadlines WITH
  Period <- 2, Calls <- {"c1", "c2"},
  kind <- x1, end <- x2, timer <- x3, calls <- x4, delivery <- x5, since <- x6,
  told <- x7, clean <- x8, panicked <- x9

\* Two subscribers, one of which may be attached twice.
Waiting == INSTANCE WaitSet WITH
  Subs <- {"a", "b"}, MaxSamples <- 2, MaxAttached <- 3,
  subs <- x1, queue <- x2, published <- x3, closed <- x4, cancelled <- x5, pc <- x6,
  snapshot <- x7, dir <- x8, result <- x9

\* Faulty writes with a reorder window,
Windowed == INSTANCE FaultPublisher WITH
  Writers <- {"w1", "w2", "w3"}, Window <- 2,
  fw <- x1, window <- x2, fclose <- x3, flush <- x4, open <- x5, emitted <- x6,
  took <- x7, buffered <- x8

\* and without one.
Plain == INSTANCE FaultPublisher WITH
  Writers <- {"w1", "w2"}, Window <- 1,
  fw <- x1, window <- x2, fclose <- x3, flush <- x4, open <- x5, emitted <- x6,
  took <- x7, buffered <- x8

\* Two calls, and two repliers that may both answer.
Calling == INSTANCE Rpc WITH
  Calls <- {"c1", "c2"}, Repliers <- {"l1", "l2"},
  call <- x1, pending <- x2, replyCh <- x3, demux <- x4, rpcDone <- x5, requests <- x6,
  replies <- x7, serving <- x8, up <- x9, answer <- x10

\* Four frames over a counter modulo three.
Safety == INSTANCE SafetyChain WITH
  M <- 3, QueueDepth <- 2, OutDepth <- 1, MaxEnqueue <- 2, MaxDirect <- 2,
  Threshold <- 1,
  queue <- x1, enqueued <- x2, sent <- x3, writer <- x4, direct <- x5, halt <- x6,
  counter <- x7, net <- x8, first <- x9, lastN <- x10, metrics <- x11, outLen <- x12,
  prev <- x13, mon <- x14, counted <- x15, alerts <- x16

\* Timestamps in any order over twice the window.
Guard == INSTANCE ReplayGuard WITH
  Seqs <- {1, 2}, Window <- 2, MaxTime <- 4, MaxChecks <- 2,
  seen <- x1, wallClock <- x2, past <- x3

\* Two topics, started twice.
Recording == INSTANCE Recorder WITH
  Topics <- {"t1", "t2"}, MaxStarts <- 2, MaxSamples <- 2,
  svc <- x1, starts <- x2, rsub <- x3, rchan <- x4, heard <- x5, rdone <- x6,
  drain <- x7, lines <- x8

\* Three lines of two topics.
Replaying == INSTANCE Replayer WITH
  Lines <- 3, Topics <- 2, MaxStops <- 2,
  once <- x1, loopOpt <- x2, player <- x3, pos <- x4, pubs <- x5, rctx <- x6,
  played <- x7, stop <- x8

\* Messages of up to two submessages, with small fields.
Packet == INSTANCE Wire WITH
  Octet <- 4, Low <- 4, Bits <- 3, MaxBits <- 6, Era <- 8, Frac <- 8, Nano <- 5,
  MaxSubs <- 2, Skews <- -3..3,
  sub <- x1, wire <- x2, got <- x3

\* Announcements, signed or not.
Announcing == INSTANCE Announcements WITH
  Sources <- SourceAddrs, Keys <- {Key, NoKey}, LenMod <- 64, BadFilters <- {"bad"},
  sent <- x1, signer <- x2, wire <- x3, source <- x4, learnt <- x5

\* Readers that share locators, with and without a filter.
Locate == INSTANCE ReaderLocators WITH
  Readers <- {"r1", "r2", "r3"}, Locators <- {"l1", "l2"}, Filters <- {"f1", "f2"},
  reader <- x1, passes <- x2, left <- x3, entries <- x4

\* All expressions of up to four words, against every payload.
Filter == INSTANCE ContentFilter WITH
  MaxWords <- 4,
  toks <- x1, typed <- x2, expr <- x3, last <- x4

\* Types of up to three fields.
Encoding == INSTANCE Cdr WITH
  Values <- Fields, MaxFields <- 3,
  fields <- x1, buf <- x2, phase <- x3, pos <- x4, values <- x5

\* WebSocket frames at the borders of the length encoding.
Framing == INSTANCE WsFrames WITH
  Sizes <- {0, 125, 126, 65535, 65536, 1048575}, MaxSize <- 1048576, MaxFrames <- 3,
  mine <- x1, msgs <- x2, part <- x3, pings <- x4, stream <- x5, frames <- x6,
  buf <- x7, got <- x8, pongs <- x9, rstate <- x10

\* A pod that is admitted twice.
Admitting == INSTANCE Admission WITH
  Containers <- {"c1", "c2"}, Optionals <- {"DDS_PEERS", "DDS_TRANSPORT"},
  MaxReviews <- 2, MaxChanges <- 1,
  annotated <- x1, env <- x2, declared <- x3, participant <- x4, bound <- x5,
  reviews <- x6, changes <- x7, warned <- x8

Init ==
  \/ part = "owners" /\ Idle11 /\ Owners!Init
  \/ part = "pattern" /\ Idle11 /\ Pattern!Init
  \/ part = "leases" /\ Idle10 /\ Leases!Init
  \/ part = "floored" /\ Idle10 /\ Floored!Init
  \/ part = "writing" /\ Idle17 /\ Writing!Init
  \/ part = "listening" /\ Idle17 /\ Listening!Init
  \/ part = "disk" /\ Idle11 /\ Disk!Init
  \/ part = "qos" /\ Idle11 /\ Qos!Init
  \/ part = "deadlines" /\ Idle9 /\ Late!Init
  \/ part = "waiting" /\ Idle9 /\ Waiting!Init
  \/ part = "windowed" /\ Idle8 /\ Windowed!Init
  \/ part = "plain" /\ Idle8 /\ Plain!Init
  \/ part = "rpc" /\ Idle10 /\ Calling!Init
  \/ part = "safety" /\ Idle16 /\ Safety!Init
  \/ part = "replay" /\ Idle3 /\ Guard!Init
  \/ part = "recorder" /\ Idle8 /\ Recording!Init
  \/ part = "replayer" /\ Idle8 /\ Replaying!Init
  \/ part = "wire" /\ Idle3 /\ Packet!Init
  \/ part = "announce" /\ Idle5 /\ Announcing!Init
  \/ part = "locators" /\ Idle4 /\ Locate!Init
  \/ part = "filter" /\ Idle4 /\ Filter!Init
  \/ part = "cdr" /\ Idle5 /\ Encoding!Init
  \/ part = "frames" /\ Idle10 /\ Framing!Init
  \/ part = "admission" /\ Idle8 /\ Admitting!Init

Next ==
  \/ part = "owners" /\ Same11 /\ Owners!Next
  \/ part = "pattern" /\ Same11 /\ Pattern!Next
  \/ part = "leases" /\ Same10 /\ Leases!Next
  \/ part = "floored" /\ Same10 /\ Floored!Next
  \/ part = "writing" /\ Same17 /\ Writing!Next
  \/ part = "listening" /\ Same17 /\ Listening!Next
  \/ part = "disk" /\ Same11 /\ Disk!Next
  \/ part = "qos" /\ Same11 /\ Qos!Next
  \/ part = "deadlines" /\ Same9 /\ Late!Next
  \/ part = "waiting" /\ Same9 /\ Waiting!Next
  \/ part = "windowed" /\ Same8 /\ Windowed!Next
  \/ part = "plain" /\ Same8 /\ Plain!Next
  \/ part = "rpc" /\ Same10 /\ Calling!Next
  \/ part = "safety" /\ Same16 /\ Safety!Next
  \/ part = "replay" /\ Same3 /\ Guard!Next
  \/ part = "recorder" /\ Same8 /\ Recording!Next
  \/ part = "replayer" /\ Same8 /\ Replaying!Next
  \/ part = "wire" /\ Same3 /\ Packet!Next
  \/ part = "announce" /\ Same5 /\ Announcing!Next
  \/ part = "locators" /\ Same4 /\ Locate!Next
  \/ part = "filter" /\ Same4 /\ Filter!Next
  \/ part = "cdr" /\ Same5 /\ Encoding!Next
  \/ part = "frames" /\ Same10 /\ Framing!Next
  \/ part = "admission" /\ Same8 /\ Admitting!Next

Spec == Init /\ [][Next]_slots

\* Every variable of every component has its type.
TypeOK ==
  /\ part = "owners" => Owners!TypeOK
  /\ part = "pattern" => Pattern!TypeOK
  /\ part = "leases" => Leases!LivelinessTypeOK
  /\ part = "floored" => Floored!LivelinessTypeOK
  /\ part = "writing" => Writing!TypeOK
  /\ part = "listening" => Listening!TypeOK
  /\ part = "disk" => Disk!TypeOK
  /\ part = "qos" => Qos!TypeOK
  /\ part = "deadlines" => Late!DeadlinesTypeOK
  /\ part = "waiting" => Waiting!TypeOK
  /\ part = "windowed" => Windowed!FaultTypeOK
  /\ part = "plain" => Plain!FaultTypeOK
  /\ part = "rpc" => Calling!TypeOK
  /\ part = "safety" => Safety!TypeOK
  /\ part = "replay" => Guard!TypeOK
  /\ part = "recorder" => Recording!RecorderTypeOK
  /\ part = "replayer" => Replaying!ReplayerTypeOK
  /\ part = "wire" => Packet!WireTypeOK
  /\ part = "announce" => Announcing!AnnouncementsTypeOK
  /\ part = "locators" => Locate!LocatorsTypeOK
  /\ part = "filter" => Filter!FilterTypeOK
  /\ part = "cdr" => Encoding!CdrTypeOK
  /\ part = "frames" => Framing!WsFramesTypeOK
  /\ part = "admission" => Admitting!AdmissionTypeOK

\* TransientLocal on the three transports: whoever comes late is given the
\* newest sample. In the mock once nobody writes, whichever way the join raced
\* the Write; in shared memory the newest of its own process, and a listener the
\* payload last written to the file or, where two writes overlapped, what they
\* left there; from disk the sample whose flush completed last, byte for byte
\* and over crashes and restarts, where no two flushes overlapped.
NewestGiven ==
  /\ part = "owners" => Owners!JoinersCurrent
  /\ part = "pattern" => Pattern!JoinersCurrent
  /\ part = "writing" => Writing!CaughtUp /\ Writing!JoinersCurrent
  /\ part = "listening" => Listening!CaughtUp /\ Listening!JoinersCurrent
  /\ part = "disk" => Disk!RestoredWhole

\* What is written reaches those it is for: mock Write visits every subscriber
\* by name once although others join, and those by pattern while nobody joins;
\* matchedReaderLocators sends to a locator exactly when a reader behind it
\* wants the sample, in every order; the fault injector has written what its
\* window held at Close when Close returns, whatever Writes overlap it; a replay
\* that ends well has written every line.
EveryoneServed ==
  /\ part = "owners" => Owners!StayersServed
  /\ part = "pattern" => Pattern!StayersServed
  /\ part = "locators" => Locate!SentIffWanted
  /\ part = "windowed" => Windowed!FaultFlushed
  /\ part = "plain" => Plain!FaultFlushed
  /\ part = "replayer" => Replaying!WholePass

\* Callbacks about silence are true: a silence is reported once; an automatic
\* writer is not lost although ticks come late, where the lease is two periods
\* of assertion, floored or not; a writer marked lost has been silent for its
\* lease; a deadline timer runs out no sooner than a period after the last
\* sample; no deadline callback runs after a Close it did not overlap.
NoFalseAlarm ==
  /\ part = "leases" => Leases!OncePerSilence /\ Leases!AutomaticStaysAlive
  /\ part = "floored" => Floored!OncePerSilence /\ Floored!AutomaticStaysAlive
  /\ part = "qos" => Qos!LostIsSilent
  /\ part = "deadlines" => Late!NeverEarly /\ Late!QuietAfterClose

\* recomputeLocked: the active writer is the one that beats all others, in
\* whatever order the map was ranged over, and there is one as soon as a
\* writer is registered.
ActiveIsStrongest == part = "qos" => Qos!ActiveIsStrongest

\* A call that waits is given its own answer: Wait returns a sample of the
\* subscriber it names, and ErrClosed only when all are closed and empty;
\* Request returns the reply to its own id, and can be answered as long as it
\* waits.
RightAnswer ==
  /\ part = "waiting" => Waiting!RightSubscriber /\ Waiting!ClosedMeansAll
  /\ part = "rpc" => Calling!RightReply /\ Calling!Answerable

\* What is over holds nothing: no entry of a finished Request stays in
\* pending, whichever of reply, context and failed write came first; a
\* recorder that does not run holds no subscriber, after a Start that failed
\* half way too.
NothingHeld ==
  /\ part = "rpc" => Calling!NoLeak
  /\ part = "recorder" => Recording!IdleHoldsNothing

\* The safety layer: no accepted payload overtakes another in the queue, and
\* every violation counted so far was compared with the threshold once,
\* although the counters move while check runs.
OrderedAndCounted == part = "safety" => Safety!QueueFifo /\ Safety!NothingUncounted

\* replay guard Check: a message no earlier than those before it is accepted
\* with a sequence number seen before only if more than the window lies between
\* the two timestamps.
OncePerWindow == part = "replay" => Guard!OncePerWindow

\* Every format is read as it was written: RTPS submessages across eras and
\* byte orders, the parameter lists of SPDP and SEDP with the source for unset
\* addresses, CDR at any alignment, WebSocket messages at every border of the
\* length encoding, of which only those that are too large are refused.
ReadAsWritten ==
  /\ part = "wire" => Packet!ReadAsSent
  /\ part = "announce" => Announcing!PeerLearntRight /\ Announcing!EndpointLearntRight
  /\ part = "cdr" => Encoding!DecodedAsEncoded
  /\ part = "frames" => Framing!Reassembled /\ Framing!OnlyLargeRefused

\* cfilter: Parse accepts exactly what the grammar derives once a comparison may
\* be of any two operands; an expression of the grammar itself passes the
\* samples it is true of, with AND binding closer than OR and NOT closest, and,
\* negations aside, none on which it cannot be decided.
FilterRight == part = "filter" => Filter!GrammarAccepted /\ Filter!VerdictRight

\* operator BuildPatch: what the application declared is never overridden,
\* however often the webhook is invoked.
DeclaredWins == part = "admission" => Admitting!DeclaredWins

\* The checks of a receiver are exact: E2E reports a gap for a frame exactly
\* when the frame written before it is not the one received before it, across
\* the wrap-around of the counter; an announcement both sides hold the key for
\* is accepted if its values fit their length fields.
VerdictsExact == [][
  /\ part = "safety" => Safety!GapReported
  /\ part = "announce" => Announcing!Accepted]_slots

\* What is to be withheld is: no sample of a writer is delivered less than
\* MinSeparation after the one before it, within a tick or over several, and no
\* line is written to the output of a recorder after its Stop has returned.
Withheld == [][
  /\ part = "qos" => Qos!SeparationKept'
  /\ part = "recorder" => Recording!Quiet]_slots
==============================================================================
