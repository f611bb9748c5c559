------------------------------ MODULE MCNetwork ------------------------------
(* How a participant reaches others, for TLC: ports at start-up, routing    *)
(* over the transports, the join over WebSocket, fragmentation, the sockets *)
(* of the stream and datagram transports, the WAN bridge, the relay, and    *)
(* the WebSocket, gRPC and REST gateways. They do not share state; a        *)
(* behaviour is about one of them.                                          *)
EXTENDS Slots, Integers, Sequences, FiniteSets

CONSTANTS None, Register, Caller, Nowhere

\* Two peers on our own host and one on another, over five transports.
Hosts == [q1 |-> "h1", q2 |-> "h1", q3 |-> "h2"]
Offered == [q1 |-> {"tcp"}, q2 |-> {"tcp", "quic"}, q3 |-> {"tcp", "ws"}]

\* One participant with IPv6 and optional sockets, two without multicast.
Option(v6, mc, w) == [ipv6 |-> v6, noMulticast |-> ~mc, want |-> w]
Starting == [p1 |-> {Option(TRUE, TRUE, {"tcp", "relay"})}, p2 |-> {Option(FALSE, FALSE, {})},
             p3 |-> {Option(FALSE, FALSE, {})}]

\* Fragments of two bytes: with a short last one, without, and too large.
Message(p, s, l) == [prefix |-> p, eid |-> "w1", seq |-> s, len |-> l]
Short == Message("p", 1, 5)
Even == Message("p", 2, 4)
Large == Message("p", 3, 6)
Brief == Message("p", 4, 3)
Foreign == Message("q", 4, 4)

\* Sends to peers that come and go over every transport.
Route == INSTANCE Routing WITH
  Peers <- {"q1", "q2", "q3"}, Host <- Hosts, Here <- "h1", Offers <- Offered,
  Enabled <- {"dtls", "quic", "ws", "tcp", "relay"}, DtlsHosts <- {"h2"},
  Relayed <- {"q2", "q3"}, WsDialled <- {"q2"}, Multicast <- FALSE, MaxSends <- 2,
  peers <- x1, relayed <- x2, learnt <- x3, msg <- x4, sends <- x5, last <- x6

\* Two that start as often as three times, one with every transport.
Restarting == [p1 |-> {Option(TRUE, TRUE, {"tcp", "dtls", "quic", "ws", "relay"})},
               p2 |-> {Option(FALSE, FALSE, {})}]

\* Three participants of one domain that start and stop once;
Start == INSTANCE Startup WITH
  Procs <- {"p1", "p2", "p3"}, Range <- 3, Span <- 4, Domain <- 1, Options <- Starting,
  MaxStarts <- 1,
  pc <- x1, opts <- x2, idx <- x3, probe <- x4, ports <- x5, socks <- x6, loops <- x7,
  multicast <- x8, starts <- x9

\* two that also restart.
Restart == INSTANCE Startup WITH
  Procs <- {"p1", "p2"}, Range <- 2, Span <- 4, Domain <- 1, Options <- Restarting,
  MaxStarts <- 3,
  pc <- x1, opts <- x2, idx <- x3, probe <- x4, ports <- x5, socks <- x6, loops <- x7,
  multicast <- x8, starts <- x9

\* A dial-only participant and a listener, with the periods of the code in seconds.
Joining == INSTANCE WsJoin WITH
  Period <- 2, Jitter <- 1, Transit <- 1, Lease <- 10, MaxResets <- 2,
  peers <- x1, chan <- x2, conn <- x3, since <- x4, resets <- x5, met <- x6

\* Two messages whose fragments mix;
Fragmenting == INSTANCE Fragments WITH
  Msgs <- {Short, Even}, Size <- 2, StaleAge <- 0, MaxReassembly <- 5,
  sent <- x1, net <- x2, buffers <- x3, delivered <- x4, hurt <- x5, panicked <- x6

\* one with that of another participant that has the same entity id and number;
Sharing == INSTANCE Fragments WITH
  Msgs <- {Brief, Foreign}, Size <- 2, StaleAge <- 0, MaxReassembly <- 5,
  sent <- x1, net <- x2, buffers <- x3, delivered <- x4, hurt <- x5, panicked <- x6

\* one beside a message that is too large.
Oversize == INSTANCE Fragments WITH
  Msgs <- {Short, Large}, Size <- 2, StaleAge <- 0, MaxReassembly <- 5,
  sent <- x1, net <- x2, buffers <- x3, delivered <- x4, hurt <- x5, panicked <- x6

\* Two topics over one WAN connection.
Wide == INSTANCE Wan WITH
  Topics <- {"t1", "t2"}, MaxPub <- 2, Buf <- 3,
  subch <- x1, npub <- x2, sender <- x3, wmu <- x4, cend <- x5, cclose <- x6,
  pipe <- x7, send <- x8, accept <- x9, tracked <- x10, recv <- x11, sclose <- x12,
  passed <- x13, garbled <- x14

\* A relay client that reconnects under its ID.
Turn == INSTANCE Relay WITH
  Conns <- {"k1", "k2"}, IDs <- {"a", "b"}, IdOf <- [k1 |-> "a", k2 |-> "a"],
  MaxSend <- 1, Pipe <- 1,
  ksock <- x1, kloop <- x2, ksent <- x3, up <- x4, down <- x5, kend <- x6, hend <- x7,
  handler <- x8, clients <- x9, raccept <- x10, rclose <- x11, latest <- x12

\* Two senders to one peer;
Dialling == INSTANCE PeerSockets WITH
  Senders <- {"p1", "p2"}, Dialled <- {1, 2}, Inbound <- {},
  kind <- x1, sock <- x2, cache <- x3, plock <- x4, con <- x5, alive <- x6,
  reader <- x7, snd <- x8, panicked <- x9

\* one sender, and a peer that connects by itself.
Called == INSTANCE PeerSockets WITH
  Senders <- {"p1"}, Dialled <- {1}, Inbound <- {Caller},
  kind <- x1, sock <- x2, cache <- x3, plock <- x4, con <- x5, alive <- x6,
  reader <- x7, snd <- x8, panicked <- x9

\* One WebSocket session with two subscribers;
Bridge == INSTANCE WsBridge WITH
  Sessions <- {"s1"}, MaxSubs <- 2, MaxMsgs <- 3, Pipe <- 1,
  bclosed <- x1, bclose <- x2, left <- x3, sessions <- x4, run <- x5, closed <- x6,
  closer <- x7, by <- x8, done <- x9, conn <- x10, subs <- x11, pub <- x12, sub <- x13,
  fwd <- x14, writeMu <- x15, wire <- x16, msgs <- x17

\* two sessions that come and go.
Bridges == INSTANCE WsBridge WITH
  Sessions <- {"s1", "s2"}, MaxSubs <- 1, MaxMsgs <- 0, Pipe <- 1,
  bclosed <- x1, bclose <- x2, left <- x3, sessions <- x4, run <- x5, closed <- x6,
  closer <- x7, by <- x8, done <- x9, conn <- x10, subs <- x11, pub <- x12, sub <- x13,
  fwd <- x14, writeMu <- x15, wire <- x16, msgs <- x17

\* Two streams and a publisher at the gRPC or the REST gateway.
Gateway == INSTANCE Gateways WITH
  Streams <- {"s1", "s2"}, Publishes <- {"p1"}, MaxEach <- 2, MaxSamples <- 2,
  gate <- x1, gclose <- x2, subs <- x3, pubs <- x4, gsub <- x5, gpub <- x6,
  gchan <- x7, arrived <- x8, stream <- x9, gone <- x10, pcall <- x11

Init ==
  \/ part = "routing" /\ Idle6 /\ Route!Init
  \/ part = "startup" /\ Idle9 /\ Start!Init
  \/ part = "restart" /\ Idle9 /\ Restart!Init
  \/ part = "join" /\ Idle6 /\ Joining!Init
  \/ part = "fragments" /\ Idle6 /\ Fragmenting!Init
  \/ part = "sharing" /\ Idle6 /\ Sharing!Init
  \/ part = "oversize" /\ Idle6 /\ Oversize!Init
  \/ part = "wan" /\ Idle14 /\ Wide!Init
  \/ part = "relay" /\ Idle12 /\ Turn!Init
  \/ part = "dialling" /\ Idle9 /\ Dialling!Init
  \/ part = "called" /\ Idle9 /\ Called!Init
  \/ part = "bridge" /\ Idle17 /\ Bridge!Init
  \/ part = "bridges" /\ Idle17 /\ Bridges!Init
  \/ part = "gateways" /\ Idle11 /\ Gateway!Init

Next ==
  \/ part = "routing" /\ Same6 /\ Route!Next
  \/ part = "startup" /\ Same9 /\ Start!Next
  \/ part = "restart" /\ Same9 /\ Restart!Next
  \/ part = "join" /\ Same6 /\ Joining!Next
  \/ part = "fragments" /\ Same6 /\ Fragmenting!Next
  \/ part = "sharing" /\ Same6 /\ Sharing!Next
  \/ part = "oversize" /\ Same6 /\ Oversize!Next
  \/ part = "wan" /\ Same14 /\ Wide!Next
  \/ part = "relay" /\ Same12 /\ Turn!Next
  \/ part = "dialling" /\ Same9 /\ Dialling!Next
  \/ part = "called" /\ Same9 /\ Called!Next
  \/ part = "bridge" /\ Same17 /\ Bridge!Next
  \/ part = "bridges" /\ Same17 /\ Bridges!Next
  \/ part = "gateways" /\ Same11 /\ Gateway!Next

Spec == Init /\ [][Next]_slots

\* Every variable of every component has its type.
TypeOK ==
  /\ part = "routing" => Route!RoutingTypeOK
  /\ part = "startup" => Start!StartupTypeOK
  /\ part = "restart" => Restart!StartupTypeOK
  /\ part = "join" => Joining!JoinTypeOK
  /\ part = "fragments" => Fragmenting!TypeOK
  /\ part = "sharing" => Sharing!TypeOK
  /\ part = "oversize" => Oversize!TypeOK
  /\ part = "wan" => Wide!TypeOK
  /\ part = "relay" => Turn!RelayTypeOK
  /\ part = "dialling" => Dialling!SocketsTypeOK
  /\ part = "called" => Called!SocketsTypeOK
  /\ part = "bridge" => Bridge!WsTypeOK
  /\ part = "bridges" => Bridges!WsTypeOK
  /\ part = "gateways" => Gateway!GatewaysTypeOK

\* A peer that is there stays known and is the one that is reached: its relay
\* ID stays until it is evicted; addressed alone on its host it is not confused
\* with another; the listener keeps a dial-only peer that announces, and is
\* introduced to it by the reply; the connection that registered a relay ID
\* last stays reachable.
PeersKept ==
  /\ part = "routing" => Route!RelayIDKept /\ Route!AloneIsReached
  /\ part = "join" => Joining!ListenerKeepsDialler /\ Joining!DiallerIntroduced
  /\ part = "relay" => Turn!NewestReachable

\* NewParticipant: up to Range participants that start once each, or two that
\* restart, find a port pair in any interleaving of their searches, and all
\* ports lie in the band DomainPortRange opens for the domain, although the
\* search of an index may walk beyond it.
PortsFound ==
  /\ part = "startup" => Start!PairFound /\ Start!PortsCovered
  /\ part = "restart" => Restart!PairFound /\ Restart!PortsCovered

\* What comes out is what went in: a payload the fragmentAssembler returns is
\* exactly one that was written, whatever was lost, repeated, reordered or
\* given up, unless two participants share an entity id and a number, and then
\* it has bytes of theirs, at their places; the WAN server publishes per topic an initial run of what the
\* client received, although topics share a connection.
StreamsIntact ==
  /\ part = "fragments" => Fragmenting!Intact
  /\ part = "sharing" => Sharing!Intact
  /\ part = "oversize" => Oversize!Intact
  /\ part = "wan" => Wide!ForwardedInOrder

\* Nothing stays open that nobody will close: the sockets of a failed start
\* (but the IPv6 ones it forgets) and of a closed participant, a connection
\* that was dialled, a WebSocket session and what it created, what the gRPC
\* gateway created for calls that raced Close.
NothingLeaks ==
  /\ part = "startup" => Start!SocketsGivenBack
  /\ part = "restart" => Restart!SocketsGivenBack
  /\ part = "dialling" => Dialling!EveryConnOwned
  /\ part = "called" => Called!EveryConnOwned
  /\ part = "bridge" => Bridge!NoSessionMissed /\ Bridge!NothingLeftOpen
  /\ part = "bridges" => Bridges!NoSessionMissed /\ Bridges!NothingLeftOpen
  /\ part = "gateways" => Gateway!GrpcClosedClean

\* tcpReadConn: a TCP connection whose peer is there is never closed by the
\* cleanup of an earlier one to the same address.
LiveTcpKept == [][(part = "dialling" => Dialling!TcpStays) /\ (part = "called" => Called!TcpStays)]_slots
==============================================================================
