------------------------------- MODULE Startup -------------------------------
(* newParticipant and Close of the RTPS participant (rtps/participant.go,   *)
(* rtps/transport.go, rtps/locator.go): how participants that start, fail   *)
(* and stop on one host take their UDP ports, which sockets an error path   *)
(* gives back, and which receive loops end.  The port band is the one the   *)
(* Kubernetes operator opens for the domain (netpolicy.go).  A bind is one  *)
(* step, so concurrent starts interleave inside the port search.            *)
EXTENDS Integers, FiniteSets, Sequences

CONSTANTS Procs,      \* participants of one domain on one host
          Range,      \* participant indices tried (16; ParticipantIndexRange)
          Span,       \* ports newUnicastSocket tries for an index (16)
          Domain,     \* the domain id
          Options,    \* participant -> option sets it may be given: [ipv6, noMulticast, want]
          MaxStarts   \* bound: starts of one participant

VARIABLES pc,         \* where newParticipant or Close stands
          opts,       \* the options of the current start
          idx, probe, \* participant index and port offset being tried
          ports,      \* the unicast ports held: 0 is a nil or closed socket
          socks,      \* the other sockets held
          loops,      \* receive goroutines running
          multicast,  \* the host has a multicast interface
          starts      \* starts so far

svars == <<pc, opts, idx, probe, ports, socks, loops, multicast, starts>>

Transports == <<"tcp", "dtls", "quic", "ws", "relay">>

\* Whichever of mcastSockV6, metaSockV6 and dataSockV6 could be bound.
V6 == {"v6"}

portBase == 7400
domainGain == 250
participantGain == 2

metaUnicastPort(d, i) == portBase + domainGain * d + 10 + participantGain * i

userUnicastPort(d, i) == portBase + domainGain * d + 11 + participantGain * i

\* (a bug for the checks: the range ends one port early)
DomainPortRangeShort(d) == LET start == portBase + domainGain * d IN start..(start + 9 + 2 * Range)

\* The band a generated NetworkPolicy opens for a domain.
DomainPortRange(d) == LET start == portBase + domainGain * d IN start..(start + 11 + 2 * Range)

Busy(port) == \E q \in Procs : port \in {ports[q].meta, ports[q].data}

Init ==
    /\ pc = [p \in Procs |-> "idle"]
    /\ opts = [p \in Procs |-> CHOOSE o \in Options[p] : TRUE]
    /\ idx = [p \in Procs |-> 0]
    /\ probe = [p \in Procs |-> 0]
    /\ ports = [p \in Procs |-> [meta |-> 0, data |-> 0]]
    /\ socks = [p \in Procs |-> {}]
    /\ loops = [p \in Procs |-> {}]
    /\ multicast \in BOOLEAN
    /\ starts = [p \in Procs |-> 0]

\* New is called, for the first time or after an earlier participant ended.
New(p) ==
    /\ pc[p] \in {"idle", "failed", "closed"}
    /\ starts[p] < MaxStarts
    /\ loops[p] \cap {"spdp"} = {}
    /\ \E o \in Options[p] : opts' = [opts EXCEPT ![p] = o]
    /\ pc' = [pc EXCEPT ![p] = "meta"]
    /\ idx' = [idx EXCEPT ![p] = 0]
    /\ probe' = [probe EXCEPT ![p] = 0]
    /\ socks' = [socks EXCEPT ![p] = {}]
    /\ loops' = [loops EXCEPT ![p] = {}]
    /\ starts' = [starts EXCEPT ![p] = @ + 1]
    /\ UNCHANGED <<ports, multicast>>

\* One net.ListenUDP of newUnicastSocket for the socket k at its base port:
\* bound, or the next offset, or this socket has no port.
Bind(p, k, base, got, none) ==
    LET port == base + probe[p]
    IN \/ /\ ~Busy(port)
          /\ ports' = [ports EXCEPT ![p][k] = port]
          /\ probe' = [probe EXCEPT ![p] = 0]
          /\ got
       \/ /\ Busy(port)
          /\ probe[p] + 1 < Span
          /\ probe' = [probe EXCEPT ![p] = @ + 1]
          /\ UNCHANGED <<pc, idx, ports>>
       \/ /\ Busy(port)
          /\ probe[p] + 1 = Span
          /\ probe' = [probe EXCEPT ![p] = 0]
          /\ none

Stage(p, s) == pc' = [pc EXCEPT ![p] = s]

\* (a bug for the checks: a taken port is an error at once)
metaSockStays(p) ==
    /\ pc[p] = "meta"
    /\ Bind(p, "meta", metaUnicastPort(Domain, idx[p]),
            Stage(p, "data") /\ UNCHANGED idx,
            Stage(p, "failed") /\ UNCHANGED <<ports, idx>>)
    /\ UNCHANGED <<opts, socks, loops, multicast, starts>>

\* The metatraffic socket of index i.  Out of indices with metaSock nil: the
\* "no free port pair" error.
metaSock(p) ==
    /\ pc[p] = "meta"
    /\ Bind(p, "meta", metaUnicastPort(Domain, idx[p]),
            Stage(p, "data") /\ UNCHANGED idx,
            IF idx[p] + 1 < Range
            THEN idx' = [idx EXCEPT ![p] = @ + 1] /\ UNCHANGED <<pc, ports>>
            ELSE Stage(p, "failed") /\ UNCHANGED <<ports, idx>>)
    /\ UNCHANGED <<opts, socks, loops, multicast, starts>>

\* The user-data socket of index i.  When it finds no port the metatraffic
\* socket is closed; after the last index the loop falls through with a
\* closed metaSock and a nil dataSock, and the nil test does not see it.
dataSock(p) ==
    /\ pc[p] = "data"
    /\ Bind(p, "data", userUnicastPort(Domain, idx[p]),
            Stage(p, "mcast") /\ idx' = [idx EXCEPT ![p] = 0],
            /\ ports' = [ports EXCEPT ![p].meta = 0]
            /\ IF idx[p] + 1 < Range
               THEN idx' = [idx EXCEPT ![p] = @ + 1] /\ Stage(p, "meta")
               ELSE UNCHANGED idx /\ Stage(p, "mcast"))
    /\ UNCHANGED <<opts, socks, loops, multicast, starts>>

\* The SPDP multicast socket: joined where the host can, otherwise bound as a
\* plain socket, which only one participant of the host can do.  The error
\* path closes both unicast sockets, so a nil dataSock panics there.
newMulticastReceiveSocket(p) ==
    /\ pc[p] = "mcast"
    /\ IF multicast \/ \A q \in Procs : "mcast" \notin socks[q]
       THEN /\ socks' = [socks EXCEPT ![p] = @ \cup {"mcast"}]
            /\ Stage(p, "optional")
            /\ UNCHANGED ports
       ELSE /\ Stage(p, IF ports[p].data = 0 THEN "panic" ELSE "failed")
            /\ ports' = [ports EXCEPT ![p] = [meta |-> 0, data |-> 0]]
            /\ UNCHANGED socks
    /\ UNCHANGED <<opts, idx, probe, loops, multicast, starts>>

\* The next configured transport of want at or after position n.
From(want, n) ==
    LET left == {i \in n..Len(Transports) : Transports[i] \in want}
    IN IF left = {} THEN "serve" ELSE Transports[CHOOSE i \in left : \A j \in left : i <= j]

After(want, t) == From(want, 1 + CHOOSE i \in 1..Len(Transports) : Transports[i] = t)

\* The IPv6 sockets and the user-data multicast socket: every failure is soft.
Optional(p) ==
    /\ pc[p] = "optional"
    /\ \E got \in SUBSET ((IF opts[p].ipv6 THEN V6 ELSE {})
                          \cup (IF opts[p].noMulticast THEN {} ELSE {"dmcast"})) :
           socks' = [socks EXCEPT ![p] = @ \cup got]
    /\ Stage(p, From(opts[p].want, 1))
    /\ UNCHANGED <<opts, idx, probe, ports, loops, multicast, starts>>

\* (a bug for the checks: the path of the relay misses the socket before it)
ClosedOnErrorShort == [tcp   |-> {"mcast", "dmcast"},
                       dtls  |-> {"mcast", "dmcast", "tcp"},
                       quic  |-> {"mcast", "dmcast", "tcp", "dtls"},
                       ws    |-> {"mcast", "dmcast", "tcp", "dtls", "quic"},
                       relay |-> {"mcast", "dmcast", "tcp", "dtls", "quic"}]

\* What the error path of each transport closes, besides the two unicast sockets.
ClosedOnError == [tcp   |-> {"mcast", "dmcast"},
                  dtls  |-> {"mcast", "dmcast", "tcp"},
                  quic  |-> {"mcast", "dmcast", "tcp", "dtls"},
                  ws    |-> {"mcast", "dmcast", "tcp", "dtls", "quic"},
                  relay |-> {"mcast", "dmcast", "tcp", "dtls", "quic", "ws"}]

\* A configured transport: bound, or a hard error; a nil dataSock panics there.
Transport(p) ==
    /\ pc[p] \in DOMAIN ClosedOnError
    /\ \/ /\ socks' = [socks EXCEPT ![p] = @ \cup {pc[p]}]
          /\ Stage(p, After(opts[p].want, pc[p]))
          /\ UNCHANGED ports
       \/ /\ socks' = [socks EXCEPT ![p] = @ \ ClosedOnError[pc[p]]]
          /\ ports' = [ports EXCEPT ![p] = [meta |-> 0, data |-> 0]]
          /\ Stage(p, IF ports[p].data = 0 THEN "panic" ELSE "failed")
    /\ UNCHANGED <<opts, idx, probe, loops, multicast, starts>>

\* Discovery and the receive loops start; a nil dataSock is dereferenced.
Serve(p) ==
    /\ pc[p] = "serve"
    /\ Stage(p, IF ports[p].data = 0 THEN "panic" ELSE "open")
    /\ loops' = [loops EXCEPT ![p] = {"spdp", "data"} \cup (opts[p].want \cap socks[p])]
    /\ UNCHANGED <<opts, idx, probe, ports, socks, multicast, starts>>

\* Close, by the caller or by the goroutine of WithContext: the flag is set
\* and the writers closed; a second Close returns at the flag.
Close(p) ==
    /\ pc[p] = "open"
    /\ Stage(p, "closing")
    /\ UNCHANGED <<opts, idx, probe, ports, socks, loops, multicast, starts>>

\* The rest of Close: spdp, sedp and every socket.
CloseSockets(p) ==
    /\ pc[p] = "closing"
    /\ Stage(p, "closed")
    /\ ports' = [ports EXCEPT ![p] = [meta |-> 0, data |-> 0]]
    /\ socks' = [socks EXCEPT ![p] = {}]
    /\ UNCHANGED <<opts, idx, probe, loops, multicast, starts>>

\* A receive loop ends: SPDP's on its stop channel, the relay's because its
\* socket closes recv.  No other socket closes recv, so their loops stay.
LoopEnds(p) ==
    /\ pc[p] = "closed"
    /\ \E l \in loops[p] \cap {"spdp", "relay"} : loops' = [loops EXCEPT ![p] = @ \ {l}]
    /\ UNCHANGED <<pc, opts, idx, probe, ports, socks, multicast, starts>>

StepOf(p) == \/ New(p) \/ metaSock(p) \/ dataSock(p) \/ newMulticastReceiveSocket(p)
             \/ Optional(p) \/ Transport(p) \/ Serve(p)
             \/ Close(p) \/ CloseSockets(p) \/ LoopEnds(p)

Next == \E p \in Procs : StepOf(p)

\* A started New or Close runs on, and a loop whose channel closed ends.
Fairness == \A p \in Procs : /\ WF_svars(pc[p] # "idle" /\ StepOf(p) /\ ~New(p) /\ ~Close(p))
                             /\ WF_svars(LoopEnds(p))

Spec == Init /\ [][Next]_svars /\ Fairness

-----------------------------------------------------------------------------
\* Stages, indices and ports stay in their types.
StartupTypeOK ==
    /\ pc \in [Procs -> {"idle", "meta", "data", "mcast", "optional", "serve", "open",
                         "closing", "closed", "failed", "panic"}
                        \cup {Transports[i] : i \in 1..Len(Transports)}]
    /\ \A p \in Procs : opts[p] \in Options[p]
    /\ idx \in [Procs -> 0..(Range - 1)]
    /\ probe \in [Procs -> 0..(Span - 1)]
    /\ \A p \in Procs : {ports[p].meta, ports[p].data} \subseteq Nat
    /\ multicast \in BOOLEAN
    /\ starts \in [Procs -> 0..MaxStarts]

\* Participants that start once each, or no more than two that start as often as
\* they like: no search meets ports that move on while it walks.
Steady == Cardinality(Procs) <= 2 \/ \A p \in Procs : starts[p] <= 1

InBand == \A p \in Procs : {ports[p].meta, ports[p].data} \ {0} \subseteq DomainPortRange(Domain)

\* Whatever steady starts, failures and stops interleave, up to Range participants
\* of a domain on one host only ever hold ports inside the band the operator
\* opens for the domain (DomainPortRange), although newUnicastSocket may walk
\* Span ports past that of the index, and so beyond the band.
PortsCovered == Steady => InBand

\* "containing every well-known RTPS port [...] across ParticipantIndexRange
\* participant slots" (netpolicy.go): the band holds their ports over restarts too.
\* The code does not keep this: README.md says where it differs.
PortsAlwaysCovered == InBand

\* Up to Range participants whose starts are steady always find a port pair, in
\* any interleaving of their searches and stops: the index search neither gives
\* up nor falls through with a closed metaSock and a nil dataSock.
PairFound ==
    Steady =>
        \A p \in Procs : /\ pc[p] # "panic"
                         /\ pc[p] \in {"mcast", "optional", "serve", "open"}
                                => ports[p].meta # 0 /\ ports[p].data # 0
                         /\ pc[p] = "failed" /\ opts[p].want = {} => ~multicast

\* A start that failed, at whichever transport and with whichever of the optional
\* sockets open, holds nothing but the IPv6 sockets its error paths forget, and a
\* participant that was closed holds no socket at all.
SocketsGivenBack ==
    \A p \in Procs :
        /\ pc[p] \in {"failed", "closed"} => ports[p] = [meta |-> 0, data |-> 0]
        /\ pc[p] = "failed" => socks[p] \subseteq V6
        /\ pc[p] = "closed" => socks[p] = {}

\* The same without the exception: an error path of newParticipant gives back
\* every socket it opened.
\* The code does not keep this: README.md says where it differs.
FailedHoldsNothing == \A p \in Procs : pc[p] = "failed" => socks[p] = {}

\* dds.go "Close releases all DDS resources held by this participant": once
\* Close has run, the receive goroutines end.
\* The code does not keep this: README.md says where it differs.
CloseReleasesAll == \A p \in Procs : (pc[p] = "closed") ~> (loops[p] = {})
=============================================================================
