---------------------------- MODULE PeerSockets ----------------------------
(***************************************************************************)
(* The connection caches of the RTPS-over-TCP, -DTLS, -QUIC and            *)
(* -WebSocket transports (rtps/transport_tcp.go, transport_dtls.go,        *)
(* transport_quic.go, transport_ws.go).  Each socket caches one connection *)
(* per peer, dials on demand under a per-peer lock, reads every connection *)
(* in goroutines of its own, and forgets a connection whose write failed   *)
(* or whose reader ended.  One socket of any of the four kinds talks to    *)
(* one peer address and may be dialled by one other peer.                  *)
(*                                                                         *)
(* Messages are left out: a write succeeds or fails, a read goes on or     *)
(* fails.  A write to a connection whose peer is gone may do either.       *)
(***************************************************************************)
EXTENDS Naturals

CONSTANTS Senders,  \* goroutines calling send with the peer's address
          Dialled,  \* connections this socket can dial, 1..n: a bound
          Inbound,  \* connections other peers may open
          None

Kinds == {"tcp", "dtls", "quic", "ws"}
Roles == {"framed", "datagrams"}
All == Dialled \cup Inbound

\* The cache key of a connection: the address dialled, or the remote address
\* of an inbound connection.
Key(c) == IF c \in Inbound THEN c ELSE "peer"

Keys == Inbound \cup {"peer"}

VARIABLES
  kind,     \* which of the four sockets this is
  sock,     \* "open", "closing" (done closed, listener closed), "closed" (map nil)
  cache,    \* conns / peers: per key, a connection or None
  plock,    \* holder of peerLock(addr)
  con,      \* per connection, "free", "open" or "closed" (at this end)
  alive,    \* per connection, is the peer still there
  reader,   \* per connection and role, [at, c] of the reading goroutine
  snd,      \* per sender, [at, c] of its send call
  panicked  \* an assignment to an entry of the nil map

vars == <<kind, sock, cache, plock, con, alive, reader, snd, panicked>>

Pc(at, c) == [at |-> at, c |-> c]

Init ==
  /\ kind \in Kinds /\ sock = "open" /\ plock = None /\ panicked = FALSE
  /\ cache = [k \in Keys |-> None]
  /\ con = [c \in All |-> "free"] /\ alive = [c \in All |-> TRUE]
  /\ reader = [c \in All |-> [r \in Roles |-> Pc("none", None)]]
  /\ snd = [p \in Senders |-> Pc("idle", None)]

\* The goroutines that read a connection: QUIC has two.
ReadersOf(c) == [r \in Roles |-> IF r = "framed" \/ kind = "quic" THEN Pc("read", c) ELSE reader[c][r]]

To(p, at, c) == snd' = [snd EXCEPT ![p] = Pc(at, c)]

-----------------------------------------------------------------------------
\* (a bug for the checks: the lock left out)
peerLockNone(p) ==
  /\ snd[p].at = "idle"
  /\ UNCHANGED plock /\ To(p, "lookup", None)
  /\ UNCHANGED <<kind, sock, cache, con, alive, reader, panicked>>

\* send takes the peer's lock ...
peerLock(p) ==
  /\ snd[p].at = "idle" /\ plock = None
  /\ plock' = p /\ To(p, "lookup", None)
  /\ UNCHANGED <<kind, sock, cache, con, alive, reader, panicked>>

Return(p) == To(p, "idle", None) /\ plock' = None

\* ... connLocked: the cached connection, or a new one, stored under mu without
\* a look at whether close has run.
Lookup(p) ==
  /\ snd[p].at = "lookup"
  /\ IF cache["peer"] # None THEN To(p, "write", cache["peer"]) ELSE To(p, "dial", None)
  /\ UNCHANGED <<kind, sock, cache, plock, con, alive, reader, panicked>>

Dial(p) ==
  /\ snd[p].at = "dial"
  /\ \/ /\ \E c \in Dialled : /\ con[c] = "free" /\ \A d \in Dialled : d < c => con[d] # "free"
                             /\ con' = [con EXCEPT ![c] = "open"] /\ To(p, "store", c)
        /\ UNCHANGED plock
     \/ Return(p) /\ UNCHANGED con
  /\ UNCHANGED <<kind, sock, cache, alive, reader, panicked>>

Store(p) ==
  /\ snd[p].at = "store"
  /\ IF sock = "closed"
     THEN panicked' = TRUE /\ UNCHANGED <<snd, cache, reader>>
     ELSE /\ cache' = [cache EXCEPT !["peer"] = snd[p].c]
          /\ reader' = [reader EXCEPT ![snd[p].c] = ReadersOf(snd[p].c)]
          /\ To(p, "write", snd[p].c) /\ UNCHANGED panicked
  /\ UNCHANGED <<kind, sock, plock, con, alive>>

connLocked(p) == Lookup(p) \/ Dial(p) \/ Store(p)

WriteOk(c) == con[c] = "open"
WriteErr(c) == con[c] = "closed" \/ ~alive[c]

\* One write; an error drops the cached connection.
Write(p) ==
  /\ snd[p].at = "write"
  /\ \/ WriteOk(snd[p].c) /\ Return(p)
     \/ WriteErr(snd[p].c) /\ To(p, "drop", snd[p].c) /\ UNCHANGED plock
  /\ UNCHANGED <<kind, sock, cache, con, alive, reader, panicked>>

Shut(c) == IF c = None THEN con ELSE [con EXCEPT ![c] = "closed"]

\* dropConn: whatever is cached for the key is deleted under mu and closed after.
dropConn(p) ==
  /\ \/ /\ snd[p].at = "drop" /\ cache' = [cache EXCEPT !["peer"] = None]
        /\ To(p, "close", cache["peer"]) /\ UNCHANGED <<plock, con>>
     \/ /\ snd[p].at = "close" /\ con' = Shut(snd[p].c)
        /\ Return(p) /\ UNCHANGED cache
  /\ UNCHANGED <<kind, sock, alive, reader, panicked>>

tcpSend(p) == kind = "tcp" /\ (peerLock(p) \/ connLocked(p) \/ Write(p) \/ dropConn(p))

dtlsSend(p) == kind = "dtls" /\ (peerLock(p) \/ connLocked(p) \/ Write(p) \/ dropConn(p))

wsSend(p) == kind = "ws" /\ (peerLock(p) \/ connLocked(p) \/ Write(p) \/ dropConn(p))

\* QUIC: a best-effort message is first tried as a datagram.  Too large for one,
\* it goes on to the stream; any other error drops the connection.
SendDatagram(p) ==
  /\ snd[p].at = "write" /\ To(p, "stream", snd[p].c)
  /\ UNCHANGED <<kind, sock, cache, plock, con, alive, reader, panicked>>

StreamWrite(p) ==
  /\ snd[p].at = "stream"
  /\ \/ WriteOk(snd[p].c) /\ Return(p)
     \/ WriteErr(snd[p].c) /\ To(p, "drop", snd[p].c) /\ UNCHANGED plock
  /\ UNCHANGED <<kind, sock, cache, con, alive, reader, panicked>>

quicSend(p) ==
  /\ kind = "quic"
  /\ peerLock(p) \/ connLocked(p) \/ SendDatagram(p) \/ StreamWrite(p) \/ Write(p) \/ dropConn(p)

-----------------------------------------------------------------------------
Reader(c, r, at, d) == reader' = [reader EXCEPT ![c][r] = Pc(at, d)]

\* A read fails on a closed end or a vanished peer; after done is closed the
\* next message ends the loop too.  The reader first closes its connection.
ReadEnds(c, r) ==
  /\ reader[c][r].at = "read" /\ (con[c] = "closed" \/ ~alive[c] \/ sock # "open")
  /\ Reader(c, r, "end", c)
  /\ UNCHANGED <<kind, sock, cache, plock, con, alive, snd, panicked>>

CloseConn(c, r, next) ==
  /\ reader[c][r].at = "end" /\ con' = Shut(c) /\ Reader(c, r, next, c)
  /\ UNCHANGED <<kind, sock, cache, plock, alive, snd, panicked>>

\* dropConn(from): whatever is cached under the connection's key by now.
ReaderDrops(c, r) ==
  /\ \/ /\ reader[c][r].at = "drop" /\ cache' = [cache EXCEPT ![Key(c)] = None]
        /\ Reader(c, r, "close", cache[Key(c)]) /\ UNCHANGED con
     \/ /\ reader[c][r].at = "close" /\ con' = Shut(reader[c][r].c)
        /\ Reader(c, r, "none", None) /\ UNCHANGED cache
  /\ UNCHANGED <<kind, sock, plock, alive, snd, panicked>>

\* (a bug for the checks: a TCP reader that cleans up as the others do)
tcpReadConnDrops(c) ==
  /\ kind = "tcp"
  /\ ReadEnds(c, "framed") \/ CloseConn(c, "framed", "drop") \/ ReaderDrops(c, "framed")

\* A TCP reader closes its connection and leaves the cache alone.
tcpReadConn(c) == kind = "tcp" /\ (ReadEnds(c, "framed") \/ CloseConn(c, "framed", "none"))

dtlsReadConn(c) ==
  /\ kind = "dtls"
  /\ ReadEnds(c, "framed") \/ CloseConn(c, "framed", "drop") \/ ReaderDrops(c, "framed")

quicReadFramedLoop(c) ==
  /\ kind = "quic"
  /\ ReadEnds(c, "framed") \/ CloseConn(c, "framed", "drop") \/ ReaderDrops(c, "framed")

quicReadDatagrams(c) ==
  /\ kind = "quic"
  /\ ReadEnds(c, "datagrams") \/ CloseConn(c, "datagrams", "drop") \/ ReaderDrops(c, "datagrams")

wsReadLoop(c) ==
  /\ kind = "ws"
  /\ ReadEnds(c, "framed") \/ CloseConn(c, "framed", "drop") \/ ReaderDrops(c, "framed")

-----------------------------------------------------------------------------
\* acceptLoop: an inbound connection gets its readers and is not cached ...
acceptLoop(c) ==
  /\ kind # "ws" /\ sock = "open" /\ con[c] = "free"
  /\ con' = [con EXCEPT ![c] = "open"]
  /\ reader' = [reader EXCEPT ![c] = ReadersOf(c)]
  /\ UNCHANGED <<kind, sock, cache, plock, alive, snd, panicked>>

\* ... except by the WebSocket socket, which stores it when the opening
\* handshake is over: by then close may have run.
wsHandleAccept(c) ==
  /\ kind = "ws"
  /\ \/ /\ sock = "open" /\ con[c] = "free"
        /\ con' = [con EXCEPT ![c] = "open"] /\ UNCHANGED <<cache, reader, panicked>>
     \/ /\ con[c] = "open" /\ reader[c]["framed"].at = "none"
        /\ UNCHANGED con
        /\ IF sock = "closed" THEN panicked' = TRUE /\ UNCHANGED <<cache, reader>>
           ELSE /\ cache' = [cache EXCEPT ![c] = c]
                /\ reader' = [reader EXCEPT ![c] = ReadersOf(c)]
                /\ UNCHANGED panicked
     \/ /\ con[c] = "open" /\ reader[c]["framed"].at = "none"
        /\ con' = Shut(c) /\ UNCHANGED <<cache, reader, panicked>>
  /\ UNCHANGED <<kind, sock, plock, alive, snd>>

\* close: done and the listener; then, under mu, every cached connection, and
\* the map is nil from there on.
close ==
  /\ \/ sock = "open" /\ sock' = "closing" /\ UNCHANGED <<con, cache>>
     \/ /\ sock = "closing" /\ sock' = "closed"
        /\ con' = [c \in All |-> IF cache[Key(c)] = c THEN "closed" ELSE con[c]]
        /\ cache' = [k \in DOMAIN cache |-> None]
  /\ UNCHANGED <<kind, plock, alive, reader, snd, panicked>>

\* The network: the peer of an open connection goes away.
PeerGone(c) ==
  /\ con[c] = "open" /\ alive[c] /\ alive' = [alive EXCEPT ![c] = FALSE]
  /\ UNCHANGED <<kind, sock, cache, plock, con, reader, snd, panicked>>

Next ==
  /\ ~panicked
  /\ \/ \E p \in Senders : tcpSend(p) \/ dtlsSend(p) \/ quicSend(p) \/ wsSend(p)
     \/ \E c \in All : \/ tcpReadConn(c) \/ dtlsReadConn(c) \/ wsReadLoop(c)
                       \/ quicReadFramedLoop(c) \/ quicReadDatagrams(c) \/ PeerGone(c)
     \/ \E c \in Inbound : acceptLoop(c) \/ wsHandleAccept(c)
     \/ close

Spec == Init /\ [][Next]_vars

-----------------------------------------------------------------------------
\* The variables hold what the fields they model can hold.
SocketsTypeOK ==
  /\ kind \in Kinds /\ sock \in {"open", "closing", "closed"} /\ panicked \in BOOLEAN
  /\ cache \in [Keys -> All \cup {None}] /\ plock \in Senders \cup {None}
  /\ con \in [All -> {"free", "open", "closed"}] /\ alive \in [All -> BOOLEAN]
  /\ reader \in [All -> [Roles -> [at : {"none", "read", "end", "drop", "close"}, c : All \cup {None}]]]
  /\ snd \in [Senders -> [at : {"idle", "lookup", "dial", "store", "write", "stream", "drop", "close"},
                          c : All \cup {None}]]

\* No connection is lost: one that is open and was dialled here is the one in
\* the cache, is about to be put there, or is about to be closed by whoever took
\* it out or by its own reader.  Two senders never dial one peer at once.
EveryConnOwned ==
  \A c \in Dialled : con[c] = "open" =>
    \/ cache["peer"] = c
    \/ \E p \in Senders : snd[p].c = c /\ snd[p].at \in {"store", "close"}
    \/ \E d \in All, r \in Roles : reader[d][r] \in {Pc("close", c), Pc("end", c)}

TcpStays ==
  \A c \in All : kind = "tcp" /\ con[c] = "open" /\ alive[c] /\ sock = "open" => con'[c] = "open"

\* While the socket is open, a TCP connection whose peer is there is not closed
\* at this end: an earlier connection to the same address, whenever its reader
\* or a failed write cleans up after it, never takes its successor along.
LiveTcpKept == [][TcpStays]_vars

\* The same of every kind: "evicts it from the dial cache if it was in one (a
\* harmless no-op otherwise ...)".  The readers of DTLS, QUIC and WebSocket
\* connections evict by address, not by connection.
\* The code does not keep this: README.md says where it differs.
LiveConnKept ==
  [][\A c \in All : kind # "ws" /\ con[c] = "open" /\ alive[c] /\ sock = "open"
       => con'[c] = "open"]_vars

\* "safe for concurrent use from multiple goroutines": a send in progress while
\* the participant closes does not end the process.
\* The code does not keep this: README.md says where it differs.
SendSurvivesClose == ~panicked
=============================================================================
