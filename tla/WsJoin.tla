------------------------------- MODULE WsJoin -------------------------------
(* SPDP over the RTPS-over-WebSocket transport between a participant that   *)
(* listens (WithWSAddr) and one that can only dial (WithWSPeers, no         *)
(* listener): announceLoop, sendAnnouncement, wsReceiveLoop with            *)
(* wsReplyToNewWSPeer, storePeer and evictExpired (rtps/spdp.go,            *)
(* rtps/participant.go).  One tick is one second, the period of evictLoop.  *)
(* The tickers of announcement, reading and eviction are not synchronised:  *)
(* within a tick they come in any order.  Neither hears the other's         *)
(* multicast; the dialler knows the listener's address and the listener     *)
(* knows none of the dialler.                                               *)
EXTENDS Integers, Sequences

CONSTANTS Period,    \* ticks between announcements (2 s)
          Jitter,    \* ticks an announcement may be put off (spdpJitter)
          Transit,   \* ticks until an announcement has been read
          Lease,     \* lease in ticks (10 s)
          MaxResets  \* bound: connection resets

Parties == {"listener", "dialler"}

VARIABLES peers,    \* party -> ticks since it stored the other; -1 unknown
          chan,     \* party -> ages of the announcements on their way to it
          conn,     \* the dialler's connection is up
          since,    \* party -> ticks since its last announcement
          resets,
          met       \* parties that have known the other (history)

jvars == <<peers, chan, conn, since, resets, met>>

Other(p) == IF p = "listener" THEN "dialler" ELSE "listener"

Known(p) == peers[p] >= 0

\* A message to the party p: carried by an open connection, else lost.
Sent(p) == IF conn THEN [chan EXCEPT ![p] = Append(@, 0)] ELSE chan

Init ==
    /\ peers = [p \in Parties |-> -1]
    /\ chan = [p \in Parties |-> <<>>]
    /\ conn = FALSE
    /\ since = [p \in Parties |-> Period]
    /\ resets = 0
    /\ met = {}

\* sendAnnouncement, at the start and then once a period, put off by the jitter.
\* The dialler sends to its WS peer, dialling when there is no connection; the
\* listener has no WS peer and its multicast reaches no one.
sendAnnouncement(p) ==
    /\ since[p] >= Period - Jitter
    /\ since' = [since EXCEPT ![p] = 0]
    /\ \/ /\ p = "dialler"
          /\ conn' = TRUE
          /\ chan' = [chan EXCEPT !["listener"] = Append(@, 0)]
       \/ p = "listener" /\ UNCHANGED <<conn, chan>>
    /\ UNCHANGED <<peers, resets, met>>

\* (a bug for the checks: the reply is left to the next tick)
wsReplyToNewWSPeerLate(p) == chan' = [chan EXCEPT ![p] = Tail(@)]

\* wsReplyToNewWSPeer: a sender that was unknown before this packet gets this
\* participant's announcement back on the same connection.
wsReplyToNewWSPeer(p) ==
    chan' = [(IF Known(p) THEN chan ELSE Sent(Other(p))) EXCEPT ![p] = Tail(@)]

\* One packet of wsReceiveLoop: the reply, then dispatch to handlePacket and
\* storePeer.
wsReceiveLoop(p) ==
    /\ chan[p] # <<>>
    /\ wsReplyToNewWSPeer(p)
    /\ peers' = [peers EXCEPT ![p] = 0]
    /\ met' = met \cup {p}
    /\ UNCHANGED <<conn, since, resets>>

\* (a bug for the checks: a peer expires at its lease)
ExpiredEarly(p) == peers[p] >= Lease

\* evictExpired's test.
Expired(p) == peers[p] > Lease

evictExpired(p) ==
    /\ Known(p)
    /\ Expired(p)
    /\ peers' = [peers EXCEPT ![p] = -1]
    /\ UNCHANGED <<chan, conn, since, resets, met>>

\* The connection breaks and loses what it carries.
Reset ==
    /\ conn
    /\ resets < MaxResets
    /\ resets' = resets + 1
    /\ conn' = FALSE
    /\ chan' = [p \in Parties |-> <<>>]
    /\ UNCHANGED <<peers, since, met>>

\* A second passes: no announcement is later than the jitter or longer on its
\* way than Transit, and evictLoop has scanned since a peer expired.
Tick ==
    /\ \A p \in Parties : /\ since[p] < Period + Jitter
                          /\ \A i \in DOMAIN chan[p] : chan[p][i] < Transit
                          /\ ~(Known(p) /\ Expired(p))
    /\ since' = [p \in Parties |-> since[p] + 1]
    /\ chan' = [p \in Parties |-> [i \in DOMAIN chan[p] |-> chan[p][i] + 1]]
    /\ peers' = [p \in Parties |-> IF Known(p) THEN peers[p] + 1 ELSE peers[p]]
    /\ UNCHANGED <<conn, resets, met>>

Next ==
    \/ \E p \in Parties : sendAnnouncement(p) \/ wsReceiveLoop(p) \/ evictExpired(p)
    \/ Reset
    \/ Tick

Spec == Init /\ [][Next]_jvars

-----------------------------------------------------------------------------
\* Peer ages, channels and counters stay in their types.
JoinTypeOK ==
    /\ peers \in [Parties -> -1..(Lease + 1)]
    /\ \A p \in Parties : \A i \in DOMAIN chan[p] : chan[p][i] \in 0..Transit
    /\ conn \in BOOLEAN
    /\ since \in [Parties -> 0..(Period + Jitter)] /\ met \subseteq Parties
    /\ resets \in 0..MaxResets

\* The listener does not evict a dial-only peer that keeps announcing, however the
\* scan of evictLoop falls between the announcements, as long as the resets, each
\* of which loses what is on its way, leave time for one to be read within a lease.
ListenerKeepsDialler ==
    "listener" \in met /\ (resets + 1) * (Period + Jitter + Transit) <= Lease => Known("listener")

\* A dial-only participant whose connection has not broken has learnt of the
\* listener, by the reply, once the listener has learnt of it and what is on its
\* way has been read.
DiallerIntroduced ==
    resets = 0 /\ "listener" \in met /\ chan["dialler"] = <<>> => "dialler" \in met

\* What wsReceiveLoop says of a peer it already knows ("its own periodic
\* re-announcements keep liveness going exactly as before"): two parties that
\* have met on an unbroken connection, both announcing on time, stay known to
\* each other.
\* The code does not keep this: README.md says where it differs.
BothStayKnown == "dialler" \in met /\ resets = 0 => Known("dialler") /\ Known("listener")
=============================================================================
