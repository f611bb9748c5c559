------------------------------ MODULE Routing ------------------------------
(* How a participant chooses the transport of a unicast message             *)
(* (sendUnicast and the locator lookups of rtps/participant.go) against the *)
(* peer table SPDP keeps (storePeer, recordRelayID, evictExpired of         *)
(* rtps/spdp.go), while announcements and relayed packets arrive on their   *)
(* own goroutines.  A lookup and the send that follows it are one step per  *)
(* transport: the table can change between two transports of one send.      *)
EXTENDS Integers, FiniteSets

CONSTANTS Peers,      \* remote participants
          Host, Here, \* peer -> the host it runs on; our own host
          Offers,     \* peer -> locators its announcements carry: tcp, quic, ws, relay
          Enabled,    \* transports configured here: dtls, quic, ws, tcp, relay
          DtlsHosts,  \* hosts of WithDTLSPeers
          Relayed,    \* peers that talk to us over the relay
          WsDialled,  \* peers whose WS connection we accepted
          Multicast,  \* udpMulticastAvailable
          Nowhere,    \* the address of an announcement with no source IP
          MaxSends    \* bound: messages sent

VARIABLES peers,   \* peer -> its participantProxy; [known |-> FALSE] when absent
          relayed, \* packets of the relay receive loop between dispatch and recordRelayID
          learnt,  \* peers whose relay ID was recorded since they became known (history)
          msg,     \* the message being sent
          sends,   \* messages sent so far
          last     \* where the last message went (history)

rvars == <<peers, relayed, learnt, msg, sends, last>>

Absent == [known |-> FALSE, addr |-> Nowhere, offers |-> {}, relayID |-> FALSE]

NoMsg == [to |-> Nowhere, dst |-> Nowhere, at |-> "none"]

Init ==
    /\ peers = [q \in Peers |-> Absent]
    /\ relayed = {}
    /\ learnt = {}
    /\ msg = NoMsg
    /\ sends = 0
    /\ last = [to |-> Nowhere, dst |-> Nowhere, via |-> "none", reached |-> {}, shared |-> FALSE]

\* parseParticipantData: locators with a zero address take the source IP, if any.
Parsed(q, from) == [known |-> TRUE, addr |-> from, offers |-> Offers[q] \ {"relay"},
                    relayID |-> "relay" \in Offers[q]]

\* (a bug for the checks: an announcement replaces all that was known)
storePeerForgets(proxy, q) == peers' = [peers EXCEPT ![q] = proxy]

\* storePeer: the announcement replaces the proxy, a known relay ID survives.
storePeer(proxy, q) ==
    peers' = [peers EXCEPT ![q] = [proxy EXCEPT !.relayID = @ \/ peers[q].relayID]]

\* An announcement arrives by UDP, TCP, QUIC or WS from the peer's address.
handlePacket(q) ==
    /\ storePeer(Parsed(q, Host[q]), q)
    /\ UNCHANGED <<relayed, learnt, msg, sends, last>>

\* dispatchTCPPacket: which handler a message that came over a stream goes to,
\* by the writer of its first DATA, or by being a HEARTBEAT or an ACKNACK.
dispatchTCPPacket(first) ==
    CASE first = "SPDPWriter" -> "spdp"
      [] first \in {"SEDPPubWriter", "SEDPSubWriter"} -> "sedp"
      [] first \in {"userWriter", "HEARTBEAT", "ACKNACK"} -> "data"

Firsts == {"SPDPWriter", "SEDPPubWriter", "SEDPSubWriter", "userWriter", "HEARTBEAT", "ACKNACK"}

\* relayReceiveLoop takes a packet: dispatchTCPPacket with no source address.
\* An announcement reaches storePeer, anything else leaves the table alone.
dispatchRelayPacket(q) ==
    /\ relayed = {}
    /\ q \in Relayed
    /\ relayed' = {q}
    /\ \E first \in Firsts :
         IF dispatchTCPPacket(first) = "spdp" THEN storePeer(Parsed(q, Nowhere), q)
                                              ELSE UNCHANGED peers
    /\ UNCHANGED <<learnt, msg, sends, last>>

\* The second half of dispatchRelayPacket: recordRelayID on a known proxy.
recordRelayID(q) ==
    /\ q \in relayed
    /\ relayed' = {}
    /\ peers' = [peers EXCEPT ![q].relayID = peers[q].known \/ @]
    /\ learnt' = IF peers[q].known THEN learnt \cup {q} ELSE learnt
    /\ UNCHANGED <<msg, sends, last>>

\* The peer's lease runs out.
evictExpired(q) ==
    /\ peers[q].known
    /\ peers' = [peers EXCEPT ![q] = Absent]
    /\ learnt' = learnt \ {q}
    /\ UNCHANGED <<relayed, msg, sends, last>>

\* A caller of sendUnicast takes the destination from the peer's proxy.
Send(q) ==
    /\ msg = NoMsg
    /\ sends < MaxSends
    /\ peers[q].known
    /\ msg' = [to |-> q, dst |-> peers[q].addr, at |-> "dtls"]
    /\ sends' = sends + 1
    /\ UNCHANGED <<peers, relayed, learnt, last>>

\* (a bug for the checks: the address is not compared)
AtIPAny(t, ip) == {q \in Peers : peers[q].known /\ t \in peers[q].offers}

\* Peers at the IP that advertised transport t; a lookup returns the first one
\* in map order.
AtIP(t, ip) == {q \in Peers : peers[q].known /\ t \in peers[q].offers /\ peers[q].addr = ip}

tcpLocatorForIP(ip) == AtIP("tcp", ip)

quicLocatorForIP(ip) == AtIP("quic", ip)

\* WithDTLSPeers is a static list: whoever runs on the host is meant.
dtlsLocatorForIP(ip) == IF ip \in DtlsHosts THEN {q \in Peers : Host[q] = ip} ELSE {}

\* Advertised locators first, then a connection the peer opened itself.
wsLocatorForIP(ip) ==
    IF AtIP("ws", ip) # {} THEN AtIP("ws", ip) ELSE {q \in WsDialled : Host[q] = ip}

preferTCP == "tcp" \in Enabled /\ ~Multicast

relayIDForPrefix(q) == peers[q].known /\ peers[q].relayID

\* Whom transport t would carry the message to; empty when it is not tried.
Locator(t) ==
    CASE t = "dtls" -> IF "dtls" \in Enabled THEN dtlsLocatorForIP(msg.dst) ELSE {}
      [] t = "quic" -> IF "quic" \in Enabled THEN quicLocatorForIP(msg.dst) ELSE {}
      [] t = "ws" -> IF "ws" \in Enabled THEN wsLocatorForIP(msg.dst) ELSE {}
      [] t = "tcp" -> IF preferTCP THEN tcpLocatorForIP(msg.dst) ELSE {}
      [] t = "relay" -> IF "relay" \in Enabled /\ relayIDForPrefix(msg.to) THEN {msg.to} ELSE {}
      [] OTHER -> {}

After == [dtls |-> "quic", quic |-> "ws", ws |-> "tcp", tcp |-> "relay", relay |-> "udp"]

Alone(q) == \A r \in Peers \ {q} : Host[r] # Host[q]

\* Whom a send to r that succeeds reaches.  A locator with no address (0.0.0.0)
\* is dialled on this host, where its port is that of a participant or of none.
Went(via, r) ==
    LET reached == IF via = "relay" \/ msg.dst # Nowhere THEN {{r}}
                   ELSE {{}} \cup {{q} : q \in {q \in Peers : Host[q] = Here}}
    IN {[to |-> msg.to, dst |-> msg.dst, via |-> via, shared |-> ~Alone(msg.to), reached |-> who] :
          who \in reached}

\* One transport of sendUnicast: not tried, failed, or sent to any one of the
\* peers the lookup may return, and then no other is tried; plain UDP goes to the
\* destination itself.
sendUnicast ==
    /\ msg # NoMsg
    /\ \/ /\ msg.at # "udp"
          /\ \E r \in Locator(msg.at) : last' \in Went(msg.at, r)
          /\ msg' = NoMsg
       \/ /\ msg.at # "udp"
          /\ msg' = [msg EXCEPT !.at = After[msg.at]]
          /\ UNCHANGED last
       \/ /\ msg.at = "udp"
          /\ last' \in Went("udp", msg.to)
          /\ msg' = NoMsg
    /\ UNCHANGED <<peers, relayed, learnt, sends>>

Next ==
    \/ \E q \in Peers : \/ handlePacket(q) \/ dispatchRelayPacket(q) \/ recordRelayID(q)
                        \/ evictExpired(q) \/ Send(q)
    \/ sendUnicast

Spec == Init /\ [][Next]_rvars

-----------------------------------------------------------------------------
\* Proxies and the message in hand are of their types.
RoutingTypeOK ==
    /\ \A q \in Peers : /\ peers[q].known \in BOOLEAN /\ peers[q].relayID \in BOOLEAN
                        /\ peers[q].addr \in {Host[q], Nowhere}
                        /\ peers[q].offers \subseteq Offers[q]
    /\ relayed \subseteq Relayed /\ Cardinality(relayed) <= 1
    /\ learnt \subseteq Relayed
    /\ msg.to \in Peers \cup {Nowhere}
    /\ sends \in 0..MaxSends

\* A relay ID recorded for a peer stays until the peer is evicted: neither a
\* direct announcement without pidRelayID nor one arriving between a relayed
\* packet's dispatch and its recordRelayID wipes it (spdp.go storePeer).
RelayIDKept == \A q \in learnt : peers[q].relayID

\* A unicast message to the address of a participant that is alone on its host
\* is never carried to another participant, whichever transports fail and however
\* the peer table changes while they are tried.
AloneIsReached == ~last.shared /\ last.dst # Nowhere => last.reached \subseteq {last.to}

\* The same of a peer known by its relay ID only, whose locators have no address:
\* what the relay branch of sendUnicast is for.
\* The code does not keep this: README.md says where it differs.
RelayedIsReached == ~last.shared => last.reached \subseteq {last.to}

\* What sendUnicast says ("sends a unicast RTPS message to dst"): a message
\* goes to the participant it is addressed to.
\* The code does not keep this: README.md says where it differs.
ReachesAddressee == last.reached \subseteq {last.to}
=============================================================================
