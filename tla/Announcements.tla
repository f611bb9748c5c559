---------------------------- MODULE Announcements ----------------------------
(***************************************************************************)
(* What one participant announces and what another reads out of it: the    *)
(* parameter lists of rtps/cdr.go, the participant and endpoint data that  *)
(* spdp.go and sedp.go put into them, and the locators of rtps/locator.go. *)
(*                                                                         *)
(* The encoded list is a sequence of four-octet words.  A parameter is a   *)
(* header word [pid, len] and its value padded to whole words; a value is  *)
(* kept in its first word as the thing it encodes together with its size   *)
(* in octets.  The length field wraps at LenMod (2^16 in the code).        *)
(***************************************************************************)
EXTENDS Integers, Sequences, SequencesExt, FiniteSets

CONSTANTS Participants,  \* the participant data that may be announced
          Endpoints,     \* the endpoint data that may be announced
          Sources,       \* the addresses a packet may come from: [v4, host]
          Keys,          \* what a plugin may sign and verify with; NoKey is none
          NoKey,
          LenMod,        \* the values of the length field
          BadFilters     \* the filter texts the receiver cannot parse

VARIABLES sent,          \* the data that was announced
          signer,        \* the announcing side's plugin key
          wire,          \* its encoded parameter list
          source,        \* the address its packet came from
          learnt         \* what the receiver made of it

nvars == <<sent, signer, wire, source, learnt>>

Silent == [what |-> "nothing"]
Ignored == [what |-> "ignored"]
AnyAddress == "0.0.0.0"

-----------------------------------------------------------------------------
(* The encoder: plCDREncoder.                                              *)

Words(n) == (n + 3) \div 4

header(pid, octets) == [pid |-> pid, len |-> octets % LenMod]
filler == [pid |-> "filler", len |-> 0]

addParam(pid, size, value) ==
  <<header(pid, 4 * Words(size))>> \o
  [i \in 1..Words(size) |-> IF i = 1 THEN [value |-> value, size |-> size] ELSE filler]

(* The sockets are bound to every interface, so the address is 0.0.0.0.    *)
locatorFrom(kind, port) == [kind |-> kind, port |-> port, host |-> AnyAddress]

addLocator(pid, kind, port) == addParam(pid, 24, locatorFrom(kind, port))
addGUID(pid, guid) == addParam(pid, 16, guid)
addUint32(pid, v) == addParam(pid, 4, v)
addInt64(pid, v) == addParam(pid, 8, v)
addString(pid, s) == addParam(pid, 4 + s.n + 1, s)

sentinel == <<[pid |-> "sentinel", len |-> 0]>>

All(seqs) == FlattenSeq(seqs)
When(c, s) == IF c THEN s ELSE <<>>

(* buildParticipantData: a dial-only WebSocket socket has port 0 and is    *)
(* not announced; every address is 0.0.0.0, for the receiver to fill in.   *)
Listening(p, t) == t \in DOMAIN p.ports /\ (t = "ws" => p.ports[t] # 0)

buildParticipantData(p, key) == All(<<
  addParam("version", 4, "2.3"), addParam("vendor", 4, "go-DDS"),
  addGUID("guid", p.guid), addUint32("builtin", "all"),
  addLocator("meta", "udp", p.meta), addLocator("data", "udp", p.data),
  When(Listening(p, "tcp"), addLocator("tcp", "tcp", p.ports["tcp"])),
  When(Listening(p, "quic"), addLocator("quic", "quic", p.ports["quic"])),
  When(Listening(p, "ws"), addLocator("ws", "ws", p.ports["ws"])),
  When(p.relay # <<>>, addString("relay", p.relay)),
  addParam("lease", 8, 10),
  When(key # NoKey, addParam("token", 32, key)),
  sentinel>>)

\* (a bug for the checks: the lease goes out only with the ownership)
EndpointQosNested(e) == When(e.writer /\ e.exclusive,
       addUint32("ownership", 1) \o addUint32("strength", e.strength)
       \o When(e.lease > 0, addInt64("liveliness", e.lease)))

(* buildEndpointData: partitions for both kinds, the content filter of a   *)
(* reader, ownership and liveliness of a writer.                           *)
EndpointQos(e) == When(e.writer /\ e.exclusive,
       addUint32("ownership", 1) \o addUint32("strength", e.strength))
  \o When(e.writer /\ e.lease > 0, addInt64("liveliness", e.lease))

buildEndpointData(e, key) == All(<<
  addGUID("guid", e.guid), addString("topic", e.topic), addString("type", e.type),
  addLocator("data", "udp", e.data),
  All([i \in 1..Len(e.partitions) |-> addString("partition", e.partitions[i])]),
  When(e.filter # <<>>, All([i \in 1..Len(e.filter) |->
     addString(IF i = 1 THEN "filter" ELSE "filterparam", e.filter[i])])),
  EndpointQos(e),
  When(key # NoKey, addParam("token", 32, key)),
  sentinel>>)

-----------------------------------------------------------------------------
(* The decoder: plCDRDecoder.next from word pos on, to the end of the list.*)
(* A length that wrapped sends it into the middle of a value, and the word *)
(* it takes for a header there is text: what follows is not parameters any *)
(* more, and the reading stops.                                            *)

RECURSIVE params(_, _)
params(buf, pos) ==
  IF pos > Len(buf) \/ buf[pos] = filler \/ "pid" \notin DOMAIN buf[pos] THEN <<>>
  ELSE LET h == buf[pos]
           next == pos + 1 + (h.len \div 4)
       IN CASE h.pid = "sentinel" -> <<>>
            [] h.pid = "pad" -> params(buf, pos + 1)
            [] h.pid \notin {"sentinel", "pad"} /\ next - 1 > Len(buf) -> <<>>
            [] OTHER -> <<[pid |-> h.pid, len |-> h.len,
                           cell |-> IF h.len = 0 THEN filler ELSE buf[pos + 1]]>>
                        \o params(buf, next)

(* decodeString, decodeGUID, decodeUint32, decodeInt64, unmarshalLocator:  *)
(* each refuses a value shorter than what it reads.                        *)
Decodes(p) == "size" \in DOMAIN p.cell /\ p.len >= p.cell.size

\* (a bug for the checks: an unspecified address stays)
FillInNever(l, from) == l

(* A locator whose address is zero takes the sender's, which only an IPv4  *)
(* sender can give.                                                        *)
FillIn(l, from) == [l EXCEPT !.host = IF @ = AnyAddress /\ from.v4 THEN from.host ELSE @]

(* tcpHostPort, quicHostPort and wsHostPort take their own kind only.      *)
HasHostPort(l, kind) == l.kind = kind

NewProxy(guid) == [what |-> "participant", guid |-> guid, at |-> <<>>, relay |-> <<>>, lease |-> 0]

(* parseParticipantData, one parameter.  The kinds of the vendor locators  *)
(* must match their parameter.                                             *)
TakeParticipantParam(proxy, p, from) ==
  LET v == p.cell.value
      located(name) == [t \in DOMAIN proxy.at \cup {name} |->
                          IF t = name THEN FillIn(v, from) ELSE proxy.at[t]]
  IN CASE ~Decodes(p) -> proxy
       [] Decodes(p) /\ p.pid \in {"meta", "data"} -> [proxy EXCEPT !.at = located(p.pid)]
       [] Decodes(p) /\ p.pid \in {"tcp", "quic", "ws"} ->
            IF HasHostPort(v, p.pid) THEN [proxy EXCEPT !.at = located(p.pid)] ELSE proxy
       [] Decodes(p) /\ p.pid = "guid" -> [proxy EXCEPT !.guid = v]
       [] Decodes(p) /\ p.pid = "relay" -> IF v.n > 0 THEN [proxy EXCEPT !.relay = v] ELSE proxy
       [] Decodes(p) /\ p.pid = "lease" -> IF v > 0 THEN [proxy EXCEPT !.lease = v] ELSE proxy
       [] OTHER -> proxy

parseParticipantData(prefix, buf, from) ==
  FoldLeft(LAMBDA proxy, p : TakeParticipantParam(proxy, p, from), NewProxy(prefix), params(buf, 1))

\* (a bug for the checks: the first token found is taken)
extractDiscoveryTokenFirst(buf) ==
  LET p == Head(params(buf, 1)) IN IF p.pid = "token" THEN p.cell.value ELSE NoKey

(* extractDiscoveryToken, and VerifyDiscovery by a receiver with a plugin. *)
extractDiscoveryToken(buf) ==
  LET tokens == SelectSeq(params(buf, 1), LAMBDA p : p.pid = "token")
  IN IF tokens = <<>> THEN NoKey ELSE Head(tokens).cell.value

Verified(key, tag) == key = NoKey \/ tag = key

NewInfo(guid, writer) ==
  [what |-> "endpoint", guid |-> guid, writer |-> writer, topic |-> <<>>, type |-> <<>>,
   data |-> <<>>, partitions |-> <<>>, filter |-> <<>>, fparams |-> <<>>,
   exclusive |-> FALSE, strength |-> 0, lease |-> 0, token |-> NoKey]

(* handleEndpointAnnounce, one parameter.                                  *)
TakeEndpointParam(info, p, from) ==
  LET v == p.cell.value
  IN CASE ~Decodes(p) -> info
       [] Decodes(p) /\ p.pid = "guid" -> [info EXCEPT !.guid = v]
       [] Decodes(p) /\ p.pid = "topic" -> [info EXCEPT !.topic = v]
       [] Decodes(p) /\ p.pid = "type" -> [info EXCEPT !.type = v]
       [] Decodes(p) /\ p.pid = "data" -> [info EXCEPT !.data = FillIn(v, from)]
       [] Decodes(p) /\ p.pid = "token" -> [info EXCEPT !.token = v]
       [] Decodes(p) /\ p.pid = "partition" -> [info EXCEPT !.partitions = Append(@, v)]
       [] Decodes(p) /\ p.pid = "ownership" -> [info EXCEPT !.exclusive = @ \/ v # 0]
       [] Decodes(p) /\ p.pid = "strength" -> [info EXCEPT !.strength = v]
       [] Decodes(p) /\ p.pid = "liveliness" -> [info EXCEPT !.lease = v]
       [] Decodes(p) /\ p.pid = "filter" -> [info EXCEPT !.filter = <<v>>]
       [] Decodes(p) /\ p.pid = "filterparam" -> [info EXCEPT !.fparams = Append(@, v)]
       [] OTHER -> info

(* The rest of handleEndpointAnnounce: no topic, no endpoint; a filter the *)
(* receiver cannot parse is no filter; a receiver with a plugin wants the  *)
(* right tag.                                                              *)
Compiled(raw) ==
  IF raw.filter # <<>> /\ raw.filter[1].n > 0 /\ raw.filter[1].text \notin BadFilters
  THEN raw.filter \o raw.fparams ELSE <<>>

handleEndpointAnnounce(prefix, writer, buf, from, key) ==
  LET raw == FoldLeft(LAMBDA info, p : TakeEndpointParam(info, p, from),
                      NewInfo(prefix, writer), params(buf, 1))
  IN IF raw.topic = <<>> \/ raw.topic.n = 0 \/ ~Verified(key, raw.token) THEN Ignored
     ELSE [raw EXCEPT !.filter = Compiled(raw)]

-----------------------------------------------------------------------------

Init ==
  /\ sent = Silent
  /\ signer = NoKey
  /\ wire = <<>>
  /\ source \in Sources
  /\ learnt = Silent

(* Another implementation may begin a list with a pad, which is a header   *)
(* and nothing else, or with a parameter this one does not know.           *)
Openings == {<<>>, <<[pid |-> "pad", len |-> 0]>>, addParam("unknown", 5, "x")}

AnnounceParticipant(p, key, before) ==
  /\ sent = Silent
  /\ sent' = p
  /\ signer' = key
  /\ wire' = before \o buildParticipantData(p, key)
  /\ UNCHANGED <<source, learnt>>

AnnounceEndpoint(e, key, before) ==
  /\ sent = Silent
  /\ sent' = e
  /\ signer' = key
  /\ wire' = before \o buildEndpointData(e, key)
  /\ UNCHANGED <<source, learnt>>

Hear(key) ==
  /\ sent # Silent
  /\ learnt = Silent
  /\ learnt' = (IF sent.what = "participant"
                THEN IF Verified(key, extractDiscoveryToken(wire))
                     THEN parseParticipantData(sent.guid, wire, source) ELSE Ignored
                ELSE handleEndpointAnnounce(sent.guid, sent.writer, wire, source, key))
  /\ UNCHANGED <<sent, signer, wire, source>>

Next ==
  \/ \E key \in Keys, before \in Openings :
        \/ \E p \in Participants : AnnounceParticipant(p, key, before)
        \/ \E e \in Endpoints : AnnounceEndpoint(e, key, before)
  \/ \E key \in Keys : Hear(key)

Spec == Init /\ [][Next]_nvars

-----------------------------------------------------------------------------

(* The variables hold values of their types.                               *)
AnnouncementsTypeOK ==
  /\ sent \in {Silent} \cup Participants \cup Endpoints
  /\ signer \in Keys
  /\ learnt.what \in {"nothing", "ignored", sent.what}

(* The length of every value fits the length field.                        *)
Fits(s) == 4 * Words(5 + s.n) < LenMod
AllFit ==
  IF sent.what = "participant" THEN sent.relay # <<>> => Fits(sent.relay)
  ELSE \A s \in {sent.topic, sent.type} \cup Range(sent.partitions) \cup Range(sent.filter) : Fits(s)

(* A peer that accepts participant data learns exactly the sockets the     *)
(* announcer listens on, no dial-only one among them, each at the address  *)
(* the packet came from when that is IPv4, and its relay ID.               *)
PeerLearntRight ==
  (learnt.what = "participant" /\ AllFit) =>
    /\ DOMAIN learnt.at = {"meta", "data"} \cup {t \in DOMAIN sent.ports : Listening(sent, t)}
    /\ \A t \in DOMAIN learnt.at : learnt.at[t].port =
         (CASE t = "meta" -> sent.meta [] t = "data" -> sent.data [] OTHER -> sent.ports[t])
    /\ source.v4 => \A t \in DOMAIN learnt.at : learnt.at[t].host = source.host
    /\ learnt.relay = sent.relay
    /\ learnt.lease = 10

(* A peer that accepts endpoint data learns the endpoint as announced: the *)
(* partitions and filter parameters complete and in order, the ownership   *)
(* and the lease, and the filter unless it cannot be parsed.               *)
EndpointLearntRight ==
  (learnt.what = "endpoint" /\ AllFit) =>
    /\ learnt.topic = sent.topic /\ learnt.type = sent.type
    /\ learnt.data.port = sent.data
    /\ learnt.partitions = sent.partitions
    /\ learnt.filter = (IF sent.filter # <<>> /\ sent.filter[1].text \in BadFilters
                        THEN <<>> ELSE sent.filter)
    /\ learnt.exclusive = sent.exclusive
    /\ learnt.exclusive => learnt.strength = sent.strength
    /\ learnt.lease = sent.lease

Accepted ==
  (learnt = Silent /\ sent # Silent /\ AllFit
   /\ (sent.what = "endpoint" => sent.topic.n > 0)
   /\ Hear(signer)) => learnt' # Ignored

(* An announcement both sides hold the same key for, and whose values all  *)
(* fit their length fields, is accepted: neither a foreign prefix nor the  *)
(* signature at the end of the list loses it.                              *)
SignedAccepted == [][Accepted]_nvars
=============================================================================
