-------------------------------- MODULE Wire --------------------------------
(***************************************************************************)
(* RTPS messages on the wire: rtps/message.go.  A message is a header and  *)
(* a run of submessages, each framed by its own length; the module has the *)
(* marshal functions, the loop that takes the frames apart, and the parse  *)
(* functions.                                                              *)
(*                                                                         *)
(* The wire is a sequence of four-octet words, a submessage header being   *)
(* one of them, and lengths count words.  Every width of the code is a     *)
(* constant: a length field is two digits to the base Octet (2^8), a       *)
(* sequence number splits at Low (2^32), a bitmap word has Bits (32) bits, *)
(* a sequence-number set at most MaxBits (256), and the seconds of a       *)
(* timestamp wrap at Era (2^32).                                           *)
(***************************************************************************)
EXTENDS Integers, Sequences, SequencesExt, FiniteSetsExt

CONSTANTS Octet, Low, Bits, MaxBits, Era,
          Frac, Nano,      \* ticks of the fraction and nanoseconds, per second
          Submessages,     \* the submessages that may be sent
          MaxSubs,         \* bound: submessages of one message
          Skews            \* how far the receiver's clock may be from the sender's

VARIABLES sub,             \* the submessages put into the message so far
          wire,            \* the message on the wire, or Unsent
          got              \* the submessages the receiver took out, or Unread

wvars == <<sub, wire, got>>

Unsent == <<[id |-> "unsent"]>>
Unread == <<[id |-> "unread"]>>

-----------------------------------------------------------------------------
(* Fields.                                                                 *)

u64ToSN(v) == [high |-> v \div Low, low |-> v % Low]
snToU64(sn) == sn.high * Low + sn.low

(* PutUint16 in the byte order of the E flag; only another implementation  *)
(* sends big-endian.                                                       *)
PutUint16(n, little) ==
  LET lo == n % Octet
      hi == (n \div Octet) % Octet
  IN IF little THEN <<lo, hi>> ELSE <<hi, lo>>

Uint16(d, little) == IF little THEN d[1] + d[2] * Octet ELSE d[2] + d[1] * Octet

frame(id, little, body) ==
  <<[id |-> id, little |-> little, len |-> PutUint16(Len(body), little)]>> \o body

(* bits.Len32 and bits.Reverse32 on a word given as the set of its bits.   *)
Len32(bitmap) == IF bitmap = {} THEN 0 ELSE 1 + Max(bitmap)
Reverse32(word) == {Bits - 1 - b : b \in word}

-----------------------------------------------------------------------------
(* The marshal functions.                                                  *)

marshalDataSubmessage(m) ==
  frame("DATA", TRUE, <<16, m.reader, m.writer, u64ToSN(m.sn).high, u64ToSN(m.sn).low>>
                      \o [i \in 1..m.payload |-> "octets"])

marshalHeartbeat(m) ==
  frame("HEARTBEAT", TRUE, <<m.reader, m.writer, u64ToSN(m.first).high, u64ToSN(m.first).low,
                             u64ToSN(m.last).high, u64ToSN(m.last).low, m.count>>)

marshalAckNack(m) ==
  LET numBits == Len32(m.bitmap)
  IN frame("ACKNACK", TRUE, <<m.reader, m.writer, u64ToSN(m.base).high, u64ToSN(m.base).low, numBits>>
           \o (IF numBits > 0 THEN <<Reverse32(m.bitmap)>> ELSE <<>>) \o <<m.count>>)

(* The set another implementation sends: as many words as it needs, delta  *)
(* N at bit Bits-1-(N % Bits) of word N / Bits.                            *)
ForeignAckNack(m) ==
  LET numBits == Len32(m.bitmap)
      word(w) == {Bits - 1 - (n % Bits) : n \in {k \in m.bitmap : k \div Bits = w - 1}}
  IN frame("ACKNACK", TRUE, <<m.reader, m.writer, u64ToSN(m.base).high, u64ToSN(m.base).low, numBits>>
           \o [w \in 1..((numBits + Bits - 1) \div Bits) |-> word(w)] \o <<m.count>>)

\* (a bug for the checks: the carry into the high half is lost)
marshalGAPLow(m) ==
  frame("GAP", TRUE, <<m.reader, m.writer, u64ToSN(m.from).high, u64ToSN(m.from).low,
                       u64ToSN(m.to).high, (u64ToSN(m.to).low + 1) % Low, 0>>)

marshalGAP(m) ==
  LET base == u64ToSN(snToU64(u64ToSN(m.to)) + 1)
  IN frame("GAP", TRUE, <<m.reader, m.writer, u64ToSN(m.from).high, u64ToSN(m.from).low,
                          base.high, base.low, 0>>)

marshalInfoTS(m) == frame("INFO_TS", TRUE, <<m.sec % Era, (m.nsec * Frac) \div Nano>>)

marshal(m) ==
  CASE m.id = "DATA" -> marshalDataSubmessage(m)
    [] m.id = "HEARTBEAT" -> marshalHeartbeat(m)
    [] m.id = "ACKNACK" -> IF m.foreign THEN ForeignAckNack(m) ELSE marshalAckNack(m)
    [] m.id = "GAP" -> marshalGAP(m)
    [] m.id = "INFO_TS" -> marshalInfoTS(m)
    [] m.id = "BIGENDIAN" -> frame("DATA", FALSE, [i \in 1..m.payload |-> "octets"])

-----------------------------------------------------------------------------
(* The parse functions: Bad where the code returns false.                  *)

Bad == [id |-> "bad"]
SN(body, i) == snToU64([high |-> body[i], low |-> body[i + 1]])

parseDataSubmessage(body) ==
  IF Len(body) < 5 THEN Bad
  ELSE [id |-> "DATA", reader |-> body[2], writer |-> body[3], sn |-> SN(body, 4),
        payload |-> Len(body) - 5]

parseHeartbeat(body) ==
  IF Len(body) < 7 THEN Bad
  ELSE [id |-> "HEARTBEAT", reader |-> body[1], writer |-> body[2], first |-> SN(body, 3),
        last |-> SN(body, 5), count |-> body[7]]

(* Only the first word of the set is kept.                                 *)
parseAckNack(body) ==
  LET numWords == (body[5] + Bits - 1) \div Bits
  IN IF Len(body) < 5 \/ body[5] > MaxBits \/ Len(body) < 5 + numWords + 1 THEN Bad
     ELSE [id |-> "ACKNACK", reader |-> body[1], writer |-> body[2], base |-> SN(body, 3),
           bitmap |-> IF numWords > 0 THEN Reverse32(body[6]) ELSE {},
           count |-> body[6 + numWords]]

(* No function of the code parses a GAP.  This is the reading another      *)
(* implementation gives one: everything from its start up to its base.     *)
ForeignGap(body) ==
  [id |-> "GAP", reader |-> body[1], writer |-> body[2], from |-> SN(body, 3), to |-> SN(body, 5) - 1]

(* The era whose instant is nearest to the receiver's clock, by rounding   *)
(* the quotient half away from zero.                                       *)
ntpEraDisambiguate(secs, ref) ==
  LET diff == ref - secs
      eraCount == IF diff >= 0 THEN (diff + Era \div 2) \div Era
                  ELSE -((-diff + Era \div 2) \div Era)
  IN secs + eraCount * Era

parseInfoTS(body, ref) ==
  IF Len(body) < 2 THEN Bad
  ELSE [id |-> "INFO_TS", sec |-> ntpEraDisambiguate(body[1], ref),
        nsec |-> (body[2] * Nano) \div Frac]

parse(id, body, ref) ==
  CASE id = "DATA" -> parseDataSubmessage(body)
    [] id = "HEARTBEAT" -> parseHeartbeat(body)
    [] id = "ACKNACK" -> parseAckNack(body)
    [] id = "GAP" -> ForeignGap(body)
    [] id = "INFO_TS" -> parseInfoTS(body, ref)

(* parseSubmessages from word pos on: a length beyond the end stops it, a  *)
(* big-endian submessage is stepped over.                                  *)
RECURSIVE parseSubmessages(_, _, _)
parseSubmessages(buf, pos, ref) ==
  IF pos > Len(buf) THEN <<>>
  ELSE LET length == Uint16(buf[pos].len, buf[pos].little)
           body == SubSeq(buf, pos + 1, pos + length)
           rest == parseSubmessages(buf, pos + 1 + length, ref)
       IN IF pos + length > Len(buf) THEN <<Bad>>
          ELSE IF ~buf[pos].little THEN rest
          ELSE <<parse(buf[pos].id, body, ref)>> \o rest

-----------------------------------------------------------------------------

Init == sub = <<>> /\ wire = Unsent /\ got = Unread

(* A message has at most one timestamp, and every body fits its length     *)
(* field: what happens to a sample that does not is Fragments' business.   *)
Put(m) ==
  /\ wire = Unsent
  /\ Len(sub) < MaxSubs
  /\ m.id = "INFO_TS" => \A i \in 1..Len(sub) : sub[i].id # "INFO_TS"
  /\ sub' = Append(sub, m)
  /\ UNCHANGED <<wire, got>>

(* wrapInRTPSMessage and the send.                                         *)
Send ==
  /\ wire = Unsent
  /\ sub # <<>>
  /\ wire' = FlattenSeq([i \in 1..Len(sub) |-> marshal(sub[i])])
  /\ UNCHANGED <<sub, got>>

(* parseHeader and parseSubmessages, on a clock `skew' away from the       *)
(* timestamps of the message.                                              *)
Clock(skew) == skew + FoldLeft(LAMBDA t, m : IF m.id = "INFO_TS" THEN m.sec ELSE t, 0, sub)

Receive(skew) ==
  /\ wire # Unsent
  /\ got = Unread
  /\ got' = parseSubmessages(wire, 1, Clock(skew))
  /\ UNCHANGED <<sub, wire>>

Next ==
  \/ \E m \in Submessages : Put(m)
  \/ Send
  \/ \E skew \in Skews : Receive(skew)

Spec == Init /\ [][Next]_wvars

-----------------------------------------------------------------------------

(* The variables hold values of their types.                               *)
WireTypeOK ==
  /\ \A i \in 1..Len(sub) : sub[i] \in Submessages
  /\ got = Unread \/ Len(got) <= Len(sub)

Oversized(m) == m.id = "ACKNACK" /\ Len32(m.bitmap) > MaxBits

(* What the receiver should make of m: the submessage itself, the deltas   *)
(* beyond the first word of a set left out, the nanoseconds rounded.       *)
Reads(m, g) ==
  CASE m.id = "ACKNACK" ->
         /\ g.bitmap = {n \in m.bitmap : n < Bits}
         /\ <<g.reader, g.writer, g.base, g.count>> = <<m.reader, m.writer, m.base, m.count>>
    [] m.id = "INFO_TS" -> g.sec = m.sec /\ m.nsec - g.nsec \in {0, 1}
    [] OTHER -> g = m

(* Every submessage is read back as it was sent, and in order: sequence    *)
(* numbers across the split of their words, sets of several words, gaps    *)
(* that end at the last low word, timestamps of any era within half an era *)
(* of the receiver's clock.  A big-endian submessage is stepped over, and  *)
(* a set of more than MaxBits refused, without losing their neighbours.    *)
ReadAsSent ==
  LET mine == SelectSeq(sub, LAMBDA m : m.id # "BIGENDIAN")
  IN got # Unread =>
       /\ Len(got) = Len(mine)
       /\ \A i \in 1..Len(mine) :
            IF Oversized(mine[i]) THEN got[i] = Bad
            ELSE got[i].id = mine[i].id /\ Reads(mine[i], got[i])
=============================================================================
