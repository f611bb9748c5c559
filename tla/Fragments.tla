----------------------------- MODULE Fragments -----------------------------
(***************************************************************************)
(* rtps/fragment.go: a payload split into DATA_FRAG submessages, which a    *)
(* network loses, duplicates and reorders, and reassembled by a             *)
(* fragmentAssembler, which takes those of every participant.  A byte is    *)
(* the message it belongs to and its place there, so that a payload put     *)
(* together wrongly can be told.                                            *)
(***************************************************************************)
EXTENDS Integers, Sequences, FiniteSets, FiniteSetTheorems, SequenceTheorems, TLAPS

CONSTANTS
  Msgs,      \* messages: [prefix |-> participant, eid |-> writer, seq |-> number, len |-> bytes]
  Size,      \* bytes per fragment (maxPayloadSize)
  StaleAge,  \* staleFragAge, in ticks
  MaxReassembly  \* maxReassemblyBytes

VARIABLES
  sent,      \* the messages written so far
  net,       \* fragments under way, each a message and the number of its fragment
  buffers,   \* fragmentAssembler.buffers, by fragKey
  delivered, \* the payloads receive has returned, with the keys of their buffers
  hurt,      \* history: the keys of which a fragment was lost or a buffer went stale
  panicked   \* receive has sliced a buffer beyond its end

vars == <<sent, net, buffers, delivered, hurt, panicked>>

Zero == <<"zero">>   \* a byte of a new buffer

payload(m) == [i \in 1 .. m.len |-> <<m, i>>]

CeilDiv(n, d) == (n + d - 1) \div d

\* A bug for the checks: the rest of the payload is not sent.
splitShort(m) ==
  [k \in 1 .. m.len \div Size |->
     [from |-> m.prefix, eid |-> m.eid, seq |-> m.seq, num |-> k, size |-> Size, dataSize |-> m.len,
      payload |-> SubSeq(payload(m), (k - 1) * Size + 1, IF k * Size < m.len THEN k * Size ELSE m.len)]]

\* splitIntoFragmentsN: fragment k, 1-based, one fragment in each submessage.
split(m) ==
  [k \in 1 .. CeilDiv(m.len, Size) |->
     [from |-> m.prefix, eid |-> m.eid, seq |-> m.seq, num |-> k, size |-> Size, dataSize |-> m.len,
      payload |-> SubSeq(payload(m), (k - 1) * Size + 1, IF k * Size < m.len THEN k * Size ELSE m.len)]]

Frags == [m \in Msgs |-> split(m)]

\* What a fragment under way says.
fragment(d) == Frags[d[1]][d[2]]

\* fragKey, of a message or fragment: the writer's entity id and the sequence number.
key(f) == <<f.eid, f.seq>>

newBuffer(f) ==
  [data |-> [i \in 1 .. f.dataSize |-> Zero], seen |-> {}, received |-> 0,
   total |-> CeilDiv(f.dataSize, f.size), age |-> 0]

\* Fragments the copy loop passes over: beyond the buffer or its own payload, or seen.
Skipped(b, f) == f.num > b.total \/ f.num \in b.seen \/ (f.num - 1) * f.size >= f.dataSize

\* A bug for the checks: the 1-based number is used as the 0-based index.
storeShifted(b, f) ==
  IF Skipped(b, f) THEN b
  ELSE [b EXCEPT !.data = [i \in DOMAIN b.data |->
                             IF i - f.num * f.size \in DOMAIN f.payload
                             THEN f.payload[i - f.num * f.size] ELSE b.data[i]],
                 !.seen = @ \cup {f.num}, !.received = @ + 1]

\* The copy loop of receive, for a submessage of one fragment.
store(b, f) ==
  IF Skipped(b, f) THEN b
  ELSE [b EXCEPT !.data = [i \in DOMAIN b.data |->
                             IF i - (f.num - 1) * f.size \in DOMAIN f.payload
                             THEN f.payload[i - (f.num - 1) * f.size] ELSE b.data[i]],
                 !.seen = @ \cup {f.num}, !.received = @ + 1]

\* fb.data[offset:end] with an end beyond the buffer: end is bounded by the size the
\* fragment states, not by that of the buffer.
Overruns(b, f) == ~Skipped(b, f) /\ (f.num - 1) * f.size + Len(f.payload) > Len(b.data)

\* What receive rejects before it looks for a buffer.
Malformed(f) == f.size = 0 \/ f.dataSize = 0 \/ f.num = 0 \/ f.dataSize > MaxReassembly

Init ==
  /\ sent = {} /\ net = {} /\ buffers = [k \in {} |-> <<>>] /\ delivered = {} /\ hurt = {}
  /\ panicked = FALSE

\* rtpsWriter.Write of a payload above the fragment size.
Write(m) ==
  /\ m \notin sent
  /\ sent' = sent \cup {m}
  /\ net' = net \cup ({m} \X DOMAIN split(m))
  /\ UNCHANGED <<buffers, delivered, hurt, panicked>>

\* A bug for the checks: the buffer of a complete payload is kept.
receiveKeeps(d) ==
  LET f     == fragment(d)
      fresh == {k \in DOMAIN buffers : buffers[k].age <= StaleAge}
      b     == store(IF key(f) \in fresh THEN buffers[key(f)] ELSE newBuffer(f), f)
  IN  /\ d \in net /\ net' \in {net, net \ {d}}
      /\ IF Malformed(f) THEN UNCHANGED <<buffers, delivered>>
         ELSE /\ buffers' = [k \in fresh \cup {key(f)} |-> IF k = key(f) THEN b ELSE buffers[k]]
              /\ delivered' = IF b.received >= b.total THEN delivered \cup {[key |-> key(f), data |-> b.data]}
                              ELSE delivered
      /\ UNCHANGED <<sent, hurt, panicked>>

\* receive: drop what is stale, store the fragment, hand over a complete payload.
receive(d) ==
  LET f     == fragment(d)
      fresh == {k \in DOMAIN buffers : buffers[k].age <= StaleAge}
      old   == IF key(f) \in fresh THEN buffers[key(f)] ELSE newBuffer(f)
      b     == store(old, f)
      done  == b.received >= b.total
      keep  == IF done THEN fresh \ {key(f)} ELSE fresh \cup {key(f)}
  IN  /\ d \in net /\ net' \in {net, net \ {d}}   \* duplicated, or not
      /\ \/ Malformed(f) /\ UNCHANGED <<buffers, delivered, panicked>>
         \/ /\ ~Malformed(f) /\ Overruns(old, f)
            /\ panicked' = TRUE /\ UNCHANGED <<buffers, delivered>>
         \/ /\ ~Malformed(f) /\ ~Overruns(old, f)
            /\ buffers' = [k \in keep |-> IF k = key(f) THEN b ELSE buffers[k]]
            /\ delivered' = IF done THEN delivered \cup {[key |-> key(f), data |-> b.data]} ELSE delivered
            /\ UNCHANGED panicked
      /\ UNCHANGED <<sent, hurt>>

Lose(d) ==
  /\ d \in net /\ net' = net \ {d} /\ hurt' = hurt \cup {key(d[1])}
  /\ UNCHANGED <<sent, buffers, delivered, panicked>>

Tick ==
  /\ \E k \in DOMAIN buffers : buffers[k].age <= StaleAge
  /\ buffers' = [k \in DOMAIN buffers |-> [buffers[k] EXCEPT !.age = IF @ <= StaleAge THEN @ + 1 ELSE @]]
  /\ hurt' = hurt \cup {k \in DOMAIN buffers : buffers'[k].age > StaleAge}
  /\ UNCHANGED <<sent, net, delivered, panicked>>

Next ==
  /\ ~panicked
  /\ \/ \E m \in Msgs : Write(m)
     \/ \E d \in net : receive(d)
     \/ \E d \in net : Lose(d)
     \/ Tick

Spec == Init /\ [][Next]_vars

Consumed(m) == ~panicked /\ \E d \in net : d[1] = m /\ net' = net \ {d} /\ UNCHANGED hurt

\* A fragment does not stay under way for ever, duplicated or not: receive consumes it.
FairSpec == Spec /\ \A m \in Msgs : WF_net(Consumed(m))

----------------------------------------------------------------------------
\* Buffers have the size and the number of fragments of their message, and count
\* every fragment they hold once.
TypeOK ==
  /\ sent \subseteq Msgs /\ \A d \in net : d[1] \in sent /\ d[2] \in DOMAIN split(d[1])
  /\ \A k \in DOMAIN buffers :
       LET b == buffers[k]
       IN  /\ b.received = Cardinality(b.seen) /\ b.seen \subseteq 1 .. b.total /\ b.received < b.total
           /\ b.age \in 0 .. StaleAge + 1
           /\ \E m \in sent : k = key(m) /\ Len(b.data) = m.len

\* No two participants have written under key k.
Alone(k) == \A m, n \in sent : key(m) = k /\ key(n) = k => m.prefix = n.prefix

\* Every byte is the one that a message with key k has at its place, or was never set.
InPlace(data, k) ==
  \A i \in DOMAIN data : data[i] = Zero \/ \E m \in sent : key(m) = k /\ data[i] = <<m, i>>

\* REQ-FRAG-003, REQ-REL-003: receive returns a payload only when every byte of it
\* arrived, and exactly the payload that was written, whatever was lost, duplicated,
\* reordered or given up as stale, also when the last fragment is short.  Only two
\* participants that share an entity id and a number can spoil that, or make receive
\* panic; even then each byte is one of theirs and at its place, or zero.
Intact ==
  /\ \A d \in delivered :
       /\ Alone(d.key) => \E m \in sent : d.key = key(m) /\ d.data = payload(m)
       /\ InPlace(d.data, d.key)
  /\ panicked => \E k \in {key(m) : m \in sent} : ~Alone(k)

\* REQ-LLR-003, "a buffer keyed by (writer GUID, first sequence number)": writers of
\* different participants are told apart, so what receive returns was written by one.
\* The code does not keep this: README.md says where it differs.
IntactPerWriter == \A d \in delivered : \E m \in sent : d.data = payload(m)

\* receive never panics.
\* The code does not keep this: README.md says where it differs.
NeverPanics == ~panicked

Missing(m) ==
  /\ m \in sent /\ m.len <= MaxReassembly /\ key(m) \notin hurt /\ Alone(key(m)) /\ ~panicked
  /\ [key |-> key(m), data |-> payload(m)] \notin delivered

\* Every message that is not too large is reassembled, in whatever order and how
\* often its fragments come, unless one of them is lost or the rest comes too late.
AllArrive == \A m \in Msgs : []<>~Missing(m)
----------------------------------------------------------------------------
\* Proofs.  A participant gives each writer an entity id of its own, and a writer
\* numbers its samples: among the messages of one participant the key names one.
\* Messages of different participants may share it.
Settings ==
  /\ Size \in Nat \ {0} /\ StaleAge \in Nat /\ MaxReassembly \in Nat
  /\ \A m \in Msgs : m.len \in Nat
  /\ \A m, n \in Msgs : m.prefix = n.prefix /\ key(m) = key(n) => m = n

\* The fragment that byte i is in.
FragOf(i) == CeilDiv(i, Size)

\* Fragment FragOf(i) begins before byte i and reaches at least to it, and it is one of
\* those a longer payload is split into.
LEMMA FragBounds ==
  ASSUME Settings, NEW i \in Nat \ {0}
  PROVE  /\ FragOf(i) \in Nat \ {0}
         /\ (FragOf(i) - 1) * Size < i /\ i <= FragOf(i) * Size
         /\ \A n \in Nat : i <= n => FragOf(i) <= CeilDiv(n, Size)
<1> DEFINE a == i + Size - 1
           q == a \div Size
<1>1. Size \in Nat \ {0} /\ a \in Nat
  BY DEF Settings
<1>2. q \in Nat /\ q * Size <= a /\ a < q * Size + Size
  BY <1>1
<1>3. q * Size = (q - 1) * Size + Size /\ (q - 1) * Size \in Int
  BY <1>1, <1>2
<1>4. (q - 1) * Size < i /\ i <= q * Size
  BY <1>1, <1>2, <1>3
<1>5. q # 0
  BY <1>1, <1>4
<1>6. ASSUME NEW n \in Nat, i <= n PROVE q <= CeilDiv(n, Size)
  <2>1. n + Size - 1 \in Nat /\ a <= n + Size - 1
    BY <1>1, <1>6
  <2> QED BY <1>1, <2>1 DEF CeilDiv
<1> QED
  BY <1>2, <1>4, <1>5, <1>6 DEF FragOf, CeilDiv

\* What fragment k of m carries: the bytes after (k - 1) * Size, as many as there are.
LEMMA FragmentCarries ==
  ASSUME Settings, NEW m \in Msgs, NEW k \in 1 .. CeilDiv(m.len, Size)
  PROVE  LET f == split(m)[k]
         IN  /\ key(f) = key(m) /\ f.num = k /\ f.size = Size /\ f.dataSize = m.len
             /\ ~((k - 1) * Size + Len(f.payload) > m.len)
             /\ \A i \in 1 .. m.len : FragOf(i) = k => i - (k - 1) * Size \in DOMAIN f.payload
             /\ \A i \in Nat \ {0} : i - (k - 1) * Size \in DOMAIN f.payload =>
                  f.payload[i - (k - 1) * Size] = <<m, i>>
<1> DEFINE f  == split(m)[k]
           lo == (k - 1) * Size
           hi == IF k * Size < m.len THEN k * Size ELSE m.len
<1>1. /\ f.eid = m.eid /\ f.seq = m.seq /\ f.num = k /\ f.size = Size /\ f.dataSize = m.len
      /\ f.payload = SubSeq(payload(m), lo + 1, hi)
  BY DEF split
<1>2. Size \in Nat \ {0} /\ m.len \in Nat /\ k \in Nat \ {0}
  BY DEF Settings
<1>3. lo \in Nat /\ k * Size = lo + Size /\ hi \in Nat
  <2>1. lo \in Int /\ k * Size = lo + Size
    BY <1>2
  <2>2. lo >= 0
    BY <1>2
  <2> QED BY <1>2, <2>1, <2>2
<1>4. /\ DOMAIN f.payload = 1 .. (hi - lo)
      /\ \A j \in 1 .. (hi - lo) : f.payload[j] = payload(m)[lo + j]
      /\ Len(f.payload) = IF lo + 1 <= hi THEN hi - lo ELSE 0
  <2> DEFINE p == payload(m)
             S == {m} \X (1 .. m.len)
  <2>1. hi <= m.len
    BY <1>2, <1>3
  <2> HIDE DEF lo, hi, f
  <2>2. \A i \in lo + 1 .. hi : p[i] \in S
    BY <2>1, <1>2, <1>3 DEF payload
  <2> HIDE DEF p, S
  <2>3. /\ SubSeq(p, lo + 1, hi) \in Seq(S)
        /\ Len(SubSeq(p, lo + 1, hi)) = IF lo + 1 <= hi THEN hi - (lo + 1) + 1 ELSE 0
        /\ \A j \in 1 .. hi - (lo + 1) + 1 : SubSeq(p, lo + 1, hi)[j] = p[lo + 1 + j - 1]
    BY <2>2, <1>3, SubSeqProperties
  <2>4. f.payload = SubSeq(p, lo + 1, hi)
    BY <1>1 DEF p
  <2>5. ASSUME NEW j \in 1 .. (hi - lo) PROVE f.payload[j] = p[lo + j]
    <3>1. j \in 1 .. hi - (lo + 1) + 1 /\ lo + 1 + j - 1 = lo + j
      BY <1>3
    <3>2. SubSeq(p, lo + 1, hi)[j] = p[lo + 1 + j - 1]
      BY ONLY <2>3, <3>1
    <3> QED BY ONLY <3>1, <3>2, <2>4
  <2>6. DOMAIN f.payload = 1 .. (hi - lo)
    BY <2>3, <2>4, <1>3
  <2>7. Len(f.payload) = IF lo + 1 <= hi THEN hi - lo ELSE 0
    BY <2>3, <2>4, <1>3
  <2> QED BY <2>5, <2>6, <2>7 DEF p
<1> HIDE DEF f
<1>5. ASSUME NEW i \in 1 .. m.len, FragOf(i) = k
      PROVE  i - lo \in DOMAIN f.payload
  <2>1. i \in Nat \ {0} /\ i <= m.len
    BY <1>2
  <2>2. lo < i /\ i <= k * Size
    BY <2>1, <1>5, FragBounds
  <2> HIDE DEF lo
  <2> QED BY <2>1, <2>2, <1>2, <1>3, <1>4
<1>6. ASSUME NEW i \in Nat \ {0}, i - lo \in DOMAIN f.payload
      PROVE  f.payload[i - lo] = <<m, i>>
  <2>0. hi <= m.len
    BY <1>2, <1>3
  <2> HIDE DEF lo, hi
  <2>1. f.payload[i - lo] = payload(m)[lo + (i - lo)]
    BY <1>4, <1>6
  <2>2. lo + (i - lo) = i
    BY <1>2, <1>3
  <2>3. i \in 1 .. m.len
    BY <1>2, <1>3, <1>4, <1>6, <2>0
  <2> QED BY <2>1, <2>2, <2>3 DEF payload
<1>7. ~(lo + Len(f.payload) > m.len)
  <2>1. hi <= m.len /\ lo < m.len
    <3>1. k <= CeilDiv(m.len, Size) /\ CeilDiv(m.len, Size) \in Nat
      BY <1>2 DEF CeilDiv
    <3> DEFINE q == CeilDiv(m.len, Size)
    <3>2. q * Size <= m.len + Size - 1
      BY <1>2 DEF CeilDiv
    <3> HIDE DEF q
    <3>3. k * Size <= q * Size
      BY <1>2, <3>1 DEF q
    <3>4. q * Size \in Nat /\ k * Size \in Nat
      BY <1>2, <3>1 DEF q
    <3> QED BY <1>2, <1>3, <3>2, <3>3, <3>4
  <2> HIDE DEF lo, hi
  <2> QED BY <1>2, <1>3, <1>4, <2>1
<1> QED
  BY <1>1, <1>5, <1>6, <1>7 DEF key, f

\* A buffer begun by message m: it has the size of m and has counted each fragment it
\* has seen once.
BufferOK(b, m) ==
  /\ b = [data |-> b.data, seen |-> b.seen, received |-> b.received, total |-> b.total, age |-> b.age]
  /\ b.total = CeilDiv(m.len, Size) /\ b.seen \subseteq 1 .. b.total
  /\ b.received = Cardinality(b.seen) /\ b.age \in 0 .. StaleAge + 1
  /\ b.data = [i \in 1 .. m.len |-> b.data[i]]

\* It holds the bytes of m in the fragments it has seen.
Holds(b, m) == \A i \in 1 .. m.len : FragOf(i) \in b.seen => b.data[i] = <<m, i>>

\* A new buffer is one of its message, and empty.
LEMMA NewBufferOK ==
  ASSUME Settings, NEW m \in Msgs, NEW k \in 1 .. CeilDiv(m.len, Size)
  PROVE  LET b == newBuffer(split(m)[k])
         IN  BufferOK(b, m) /\ Holds(b, m) /\ \A i \in DOMAIN b.data : b.data[i] = Zero
<1> DEFINE f == split(m)[k]
<1>1. f.size = Size /\ f.dataSize = m.len
  BY FragmentCarries
<1> HIDE DEF f
<1>2. Cardinality({}) = 0
  BY FS_EmptySet
<1>3. 0 \in 0 .. StaleAge + 1
  BY DEF Settings
<1> QED
  BY <1>1, <1>2, <1>3 DEF BufferOK, newBuffer, Holds, f

\* The copy loop adds the bytes of a fragment of m and harms no others, although the
\* last fragment is short; a fragment that was seen changes nothing.  The buffer may be
\* that of another message n.
LEMMA StoreOK ==
  ASSUME Settings, NEW m \in Msgs, NEW n \in Msgs, NEW k \in 1 .. CeilDiv(m.len, Size),
         NEW b, BufferOK(b, n)
  PROVE  LET c == store(b, split(m)[k])
         IN  /\ BufferOK(c, n) /\ c.age = b.age
             /\ m = n /\ Holds(b, n) => Holds(c, n)
             /\ \A i \in 1 .. n.len : c.data[i] = b.data[i] \/ c.data[i] = <<m, i>>
<1> DEFINE f  == split(m)[k]
           lo == (k - 1) * Size
           c  == store(b, f)
<1>1. /\ f.num = k /\ f.size = Size /\ f.dataSize = m.len
      /\ \A i \in 1 .. m.len : FragOf(i) = k => i - lo \in DOMAIN f.payload
      /\ \A i \in Nat \ {0} : i - lo \in DOMAIN f.payload => f.payload[i - lo] = <<m, i>>
  BY FragmentCarries
<1> HIDE DEF f
<1>2. CASE Skipped(b, f)
  <2>1. c = b
    BY <1>2 DEF store
  <2> QED BY <2>1 DEF f
<1>3. CASE ~Skipped(b, f)
  <2> DEFINE data == [i \in 1 .. n.len |-> IF i - lo \in DOMAIN f.payload THEN f.payload[i - lo] ELSE b.data[i]]
  <2>1. DOMAIN b.data = 1 .. n.len /\ k \notin b.seen /\ ~(k > b.total)
    BY <1>1, <1>3 DEF BufferOK, Skipped
  <2>2. c = [b EXCEPT !.data = data, !.seen = b.seen \cup {k}, !.received = b.received + 1]
    BY <1>1, <1>3, <2>1 DEF store
  <2>3. b = [data |-> b.data, seen |-> b.seen, received |-> b.received, total |-> b.total, age |-> b.age]
    BY DEF BufferOK
  <2> HIDE DEF c
  <2>4. c = [data |-> data, seen |-> b.seen \cup {k}, received |-> b.received + 1, total |-> b.total, age |-> b.age]
    <3> HIDE DEF data
    <3> QED BY <2>2, <2>3
  <2>5. /\ c.data = data /\ c.seen = b.seen \cup {k} /\ c.received = b.received + 1
        /\ c.total = b.total /\ c.age = b.age
    <3> HIDE DEF data
    <3> QED BY <2>4
  <2>6. IsFiniteSet(b.seen) /\ b.total = CeilDiv(n.len, Size) /\ b.total \in Int
    <3>1. b.total = CeilDiv(n.len, Size) /\ b.seen \subseteq 1 .. b.total
      BY DEF BufferOK
    <3>2. b.total \in Int
      BY <3>1 DEF CeilDiv, Settings
    <3>3. IsFiniteSet(1 .. b.total)
      BY <3>2, FS_Interval
    <3> QED BY <3>1, <3>2, <3>3, FS_Subset
  <2>7. c.received = Cardinality(c.seen)
    <3>1. Cardinality(b.seen \cup {k}) = Cardinality(b.seen) + 1
      BY <2>1, <2>6, FS_AddElement
    <3>2. b.received = Cardinality(b.seen)
      BY DEF BufferOK
    <3> QED BY ONLY <3>1, <3>2, <2>5
  <2>8. c.data = [i \in 1 .. n.len |-> c.data[i]]
    BY <2>5
  <2>9. ASSUME m = n, Holds(b, n) PROVE Holds(c, n)
    <3> SUFFICES ASSUME NEW i \in 1 .. n.len, FragOf(i) \in c.seen PROVE c.data[i] = <<m, i>>
      BY <2>9 DEF Holds
    <3>1. CASE i - lo \in DOMAIN f.payload
      <4>1. i \in Nat \ {0}
        BY DEF Settings
      <4> QED BY <3>1, <4>1, <1>1, <2>5
    <3>2. CASE i - lo \notin DOMAIN f.payload
      <4>1. FragOf(i) \in b.seen
        BY <2>9, <3>2, <1>1, <2>5
      <4>2. b.data[i] = <<m, i>>
        BY <2>9, <4>1 DEF Holds
      <4> QED BY <3>2, <4>2, <2>5
    <3> QED BY <3>1, <3>2
  <2>10. c.seen \subseteq 1 .. c.total
    <3>1. k \in Nat \ {0}
      BY DEF CeilDiv, Settings
    <3>2. k \in 1 .. b.total
      BY <3>1, <2>1, <2>6
    <3> QED BY <2>5, <3>2 DEF BufferOK
  <2>11. c = [data |-> c.data, seen |-> c.seen, received |-> c.received, total |-> c.total, age |-> c.age]
    <3> HIDE DEF data
    <3> QED BY <2>4
  <2>12. c.total = CeilDiv(n.len, Size) /\ c.age \in 0 .. StaleAge + 1
    BY <2>5 DEF BufferOK
  <2>13. ASSUME NEW i \in 1 .. n.len PROVE c.data[i] = b.data[i] \/ c.data[i] = <<m, i>>
    <3>1. i \in Nat \ {0}
      BY DEF Settings
    <3> QED BY <3>1, <1>1, <2>5
  <2>14. BufferOK(c, n)
    BY <2>7, <2>8, <2>10, <2>11, <2>12 DEF BufferOK
  <2> QED
    BY <2>5, <2>9, <2>13, <2>14 DEF c, f
<1> QED BY <1>2, <1>3 DEF f

\* A buffer that has counted as many fragments as there are holds the payload.
LEMMA CompleteIsPayload ==
  ASSUME Settings, NEW m \in Msgs, NEW b, BufferOK(b, m), Holds(b, m), b.received >= b.total
  PROVE  b.data = payload(m)
<1>1. /\ b.total = CeilDiv(m.len, Size) /\ b.seen \subseteq 1 .. b.total
      /\ b.received = Cardinality(b.seen)
  BY DEF BufferOK
<1>2. b.total \in Nat /\ m.len \in Nat
  BY <1>1 DEF CeilDiv, Settings
<1>3. IsFiniteSet(1 .. b.total) /\ Cardinality(1 .. b.total) = b.total
  <2> DEFINE n == b.total
  <2>1. n \in Nat /\ n \in Int /\ 1 \in Int
    BY <1>2
  <2> HIDE DEF n
  <2>2. IsFiniteSet(1 .. n) /\ Cardinality(1 .. n) = IF 1 > n THEN 0 ELSE n - 1 + 1
    BY ONLY <2>1, FS_Interval
  <2>3. Cardinality(1 .. n) = n
    BY ONLY <2>1, <2>2
  <2> QED BY <2>2, <2>3 DEF n
<1>4. Cardinality(b.seen) <= b.total /\ Cardinality(b.seen) \in Nat
  <2>1. IsFiniteSet(b.seen) /\ Cardinality(b.seen) <= Cardinality(1 .. b.total)
    BY <1>1, <1>3, FS_Subset
  <2> QED BY <2>1, <1>3, FS_CardinalityType
<1>5. Cardinality(b.seen) = b.total
  BY <1>1, <1>2, <1>4
<1>6. b.seen = 1 .. b.total
  BY <1>1, <1>3, <1>5, FS_Subset
<1>7. ASSUME NEW i \in 1 .. m.len PROVE b.data[i] = <<m, i>>
  <2>1. i \in Nat \ {0} /\ i <= m.len
    BY <1>2
  <2>2. FragOf(i) \in 1 .. b.total
    BY <2>1, <1>1, <1>2, FragBounds
  <2> QED BY <1>1, <1>6, <2>2 DEF Holds
<1>8. b.data = [i \in 1 .. m.len |-> b.data[i]]
  BY DEF BufferOK
<1> QED
  BY <1>7, <1>8 DEF payload

\* Fragments under way are of messages that were written; buffers are of such
\* messages and not complete.
NetInv == \A d \in net : d[1] \in sent /\ d[2] \in 1 .. CeilDiv(d[1].len, Size)

BuffersInv ==
  \A k \in DOMAIN buffers :
    /\ \E m \in sent : /\ k = key(m) /\ BufferOK(buffers[k], m) /\ buffers[k].received < buffers[k].total
                       /\ Alone(k) => Holds(buffers[k], m)
    /\ InPlace(buffers[k].data, k)

Inv == sent \subseteq Msgs /\ NetInv /\ BuffersInv /\ Intact

\* What is known of the keys and bytes is kept when messages are added.
LEMMA MoreSent ==
  ASSUME sent \subseteq sent', BuffersInv, NEW k \in DOMAIN buffers, UNCHANGED buffers
  PROVE  /\ \E m \in sent' : /\ k = key(m) /\ BufferOK(buffers'[k], m)
                             /\ buffers'[k].received < buffers'[k].total
                             /\ Alone(k)' => Holds(buffers'[k], m)
         /\ InPlace(buffers[k].data, k)'
<1>1. PICK m \in sent : /\ k = key(m) /\ BufferOK(buffers[k], m) /\ buffers[k].received < buffers[k].total
                        /\ Alone(k) => Holds(buffers[k], m)
  BY DEF BuffersInv
<1>2. Alone(k)' => Alone(k)
  BY DEF Alone
<1>3. InPlace(buffers[k].data, k)'
  BY DEF BuffersInv, InPlace
<1> QED BY <1>1, <1>2, <1>3

\* So is what was delivered.
LEMMA IntactStays ==
  ASSUME sent \subseteq sent', Intact, UNCHANGED <<delivered, panicked>>
  PROVE  Intact'
<1>1. ASSUME NEW k PROVE Alone(k)' => Alone(k)
  BY DEF Alone
<1>2. ASSUME NEW d \in delivered' PROVE InPlace(d.data, d.key)'
  BY <1>2 DEF Intact, InPlace
<1>3. ASSUME NEW d \in delivered', Alone(d.key)' PROVE \E m \in sent' : d.key = key(m) /\ d.data = payload(m)
  BY <1>1, <1>3 DEF Intact
<1>4. ASSUME panicked' PROVE \E k \in {key(m) : m \in sent'} : ~Alone(k)'
  BY <1>1, <1>4 DEF Intact
<1> QED BY <1>2, <1>3, <1>4 DEF Intact

\* receive keeps the invariant: the buffer it stores into was begun by a message with
\* the key of the fragment, and by the same one if no other participant uses that key.
LEMMA ReceiveStep ==
  ASSUME Settings, Inv, NEW d \in net, receive(d)
  PROVE  Inv'
<1> DEFINE m     == d[1]
           f     == fragment(d)
           fresh == {k \in DOMAIN buffers : buffers[k].age <= StaleAge}
           old   == IF key(f) \in fresh THEN buffers[key(f)] ELSE newBuffer(f)
           b     == store(old, f)
           done  == b.received >= b.total
           keep  == IF done THEN fresh \ {key(f)} ELSE fresh \cup {key(f)}
<1>1. m \in sent /\ m \in Msgs /\ d[2] \in 1 .. CeilDiv(m.len, Size)
  BY DEF Inv, NetInv
<1>2. f = split(m)[d[2]]
  BY <1>1 DEF fragment, Frags
<1>3. /\ key(f) = key(m) /\ f.num = d[2] /\ f.size = Size
      /\ ~((d[2] - 1) * Size + Len(f.payload) > m.len)
  <2> HIDE DEF m, f
  <2>1. LET g == split(m)[d[2]]
        IN  /\ key(g) = key(m) /\ g.num = d[2] /\ g.size = Size
            /\ ~((d[2] - 1) * Size + Len(g.payload) > m.len)
    BY ONLY <1>1, Settings, FragmentCarries, ZenonT(60)
  <2> QED BY ONLY <2>1, <1>2, ZenonT(30)
<1>4. /\ sent' = sent /\ net' \in {net, net \ {d}}
      /\ \/ UNCHANGED <<buffers, delivered, panicked>>
         \/ Overruns(old, f) /\ panicked' = TRUE /\ UNCHANGED <<buffers, delivered>>
         \/ /\ buffers' = [k \in keep |-> IF k = key(f) THEN b ELSE buffers[k]]
            /\ delivered' = IF done THEN delivered \cup {[key |-> key(f), data |-> b.data]} ELSE delivered
            /\ UNCHANGED panicked
  BY DEF receive
<1>5. sent' \subseteq Msgs /\ NetInv'
  BY <1>4 DEF Inv, NetInv
<1>6. PICK n \in sent : /\ key(n) = key(f) /\ BufferOK(old, n)
                        /\ Alone(key(f)) => n = m /\ Holds(old, n)
                        /\ InPlace(old.data, key(f))
  <2>1. CASE key(f) \in fresh
    <3>1. PICK n \in sent : /\ key(f) = key(n) /\ BufferOK(buffers[key(f)], n)
                            /\ Alone(key(f)) => Holds(buffers[key(f)], n)
      BY <2>1 DEF Inv, BuffersInv
    <3>2. InPlace(buffers[key(f)].data, key(f))
      BY <2>1 DEF Inv, BuffersInv
    <3>3. ASSUME Alone(key(f)) PROVE n = m
      <4>1. n \in Msgs /\ m \in Msgs /\ key(n) = key(m) /\ m \in sent
        BY <3>1, <1>1, <1>3 DEF Inv
      <4>2. key(n) = key(f) /\ key(m) = key(f)
        BY <3>1, <1>3
      <4> HIDE DEF f, m
      <4>3. n.prefix = m.prefix
        BY <3>3, <4>1, <4>2, SMTT(40) DEF Alone
      <4> QED BY <4>1, <4>3 DEF Settings
    <3> QED BY <2>1, <3>1, <3>2, <3>3
  <2>2. CASE key(f) \notin fresh
    <3>1. old = newBuffer(f)
      BY <2>2, SMTT(40)
    <3>2. BufferOK(old, m) /\ Holds(old, m) /\ \A i \in DOMAIN old.data : old.data[i] = Zero
      BY <3>1, <1>1, <1>2, NewBufferOK
    <3> QED BY <3>2, <1>1, <1>3 DEF InPlace
  <2> QED BY <2>1, <2>2
<1> HIDE DEF old
<1>7. n \in Msgs /\ key(n) = key(f) /\ BufferOK(old, n)
  BY <1>6 DEF Inv
<1>8. Alone(key(f)) => n = m /\ Holds(old, n)
  BY <1>6
<1>9. InPlace(old.data, key(f))
  BY <1>6, SMTT(40)
<1>10. LET c == store(old, split(m)[d[2]])
       IN  /\ BufferOK(c, n) /\ c.age = old.age
           /\ m = n /\ Holds(old, n) => Holds(c, n)
           /\ \A i \in 1 .. n.len : c.data[i] = old.data[i] \/ c.data[i] = <<m, i>>
  <2> DEFINE k == d[2]
  <2>1. m \in Msgs /\ k \in 1 .. CeilDiv(m.len, Size)
    BY <1>1
  <2> HIDE DEF m, k
  <2>2. LET c == store(old, split(m)[k])
        IN  /\ BufferOK(c, n) /\ c.age = old.age
            /\ m = n /\ Holds(old, n) => Holds(c, n)
            /\ \A i \in 1 .. n.len : c.data[i] = old.data[i] \/ c.data[i] = <<m, i>>
    <3>1. n \in Msgs /\ BufferOK(old, n)
      BY <1>7
    <3>2. Settings
      OBVIOUS
    <3> QED BY ONLY <3>1, <3>2, <2>1, StoreOK, ZenonT(240)
  <2> QED BY <2>2 DEF k
<1>11. BufferOK(b, n)
  BY <1>2, <1>10
<1>12. Alone(key(f)) => Holds(b, n)
  BY <1>2, <1>8, <1>10
<1>13. \A i \in 1 .. n.len : b.data[i] = old.data[i] \/ b.data[i] = <<m, i>>
  BY <1>2, <1>10
<1>14. DOMAIN b.data = 1 .. n.len /\ DOMAIN old.data = 1 .. n.len
  <2> HIDE DEF b
  <2> QED BY <1>7, <1>11 DEF BufferOK
<1>15. InPlace(b.data, key(f))
  <2> HIDE DEF b, f, m
  <2> SUFFICES ASSUME NEW i \in 1 .. n.len
               PROVE  b.data[i] = Zero \/ \E x \in sent : key(x) = key(f) /\ b.data[i] = <<x, i>>
    BY <1>14 DEF InPlace
  <2>1. CASE b.data[i] = old.data[i]
    BY <2>1, <1>9, <1>14 DEF InPlace
  <2>2. CASE b.data[i] = <<m, i>>
    BY <2>2, <1>1, <1>3
  <2> QED BY <2>1, <2>2, <1>13
<1>16. CASE UNCHANGED <<buffers, delivered, panicked>>
  <2>1. Intact'
    BY <1>4, <1>16, IntactStays DEF Inv
  <2>2. BuffersInv'
    BY <1>4, <1>16, MoreSent DEF Inv, BuffersInv
  <2> QED BY <1>5, <2>1, <2>2 DEF Inv
<1>17. CASE Overruns(old, f) /\ panicked' = TRUE /\ UNCHANGED <<buffers, delivered>>
  <2>1. ~Alone(key(f))
    <3> SUFFICES ASSUME Alone(key(f)) PROVE FALSE
      OBVIOUS
    <3>0. n = m
      BY <1>8
    <3> HIDE DEF f, m
    <3>1. old.data = [i \in 1 .. m.len |-> old.data[i]] /\ m.len \in Nat
      BY <3>0, <1>7 DEF BufferOK, Settings
    <3>2. Len(old.data) = m.len
      BY ONLY <3>1
    <3>3. (d[2] - 1) * Size + Len(f.payload) > Len(old.data)
      BY <1>3, <1>17 DEF Overruns
    <3> QED BY <1>3, <3>1, <3>2, <3>3
  <2>2. Intact'
    <3>1. key(f) \in {key(x) : x \in sent'} /\ ~Alone(key(f))'
      BY <2>1, <1>1, <1>3, <1>4 DEF Alone
    <3>2. \A e \in delivered : /\ Alone(e.key) => \E x \in sent : e.key = key(x) /\ e.data = payload(x)
                               /\ InPlace(e.data, e.key)
      BY DEF Inv, Intact
    <3> HIDE DEF f, m
    <3> QED BY <3>1, <3>2, <1>4, <1>17 DEF Intact, Alone, InPlace
  <2>3. BuffersInv'
    BY <1>4, <1>17, MoreSent DEF Inv, BuffersInv
  <2> QED BY <1>5, <2>2, <2>3 DEF Inv
<1>18. CASE /\ buffers' = [k \in keep |-> IF k = key(f) THEN b ELSE buffers[k]]
            /\ delivered' = IF done THEN delivered \cup {[key |-> key(f), data |-> b.data]} ELSE delivered
            /\ UNCHANGED panicked
  <2>1. ASSUME done, Alone(key(f)) PROVE b.data = payload(m)
    <3>1. n = m /\ Holds(b, n)
      BY <2>1, <1>8, <1>12
    <3>2. b.received >= b.total
      BY <2>1
    <3> HIDE DEF b, f, m
    <3> QED BY <3>1, <3>2, <1>7, <1>11, CompleteIsPayload
  <2>2. ~done => b.received < b.total
    <3>1. b.received \in Int /\ b.total \in Int
      <4>1. b.total = CeilDiv(n.len, Size) /\ b.seen \subseteq 1 .. b.total /\ b.received = Cardinality(b.seen)
        BY <1>11 DEF BufferOK
      <4>2. b.total \in Int
        BY <4>1, <1>7 DEF CeilDiv, Settings
      <4>3. IsFiniteSet(b.seen)
        BY <4>1, <4>2, FS_Interval, FS_Subset
      <4> QED BY <4>1, <4>2, <4>3, FS_CardinalityType
    <3> QED BY <3>1
  <2> HIDE DEF b, done, f, m
  <2>3. \A e \in delivered' : /\ Alone(e.key) => \E x \in sent : e.key = key(x) /\ e.data = payload(x)
                              /\ InPlace(e.data, e.key)
    <3> SUFFICES ASSUME NEW e \in delivered'
                 PROVE  /\ Alone(e.key) => \E x \in sent : e.key = key(x) /\ e.data = payload(x)
                        /\ InPlace(e.data, e.key)
      OBVIOUS
    <3>1. CASE e \in delivered
      BY <3>1 DEF Inv, Intact
    <3>2. CASE e \notin delivered
      <4>1. done /\ e = [key |-> key(f), data |-> b.data]
        BY <3>2, <1>18
      <4>2. e.key = key(f) /\ e.data = b.data
        BY <4>1
      <4> QED BY <4>1, <4>2, <2>1, <1>1, <1>3, <1>15, SMTT(40)
    <3> QED BY <3>1, <3>2
  <2>4. Intact'
    BY <2>3, <1>4, <1>18 DEF Inv, Intact, Alone, InPlace
  <2>5. \A k \in DOMAIN buffers' :
          /\ \E x \in sent : /\ k = key(x) /\ BufferOK(buffers'[k], x)
                             /\ buffers'[k].received < buffers'[k].total
                             /\ Alone(k) => Holds(buffers'[k], x)
          /\ InPlace(buffers'[k].data, k)
    <3> SUFFICES ASSUME NEW k \in DOMAIN buffers'
                 PROVE  /\ \E x \in sent : /\ k = key(x) /\ BufferOK(buffers'[k], x)
                                           /\ buffers'[k].received < buffers'[k].total
                                           /\ Alone(k) => Holds(buffers'[k], x)
                        /\ InPlace(buffers'[k].data, k)
      OBVIOUS
    <3>1. CASE k = key(f)
      <4>1. buffers'[k] = b /\ ~done
        BY <3>1, <1>18
      <4>2. Alone(k) => Holds(b, n)
        BY <3>1, <1>12
      <4>3. k = key(n) /\ BufferOK(b, n) /\ b.received < b.total /\ n \in sent
        BY <3>1, <4>1, <1>7, <1>11, <2>2
      <4> QED BY <3>1, <4>1, <4>2, <4>3, <1>15
    <3>2. CASE k # key(f)
      <4>1. k \in DOMAIN buffers /\ buffers'[k] = buffers[k]
        BY <3>2, <1>18
      <4> QED BY <4>1 DEF Inv, BuffersInv
    <3> QED BY <3>1, <3>2
  <2>6. BuffersInv'
    BY <2>5, <1>4 DEF BuffersInv, Alone, InPlace
  <2> QED BY <1>5, <2>4, <2>6 DEF Inv
<1> QED BY <1>4, <1>16, <1>17, <1>18

\* Time ages the buffers and nothing else.
LEMMA TickStep ==
  ASSUME Settings, Inv, Tick
  PROVE  Inv'
<1>1. UNCHANGED <<sent, net, delivered, panicked>>
  BY DEF Tick
<1>2. ASSUME NEW k \in DOMAIN buffers'
      PROVE  /\ \E m \in sent : /\ k = key(m) /\ BufferOK(buffers'[k], m)
                                /\ buffers'[k].received < buffers'[k].total
                                /\ Alone(k) => Holds(buffers'[k], m)
             /\ InPlace(buffers'[k].data, k)
  <2> DEFINE b == buffers[k]
             c == buffers'[k]
  <2>1. /\ k \in DOMAIN buffers
        /\ c = [b EXCEPT !.age = IF b.age <= StaleAge THEN b.age + 1 ELSE b.age]
    BY <1>2 DEF Tick
  <2>2. /\ InPlace(b.data, k)
        /\ \E m \in sent : /\ k = key(m) /\ BufferOK(b, m) /\ b.received < b.total
                           /\ Alone(k) => Holds(b, m)
    BY <2>1 DEF Inv, BuffersInv
  <2>3. PICK m \in sent : k = key(m) /\ BufferOK(b, m) /\ b.received < b.total /\ (Alone(k) => Holds(b, m))
    BY <2>2
  <2> HIDE DEF b, c
  <2>4. /\ b = [data |-> b.data, seen |-> b.seen, received |-> b.received, total |-> b.total, age |-> b.age]
        /\ b.age \in 0 .. StaleAge + 1 /\ StaleAge \in Nat
    BY <2>3 DEF BufferOK, Settings
  <2>5. /\ c.data = b.data /\ c.seen = b.seen /\ c.received = b.received /\ c.total = b.total
        /\ c = [data |-> b.data, seen |-> b.seen, received |-> b.received, total |-> b.total, age |-> c.age]
    BY <2>1, <2>4
  <2>6. c.age \in 0 .. StaleAge + 1
    <3>1. c.age = IF b.age <= StaleAge THEN b.age + 1 ELSE b.age
      BY <2>1, <2>4
    <3> QED BY <3>1, <2>4
  <2>7. BufferOK(c, m) /\ (Holds(b, m) => Holds(c, m))
    BY <2>3, <2>5, <2>6 DEF BufferOK, Holds
  <2> QED BY <2>2, <2>3, <2>5, <2>7 DEF c
<1>3. BuffersInv'
  BY <1>1, <1>2 DEF BuffersInv, Alone, InPlace
<1>4. Intact'
  BY <1>1, IntactStays DEF Inv
<1> QED
  BY <1>1, <1>3, <1>4 DEF Inv, NetInv

\* Every step keeps the invariant.
LEMMA StepInv == Settings /\ Inv /\ [Next]_vars => Inv'
<1> SUFFICES ASSUME Settings, Inv, [Next]_vars PROVE Inv'
  OBVIOUS
<1>1. ASSUME sent \subseteq sent', UNCHANGED <<buffers, delivered, panicked>>
      PROVE  BuffersInv' /\ Intact'
  <2>1. BuffersInv'
    BY <1>1, MoreSent DEF Inv, BuffersInv
  <2>2. Intact'
    BY <1>1, IntactStays DEF Inv
  <2> QED BY <2>1, <2>2
<1>2. ASSUME NEW m \in Msgs, Write(m) PROVE Inv'
  <2>1. sent' = sent \cup {m} /\ net' = net \cup ({m} \X DOMAIN split(m)) /\ UNCHANGED <<buffers, delivered, panicked>>
    BY <1>2 DEF Write
  <2>2. DOMAIN split(m) = 1 .. CeilDiv(m.len, Size)
    BY DEF split
  <2>3. NetInv' /\ sent' \subseteq Msgs
    BY <2>1, <2>2 DEF Inv, NetInv
  <2> QED BY <1>1, <2>1, <2>3 DEF Inv
<1>3. ASSUME NEW d \in net, receive(d) PROVE Inv'
  BY <1>3, ReceiveStep
<1>4. ASSUME NEW d \in net, Lose(d) PROVE Inv'
  <2>1. net' \subseteq net /\ UNCHANGED <<sent, buffers, delivered, panicked>>
    BY <1>4 DEF Lose
  <2>2. NetInv' /\ sent' \subseteq Msgs
    BY <2>1 DEF Inv, NetInv
  <2> QED BY <1>1, <2>1, <2>2 DEF Inv
<1>5. CASE Tick
  BY <1>5, TickStep
<1>6. CASE UNCHANGED vars
  <2>1. UNCHANGED <<net, sent, buffers, delivered, panicked>>
    BY <1>6 DEF vars
  <2>2. NetInv' /\ sent' \subseteq Msgs
    BY <2>1 DEF Inv, NetInv
  <2> QED BY <1>1, <2>1, <2>2 DEF Inv
<1> QED
  BY <1>2, <1>3, <1>4, <1>5, <1>6 DEF Next

\* It holds initially.
LEMMA InitInv == Init => Inv
BY DEF Init, Inv, NetInv, BuffersInv, Intact

\* Buffers have the size of their message and count every fragment once.
THEOREM TypeCorrect == ASSUME Settings PROVE Spec => []TypeOK
<1>1. Settings /\ Inv => TypeOK
  <2> SUFFICES ASSUME Settings, Inv PROVE TypeOK
    OBVIOUS
  <2>1. sent \subseteq Msgs /\ \A d \in net : d[1] \in sent /\ d[2] \in DOMAIN split(d[1])
    BY DEF Inv, NetInv, split
  <2>2. ASSUME NEW k \in DOMAIN buffers
        PROVE  LET b == buffers[k]
               IN  /\ b.received = Cardinality(b.seen) /\ b.seen \subseteq 1 .. b.total
                   /\ b.received < b.total /\ b.age \in 0 .. StaleAge + 1
                   /\ \E m \in sent : k = key(m) /\ Len(b.data) = m.len
    <3> DEFINE b == buffers[k]
    <3>1. PICK m \in sent : k = key(m) /\ BufferOK(b, m) /\ b.received < b.total
      BY DEF Inv, BuffersInv
    <3>2. m.len \in Nat
      BY DEF Inv, Settings
    <3> HIDE DEF b
    <3>3. Len(b.data) = m.len
      <4>1. b.data = [i \in 1 .. m.len |-> b.data[i]]
        BY <3>1 DEF BufferOK
      <4> QED BY ONLY <4>1, <3>2
    <3> QED BY <3>1, <3>3 DEF BufferOK, b
  <2> QED BY <2>1, <2>2 DEF TypeOK
<1> QED BY <1>1, InitInv, StepInv, PTL DEF Spec

\* receive returns exactly a payload that was written, for any sizes of payloads and
\* fragments and however the fragments were lost, duplicated, reordered or given up,
\* unless two participants share the entity id and the number; then it returns bytes of
\* theirs and zeros, each at its place, or panics.
THEOREM PayloadsIntact == ASSUME Settings PROVE Spec => []Intact
<1>1. Inv => Intact
  BY DEF Inv
<1> QED BY <1>1, InitInv, StepInv, PTL DEF Spec
=============================================================================
