------------------------------ MODULE WsFrames ------------------------------
(***************************************************************************)
(* The two WebSocket codecs (rtps/transport_ws.go, bridge/ws/wsframe.go;   *)
(* the second never masks what it writes): a peer that conforms to RFC     *)
(* 6455 sends messages, fragmented as it likes and with control frames in  *)
(* between, and readMessage puts them together again.  A payload is its    *)
(* length and whether it is masked; a length is in the header's 7 bits or  *)
(* in an extension of 16 or 64.                                            *)
(***************************************************************************)
EXTENDS Naturals, Sequences, SequencesExt

CONSTANTS Sizes,      \* lengths of fragments and pings
          MaxSize,    \* maxWSFrameSize / maxFrameBytes
          MaxFrames   \* bound: frames the peer sends

VARIABLES
  mine,      \* does the peer mask, as a client must
  msgs,      \* messages the peer has finished, each a sequence of fragment lengths
  part,      \* the fragments of its current message
  pings,     \* lengths of the pings it sent
  stream,    \* frames written and not yet read
  frames,    \* frames written
  buf,       \* readMessage: buf, as a sequence of fragment lengths, and msgOp
  got,       \* messages returned to readLoop
  pongs,     \* lengths of the pongs written
  rstate     \* "reading", "closed" (Close frame) or "failed"

vars == <<mine, msgs, part, pings, stream, frames, buf, got, pongs, rstate>>

Total(ps) == FoldSeq(+, 0, ps)
NoBuf == [op |-> "unset", parts |-> <<>>]

Init ==
  /\ mine \in BOOLEAN /\ msgs = <<>> /\ part = <<>> /\ pings = <<>> /\ stream = <<>> /\ frames = 0
  /\ buf = NoBuf /\ got = <<>> /\ pongs = <<>> /\ rstate = "reading"

\* (a bug for the checks: one off at the border of the 7-bit length)
HeaderLate(n) ==
  CASE n <= 126 -> [len |-> n, ext |-> 0]
    [] n > 126 /\ n <= 65535 -> [len |-> 126, ext |-> n % 65536]
    [] OTHER -> [len |-> 127, ext |-> n]

\* The length field and its extension.
Header(n) ==
  CASE n < 126 -> [len |-> n, ext |-> 0]
    [] n >= 126 /\ n <= 65535 -> [len |-> 126, ext |-> n % 65536]
    [] OTHER -> [len |-> 127, ext |-> n]

Frame(fin, op, n) ==
  [fin |-> fin, op |-> op, hdr |-> Header(n), n |-> n, mask |-> mine, scrambled |-> mine]

writeWSFrame(fin, op, n) ==
  /\ frames < MaxFrames /\ frames' = frames + 1
  /\ stream' = Append(stream, Frame(fin, op, n))
  /\ UNCHANGED <<mine, buf, got, pongs, rstate>>

\* The peer: a data frame, the first of a message or a continuation, the last or not.
SendData ==
  \E n \in Sizes, fin \in BOOLEAN :
    /\ writeWSFrame(fin, IF part = <<>> THEN "binary" ELSE "cont", n)
    /\ msgs' = IF fin THEN Append(msgs, Append(part, n)) ELSE msgs
    /\ part' = IF fin THEN <<>> ELSE Append(part, n)
    /\ UNCHANGED pings

\* A control frame, also between the fragments of a message.
SendControl ==
  \E op \in {"ping", "pong", "close"}, n \in {x \in Sizes : x <= 125} :
    /\ writeWSFrame(TRUE, op, n)
    /\ pings' = IF op = "ping" THEN Append(pings, n) ELSE pings
    /\ UNCHANGED <<msgs, part>>

\* readWSFrame: the length read back, and the payload unmasked if the mask bit is set.
Length(h) == IF h.len \in {126, 127} THEN h.ext ELSE h.len
Intact(f) == Length(f.hdr) = f.n /\ f.scrambled = f.mask

Fail == rstate' = "failed" /\ UNCHANGED <<buf, got, pongs>>

\* (a bug for the checks: a control frame drops what was read of the message)
readMessageForgets(f) ==
  CASE f.op \in {"ping", "pong"} -> buf' = NoBuf /\ pongs' = Append(pongs, f.n) /\ UNCHANGED <<got, rstate>>
    [] f.op = "close" -> rstate' = "closed" /\ UNCHANGED <<buf, got, pongs>>
    [] OTHER -> IF f.fin THEN got' = Append(got, Append(buf.parts, f.n)) /\ buf' = NoBuf /\ UNCHANGED <<pongs, rstate>>
                ELSE buf' = [op |-> f.op, parts |-> Append(buf.parts, f.n)] /\ UNCHANGED <<got, pongs, rstate>>

\* readMessage: one frame of its loop.  A returned message goes through
\* decodeWSPayload, which takes the opcode of the first frame.
readMessage(f) ==
  CASE f.op = "ping" -> pongs' = Append(pongs, f.n) /\ UNCHANGED <<buf, got, rstate>>
    [] f.op = "pong" -> UNCHANGED <<buf, got, pongs, rstate>>
    [] f.op = "close" -> rstate' = "closed" /\ UNCHANGED <<buf, got, pongs>>
    [] OTHER ->
         LET op == IF f.op = "cont" THEN buf.op ELSE f.op
             all == Append(buf.parts, f.n)
         IN IF Total(all) > MaxSize \/ (f.fin /\ op # "binary") THEN Fail
            ELSE /\ buf' = IF f.fin THEN NoBuf ELSE [op |-> op, parts |-> all]
                 /\ got' = IF f.fin THEN Append(got, all) ELSE got
                 /\ UNCHANGED <<pongs, rstate>>

Read ==
  /\ rstate = "reading" /\ stream # <<>> /\ stream' = Tail(stream)
  /\ IF Length(Head(stream).hdr) > MaxSize \/ ~Intact(Head(stream)) THEN Fail
     ELSE readMessage(Head(stream))
  /\ UNCHANGED <<mine, msgs, part, pings, frames>>

Next == SendData \/ SendControl \/ Read

Spec == Init /\ [][Next]_vars

-----------------------------------------------------------------------------
\* The variables hold what the fields they model can hold.
WsFramesTypeOK ==
  /\ frames \in 0..MaxFrames /\ Len(stream) <= frames /\ rstate \in {"reading", "closed", "failed"}
  /\ buf.op \in {"unset", "binary", "cont"}

\* What readMessage returns is, message for message and fragment for fragment, what
\* the peer sent, at every border of the length encoding and whatever control
\* frames came in between; each ping is answered with its own payload, in order.
Reassembled == IsPrefix(got, msgs) /\ IsPrefix(pongs, pings)

\* A conforming peer is cut off only for a message that really is too large, and
\* such a message is never delivered.
OnlyLargeRefused ==
  /\ rstate = "failed" => \E m \in {msgs[i] : i \in DOMAIN msgs} \cup {part} : Total(m) > MaxSize
  /\ \A i \in DOMAIN got : Total(got[i]) <= MaxSize
=============================================================================
