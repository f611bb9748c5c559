-------------------------------- MODULE Cdr ---------------------------------
(***************************************************************************)
(* The CDR codec of tools/cdr/cdr.go, as the code tools/idl generates uses *)
(* it: one Write call per field of a type, in order, and on the other side *)
(* one Read call per field, in the same order, giving up at the first      *)
(* error.  The buffer is a sequence of octets; the first octet of a value  *)
(* stands for the value, and the number of a string's or a byte sequence's *)
(* octets is the value of its length prefix.                               *)
(***************************************************************************)
EXTENDS Integers, Sequences, SequencesExt

CONSTANTS Values,      \* what may be written: [kind, size] and, for text, [n]
          MaxFields    \* bound: the fields of one type

VARIABLES fields,      \* the values written, in order
          buf,         \* the encoder's buffer, then the decoder's
          phase,       \* "encode", "decode", "failed" or "done"
          pos,         \* the decoder's position
          values       \* the values read so far

dvars == <<fields, buf, phase, pos, values>>

HeaderLen == 4
pad == [is |-> "pad"]
HeaderOctets == [i \in 1..HeaderLen |-> pad]

Pads(n, at) == (n - (at % n)) % n

(* Encoder.align and Decoder.align: both count from the start of the       *)
(* buffer, the encapsulation header included.                              *)
align(b, n) == b \o [i \in 1..Pads(n, Len(b)) |-> pad]
\* (a bug for the checks: the header is not counted)
alignedFromPayload(at, n) == at + Pads(n, at - HeaderLen)

aligned(at, n) == at + Pads(n, at)

octets(v, n) == [i \in 1..n |-> IF i = 1 THEN v ELSE pad]

(* The Write functions: a primitive is aligned to its size; text is a      *)
(* four-octet length and its octets, a string counting its null octet.     *)
TextLen(v) == IF v.kind = "string" THEN v.n + 1 ELSE v.n

Write(b, v) ==
  IF v.kind = "number" THEN align(b, v.size) \o octets(v, v.size)
  ELSE align(b, 4) \o octets([is |-> "len", n |-> TextLen(v)], 4) \o octets(v, TextLen(v))

(* The Read functions, on a field of v's type: the position after it, and  *)
(* the value found, or Underrun where need fails.  An empty byte sequence  *)
(* has no octet to hold its value and reads as itself.                     *)
Underrun == [pos |-> 0, value |-> [is |-> "underrun"]]

need(at, n) == at + n <= Len(buf)

ReadNumber(size, at) ==
  LET from == aligned(at, size)
  IN IF need(from, size) THEN [pos |-> from + size, value |-> buf[from + 1]] ELSE Underrun

ReadText(v, at) ==
  LET len == ReadNumber(4, at)
      n == IF "n" \in DOMAIN len.value THEN len.value.n ELSE 0
  IN IF len = Underrun \/ ~need(len.pos, n) THEN Underrun
     ELSE [pos |-> len.pos + n, value |-> IF n = 0 THEN [v EXCEPT !.n = 0] ELSE buf[len.pos + 1]]

Read(v, at) == IF v.kind = "number" THEN ReadNumber(v.size, at) ELSE ReadText(v, at)

-----------------------------------------------------------------------------

Init ==
  /\ fields = <<>>
  /\ buf = HeaderOctets
  /\ phase = "encode"
  /\ pos = 0
  /\ values = <<>>

Encode(v) ==
  /\ phase = "encode"
  /\ Len(fields) < MaxFields
  /\ fields' = Append(fields, v)
  /\ buf' = Write(buf, v)
  /\ UNCHANGED <<phase, pos, values>>

(* NewDecoder on what arrived: all of it, or its first n octets.           *)
NewDecoder(n) ==
  /\ phase = "encode"
  /\ buf' = SubSeq(buf, 1, n)
  /\ phase' = (IF n < HeaderLen THEN "failed" ELSE "decode")
  /\ pos' = HeaderLen
  /\ UNCHANGED <<fields, values>>

Decode ==
  /\ phase = "decode"
  /\ IF Len(values) = Len(fields)
     THEN phase' = "done" /\ UNCHANGED <<pos, values>>
     ELSE LET r == Read(fields[Len(values) + 1], pos)
          IN IF r = Underrun THEN phase' = "failed" /\ UNCHANGED <<pos, values>>
             ELSE pos' = r.pos /\ values' = Append(values, r.value) /\ UNCHANGED phase
  /\ UNCHANGED <<fields, buf>>

Next ==
  \/ \E v \in Values : Encode(v)
  \/ \E n \in 0..Len(buf) : NewDecoder(n)
  \/ Decode

Spec == Init /\ [][Next]_dvars

-----------------------------------------------------------------------------

(* The variables hold values of their types.                               *)
CdrTypeOK ==
  /\ \A i \in 1..Len(fields) : fields[i] \in Values
  /\ phase \in {"encode", "decode", "failed", "done"}
  /\ pos \in Nat

(* Encoder and decoder agree on where every field lies, whatever the mix   *)
(* of sizes before it: the values read are those written, in order, also   *)
(* when the buffer was cut short; and a buffer that holds all of the       *)
(* fields is never refused.                                                *)
DecodedAsEncoded ==
  /\ values = SubSeq(fields, 1, Len(values))
  /\ phase = "failed" => LET whole == FoldLeft(Write, HeaderOctets, fields)
                         IN Len(buf) < Len(whole)
=============================================================================
