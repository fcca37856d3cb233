-------------------------------- MODULE Wire --------------------------------
(***************************************************************************)
(* The bytes of the backend's messages: ser.rs, the serialize functions of *)
(* protocol.rs, and write_message, which serialises every message of a     *)
(* session into the same buffer, Sock::serbuf.  The messages of results,   *)
(* which nothing sends yet, are here too.                                  *)
(*                                                                         *)
(* A byte is a digit to Base, a 16-bit integer has W16 digits and a 32-bit *)
(* one W32, so that small counts and lengths wrap the way 65536 columns    *)
(* and 4 GiB do.  A message type or a field type is some byte.             *)
(***************************************************************************)
EXTENDS Integers, Sequences, SequencesExt

CONSTANTS Base,    \* 256
          W16,     \* bytes of a u16
          W32,     \* bytes of a u32
          Msgs,    \* the messages that are written
          MaxSent  \* bound: messages written

Letters == <<"R", "K", "Z", "S", "C", "E", "I", "T", "D", "M">>

ASSUME BaseAssumption == Base \in Nat /\ Base > Len(Letters)
ASSUME WidthAssumption == W16 \in Nat \ {0} /\ W32 \in Nat \ {0}
ASSUME MaxSentAssumption == MaxSent \in Nat

\* Base^n
Pow[n \in Nat] == IF n = 0 THEN 1 ELSE Base * Pow[n - 1]

Byte   == 0..(Base - 1)
ord(c) == CHOOSE i \in DOMAIN Letters : Letters[i] = c

-----------------------------------------------------------------------------
(* The messages: strings and values are bytes, None is <<>>.               *)

U16    == 0..(Pow[W16] - 1)
U32    == 0..(Pow[W32] - 1)
I16    == {n \in (-Pow[W16])..Pow[W16] : -Pow[W16] <= 2 * n /\ 2 * n < Pow[W16]}
I32    == {n \in (-Pow[W32])..Pow[W32] : -Pow[W32] <= 2 * n /\ 2 * n < Pow[W32]}
Opt(S) == {<<>>} \cup {<<n>> : n \in S \ {0}}

Field == [name : Seq(Byte), reloid : Opt(U32), attnum : Opt(U16), typoid : U32, typlen : I16, typmod : I32]
Col   == [null : {TRUE}, data : {<<>>}] \cup [null : {FALSE}, data : Seq(Byte)]

Message ==
  [tag : {"R", "I"}]
    \cup [tag : {"K"}, backendid : U32, key : U32]
    \cup [tag : {"Z"}, status : {"I", "T", "E"}]
    \cup [tag : {"C"}, text : Seq(Byte)]
    \cup [tag : {"S"}, name : Seq(Byte), value : Seq(Byte)]
    \cup [tag : {"E"}, severity : Seq(Byte), code : Seq(Byte), msg : Seq(Byte)]
    \cup [tag : {"T"}, fields : Seq(Field)]
    \cup [tag : {"D"}, cols : Seq(Col)]

ASSUME MsgsAssumption == Msgs \subseteq Message

VARIABLES
  serbuf, \* the serialisation buffer
  wire,   \* what write_all was given so far
  sent    \* history: the messages, each with its length in bytes

wvars == <<serbuf, wire, sent>>

WInit == serbuf = <<>> /\ wire = <<>> /\ sent = <<>>

-----------------------------------------------------------------------------
(* utils/ser.rs.  The host is little-endian.                               *)

\* The memory of an integer; a negative one is its two's complement, and what
\* callers cast to it (`as u32`, `as u16`, `as i32`) is cut the same way.
as_bytes(v, w) == [i \in 1..w |-> (v \div Pow[i - 1]) % Base]

\* The memory of v.to_be(): that of v in the opposite order.
to_be(v, w) == Reverse(as_bytes(v, w))

ser(out, b) == out \o b

ser_at(out, idx, b) ==
  [i \in DOMAIN out |-> IF i \in (idx + 1)..(idx + Len(b)) THEN b[i - idx] ELSE out[i]]

ser_be(out, v, w)         == ser(out, to_be(v, w))
ser_be_at(out, idx, v, w) == ser_at(out, idx, to_be(v, w))

ser_be_i32(out, v)         == ser_be(out, v, W32)
ser_be_u32(out, v)         == ser_be(out, v, W32)
ser_be_u32_at(out, idx, v) == ser_be_at(out, idx, v, W32)
ser_be_u16(out, v)         == ser_be(out, v, W16)
ser_be_i16(out, v)         == ser_be(out, v, W16)

ser_cstr(out, s) == out \o s \o <<0>>

-----------------------------------------------------------------------------
(* protocol.rs: the serialize functions.                                   *)

\* Vec::resize.
resize(out, n, v) == [i \in 1..n |-> IF i <= Len(out) THEN out[i] ELSE v]

\* Mutant: what the last message left stays in the buffer.
clear_not(out) == out

clear(out) == <<>>

\* A message of known length: its type and the length.
Fixed(out, typ, size) == ser_be_u32(Append(clear(out), ord(typ)), size)

\* A message whose length is filled in when the rest is there.
Open(out, typ) == resize(clear(out), 1 + W32, ord(typ))

\* let msglen = out.len() - 1; ser_be_u32_at(out, 1, msglen as u32)
Close(out) == ser_be_u32_at(out, 1, Len(out) - 1)

ErrField(out, typ, s) == ser_cstr(Append(out, ord(typ)), s)

serialize_errmsg(m, out) ==
  Close(Append(ErrField(ErrField(ErrField(Open(out, "E"), "S", m.severity), "C", m.code), "M", m.msg), 0))

AuthenticationOk(out)  == ser_be_u32(Fixed(out, "R", 2 * W32), 0)
BackendKeyData(m, out) == ser_be_u32(ser_be_u32(Fixed(out, "K", 3 * W32), m.backendid), m.key)
ReadyForQuery(m, out)  == Append(Fixed(out, "Z", W32 + 1), ord(m.status))
CommandComplete(m, out) == Close(ser_cstr(Open(out, "C"), m.text))
ParameterStatus(m, out) == Close(ser_cstr(ser_cstr(Open(out, "S"), m.name), m.value))
EmptyQueryResponse(out) == Fixed(out, "I", W32)

\* None is 0, for an oid (OptOid) and for an attribute number.
OrZero(opt) == IF opt = <<>> THEN 0 ELSE opt[1]

\* What a FieldDesc adds to a RowDescription; the only format is Text, 0.
FieldDesc(f) ==
  LET a == ser_be_u32(ser_cstr(<<>>, f.name), OrZero(f.reloid))
      b == ser_be_u32(ser_be_u16(a, OrZero(f.attnum)), f.typoid)
      c == ser_be_i32(ser_be_i16(b, f.typlen), f.typmod)
  IN  ser_be_u16(c, 0)

RowDescription(m, out) ==
  Close(ser_be_u16(Open(out, "T"), Len(m.fields)) \o FlattenSeq([i \in DOMAIN m.fields |-> FieldDesc(m.fields[i])]))

\* Mutant: a NULL is written like an empty value.
ColumnNullEmpty(col) ==
  IF col.null THEN to_be(0, W32) ELSE to_be(Len(col.data), W32) \o col.data

\* What a column adds to a DataRow: -1 for NULL, else the length and the value.
Column(col) ==
  IF col.null THEN to_be(-1, W32) ELSE to_be(Len(col.data), W32) \o col.data

DataRow(m, out) ==
  Close(ser_be_u16(Open(out, "D"), Len(m.cols)) \o FlattenSeq([i \in DOMAIN m.cols |-> Column(m.cols[i])]))

serialize(m, out) ==
  CASE m.tag = "E" -> serialize_errmsg(m, out)
    [] m.tag = "R" -> AuthenticationOk(out)
    [] m.tag = "K" -> BackendKeyData(m, out)
    [] m.tag = "Z" -> ReadyForQuery(m, out)
    [] m.tag = "C" -> CommandComplete(m, out)
    [] m.tag = "S" -> ParameterStatus(m, out)
    [] m.tag = "I" -> EmptyQueryResponse(out)
    [] m.tag = "T" -> RowDescription(m, out)
    [] m.tag = "D" -> DataRow(m, out)

\* msg.serialize(&mut stream.serbuf), and write_all of the buffer.
write_message(m) ==
  /\ Len(sent) < MaxSent
  /\ serbuf' = serialize(m, serbuf)
  /\ wire' = wire \o serbuf'
  /\ sent' = Append(sent, [msg |-> m, size |-> Len(serbuf')])

Written == Len(sent) = MaxSent /\ UNCHANGED wvars

WNext == Written \/ \E m \in Msgs : write_message(m)

WSpec == WInit /\ [][WNext]_wvars

-----------------------------------------------------------------------------
(* The protocol's reader, as its documentation describes the formats: what *)
(* a client makes of the bytes.  It reads at an offset, the number of      *)
(* bytes before; past the end it reads zeros.                              *)

At(b, i) == IF i \in DOMAIN b THEN b[i] ELSE 0

UInt(b, p, w) ==
  LET digits[i \in 0..w] == IF i = 0 THEN 0 ELSE digits[i - 1] * Base + At(b, p + i)
  IN  digits[w]
SInt(b, p, w) == IF 2 * UInt(b, p, w) >= Pow[w] THEN UInt(b, p, w) - Pow[w] ELSE UInt(b, p, w)

\* Where the first n frames of a stream end, cut by their lengths.
Ends(b, n) ==
  LET ends[i \in 0..n] == IF i = 0 THEN 0 ELSE ends[i - 1] + 1 + UInt(b, ends[i - 1] + 1, W32)
  IN  ends

Frame(b, n, i) == SubSeq(b, Ends(b, n)[i - 1] + 1, Ends(b, n)[i])

\* The index of the first zero behind the offset; the bytes up to it.
Zeroes(b, p) == {i \in (p + 1)..Len(b) : b[i] = 0}
Zero(b, p) ==
  IF Zeroes(b, p) = {} THEN Len(b) + 1 ELSE CHOOSE i \in Zeroes(b, p) : \A j \in Zeroes(b, p) : i <= j
Str(b, p)  == SubSeq(b, p + 1, Zero(b, p) - 1)

OptOf(n) == IF n = 0 THEN <<>> ELSE <<n>>

FieldEnd(b, p) == Zero(b, p) + 3 * W32 + 3 * W16
FieldAt(b, p) ==
  LET z == Zero(b, p)
  IN  [name   |-> Str(b, p),
       reloid |-> OptOf(UInt(b, z, W32)),
       attnum |-> OptOf(UInt(b, z + W32, W16)),
       typoid |-> UInt(b, z + W32 + W16, W32),
       typlen |-> SInt(b, z + 2 * W32 + W16, W16),
       typmod |-> SInt(b, z + 2 * W32 + 2 * W16, W32)]

ColEnd(b, p) == p + W32 + (IF SInt(b, p, W32) < 0 THEN 0 ELSE SInt(b, p, W32))
ColAt(b, p) ==
  IF SInt(b, p, W32) < 0 THEN [null |-> TRUE, data |-> <<>>]
  ELSE [null |-> FALSE, data |-> SubSeq(b, p + W32 + 1, ColEnd(b, p))]

\* A value no message has: the bytes do not have the format.
Bad == [bad |-> TRUE]

\* The body of a frame starts behind its type and its length.
Hdr == 1 + W32

DecodeErr(f) ==
  LET s == Zero(f, Hdr + 1)
      c == Zero(f, s + 1)
      t == Zero(f, c + 1)
  IN  IF /\ Len(f) = t + 1 /\ f[t + 1] = 0
         /\ f[Hdr + 1] = ord("S") /\ f[s + 1] = ord("C") /\ f[c + 1] = ord("M")
      THEN [tag |-> "E", severity |-> Str(f, Hdr + 1), code |-> Str(f, s + 1), msg |-> Str(f, c + 1)]
      ELSE Bad

DecodeStatus(f) ==
  LET z == Zero(f, Hdr)
  IN  IF Zero(f, z) = Len(f) THEN [tag |-> "S", name |-> Str(f, Hdr), value |-> Str(f, z)] ELSE Bad

DecodeFields(f) ==
  LET n == UInt(f, Hdr, W16)
      q[i \in 0..n] == IF i = 0 THEN Hdr + W16 ELSE FieldEnd(f, q[i - 1])
  IN  IF q[n] = Len(f) THEN [tag |-> "T", fields |-> [i \in 1..n |-> FieldAt(f, q[i - 1])]] ELSE Bad

DecodeRow(f) ==
  LET n == UInt(f, Hdr, W16)
      q[i \in 0..n] == IF i = 0 THEN Hdr + W16 ELSE ColEnd(f, q[i - 1])
  IN  IF q[n] = Len(f) THEN [tag |-> "D", cols |-> [i \in 1..n |-> ColAt(f, q[i - 1])]] ELSE Bad

Decode(f) ==
  CASE At(f, 1) = ord("R") -> [tag |-> "R"]
    [] At(f, 1) = ord("I") -> [tag |-> "I"]
    [] At(f, 1) = ord("K") -> [tag |-> "K", backendid |-> UInt(f, Hdr, W32), key |-> UInt(f, Hdr + W32, W32)]
    [] At(f, 1) = ord("Z") -> [tag |-> "Z", status |-> Letters[At(f, Hdr + 1)]]
    [] At(f, 1) = ord("C") -> IF Zero(f, Hdr) = Len(f) THEN [tag |-> "C", text |-> Str(f, Hdr)] ELSE Bad
    [] At(f, 1) = ord("S") -> DecodeStatus(f)
    [] At(f, 1) = ord("E") -> DecodeErr(f)
    [] At(f, 1) = ord("T") -> DecodeFields(f)
    [] At(f, 1) = ord("D") -> DecodeRow(f)
    [] OTHER -> Bad

-----------------------------------------------------------------------------
(* Properties.                                                             *)

\* Serialised messages are bytes.
WTypeOK == serbuf \in Seq(Byte) /\ wire \in Seq(Byte) /\ Len(sent) <= MaxSent

\* The length a message is given is cut to a u32.
LengthFits(s) == s.size - 1 < Pow[W32]

\* A client that cuts the stream by the length words finds the messages that
\* were written, one frame each, whatever zero bytes their strings hold,
\* however many columns a row has and whatever the buffer held before: as long
\* as every length fits its word.
FramesAsWritten ==
  (\A i \in DOMAIN sent : LengthFits(sent[i])) =>
    LET ends == Ends(wire, Len(sent))
    IN  /\ ends[Len(sent)] = Len(wire)
        /\ \A i \in DOMAIN sent :
             ends[i] = ends[i - 1] + sent[i].size /\ wire[ends[i - 1] + 1] = ord(sent[i].msg.tag)

\* The limits of the formats: strings end at a zero, counts are u16, the
\* length of a value is an i32.
Representable(m) ==
  /\ \A f \in {"severity", "code", "msg", "text", "name", "value"} \cap DOMAIN m : 0 \notin Range(m[f])
  /\ m.tag = "T" => Len(m.fields) < Pow[W16] /\ \A i \in DOMAIN m.fields : 0 \notin Range(m.fields[i].name)
  /\ m.tag = "D" => /\ Len(m.cols) < Pow[W16]
                    /\ \A i \in DOMAIN m.cols : 2 * Len(m.cols[i].data) < Pow[W32]

\* Within those limits the client reads what was written: types, order of
\* fields, byte order, signs, NULL against empty, and nothing of the message
\* that used the buffer before.
ReadsAsWritten ==
  (\A i \in DOMAIN sent : LengthFits(sent[i])) =>
    \A i \in DOMAIN sent : Representable(sent[i].msg) => Decode(Frame(wire, Len(sent), i)) = sent[i].msg
=============================================================================
