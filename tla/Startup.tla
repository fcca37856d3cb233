------------------------------- MODULE Startup ------------------------------
(***************************************************************************)
(* How do_postgres_main understands a startup message: the two special     *)
(* requests told by their version words, and the loop of                   *)
(* StartupMessage::deserialize that cuts the rest into zero-terminated     *)
(* strings, names and values in turn, up to an empty name.                 *)
(*                                                                         *)
(* A body is its version word (four bytes, or fewer) and the rest, byte by *)
(* byte.  Names are one byte long: "u" stands for "user", "e" for          *)
(* "client_encoding".  "x" and "X" are the same letter in two cases, and   *)
(* the encoding the server expects; "bad" is in no UTF-8 string.           *)
(***************************************************************************)
EXTENDS Integers, Sequences, SequencesExt, FiniteSetsExt

CONSTANTS KeyBytes, \* what a CancelRequest holds behind its version word
          Rests     \* the rests of the bodies clients send

Bytes    == {"nul", "u", "e", "x", "X", "bad"}
User     == <<"u">>
Encoding == <<"e">>
Expected == <<"x">>

\* "short": the body is shorter than a version word.
Bodies == [ver : {"short"}, rest : {<<>>}] \cup [ver : {"1234.5678", "1234.5679", "other"}, rest : Rests]

VARIABLES
  body,   \* the message in inmsgbuf
  second, \* it is the one read after an SSLRequest
  spc,    \* "classify", "deserialize", "name", "value", "user", "encoding";
          \* then "todo" (a panic), "nossl", "auth" or "fail"
  pos,    \* the cursor
  name,   \* the name whose value is read next
  params  \* the HashMap

svars == <<body, second, spc, pos, name, params>>

NoParams == [n \in {} |-> <<>>]

SInit ==
  /\ body \in Bodies /\ second \in BOOLEAN
  /\ spc = "classify" /\ pos = 0 /\ name = <<>> /\ params = NoParams

-----------------------------------------------------------------------------
IsCancelRequest(b) == b.ver = "1234.5678" /\ Len(b.rest) = KeyBytes
IsSSLRequest(b)    == b.ver = "1234.5679" /\ b.rest = <<>>

\* The special requests are only looked for in the first message.
Classify ==
  /\ spc = "classify"
  /\ spc' = CASE ~second /\ IsCancelRequest(body) -> "todo"
              [] ~second /\ IsSSLRequest(body) -> "nossl"
              [] OTHER -> "deserialize"
  /\ UNCHANGED <<body, second, pos, name, params>>

\* d.len() >= 4
Deserialize ==
  /\ spc = "deserialize"
  /\ spc' = IF body.ver = "short" THEN "fail" ELSE "name"
  /\ UNCHANGED <<body, second, pos, name, params>>

\* find: where the byte next occurs at or behind start (both from 0), or -1.
find(d, start, val) ==
  LET at == {i \in start..(Len(d) - 1) : d[i + 1] = val}
  IN  IF at = {} THEN -1 ELSE Min(at)

from_utf8(s) == "bad" \notin Range(s)

\* Mutant: the bytes are taken for a string unseen.
CstrUnchecked ==
  LET idx == find(body.rest, pos, "nul")
  IN  IF idx < 0 THEN [ok |-> FALSE]
      ELSE [ok |-> TRUE, str |-> SubSeq(body.rest, pos + 1, idx), next |-> idx + 1]

\* Mutant: a string without its terminator ends with the message.
CstrUnterminated ==
  LET zero == find(body.rest, pos, "nul")
      idx  == IF zero < 0 THEN Len(body.rest) ELSE zero
      str  == SubSeq(body.rest, pos + 1, idx)
  IN  [ok |-> from_utf8(str), str |-> str, next |-> idx + 1]

\* read_cstr: an error, or a string and the cursor behind its terminator.
Cstr ==
  LET idx == find(body.rest, pos, "nul")
      str == SubSeq(body.rest, pos + 1, idx)
  IN  IF idx < 0 \/ ~from_utf8(str) THEN [ok |-> FALSE]
      ELSE [ok |-> TRUE, str |-> str, next |-> idx + 1]

ReadCstrFail ==
  /\ spc \in {"name", "value"} /\ ~Cstr.ok
  /\ spc' = "fail"
  /\ UNCHANGED <<body, second, pos, name, params>>

\* Mutant: an empty name is skipped and the cursor left where it is.
ReadNameSkip ==
  /\ spc = "name" /\ Cstr.ok
  /\ name' = Cstr.str
  /\ pos' = IF name' = <<>> THEN pos ELSE Cstr.next
  /\ spc' = IF name' = <<>> THEN "name" ELSE "value"
  /\ UNCHANGED <<body, second, params>>

ReadName ==
  /\ spc = "name" /\ Cstr.ok
  /\ name' = Cstr.str /\ pos' = Cstr.next
  /\ spc' = IF name' = <<>> THEN "user" ELSE "value"
  /\ UNCHANGED <<body, second, params>>

\* Mutant: the first value of a name stays.
ReadValueFirst ==
  /\ spc = "value" /\ Cstr.ok
  /\ params' = IF name \in DOMAIN params THEN params
               ELSE [n \in DOMAIN params \cup {name} |-> IF n = name THEN Cstr.str ELSE params[n]]
  /\ pos' = Cstr.next /\ spc' = "name"
  /\ UNCHANGED <<body, second, name>>

\* params.insert: a name that comes again has its last value.
ReadValue ==
  /\ spc = "value" /\ Cstr.ok
  /\ params' = [n \in DOMAIN params \cup {name} |-> IF n = name THEN Cstr.str ELSE params[n]]
  /\ pos' = Cstr.next /\ spc' = "name"
  /\ UNCHANGED <<body, second, name>>

\* Mutant: a message without a user is let through.
CheckUserNot ==
  /\ spc = "user" /\ spc' = "encoding"
  /\ UNCHANGED <<body, second, pos, name, params>>

\* What follows the empty name is not looked at.
CheckUser ==
  /\ spc = "user"
  /\ spc' = IF User \in DOMAIN params THEN "encoding" ELSE "fail"
  /\ UNCHANGED <<body, second, pos, name, params>>

to_lower(s) == [i \in DOMAIN s |-> IF s[i] = "X" THEN "x" ELSE s[i]]

check_client_encoding(ps) ==
  Encoding \in DOMAIN ps => to_lower(ps[Encoding]) = to_lower(Expected)

CheckEncoding ==
  /\ spc = "encoding"
  /\ spc' = IF check_client_encoding(params) THEN "auth" ELSE "fail"
  /\ UNCHANGED <<body, second, pos, name, params>>

Outcomes == {"todo", "nossl", "auth", "fail"}

Finished == spc \in Outcomes /\ UNCHANGED svars

Step == Classify \/ Deserialize \/ ReadCstrFail \/ ReadName \/ ReadValue
          \/ CheckUser \/ CheckEncoding

SNext == Step \/ Finished

\* The code between two awaits runs to its end.
SSpec == SInit /\ [][SNext]_svars /\ WF_svars(Step)

-----------------------------------------------------------------------------
(* The same from the whole body at once.                                   *)

\* The zeros among the first i bytes.
Zeros(r, i) == {k \in 1..i : r[k] = "nul"}

\* Where the j-th terminated string ends: at the j-th zero.
End(r, j) == IF j = 0 THEN 0
             ELSE CHOOSE i \in Zeros(r, Len(r)) : Cardinality(Zeros(r, i)) = j

\* The strings that are terminated, in order.
Strings(r) ==
  [j \in 1..Cardinality(Zeros(r, Len(r))) |-> SubSeq(r, End(r, j - 1) + 1, End(r, j) - 1)]

\* How many pairs precede an empty name, for every empty name among strings ss.
PairsBeforeEmpty(ss) == {k \in 0..(Len(ss) \div 2) : 2 * k + 1 <= Len(ss) /\ ss[2 * k + 1] = <<>>}

\* The parameters of strings ss of which the first n pairs count.
LastValues(ss, n) ==
  [nm \in {ss[2 * i - 1] : i \in 1..n} |-> ss[2 * Max({i \in 1..n : ss[2 * i - 1] = nm})]]

\* The parameters of a well-formed message, or NoParams, which has no user.
Accepted(b) ==
  LET ss == Strings(b.rest)
      n  == Min(PairsBeforeEmpty(ss))
      ps == LastValues(ss, n)
  IN  IF /\ b.ver # "short" /\ PairsBeforeEmpty(ss) # {}
         /\ \A i \in 1..(2 * n) : "bad" \notin Range(ss[i])
         /\ User \in DOMAIN ps
         /\ Encoding \in DOMAIN ps => ps[Encoding] \in {<<"x">>, <<"X">>}
      THEN ps ELSE NoParams

-----------------------------------------------------------------------------
(* Properties.                                                             *)

\* Every variable has its type; names and values are UTF-8 without a zero, no
\* name is empty.
STypeOK ==
  /\ body.rest \in Seq(Bytes) /\ second \in BOOLEAN
  /\ spc \in {"classify", "deserialize", "name", "value", "user", "encoding"} \cup Outcomes
  /\ pos \in Nat
  /\ \A s \in DOMAIN params \cup Range(params) \cup {name} : Range(s) \subseteq Bytes \ {"nul", "bad"}
  /\ <<>> \notin DOMAIN params

\* The cursor stays within the message, so that slicing from it (find) cannot
\* panic whatever the client sent.
CursorInBounds == pos <= Len(body.rest)

\* deserialize and check_client_encoding accept exactly the well-formed
\* messages, with the last value of every name; bytes behind the end of the
\* list and invalid strings behind it change nothing.
AcceptsExactly ==
  /\ spc = "auth" => params = Accepted(body) /\ params # NoParams
  /\ spc = "fail" => Accepted(body) = NoParams

\* What module Session takes for granted of do_postgres_main: an SSLRequest, or
\* a CancelRequest with the only key the server gives out (zero), is never
\* also a StartupMessage, not even where it is not expected.
SpecialIsNoStartup ==
  /\ spc \in {"auth", "encoding"} =>
       /\ ~IsSSLRequest(body)
       /\ ~(IsCancelRequest(body) /\ Range(body.rest) \subseteq {"nul"})
  /\ spc \in {"todo", "nossl"} => ~second

\* The loop has no bound of its own and ends for every message.
Decided == <>(spc \in Outcomes)
=============================================================================
