---------------------------- MODULE FrontEndProofs --------------------------
(***************************************************************************)
(* Proofs about MsgBuf, Startup and their composition with the serialisers *)
(* and the analysis.                                                       *)
(*                                                                         *)
(* MsgBuf: read_body's use of set_len is sound, what it hands over is the  *)
(* client's message, and its memory is bounded, for every width of usize,  *)
(* every set of length words and any number of messages.                   *)
(*                                                                         *)
(* Startup: for messages of any length, the cursor of read_cstr stays      *)
(* within the message, what it cuts out is what a Rust string may hold, a  *)
(* special request never passes for a startup message, and exactly the     *)
(* well-formed messages are accepted.                                      *)
(*                                                                         *)
(* FrontEnd: the types of all three hold in every behaviour of one of      *)
(* them, with the others at rest.                                          *)
(***************************************************************************)
EXTENDS FrontEnd, WireProofs, FiniteSetTheorems, WellFoundedInduction, TLAPS


-----------------------------------------------------------------------------
(* MsgBuf.                                                                 *)

\* The subtraction wraps at most once: what the two cases of the word give.
LEMMA WrappedLen ==
  ASSUME NEW n \in LenWords
  PROVE  /\ (n - SizeOfU32) % UsizeMod \in 0..(UsizeMod - 1)
         /\ n >= SizeOfU32 => (n - SizeOfU32) % UsizeMod = n - SizeOfU32
         /\ n < SizeOfU32 => (n - SizeOfU32) % UsizeMod = n - SizeOfU32 + UsizeMod
  BY UsizeAssumption, LenWordsAssumption DEF SizeOfU32

\* The largest allocation is less than what any wrapped length asks for.
LEMMA IsizeMaxBounds == IsizeMax \in Nat /\ 2 * IsizeMax <= UsizeMod - 2
  BY UsizeAssumption DEF IsizeMax

-----------------------------------------------------------------------------
(* The inductive invariant.                                                *)

\* What is known between the length word and the dispatch.  Once read_exact has
\* begun, the word was not below its own size: a wrapped length does not fit
\* any allocation.
Reading ==
  /\ pc = "reserve" => word \in LenWords /\ msglen = (word - SizeOfU32) % UsizeMod
  /\ pc \in {"read_exact", "dispatch"} =>
       /\ word >= SizeOfU32 /\ len = word - SizeOfU32
       /\ filled <= len /\ \A i \in 1..filled : mem[i] = nmsgs
  /\ pc = "dispatch" => filled = len

\* The length never exceeds the longest body: growth counts from it.
LenFollows == len <= longest

BufInv == TypeOK /\ LenInCapacity /\ Reading /\ LenFollows /\ MemoryBounded

\* The capacity reserve asks for is enough.
LEMMA GrownEnough ==
  ASSUME TypeOK
  PROVE  /\ Grown(msglen) \in Nat /\ Grown(msglen) >= MinCap
         /\ Grown(msglen) >= 2 * cap /\ Grown(msglen) >= len + msglen
         /\ Grown(msglen) \in {MinCap, 2 * cap, len + msglen}
  BY IsizeMaxBounds, MinCapAssumption, UsizeAssumption DEF TypeOK, Grown, Max2

\* Whatever length is declared, it was not wrapped.
LEMMA NotWrapped ==
  ASSUME TypeOK, Reading, pc = "reserve", msglen <= IsizeMax
  PROVE  word >= SizeOfU32 /\ msglen = word - SizeOfU32
<1>1. word \in LenWords /\ msglen = (word - SizeOfU32) % UsizeMod
  BY DEF Reading
<1>2. word \in Nat
  BY <1>1, LenWordsAssumption, UsizeAssumption
<1>3. CASE word < SizeOfU32
  <2>1. msglen = word - SizeOfU32 + UsizeMod
    BY <1>1, <1>3, WrappedLen
  <2> QED
    BY <1>2, <2>1, IsizeMaxBounds, UsizeAssumption DEF SizeOfU32
<1>4. CASE word >= SizeOfU32
  BY <1>1, <1>4, WrappedLen
<1> QED
  BY <1>2, <1>3, <1>4 DEF SizeOfU32

LEMMA InitBufInv == Init => BufInv
  BY MinCapAssumption, MaxMsgsAssumption, UsizeAssumption, IsizeMaxBounds
     DEF Init, BufInv, TypeOK, LenInCapacity, Reading, LenFollows, MemoryBounded, Max2

LEMMA ReadLenStep == BufInv /\ ReadLen => BufInv'
<1> SUFFICES ASSUME BufInv, ReadLen PROVE BufInv'
  OBVIOUS
<1> USE DEF BufInv
<1>1. PICK n \in LenWords :
        /\ word' = n
        /\ msglen' = (n - SizeOfU32) % UsizeMod
        /\ pc' = IF build = "debug" /\ n < SizeOfU32 THEN "panicked" ELSE "reserve"
  BY DEF ReadLen
<1>2. msglen' \in 0..(UsizeMod - 1)
  BY <1>1, WrappedLen
<1>3. nmsgs' \in 0..MaxMsgs /\ nmsgs' = nmsgs + 1
  BY MaxMsgsAssumption DEF ReadLen, TypeOK
<1>4. mem' \in [1..cap' -> 0..nmsgs']
  BY <1>3 DEF ReadLen, TypeOK
<1>5. TypeOK'
  BY <1>1, <1>2, <1>3, <1>4 DEF ReadLen, TypeOK
<1>6. Reading'
  BY <1>1 DEF Reading
<1>7. LenInCapacity' /\ LenFollows' /\ MemoryBounded'
  BY DEF ReadLen, LenInCapacity, LenFollows, MemoryBounded
<1> QED
  BY <1>5, <1>6, <1>7

LEMMA ReserveInPlaceStep == BufInv /\ ReserveInPlace => BufInv'
<1> SUFFICES ASSUME BufInv, ReserveInPlace PROVE BufInv'
  OBVIOUS
<1> USE DEF BufInv
<1>1. /\ pc = "reserve" /\ pc' = "read_exact" /\ len' = msglen /\ filled' = 0
      /\ longest' = Max2(longest, msglen)
      /\ UNCHANGED <<build, word, msglen, cap, mem, nmsgs>> /\ msglen <= cap - len
  BY DEF ReserveInPlace, SetLen, Fits
<1>2. msglen \in Nat /\ len \in Nat /\ cap \in Nat /\ cap <= IsizeMax /\ longest \in Nat
  BY UsizeAssumption, IsizeMaxBounds DEF TypeOK
<1>3. longest' \in Nat /\ longest' >= longest /\ longest' >= msglen
  BY <1>1, <1>2 DEF Max2
<1>4. word >= SizeOfU32 /\ msglen = word - SizeOfU32
  BY <1>1, <1>2, NotWrapped, IsizeMaxBounds
<1>5. TypeOK'
  BY <1>1, <1>2, <1>3 DEF TypeOK
<1>6. Reading'
  BY <1>1, <1>2, <1>4 DEF Reading
<1>7. LenInCapacity' /\ LenFollows'
  BY <1>1, <1>2, <1>3 DEF LenInCapacity, LenFollows
<1>8. MemoryBounded'
  BY <1>1, <1>2, <1>3, MinCapAssumption DEF MemoryBounded, Max2
<1> QED
  BY <1>5, <1>6, <1>7, <1>8

LEMMA ReserveGrowStep == BufInv /\ ReserveGrow => BufInv'
<1> SUFFICES ASSUME BufInv, ReserveGrow PROVE BufInv'
  OBVIOUS
<1> USE DEF BufInv
<1> DEFINE g == Grown(msglen)
<1>1. /\ pc = "reserve" /\ pc' = "read_exact" /\ len' = msglen /\ filled' = 0
      /\ longest' = Max2(longest, msglen) /\ cap' = g /\ mem' = Realloc(g) /\ g <= IsizeMax
      /\ UNCHANGED <<build, word, msglen, nmsgs>> /\ ~(msglen <= cap - len)
  BY DEF ReserveGrow, SetLen, Fits
<1>2. msglen \in Nat /\ len \in Nat /\ cap \in Nat /\ longest \in Nat /\ len <= longest
  BY UsizeAssumption, IsizeMaxBounds DEF TypeOK, LenFollows
<1>3. longest' \in Nat /\ longest' >= longest /\ longest' >= msglen
  BY <1>1, <1>2 DEF Max2
<1>4. g \in Nat /\ g >= len + msglen /\ g \in {MinCap, 2 * cap, len + msglen}
  BY GrownEnough
<1> HIDE DEF g
<1>5. word >= SizeOfU32 /\ msglen = word - SizeOfU32
  BY <1>1, <1>2, <1>4, NotWrapped, IsizeMaxBounds
<1>6. mem' \in [1..cap' -> 0..nmsgs']
  <2>1. \A i \in 1..g : i <= cap => mem[i] \in 0..nmsgs
    BY <1>2, <1>4 DEF TypeOK
  <2> QED
    BY <1>1, <2>1 DEF Realloc, Uninit, TypeOK
<1>7. TypeOK'
  BY <1>1, <1>2, <1>3, <1>4, <1>6, IsizeMaxBounds DEF TypeOK
<1>8. Reading'
  BY <1>1, <1>2, <1>5 DEF Reading
<1>9. LenInCapacity' /\ LenFollows'
  BY <1>1, <1>2, <1>3, <1>4 DEF LenInCapacity, LenFollows
<1>10. MemoryBounded'
  <2>1. g = MinCap \/ g <= 4 * longest'
    BY <1>1, <1>2, <1>3, <1>4, MinCapAssumption
  <2> QED
    BY <1>1, <1>3, <1>4, <2>1, MinCapAssumption DEF MemoryBounded, Max2
<1> QED
  BY <1>7, <1>8, <1>9, <1>10

LEMMA FillStep == BufInv /\ Fill => BufInv'
<1> SUFFICES ASSUME BufInv, Fill PROVE BufInv'
  OBVIOUS
<1> USE DEF BufInv
<1>1. PICK k \in 1..(len - filled) :
        /\ filled' = filled + k
        /\ mem' = [i \in 1..cap |-> IF i \in (filled + 1)..(filled + k) THEN nmsgs ELSE mem[i]]
  BY DEF Fill
<1>2. pc = "read_exact" /\ UNCHANGED <<build, pc, word, msglen, len, cap, nmsgs, longest>>
  BY DEF Fill
<1>3. len \in Nat /\ cap \in Nat /\ filled \in Nat /\ nmsgs \in Nat /\ len <= cap /\ nmsgs \in 0..nmsgs
  BY IsizeMaxBounds, MaxMsgsAssumption DEF TypeOK, LenInCapacity
<1>4. filled' \in Nat /\ filled' <= len
  BY <1>1, <1>3
<1>5. mem' \in [1..cap -> 0..nmsgs]
  BY <1>1, <1>3 DEF TypeOK
<1>6. \A i \in 1..filled' : mem'[i] = nmsgs
  <2> SUFFICES ASSUME NEW i \in 1..filled' PROVE mem'[i] = nmsgs
    OBVIOUS
  <2>1. i \in 1..cap /\ (i \in 1..filled \/ i \in (filled + 1)..(filled + k))
    BY <1>1, <1>3, <1>4
  <2>2. i \in 1..filled => mem[i] = nmsgs
    BY <1>2 DEF Reading
  <2> QED
    BY <1>1, <2>1, <2>2
<1>7. TypeOK'
  BY <1>2, <1>4, <1>5 DEF TypeOK
<1>8. Reading'
  BY <1>2, <1>4, <1>6 DEF Reading
<1>9. LenInCapacity' /\ LenFollows' /\ MemoryBounded'
  BY <1>2 DEF LenInCapacity, LenFollows, MemoryBounded
<1> QED
  BY <1>7, <1>8, <1>9

\* The steps that change nothing but pc.
LEMMA ControlStep ==
  ASSUME BufInv,
         ReserveNoMemory \/ ReserveOverflow \/ ReadDone \/ ReadFail \/ NextMessage
  PROVE  BufInv'
<1>1. /\ UNCHANGED <<build, word, msglen, len, cap, mem, filled, nmsgs, longest>>
      /\ \/ pc' \in {"aborted", "panicked", "failed", "read_len"}
         \/ pc = "read_exact" /\ filled = len /\ pc' = "dispatch"
  BY DEF ReserveNoMemory, ReserveOverflow, ReadDone, ReadFail, NextMessage
<1>2. TypeOK'
  BY <1>1 DEF BufInv, TypeOK
<1>3. Reading'
  BY <1>1 DEF BufInv, Reading
<1> QED
  BY <1>1, <1>2, <1>3 DEF BufInv, LenInCapacity, LenFollows, MemoryBounded

LEMMA Stutter == BufInv /\ UNCHANGED vars => BufInv'
  BY DEF BufInv, vars, TypeOK, LenInCapacity, Reading, LenFollows, MemoryBounded

LEMMA NextBufInv == BufInv /\ [Next]_vars => BufInv'
  BY ReadLenStep, ReserveInPlaceStep, ReserveGrowStep, FillStep, ControlStep, Stutter
     DEF Next, Ended

LEMMA BufInvariance == Spec => []BufInv
  BY InitBufInv, NextBufInv, PTL DEF Spec

-----------------------------------------------------------------------------
(* Theorems.                                                               *)

\* Every variable of read_body's buffer keeps its type; the allocation never
\* exceeds the largest a Vec may have.
THEOREM BufTypeCorrect == Spec => []TypeOK
  BY BufInvariance, PTL DEF BufInv

\* read_body's unsafe set_len never declares more than the allocation holds,
\* whatever length words the client sends.
THEOREM LenInCapacityAlways == Spec => []LenInCapacity
  BY BufInvariance, PTL DEF BufInv

\* The bytes read_body hands over are those of the announced message.
THEOREM WholeBodyOnlyAlways == Spec => []WholeBodyOnly
<1>1. BufInv => WholeBodyOnly
  BY DEF BufInv, Reading, WholeBodyOnly
<1> QED
  BY <1>1, BufInvariance, PTL

\* The buffer that read_body never shrinks stays within four times the longest
\* message of the session.
THEOREM MemoryBoundedAlways == Spec => []MemoryBounded
  BY BufInvariance, PTL DEF BufInv

-----------------------------------------------------------------------------
(* Startup.                                                                *)

-----------------------------------------------------------------------------
(* find and read_cstr.                                                     *)

\* A set of naturals that is not empty has its minimum.
LEMMA MinOfNats ==
  ASSUME NEW T, T \subseteq Nat, T # {}
  PROVE  Min(T) \in T /\ \A y \in T : Min(T) <= y
<1>1. PICK x \in T : \A y \in T : ~(<<y, x>> \in OpToRel(<, Nat))
  BY NatLessThanWellFounded, WFMin
<1>2. \A y \in T : x <= y
  <2> TAKE y \in T
  <2>1. x \in Nat /\ y \in Nat
    OBVIOUS
  <2>2. ~(y < x)
    BY <1>1, <2>1 DEF OpToRel
  <2> QED
    BY <2>1, <2>2
<1> QED
  BY <1>2 DEF Min

\* find: the first zero at or behind the cursor, or -1.
LEMMA FindFacts ==
  ASSUME NEW d \in Seq(Bytes), NEW start \in Nat, NEW val,
         find(d, start, val) >= 0
  PROVE  /\ find(d, start, val) \in start..(Len(d) - 1)
         /\ d[find(d, start, val) + 1] = val
         /\ \A i \in start..(find(d, start, val) - 1) : d[i + 1] # val
<1> DEFINE at == {i \in start..(Len(d) - 1) : d[i + 1] = val}
<1>1. Len(d) \in Nat /\ at \subseteq Nat
  OBVIOUS
<1>2. at # {} /\ find(d, start, val) = Min(at)
  <2>1. find(d, start, val) = IF at = {} THEN -1 ELSE Min(at)
    BY Zenon DEF find
  <2> HIDE DEF at
  <2>2. CASE at = {}
    <3>1. find(d, start, val) = -1
      BY <2>1, <2>2
    <3> QED
      BY <3>1
  <2>3. CASE at # {}
    BY <2>1, <2>3
  <2> QED
    BY <2>2, <2>3
<1>3. Min(at) \in at /\ \A y \in at : Min(at) <= y
  BY <1>1, <1>2, MinOfNats
<1> DEFINE f == Min(at)
<1>4. f \in start..(Len(d) - 1) /\ d[f + 1] = val
  BY <1>3
<1>5. ASSUME NEW i \in start..(f - 1)
      PROVE  d[i + 1] # val
  <2>1. i \in start..(Len(d) - 1) /\ ~(f <= i)
    BY <1>1, <1>4, SMT
  <2> QED
    BY <1>3, <2>1
<1> HIDE DEF f
<1>6. find(d, start, val) = f
  BY <1>2 DEF f
<1> QED
  BY <1>4, <1>5, <1>6

\* read_cstr: the string it cuts out has neither a zero nor a byte that is not
\* UTF-8, its bytes are bytes of the message, and the cursor behind the zero is
\* still within the message.
LEMMA CstrFacts ==
  ASSUME body.rest \in Seq(Bytes), pos \in Nat, Cstr.ok
  PROVE  /\ Cstr.next \in 1..Len(body.rest)
         /\ Range(Cstr.str) \subseteq Bytes \ {"nul", "bad"}
         /\ Range(Cstr.str) \subseteq Range(body.rest)
         /\ Cstr.str = <<>> \/ Range(Cstr.str) # {}
<1> DEFINE d == body.rest
           idx == find(d, pos, "nul")
           str == SubSeq(d, pos + 1, idx)
<1>1. Cstr = IF idx < 0 \/ ~from_utf8(str) THEN [ok |-> FALSE]
             ELSE [ok |-> TRUE, str |-> str, next |-> idx + 1]
  BY Zenon DEF Cstr
<1>2. idx \in Int
  <2>1. CASE {i \in pos..(Len(d) - 1) : d[i + 1] = "nul"} = {}
    BY <2>1 DEF find
  <2>2. CASE {i \in pos..(Len(d) - 1) : d[i + 1] = "nul"} # {}
    <3> DEFINE at == {i \in pos..(Len(d) - 1) : d[i + 1] = "nul"}
    <3>1. at \subseteq Nat /\ at # {}
      BY <2>2
    <3>2. Min(at) \in Nat
      BY <3>1, MinOfNats
    <3> QED
      BY <2>2, <3>2 DEF find
  <2> QED
    BY <2>1, <2>2
<1> HIDE DEF idx, str
<1>3. ~(idx < 0) /\ from_utf8(str)
  BY <1>1
<1>4. Cstr.str = str /\ Cstr.next = idx + 1
  BY <1>1, <1>3
<1>5. /\ idx \in pos..(Len(d) - 1) /\ \A i \in pos..(idx - 1) : d[i + 1] # "nul"
  <2>1. find(d, pos, "nul") >= 0
    BY <1>2, <1>3 DEF idx
  <2>2. d \in Seq(Bytes)
    OBVIOUS
  <2> HIDE DEF d
  <2>3. find(d, pos, "nul") \in pos..(Len(d) - 1)
    BY <2>1, <2>2, FindFacts, Zenon
  <2>4. \A i \in pos..(find(d, pos, "nul") - 1) : d[i + 1] # "nul"
    BY <2>1, <2>2, FindFacts, Zenon
  <2> QED
    BY <2>3, <2>4, Zenon DEF idx
<1>6. str \in Seq(Bytes) /\ Len(str) = idx - pos /\ \A j \in 1..(idx - pos) : str[j] = d[pos + j]
  BY <1>5 DEF str
<1>7. DOMAIN str = 1..(idx - pos)
  BY <1>6
<1>8. \A j \in 1..(idx - pos) : str[j] # "nul" /\ str[j] \in Bytes /\ str[j] \in Range(d)
  <2> TAKE j \in 1..(idx - pos)
  <2>1. pos + j - 1 \in pos..(idx - 1) /\ (pos + j - 1) + 1 = pos + j /\ pos + j \in 1..Len(d)
    BY <1>5
  <2>2. d[pos + j] # "nul"
    BY <1>5, <2>1
  <2>3. d[pos + j] \in Bytes /\ d[pos + j] \in Range(d)
    BY <2>1 DEF Range
  <2> QED
    BY <1>6, <2>2, <2>3
<1>9. \A x \in Range(str) : x \in Bytes /\ x # "nul" /\ x # "bad" /\ x \in Range(d)
  BY <1>3, <1>7, <1>8 DEF Range, from_utf8
<1>10. str = <<>> \/ Range(str) # {}
  BY <1>6, <1>7 DEF Range
<1>11. idx + 1 \in 1..Len(d)
  BY <1>5
<1> QED
  BY <1>4, <1>9, <1>10, <1>11

-----------------------------------------------------------------------------
(* The inductive invariant.                                                *)

\* A name that waits for its value is not the empty one that ends the list.
NameNotEmpty == spc = "value" => name # <<>>

\* A message of zeros, or of nothing, gives no parameter: its first name is
\* empty.  So it never gets to the check of the encoding, nor through it.
ZerosGiveNothing ==
  Range(body.rest) \subseteq {"nul"} =>
    spc \notin {"value", "encoding", "auth"} /\ DOMAIN params = {}

\* The special requests are told apart in the first message only.
SpecialIsFirst == spc \in {"todo", "nossl"} => ~second

SInv == STypeOK /\ CursorInBounds /\ NameNotEmpty /\ ZerosGiveNothing /\ SpecialIsFirst

LEMMA InitSInv ==
  ASSUME Rests \subseteq Seq(Bytes), SInit
  PROVE  SInv
<1>1. body.rest \in Seq(Bytes)
  <2>1. CASE body \in [ver : {"short"}, rest : {<<>>}]
    <3>1. body.rest = <<>>
      BY <2>1
    <3> QED
      BY <3>1
  <2>2. CASE body \in [ver : {"1234.5678", "1234.5679", "other"}, rest : Rests]
    BY <2>2
  <2> QED
    BY <2>1, <2>2 DEF SInit, Bodies
<1>2. DOMAIN params = {} /\ Range(params) = {} /\ Range(name) = {}
  BY DEF SInit, NoParams, Range
<1>3. STypeOK
  BY <1>1, <1>2 DEF SInit, STypeOK
<1>4. CursorInBounds
  BY <1>1 DEF SInit, CursorInBounds
<1>5. NameNotEmpty /\ ZerosGiveNothing /\ SpecialIsFirst
  BY <1>2 DEF SInit, NameNotEmpty, ZerosGiveNothing, SpecialIsFirst
<1> QED
  BY <1>3, <1>4, <1>5 DEF SInv

\* A step that only moves spc, to an answer or to the next check.
LEMMA OnlyPc ==
  ASSUME SInv, UNCHANGED <<body, second, pos, name, params>>,
         spc' \in {"deserialize", "name", "encoding"} \cup Outcomes,
         spc' \in {"encoding", "auth"} => DOMAIN params # {} \/ spc = "encoding",
         spc' \in {"todo", "nossl"} => ~second
  PROVE  SInv'
<1>1. STypeOK'
  BY DEF SInv, STypeOK, Outcomes
<1>2. CursorInBounds'
  BY DEF SInv, CursorInBounds
<1>3. NameNotEmpty'
  BY DEF NameNotEmpty, Outcomes
<1>4. ZerosGiveNothing'
  BY DEF SInv, ZerosGiveNothing, Outcomes
<1>5. SpecialIsFirst'
  BY DEF SpecialIsFirst
<1> QED
  BY <1>1, <1>2, <1>3, <1>4, <1>5 DEF SInv

LEMMA ReadNameStep ==
  ASSUME SInv, ReadName
  PROVE  SInv'
<1> DEFINE r == Cstr
<1>1. /\ r.next \in 1..Len(body.rest)
      /\ Range(r.str) \subseteq Bytes \ {"nul", "bad"}
      /\ Range(r.str) \subseteq Range(body.rest)
      /\ r.str = <<>> \/ Range(r.str) # {}
  BY CstrFacts DEF SInv, STypeOK, ReadName
<1>2. /\ name' = r.str /\ pos' = r.next /\ UNCHANGED <<body, second, params>>
      /\ spc' = IF name' = <<>> THEN "user" ELSE "value"
  BY DEF ReadName
<1> HIDE DEF r
<1>3. STypeOK'
  <2>1. pos' \in Nat
    BY <1>1, <1>2 DEF SInv, STypeOK
  <2>2. \A s \in DOMAIN params \cup Range(params) : Range(s) \subseteq Bytes \ {"nul", "bad"}
    BY DEF SInv, STypeOK
  <2>3. Range(name') \subseteq Bytes \ {"nul", "bad"}
    BY <1>1, <1>2
  <2> QED
    BY <1>2, <2>1, <2>2, <2>3 DEF SInv, STypeOK
<1>4. CursorInBounds'
  BY <1>1, <1>2 DEF SInv, STypeOK, CursorInBounds
<1>5. NameNotEmpty'
  BY <1>2 DEF NameNotEmpty
<1>6. ZerosGiveNothing'
  <2>1. ASSUME Range(body.rest) \subseteq {"nul"}
        PROVE  name' = <<>> /\ DOMAIN params = {}
    <3>1. Range(r.str) = {}
      BY <1>1, <2>1
    <3> QED
      BY <1>1, <1>2, <2>1, <3>1 DEF SInv, ZerosGiveNothing
  <2> QED
    BY <1>2, <2>1 DEF ZerosGiveNothing
<1>7. SpecialIsFirst'
  BY <1>2 DEF SpecialIsFirst
<1> QED
  BY <1>3, <1>4, <1>5, <1>6, <1>7 DEF SInv

LEMMA ReadValueStep ==
  ASSUME SInv, ReadValue
  PROVE  SInv'
<1> DEFINE r == Cstr
<1>1. /\ r.next \in 1..Len(body.rest)
      /\ Range(r.str) \subseteq Bytes \ {"nul", "bad"}
  BY CstrFacts DEF SInv, STypeOK, ReadValue
<1>2. /\ params' = [n \in DOMAIN params \cup {name} |-> IF n = name THEN r.str ELSE params[n]]
      /\ pos' = r.next /\ spc = "value" /\ spc' = "name" /\ UNCHANGED <<body, second, name>>
  BY DEF ReadValue
<1> HIDE DEF r
<1>3. STypeOK'
  <2>1. pos' \in Nat
    BY <1>1, <1>2 DEF SInv, STypeOK
  <2>2. DOMAIN params' = DOMAIN params \cup {name}
    BY <1>2
  <2>3. \A s \in DOMAIN params \cup Range(params) \cup {name} : Range(s) \subseteq Bytes \ {"nul", "bad"}
    BY DEF SInv, STypeOK
  <2>4. ASSUME NEW v \in Range(params')
        PROVE  v = r.str \/ v \in Range(params)
    BY <1>2, <2>2 DEF Range
  <2>5. \A s \in DOMAIN params' \cup Range(params') \cup {name'} : Range(s) \subseteq Bytes \ {"nul", "bad"}
    BY <1>1, <1>2, <2>2, <2>3, <2>4
  <2>6. <<>> \notin DOMAIN params'
    BY <1>2, <2>2 DEF SInv, STypeOK, NameNotEmpty
  <2> QED
    BY <1>2, <2>1, <2>5, <2>6 DEF SInv, STypeOK
<1>4. CursorInBounds'
  BY <1>1, <1>2 DEF SInv, STypeOK, CursorInBounds
<1>5. NameNotEmpty' /\ SpecialIsFirst'
  BY <1>2 DEF NameNotEmpty, SpecialIsFirst
<1>6. ZerosGiveNothing'
  BY <1>2 DEF SInv, ZerosGiveNothing
<1> QED
  BY <1>3, <1>4, <1>5, <1>6 DEF SInv

LEMMA NextSInv ==
  ASSUME SInv, [SNext]_svars
  PROVE  SInv'
<1>1. CASE Classify
  <2>1. \/ spc' \in {"todo", "nossl"} /\ ~second
        \/ spc' = "deserialize"
    BY <1>1, Zenon DEF Classify
  <2>2. UNCHANGED <<body, second, pos, name, params>>
    BY <1>1 DEF Classify
  <2> QED
    BY <2>1, <2>2, OnlyPc DEF Outcomes
<1>2. CASE Deserialize
  BY <1>2, OnlyPc DEF Deserialize, Outcomes
<1>3. CASE ReadCstrFail
  BY <1>3, OnlyPc DEF ReadCstrFail, Outcomes
<1>4. CASE ReadName
  BY <1>4, ReadNameStep
<1>5. CASE ReadValue
  BY <1>5, ReadValueStep
<1>6. CASE CheckUser
  BY <1>6, OnlyPc DEF CheckUser, Outcomes
<1>7. CASE CheckEncoding
  BY <1>7, OnlyPc DEF CheckEncoding, Outcomes
<1>8. CASE UNCHANGED svars
  BY <1>8 DEF svars, SInv, STypeOK, CursorInBounds, NameNotEmpty, ZerosGiveNothing, SpecialIsFirst
<1> QED
  BY <1>1, <1>2, <1>3, <1>4, <1>5, <1>6, <1>7, <1>8 DEF SNext, Step, Finished

-----------------------------------------------------------------------------
(* The parser and the reference.                                           *)

LEMMA ZerosFinite ==
  ASSUME NEW r, NEW i \in Nat
  PROVE  IsFiniteSet(Zeros(r, i)) /\ Cardinality(Zeros(r, i)) \in Nat
<1>1. IsFiniteSet(1..i) /\ Zeros(r, i) \in SUBSET (1..i)
  BY FS_Interval DEF Zeros
<1> QED
  BY <1>1, FS_Subset, FS_CardinalityType

\* Zeros are counted in order: the last of j zeros is the end of string j.
LEMMA EndOfZeros ==
  ASSUME NEW r \in Seq(Bytes), NEW i \in 0..Len(r), i = 0 \/ r[i] = "nul"
  PROVE  End(r, Cardinality(Zeros(r, i))) = i
<1>1. Len(r) \in Nat /\ i \in Nat
  OBVIOUS
<1>2. CASE i = 0
  <2>1. Zeros(r, i) = {}
    BY <1>2 DEF Zeros
  <2> QED
    BY <1>2, <2>1, FS_EmptySet DEF End
<1>3. CASE i # 0
  <2> DEFINE n == Cardinality(Zeros(r, i))
  <2>1. i \in Zeros(r, Len(r)) /\ i \in Zeros(r, i)
    BY <1>1, <1>3 DEF Zeros
  <2>2. n # 0
    BY <1>1, <2>1, ZerosFinite, FS_EmptySet
  <2>3. ASSUME NEW m \in Zeros(r, Len(r)), Cardinality(Zeros(r, m)) = n
        PROVE  m = i
    <3>1. m \in 1..Len(r) /\ r[m] = "nul" /\ m \in Nat
      BY <1>1 DEF Zeros
    <3>2. CASE m < i
      <4>1. Zeros(r, m) \in SUBSET Zeros(r, i) /\ i \notin Zeros(r, m)
        BY <1>1, <3>1, <3>2 DEF Zeros
      <4>2. Zeros(r, i) = Zeros(r, m)
        BY <1>1, <2>3, <4>1, ZerosFinite, FS_Subset
      <4> QED
        BY <2>1, <4>1, <4>2
    <3>3. CASE i < m
      <4>1. Zeros(r, i) \in SUBSET Zeros(r, m) /\ m \notin Zeros(r, i) /\ m \in Zeros(r, m)
        BY <1>1, <3>1, <3>3 DEF Zeros
      <4>2. Zeros(r, m) = Zeros(r, i)
        BY <3>1, <2>3, <4>1, ZerosFinite, FS_Subset
      <4> QED
        BY <4>1, <4>2
    <3> QED
      BY <1>1, <3>1, <3>2, <3>3
  <2> HIDE DEF n
  <2>4. End(r, n) = CHOOSE m \in Zeros(r, Len(r)) : Cardinality(Zeros(r, m)) = n
    BY <2>2 DEF End
  <2>5. Cardinality(Zeros(r, i)) = n
    BY DEF n
  <2>6. End(r, n) = i
    BY <2>1, <2>3, <2>4, <2>5
  <2> QED
    BY <2>5, <2>6
<1> QED
  BY <1>2, <1>3

LEMMA StringsLen ==
  ASSUME NEW r \in Seq(Bytes)
  PROVE  /\ Len(Strings(r)) = Cardinality(Zeros(r, Len(r)))
         /\ Len(Strings(r)) \in Nat
<1> DEFINE n == Cardinality(Zeros(r, Len(r)))
<1>1. n \in Nat
  BY ZerosFinite
<1> HIDE DEF n
<1>2. Strings(r) = [j \in 1..n |-> SubSeq(r, End(r, j - 1) + 1, End(r, j) - 1)]
  BY DEF Strings, n
<1>3. Len(Strings(r)) = n
  BY <1>1, <1>2
<1> QED
  BY <1>1, <1>3 DEF n

\* What lies between the cursor and the next zero is the next string.
LEMMA NextString ==
  ASSUME NEW r \in Seq(Bytes), NEW p \in 0..Len(r), p = 0 \/ r[p] = "nul",
         NEW e \in (p + 1)..Len(r), r[e] = "nul",
         \A i \in (p + 1)..(e - 1) : r[i] # "nul"
  PROVE  LET n == Cardinality(Zeros(r, p))
         IN  /\ Cardinality(Zeros(r, e)) = n + 1
             /\ n + 1 <= Len(Strings(r))
             /\ Strings(r)[n + 1] = SubSeq(r, p + 1, e - 1)
<1> DEFINE n == Cardinality(Zeros(r, p))
<1>1. Len(r) \in Nat /\ p \in Nat /\ e \in Nat
  OBVIOUS
<1>2. n \in Nat /\ IsFiniteSet(Zeros(r, p)) /\ IsFiniteSet(Zeros(r, Len(r)))
  BY <1>1, ZerosFinite
<1>3. Zeros(r, e) = Zeros(r, p) \cup {e} /\ e \notin Zeros(r, p)
  <2>1. ASSUME NEW i \in Zeros(r, e)
        PROVE  i \in Zeros(r, p) \cup {e}
    <3>1. i \in 1..e /\ r[i] = "nul"
      BY DEF Zeros
    <3>2. i \notin (p + 1)..(e - 1)
      BY <3>1
    <3>3. i \in 1..p \/ i = e
      BY <1>1, <3>1, <3>2
    <3> QED
      BY <3>1, <3>3 DEF Zeros
  <2>2. Zeros(r, p) \cup {e} \subseteq Zeros(r, e) /\ e \notin Zeros(r, p)
    BY <1>1 DEF Zeros
  <2> QED
    BY <2>1, <2>2
<1>4. Cardinality(Zeros(r, e)) = n + 1
  BY <1>2, <1>3, FS_AddElement
<1>5. Zeros(r, e) \in SUBSET Zeros(r, Len(r))
  BY <1>1 DEF Zeros
<1>6. n + 1 <= Cardinality(Zeros(r, Len(r)))
  BY <1>2, <1>4, <1>5, FS_Subset
<1>7. n + 1 <= Len(Strings(r))
  BY <1>6, StringsLen
<1>8. End(r, n) = p /\ End(r, n + 1) = e
  <2>1. e \in 0..Len(r)
    BY <1>1
  <2> QED
    BY <1>4, <2>1, EndOfZeros
<1> HIDE DEF n
<1>9. Strings(r)[n + 1] = SubSeq(r, p + 1, e - 1)
  <2>1. n + 1 \in 1..Cardinality(Zeros(r, Len(r))) /\ (n + 1) - 1 = n
    BY <1>1, <1>2, <1>6, ZerosFinite
  <2>2. Strings(r)[n + 1] = SubSeq(r, End(r, (n + 1) - 1) + 1, End(r, n + 1) - 1)
    BY <2>1 DEF Strings
  <2> QED
    BY <1>8, <2>1, <2>2
<1> QED
  BY <1>4, <1>7, <1>9 DEF n

\* Without a zero behind the cursor there is no further string.
LEMMA NoMoreStrings ==
  ASSUME NEW r \in Seq(Bytes), NEW p \in 0..Len(r), \A i \in (p + 1)..Len(r) : r[i] # "nul"
  PROVE  Len(Strings(r)) = Cardinality(Zeros(r, p))
<1>1. Zeros(r, Len(r)) = Zeros(r, p)
  BY DEF Zeros
<1> QED
  BY <1>1, StringsLen

\* One pair more: the HashMap's insert.
LEMMA LastValuesNext ==
  ASSUME NEW ss, NEW k \in Nat
  PROVE  LET old == LastValues(ss, k)
             nm  == ss[2 * k + 1]
         IN  LastValues(ss, k + 1) =
               [n \in DOMAIN old \cup {nm} |-> IF n = nm THEN ss[2 * k + 2] ELSE old[n]]
<1> DEFINE old == LastValues(ss, k)
           nm  == ss[2 * k + 1]
           Naming(n, m) == {i \in 1..m : ss[2 * i - 1] = n}
<1>1. 2 * (k + 1) - 1 = 2 * k + 1 /\ 2 * (k + 1) = 2 * k + 2
  OBVIOUS
<1>2. \A i \in 1..(k + 1) : i \in 1..k \/ i = k + 1
  OBVIOUS
<1>3. {ss[2 * i - 1] : i \in 1..(k + 1)} = {ss[2 * i - 1] : i \in 1..k} \cup {nm}
  BY <1>1, <1>2
<1>4. DOMAIN old = {ss[2 * i - 1] : i \in 1..k}
  BY DEF LastValues
<1>5. Max(Naming(nm, k + 1)) = k + 1
  <2>1. k + 1 \in Naming(nm, k + 1) /\ \A y \in Naming(nm, k + 1) : y \in Nat /\ k + 1 >= y
    BY <1>1
  <2> QED
    BY <2>1 DEF Max
<1>6. ASSUME NEW n, n # nm
      PROVE  Naming(n, k + 1) = Naming(n, k)
  BY <1>1, <1>2, <1>6
<1>7. LastValues(ss, k + 1) =
        [n \in {ss[2 * i - 1] : i \in 1..(k + 1)} |-> ss[2 * Max(Naming(n, k + 1))]]
  BY Zenon DEF LastValues
<1>8. old = [n \in {ss[2 * i - 1] : i \in 1..k} |-> ss[2 * Max(Naming(n, k))]]
  BY Zenon DEF LastValues
<1> HIDE DEF Naming, old, nm
<1>9. ASSUME NEW n \in DOMAIN old \cup {nm}
      PROVE  ss[2 * Max(Naming(n, k + 1))] = IF n = nm THEN ss[2 * k + 2] ELSE old[n]
  <2>1. CASE n = nm
    BY <1>1, <1>5, <2>1
  <2>2. CASE n # nm
    BY <1>4, <1>6, <1>8, <2>2
  <2> QED
    BY <2>1, <2>2
<1>10. LastValues(ss, k + 1) = [n \in DOMAIN old \cup {nm} |-> ss[2 * Max(Naming(n, k + 1))]]
  BY <1>3, <1>4, <1>7
<1>11. LastValues(ss, k + 1) = [n \in DOMAIN old \cup {nm} |-> IF n = nm THEN ss[2 * k + 2] ELSE old[n]]
  BY <1>9, <1>10
<1> QED
  BY <1>11 DEF old, nm

\* Before the loop nothing has been read.
Untouched == spc \in {"classify", "deserialize"} => pos = 0 /\ params = NoParams

\* k pairs have been read, and past the empty name or before the value one
\* string more.
PairsRead(k) ==
  LET ss == Strings(body.rest)
  IN  /\ Cardinality(Zeros(body.rest, pos)) = IF spc = "name" THEN 2 * k ELSE 2 * k + 1
      /\ \A i \in 1..k : ss[2 * i - 1] # <<>>
      /\ \A i \in 1..(2 * k) : "bad" \notin Range(ss[i])
      /\ params = LastValues(ss, k)
      /\ spc = "value" => name = ss[2 * k + 1] /\ "bad" \notin Range(name)
      /\ spc \in {"user", "encoding", "auth"} => ss[2 * k + 1] = <<>>

\* The cursor is behind a terminator, and the strings before it are in params.
ReadSoFar ==
  spc \in {"name", "value", "user", "encoding", "auth"} =>
    /\ body.ver # "short"
    /\ pos = 0 \/ body.rest[pos] = "nul"
    /\ \E k \in Nat : PairsRead(k)
    /\ \A n \in DOMAIN params : params[n] \in Seq(Bytes)
    /\ spc \in {"encoding", "auth"} => User \in DOMAIN params
    /\ spc = "auth" => check_client_encoding(params)

\* What has failed is what the reference refuses.
Refused == spc = "fail" => Accepted(body) = NoParams

\* The inductive invariant of AcceptsExactly.
ReadInv == SInv /\ Untouched /\ ReadSoFar /\ Refused

\* read_cstr gives the next of the strings, or fails for want of one or for its
\* bytes.
LEMMA CstrIsNext ==
  ASSUME body.rest \in Seq(Bytes), pos \in 0..Len(body.rest), pos = 0 \/ body.rest[pos] = "nul"
  PROVE  LET r  == body.rest
             n  == Cardinality(Zeros(r, pos))
             ss == Strings(r)
         IN  \/ ~Cstr.ok /\ Len(ss) = n
             \/ ~Cstr.ok /\ n + 1 <= Len(ss) /\ "bad" \in Range(ss[n + 1])
             \/ /\ Cstr.ok /\ n + 1 <= Len(ss) /\ "bad" \notin Range(ss[n + 1])
                /\ Cstr.str = ss[n + 1] /\ Cstr.str \in Seq(Bytes)
                /\ Cstr.next \in 1..Len(r) /\ r[Cstr.next] = "nul"
                /\ Cardinality(Zeros(r, Cstr.next)) = n + 1
<1> DEFINE r   == body.rest
           n   == Cardinality(Zeros(r, pos))
           ss  == Strings(r)
           idx == find(r, pos, "nul")
           str == SubSeq(r, pos + 1, idx)
           at  == {i \in pos..(Len(r) - 1) : r[i + 1] = "nul"}
<1>1. Cstr = IF idx < 0 \/ ~from_utf8(str) THEN [ok |-> FALSE]
             ELSE [ok |-> TRUE, str |-> str, next |-> idx + 1]
  BY Zenon DEF Cstr
<1>2. idx = IF at = {} THEN -1 ELSE Min(at)
  BY Zenon DEF find
<1>3. Len(r) \in Nat /\ pos \in Nat
  OBVIOUS
<1>4. CASE at = {}
  <2>1. idx = -1
    BY <1>2, <1>4
  <2> HIDE DEF idx, str
  <2>2. Cstr = [ok |-> FALSE]
    BY <1>1, <2>1
  <2>3. ASSUME NEW i \in (pos + 1)..Len(r)
        PROVE  r[i] # "nul"
    <3>1. i - 1 \in pos..(Len(r) - 1) /\ (i - 1) + 1 = i
      BY <1>3
    <3> QED
      BY <1>4, <3>1
  <2>4. Len(ss) = n
    BY <2>3, NoMoreStrings
  <2> QED
    BY <2>2, <2>4
<1>5. CASE at # {}
  <2>1. at \subseteq Nat
    BY <1>3
  <2>2. idx \in Nat
    <3> HIDE DEF at
    <3>1. Min(at) \in at
      BY <1>5, <2>1, MinOfNats
    <3> QED
      BY <1>2, <1>5, <2>1, <3>1
  <2>3. /\ idx \in pos..(Len(r) - 1) /\ r[idx + 1] = "nul"
        /\ \A i \in pos..(idx - 1) : r[i + 1] # "nul"
    BY <1>3, <2>2, FindFacts
  <2> DEFINE e == idx + 1
  <2> HIDE DEF idx, at
  <2>4. e \in (pos + 1)..Len(r) /\ e - 1 = idx
    BY <1>3, <2>3
  <2>5. ASSUME NEW i \in (pos + 1)..(e - 1)
        PROVE  r[i] # "nul"
    <3>1. i - 1 \in pos..(idx - 1) /\ (i - 1) + 1 = i
      BY <1>3, <2>2
    <3> QED
      BY <2>3, <3>1
  <2>6. r[e] = "nul"
    BY <2>3
  <2> HIDE DEF e
  <2>7. /\ Cardinality(Zeros(r, e)) = n + 1 /\ n + 1 <= Len(ss)
        /\ ss[n + 1] = SubSeq(r, pos + 1, e - 1)
    BY <2>4, <2>5, <2>6, NextString
  <2>8. ss[n + 1] = str
    BY <2>4, <2>7
  <2>9. str \in Seq(Bytes)
    BY <1>3, <2>2, <2>3 DEF str
  <2> HIDE DEF str
  <2>10. ~(idx < 0) /\ e \in 1..Len(r)
    BY <1>3, <2>2, <2>4
  <2>11. CASE from_utf8(str)
    <3>1. Cstr = [ok |-> TRUE, str |-> str, next |-> e]
      BY <1>1, <2>10, <2>11 DEF e
    <3> QED
      BY <2>6, <2>7, <2>8, <2>9, <2>10, <2>11, <3>1 DEF from_utf8
  <2>12. CASE ~from_utf8(str)
    <3>1. Cstr = [ok |-> FALSE]
      BY <1>1, <2>12
    <3> QED
      BY <2>7, <2>8, <2>12, <3>1 DEF from_utf8
  <2> QED
    BY <2>11, <2>12
<1> QED
  BY <1>4, <1>5

\* A list that does not end, or has invalid bytes before its end, is refused.
LEMMA RefusedBy ==
  ASSUME NEW b, b.rest \in Seq(Bytes), NEW k \in Nat,
         \A i \in 1..k : Strings(b.rest)[2 * i - 1] # <<>>,
         \/ Len(Strings(b.rest)) <= 2 * k
         \/ \E j \in 1..(2 * k) : "bad" \in Range(Strings(b.rest)[j])
  PROVE  Accepted(b) = NoParams
<1> DEFINE ss == Strings(b.rest)
           P  == PairsBeforeEmpty(ss)
           n  == Min(P)
<1>1. Len(ss) \in Nat
  BY StringsLen
<1>2. ASSUME NEW m \in P
      PROVE  m \in Nat /\ m >= k /\ 2 * m + 1 <= Len(ss)
  <2>1. m \in Nat /\ 2 * m + 1 <= Len(ss) /\ ss[2 * m + 1] = <<>>
    BY <1>1 DEF PairsBeforeEmpty
  <2>2. CASE m < k
    <3>1. m + 1 \in 1..k /\ 2 * (m + 1) - 1 = 2 * m + 1
      BY <2>1, <2>2
    <3> QED
      BY <2>1, <3>1
  <2> QED
    BY <2>1, <2>2
<1>3. CASE P = {}
  BY <1>3 DEF Accepted
<1>4. CASE P # {}
  <2>1. n \in P
    <3> HIDE DEF P
    <3>1. P \subseteq Nat
      BY <1>2
    <3> QED
      BY <1>4, <3>1, MinOfNats
  <2>2. n \in Nat /\ n >= k /\ 2 * n + 1 <= Len(ss)
    BY <1>2, <2>1
  <2>3. PICK j \in 1..(2 * k) : "bad" \in Range(ss[j])
    BY <1>1, <2>2
  <2>4. j \in 1..(2 * n)
    BY <2>2
  <2>5. ~(\A i \in 1..(2 * n) : "bad" \notin Range(ss[i]))
    BY <2>3, <2>4
  <2> QED
    BY <2>5, Zenon DEF Accepted
<1> QED
  BY <1>3, <1>4

\* Comparing in lower case is comparing with both spellings.
LEMMA LowerCase ==
  ASSUME NEW s \in Seq(Bytes)
  PROVE  to_lower(s) = to_lower(Expected) <=> s \in {<<"x">>, <<"X">>}
<1>1. to_lower(Expected) = <<"x">>
  BY DEF to_lower, Expected
<1>2. ASSUME to_lower(s) = <<"x">>
      PROVE  s \in {<<"x">>, <<"X">>}
  <2>1. DOMAIN s = 1..1 /\ Len(s) = 1
    <3>1. DOMAIN to_lower(s) = DOMAIN s
      BY DEF to_lower
    <3>2. DOMAIN s = 1..Len(s) /\ DOMAIN <<"x">> = 1..1 /\ Len(s) \in Nat
      OBVIOUS
    <3> QED
      BY <1>2, <3>1, <3>2
  <2>2. to_lower(s)[1] = IF s[1] = "X" THEN "x" ELSE s[1]
    BY <2>1 DEF to_lower
  <2>3. s[1] \in {"x", "X"}
    BY <1>2, <2>2
  <2>4. s = <<s[1]>>
    BY <2>1
  <2> QED
    BY <2>3, <2>4
<1>3. ASSUME s \in {<<"x">>, <<"X">>}
      PROVE  to_lower(s) = <<"x">>
  BY <1>3 DEF to_lower
<1> QED
  BY <1>1, <1>2, <1>3

\* At the empty name the reference looks at the pairs that were read.
LEMMA AcceptedAtEnd ==
  ASSUME SInv, ReadSoFar, spc \in {"user", "encoding", "auth"}
  PROVE  Accepted(body) =
           IF User \in DOMAIN params /\ check_client_encoding(params) THEN params ELSE NoParams
<1> DEFINE r  == body.rest
           ss == Strings(r)
           P  == PairsBeforeEmpty(ss)
<1>1. PICK k \in Nat : PairsRead(k)
  BY DEF ReadSoFar
<1>2. /\ Cardinality(Zeros(r, pos)) = 2 * k + 1
      /\ \A i \in 1..k : ss[2 * i - 1] # <<>>
      /\ \A i \in 1..(2 * k) : "bad" \notin Range(ss[i])
      /\ params = LastValues(ss, k) /\ ss[2 * k + 1] = <<>>
  BY <1>1 DEF PairsRead
<1>3. r \in Seq(Bytes) /\ Len(r) \in Nat /\ pos \in 0..Len(r) /\ body.ver # "short"
  BY DEF SInv, STypeOK, CursorInBounds, ReadSoFar
<1>4. 2 * k + 1 <= Len(ss) /\ Len(ss) \in Nat
  <2>1. Zeros(r, pos) \in SUBSET Zeros(r, Len(r)) /\ IsFiniteSet(Zeros(r, Len(r)))
    BY <1>3, ZerosFinite DEF Zeros
  <2> QED
    BY <1>2, <1>3, <2>1, FS_Subset, StringsLen
<1>5. k \in P
  BY <1>2, <1>4 DEF PairsBeforeEmpty
<1>6. ASSUME NEW m \in P
      PROVE  m \in Nat /\ k <= m
  <2>1. m \in Nat /\ ss[2 * m + 1] = <<>>
    BY <1>4 DEF PairsBeforeEmpty
  <2>2. CASE m < k
    <3>1. m + 1 \in 1..k /\ 2 * (m + 1) - 1 = 2 * m + 1
      BY <2>1, <2>2
    <3> QED
      BY <1>2, <2>1, <3>1
  <2> QED
    BY <2>1, <2>2
<1>7. Min(P) = k
  <2> HIDE DEF P
  <2>1. Min(P) \in P /\ \A y \in P : Min(P) <= y
    BY <1>5, <1>6, MinOfNats
  <2>2. Min(P) \in Nat /\ k <= Min(P)
    BY <1>6, <2>1
  <2>3. Min(P) <= k
    BY <1>5, <2>1
  <2> QED
    BY <2>2, <2>3
<1>8. check_client_encoding(params) <=>
        (Encoding \in DOMAIN params => params[Encoding] \in {<<"x">>, <<"X">>})
  BY LowerCase DEF check_client_encoding, ReadSoFar
<1>9. Accepted(body) =
        IF /\ User \in DOMAIN params
           /\ Encoding \in DOMAIN params => params[Encoding] \in {<<"x">>, <<"X">>}
        THEN params ELSE NoParams
  <2> DEFINE ps == LastValues(ss, Min(P))
  <2>1. Accepted(body) =
          IF /\ body.ver # "short" /\ P # {}
             /\ \A i \in 1..(2 * Min(P)) : "bad" \notin Range(ss[i])
             /\ User \in DOMAIN ps
             /\ Encoding \in DOMAIN ps => ps[Encoding] \in {<<"x">>, <<"X">>}
          THEN ps ELSE NoParams
    BY Zenon DEF Accepted
  <2>2. P # {} /\ ps = params
    BY <1>2, <1>5, <1>7
  <2>3. body.ver # "short" /\ \A i \in 1..(2 * Min(P)) : "bad" \notin Range(ss[i])
    BY <1>2, <1>3, <1>7
  <2> HIDE DEF ps, P, ss
  <2> QED
    BY <2>1, <2>2, <2>3
<1> QED
  BY <1>8, <1>9

LEMMA InitReadInv ==
  ASSUME Rests \subseteq Seq(Bytes), SInit
  PROVE  ReadInv
BY InitSInv DEF SInit, ReadInv, Untouched, ReadSoFar, Refused

\* A step that only moves spc behind the list keeps what was read.
LEMMA SameRead ==
  ASSUME ReadSoFar, UNCHANGED <<body, pos, name, params>>,
         spc \in {"user", "encoding"}, spc' \in {"encoding", "auth"},
         User \in DOMAIN params, spc' = "auth" => check_client_encoding(params)
  PROVE  ReadSoFar'
<1>1. PICK k \in Nat : PairsRead(k)
  BY DEF ReadSoFar
<1>2. PairsRead(k)'
  BY <1>1 DEF PairsRead
<1>3. check_client_encoding(params)' = check_client_encoding(params)
  BY DEF check_client_encoding, to_lower
<1> QED
  BY <1>2, <1>3 DEF ReadSoFar

LEMMA NameRead ==
  ASSUME ReadInv, ReadName
  PROVE  ReadSoFar'
<1> DEFINE r  == body.rest
           ss == Strings(r)
           c  == Cstr
<1>1. PICK k \in Nat : PairsRead(k)
  BY DEF ReadInv, ReadSoFar, ReadName
<1>2. /\ Cardinality(Zeros(r, pos)) = 2 * k
      /\ \A i \in 1..k : ss[2 * i - 1] # <<>>
      /\ \A i \in 1..(2 * k) : "bad" \notin Range(ss[i])
      /\ params = LastValues(ss, k)
  BY <1>1 DEF PairsRead, ReadName
<1>3. r \in Seq(Bytes) /\ pos \in 0..Len(r) /\ (pos = 0 \/ r[pos] = "nul") /\ body.ver # "short"
  BY DEF ReadInv, SInv, STypeOK, CursorInBounds, ReadSoFar, ReadName
<1>4. /\ name' = c.str /\ pos' = c.next /\ c.ok /\ UNCHANGED <<body, params>>
      /\ spc' = IF name' = <<>> THEN "user" ELSE "value"
  BY DEF ReadName
<1>5. /\ "bad" \notin Range(ss[2 * k + 1]) /\ c.str = ss[2 * k + 1] /\ r[c.next] = "nul"
      /\ Cardinality(Zeros(r, c.next)) = 2 * k + 1
  BY <1>2, <1>3, <1>4, CstrIsNext
<1> HIDE DEF c
<1>6. PairsRead(k)'
  BY <1>2, <1>4, <1>5 DEF PairsRead
<1>7. \A n \in DOMAIN params : params[n] \in Seq(Bytes)
  BY DEF ReadInv, ReadSoFar, ReadName
<1> QED
  BY <1>3, <1>4, <1>5, <1>6, <1>7 DEF ReadSoFar

LEMMA ValueRead ==
  ASSUME ReadInv, ReadValue
  PROVE  ReadSoFar'
<1> DEFINE r  == body.rest
           ss == Strings(r)
           c  == Cstr
<1>1. PICK k \in Nat : PairsRead(k)
  BY DEF ReadInv, ReadSoFar, ReadValue
<1>2. /\ Cardinality(Zeros(r, pos)) = 2 * k + 1
      /\ \A i \in 1..k : ss[2 * i - 1] # <<>>
      /\ \A i \in 1..(2 * k) : "bad" \notin Range(ss[i])
      /\ params = LastValues(ss, k)
      /\ name = ss[2 * k + 1] /\ "bad" \notin Range(name)
  BY <1>1 DEF PairsRead, ReadValue
<1>3. r \in Seq(Bytes) /\ pos \in 0..Len(r) /\ (pos = 0 \/ r[pos] = "nul") /\ body.ver # "short"
  BY DEF ReadInv, SInv, STypeOK, CursorInBounds, ReadSoFar, ReadValue
<1>4. /\ params' = [n \in DOMAIN params \cup {name} |-> IF n = name THEN c.str ELSE params[n]]
      /\ pos' = c.next /\ c.ok /\ spc' = "name" /\ UNCHANGED <<body, name>>
  BY DEF ReadValue
<1>5. /\ "bad" \notin Range(ss[2 * k + 2]) /\ c.str = ss[2 * k + 2] /\ r[c.next] = "nul"
      /\ Cardinality(Zeros(r, c.next)) = 2 * k + 2 /\ c.str \in Seq(Bytes)
  <2>1. (2 * k + 1) + 1 = 2 * k + 2
    OBVIOUS
  <2> QED
    BY <1>2, <1>3, <1>4, <2>1, CstrIsNext
<1> HIDE DEF c
<1>6. name # <<>>
  BY DEF ReadInv, SInv, NameNotEmpty, ReadValue
<1>7. params' = LastValues(ss, k + 1)
  <2> HIDE DEF ss
  <2> DEFINE old == LastValues(ss, k)
             nm  == ss[2 * k + 1]
  <2>1. LastValues(ss, k + 1) =
          [n \in DOMAIN old \cup {nm} |-> IF n = nm THEN ss[2 * k + 2] ELSE old[n]]
    BY LastValuesNext
  <2>2. params = old /\ name = nm
    BY <1>2
  <2> HIDE DEF old, nm
  <2> QED
    BY <1>4, <1>5, <2>1, <2>2
<1>8. ASSUME NEW i \in 1..(k + 1)
      PROVE  ss[2 * i - 1] # <<>>
  <2>1. CASE i \in 1..k
    BY <1>2, <2>1
  <2>2. CASE i = k + 1
    <3>1. 2 * i - 1 = 2 * k + 1
      BY <2>2
    <3> QED
      BY <1>2, <1>6, <3>1
  <2> QED
    BY <2>1, <2>2
<1>9. ASSUME NEW i \in 1..(2 * (k + 1))
      PROVE  "bad" \notin Range(ss[i])
  <2>1. i \in 1..(2 * k) \/ i = 2 * k + 1 \/ i = 2 * k + 2
    OBVIOUS
  <2> QED
    BY <1>2, <1>5, <2>1
<1>10. Cardinality(Zeros(r, c.next)) = 2 * (k + 1)
  BY <1>5
<1>11. PairsRead(k + 1)'
  BY <1>4, <1>7, <1>8, <1>9, <1>10 DEF PairsRead
<1>12. k + 1 \in Nat
  OBVIOUS
<1>13. \A n \in DOMAIN params' : params'[n] \in Seq(Bytes)
  <2>1. \A n \in DOMAIN params : params[n] \in Seq(Bytes)
    BY DEF ReadInv, ReadSoFar, ReadValue
  <2> QED
    BY <1>4, <1>5, <2>1
<1> QED
  BY <1>3, <1>4, <1>5, <1>11, <1>12, <1>13 DEF ReadSoFar

\* read_cstr fails only on messages the reference refuses.
LEMMA CstrRefuses ==
  ASSUME ReadInv, ReadCstrFail
  PROVE  Accepted(body) = NoParams
<1> DEFINE r  == body.rest
           ss == Strings(r)
           n  == Cardinality(Zeros(r, pos))
<1>1. PICK k \in Nat : PairsRead(k)
  BY DEF ReadInv, ReadSoFar, ReadCstrFail
<1>2. r \in Seq(Bytes) /\ pos \in 0..Len(r) /\ (pos = 0 \/ r[pos] = "nul")
  BY DEF ReadInv, SInv, STypeOK, CursorInBounds, ReadSoFar, ReadCstrFail
<1>3. \/ Len(ss) = n
      \/ "bad" \in Range(ss[n + 1])
  BY <1>2, CstrIsNext DEF ReadCstrFail
<1>4. \A i \in 1..k : ss[2 * i - 1] # <<>>
  BY <1>1 DEF PairsRead
<1>5. CASE spc = "name"
  <2>1. n = 2 * k
    BY <1>1, <1>5 DEF PairsRead
  <2>2. CASE Len(ss) = n
    <3>1. Len(ss) <= 2 * k
      BY <2>1, <2>2
    <3> QED
      BY <1>2, <1>4, <3>1, RefusedBy
  <2>3. CASE "bad" \in Range(ss[n + 1])
    <3>1. ss[2 * k + 1] # <<>>
      BY <2>1, <2>3 DEF Range
    <3>2. \A i \in 1..(k + 1) : ss[2 * i - 1] # <<>>
      <4> TAKE i \in 1..(k + 1)
      <4>1. i \in 1..k \/ (i = k + 1 /\ 2 * i - 1 = 2 * k + 1)
        OBVIOUS
      <4> QED
        BY <1>4, <3>1, <4>1
    <3>3. n + 1 \in 1..(2 * (k + 1)) /\ k + 1 \in Nat
      BY <2>1
    <3> QED
      BY <1>2, <2>3, <3>2, <3>3, RefusedBy
  <2> QED
    BY <1>3, <2>2, <2>3
<1>6. CASE spc = "value"
  <2>1. n = 2 * k + 1 /\ name = ss[2 * k + 1] /\ name # <<>>
    BY <1>1, <1>6 DEF PairsRead, ReadInv, SInv, NameNotEmpty
  <2>2. \A i \in 1..(k + 1) : ss[2 * i - 1] # <<>>
    <3> TAKE i \in 1..(k + 1)
    <3>1. i \in 1..k \/ (i = k + 1 /\ 2 * i - 1 = 2 * k + 1)
      OBVIOUS
    <3> QED
      BY <1>4, <2>1, <3>1
  <2>3. k + 1 \in Nat /\ n <= 2 * (k + 1) /\ n + 1 \in 1..(2 * (k + 1))
    BY <2>1
  <2> QED
    BY <1>2, <1>3, <2>2, <2>3, RefusedBy
<1> QED
  BY <1>5, <1>6 DEF ReadCstrFail

LEMMA NextReadInv ==
  ASSUME ReadInv, [SNext]_svars
  PROVE  ReadInv'
<1>1. SInv'
  BY NextSInv DEF ReadInv
<1>2. Untouched' /\ ReadSoFar' /\ Refused'
  <2>1. CASE Classify
    <3>1. spc' \in {"todo", "nossl", "deserialize"}
      BY <2>1, Zenon DEF Classify
    <3>2. spc = "classify" /\ UNCHANGED <<body, second, pos, name, params>>
      BY <2>1 DEF Classify
    <3> QED
      BY <3>1, <3>2 DEF ReadInv, Untouched, ReadSoFar, Refused
  <2>2. CASE Deserialize
    <3>1. pos = 0 /\ params = NoParams /\ spc = "deserialize" /\ UNCHANGED <<body, pos, params>>
      BY <2>2 DEF Deserialize, ReadInv, Untouched
    <3>2. CASE body.ver = "short"
      <4>1. Accepted(body) = NoParams
        BY <3>2 DEF Accepted
      <4> QED
        BY <2>2, <3>1, <3>2, <4>1 DEF Deserialize, Untouched, ReadSoFar, Refused
    <3>3. CASE body.ver # "short"
      <4>1. spc' = "name"
        BY <2>2, <3>3 DEF Deserialize
      <4>2. Cardinality(Zeros(body.rest, 0)) = 0
        <5>1. Zeros(body.rest, 0) = {}
          BY DEF Zeros
        <5> QED
          BY <5>1, FS_EmptySet
      <4>3. LastValues(Strings(body.rest), 0) = NoParams
        <5>1. {Strings(body.rest)[2 * i - 1] : i \in 1..0} = {}
          OBVIOUS
        <5> QED
          BY <5>1 DEF LastValues, NoParams
      <4>4. PairsRead(0)'
        BY <3>1, <4>1, <4>2, <4>3 DEF PairsRead
      <4>5. DOMAIN params' = {}
        BY <3>1 DEF NoParams
      <4> QED
        BY <3>1, <3>3, <4>1, <4>4, <4>5 DEF Untouched, ReadSoFar, Refused
    <3> QED
      BY <3>2, <3>3
  <2>3. CASE ReadCstrFail
    <3>1. spc' = "fail" /\ body' = body
      BY <2>3 DEF ReadCstrFail
    <3>2. Accepted(body) = NoParams
      BY <2>3, CstrRefuses
    <3> QED
      BY <3>1, <3>2 DEF Untouched, ReadSoFar, Refused
  <2>4. CASE ReadName
    BY <2>4, NameRead DEF ReadName, Untouched, Refused
  <2>5. CASE ReadValue
    BY <2>5, ValueRead DEF ReadValue, Untouched, Refused
  <2>6. CASE CheckUser
    <3>1. CASE User \in DOMAIN params
      BY <2>6, <3>1, SameRead DEF CheckUser, ReadInv, Untouched, Refused
    <3>2. CASE User \notin DOMAIN params
      <4>1. Accepted(body) = NoParams
        BY <2>6, <3>2, AcceptedAtEnd DEF CheckUser, ReadInv
      <4> QED
        BY <2>6, <3>2, <4>1 DEF CheckUser, Untouched, ReadSoFar, Refused
    <3> QED
      BY <3>1, <3>2
  <2>7. CASE CheckEncoding
    <3>1. CASE check_client_encoding(params)
      <4>1. spc = "encoding" /\ spc' = "auth" /\ UNCHANGED <<body, pos, name, params>>
        BY <2>7, <3>1 DEF CheckEncoding
      <4>2. User \in DOMAIN params
        BY <4>1 DEF ReadInv, ReadSoFar
      <4>3. ReadSoFar'
        BY <3>1, <4>1, <4>2, SameRead DEF ReadInv
      <4> QED
        BY <4>1, <4>3 DEF Untouched, Refused
    <3>2. CASE ~check_client_encoding(params)
      <4>1. Accepted(body) = NoParams
        BY <2>7, <3>2, AcceptedAtEnd DEF CheckEncoding, ReadInv
      <4>2. spc' = "fail" /\ body' = body
        BY <2>7, <3>2 DEF CheckEncoding
      <4> QED
        BY <4>1, <4>2 DEF Untouched, ReadSoFar, Refused
    <3> QED
      BY <3>1, <3>2
  <2>8. CASE UNCHANGED svars
    <3>1. \A k \in Nat : PairsRead(k)' <=> PairsRead(k)
      BY <2>8 DEF svars, PairsRead
    <3>2. check_client_encoding(params)' = check_client_encoding(params)
      BY <2>8 DEF svars, check_client_encoding, to_lower
    <3> QED
      BY <2>8, <3>1, <3>2 DEF svars, ReadInv, Untouched, ReadSoFar, Refused
  <2> QED
    BY <2>1, <2>2, <2>3, <2>4, <2>5, <2>6, <2>7, <2>8 DEF SNext, Step, Finished
<1> QED
  BY <1>1, <1>2 DEF ReadInv

-----------------------------------------------------------------------------
(* The theorems.                                                           *)

LEMMA SInvariance ==
  ASSUME Rests \subseteq Seq(Bytes)
  PROVE  SSpec => []SInv
<1>1. SInit => SInv
  BY InitSInv
<1>2. SInv /\ [SNext]_svars => SInv'
  BY NextSInv
<1> QED
  BY <1>1, <1>2, PTL DEF SSpec

\* Every name and value StartupMessage::deserialize collects is UTF-8 without
\* a zero, and no name is empty, for messages of any length.
THEOREM STypeCorrect ==
  ASSUME Rests \subseteq Seq(Bytes)
  PROVE  SSpec => []STypeOK
<1>1. SInv => STypeOK
  BY DEF SInv
<1> QED
  BY <1>1, SInvariance, PTL

\* The cursor of read_cstr never leaves the message, however long: the slice
\* find takes from it cannot panic.
THEOREM CursorInBoundsAlways ==
  ASSUME Rests \subseteq Seq(Bytes)
  PROVE  SSpec => []CursorInBounds
<1>1. SInv => CursorInBounds
  BY DEF SInv
<1> QED
  BY <1>1, SInvariance, PTL

\* do_postgres_main never takes an SSLRequest, or a CancelRequest with a key of
\* zeros, for a StartupMessage it can go on with, and tells special requests
\* apart in the first message only.
THEOREM SpecialIsNoStartupAlways ==
  ASSUME Rests \subseteq Seq(Bytes)
  PROVE  SSpec => []SpecialIsNoStartup
<1>1. SInv => SpecialIsNoStartup
  <2> SUFFICES ASSUME SInv
               PROVE  SpecialIsNoStartup
    OBVIOUS
  <2>1. body.rest = <<>> => Range(body.rest) \subseteq {"nul"}
    BY DEF Range
  <2>2. IsSSLRequest(body) => body.rest = <<>>
    BY DEF IsSSLRequest
  <2> QED
    BY <2>1, <2>2 DEF SInv, ZerosGiveNothing, SpecialIsFirst, SpecialIsNoStartup
<1> QED
  BY <1>1, SInvariance, PTL

\* deserialize and check_client_encoding accept exactly the well-formed
\* messages, with the last value of every name, and refuse all others, for
\* messages of any length.
THEOREM AcceptsExactlyAlways ==
  ASSUME Rests \subseteq Seq(Bytes)
  PROVE  SSpec => []AcceptsExactly
<1>1. SInit => ReadInv
  BY InitReadInv
<1>2. ReadInv /\ [SNext]_svars => ReadInv'
  BY NextReadInv
<1>3. ReadInv => AcceptsExactly
  <2> SUFFICES ASSUME ReadInv
               PROVE  AcceptsExactly
    OBVIOUS
  <2>1. ASSUME spc = "auth"
        PROVE  params = Accepted(body) /\ params # NoParams
    <3>1. User \in DOMAIN params /\ check_client_encoding(params)
      BY <2>1 DEF ReadInv, ReadSoFar
    <3>2. DOMAIN NoParams = {}
      BY DEF NoParams
    <3>3. Accepted(body) = params
      BY <2>1, <3>1, AcceptedAtEnd DEF ReadInv
    <3> QED
      BY <3>1, <3>2, <3>3
  <2> QED
    BY <2>1 DEF ReadInv, Refused, AcceptsExactly
<1> QED
  BY <1>1, <1>2, <1>3, PTL DEF SSpec

-----------------------------------------------------------------------------
(* FrontEnd.                                                               *)

\* A part at rest keeps the invariant of its own steps.
FInv == BufInv /\ SInv /\ WInv

\* The message of a startup that is not run is empty and was refused.
LEMMA IdleSInv == SIdle => SInv
<1> SUFFICES ASSUME SIdle PROVE SInv
  OBVIOUS
<1>1. /\ body.rest = <<>> /\ second = FALSE /\ spc = "fail"
      /\ pos = 0 /\ name = <<>> /\ params = NoParams
  BY DEF SIdle
<1>2. DOMAIN params = {} /\ Range(params) = {} /\ Range(name) = {}
  BY <1>1 DEF NoParams, Range
<1>3. STypeOK
  <2>1. \A s \in DOMAIN params \cup Range(params) \cup {name} : Range(s) \subseteq Bytes \ {"nul", "bad"}
    BY <1>2
  <2>2. /\ body.rest \in Seq(Bytes) /\ second \in BOOLEAN
        /\ pos \in Nat /\ <<>> \notin DOMAIN params
    <3>1. <<>> \in Seq(Bytes)
      OBVIOUS
    <3>2. body.rest \in Seq(Bytes)
      BY <1>1, <3>1, Zenon
    <3>3. second \in BOOLEAN /\ <<>> \notin DOMAIN params
      BY <1>1, <1>2, Zenon
    <3>4. pos \in Nat
      BY <1>1
    <3> QED
      BY <3>2, <3>3, <3>4, Zenon
  <2>3. spc \in {"classify", "deserialize", "name", "value", "user", "encoding"} \cup Outcomes
    BY <1>1 DEF Outcomes
  <2> QED
    BY <2>1, <2>2, <2>3 DEF STypeOK
<1>4. CursorInBounds
  BY <1>1 DEF CursorInBounds
<1> QED
  BY <1>1, <1>2, <1>3, <1>4 DEF SInv, NameNotEmpty, ZerosGiveNothing, SpecialIsFirst

LEMMA InitFInv ==
  ASSUME Rests \subseteq Seq(Bytes), FInit
  PROVE  FInv
<1>1. Init /\ WInit /\ (SIdle \/ SInit)
  BY DEF FInit
<1> QED
  BY <1>1, InitBufInv, WInitWInv, IdleSInv, InitSInv DEF FInv

LEMMA NextFInv ==
  ASSUME FInv, [FNext]_fvars
  PROVE  FInv'
<1>1. [Next]_vars /\ [SNext]_svars /\ [WNext]_wvars
  BY Zenon DEF FNext, fvars, vars, svars, wvars, avars
<1> QED
  BY <1>1, NextBufInv, NextSInv, NextWInv DEF FInv

\* In every behaviour of the code a session runs on bytes and statements, the
\* buffer of read_body, the strings read_cstr cuts out and the bytes ser.rs
\* writes have their types, for every width, message length and number of
\* messages.
THEOREM FTypeCorrect ==
  ASSUME Rests \subseteq Seq(Bytes)
  PROVE  FSpec => []FTypeOK
<1>1. FInit => FInv
  BY InitFInv
<1>2. FInv /\ [FNext]_fvars => FInv'
  BY NextFInv
<1>3. FInv => FTypeOK
  BY DEF FInv, BufInv, SInv, WInv, FTypeOK
<1> QED
  BY <1>1, <1>2, <1>3, PTL DEF FSpec

=============================================================================
