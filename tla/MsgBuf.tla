------------------------------- MODULE MsgBuf -------------------------------
(***************************************************************************)
(* inmsgbuf: the one Vec<u8> into which read_body reads every message of a *)
(* session.  read_body reserves room, declares the length with the unsafe  *)
(* set_len before a byte of the body is there, and lets read_exact fill    *)
(* it.  The length word is the client's; usize arithmetic is modulo        *)
(* UsizeMod.  Vec::reserve is the standard library's: it panics on a       *)
(* capacity overflow, aborts when there is no memory, grows to at least    *)
(* twice the old capacity otherwise, and keeps the contents.               *)
(***************************************************************************)
EXTENDS Integers

CONSTANTS UsizeMod, \* 2^64
          LenWords, \* the length words clients send
          MinCap,   \* the least capacity Vec allocates
          MaxMsgs   \* bound: messages of a session

SizeOfU32 == 4

ASSUME UsizeAssumption == UsizeMod \in Nat /\ UsizeMod >= 8
ASSUME LenWordsAssumption == LenWords \subseteq 0..(UsizeMod - 1)
ASSUME MinCapAssumption == MinCap \in Nat \ {0}
ASSUME MaxMsgsAssumption == MaxMsgs \in Nat

IsizeMax == UsizeMod \div 2 - 1

Uninit == 0

VARIABLES
  build,   \* "debug" checks arithmetic, "release" wraps; never changes
  pc,      \* "read_len", "reserve", "read_exact", "dispatch",
           \* or the end: "failed" (an Err), "panicked", "aborted" (no memory)
  word,    \* the length word
  msglen,  \* the length of the body
  len,     \* content.len()
  cap,     \* content.capacity()
  mem,     \* the allocation: for each byte the message it came from
  filled,  \* bytes read_exact has filled
  nmsgs,   \* messages begun
  longest  \* history: the longest body so far

vars == <<build, pc, word, msglen, len, cap, mem, filled, nmsgs, longest>>

Init ==
  /\ build \in {"debug", "release"}
  /\ pc = "read_len" /\ word = 0 /\ msglen = 0
  /\ len = 0 /\ cap = 0 /\ mem = <<>>
  /\ filled = 0 /\ nmsgs = 0 /\ longest = 0

Max2(a, b) == IF a >= b THEN a ELSE b

\* stream.s.read_u32(), and `len as usize - size_of::<u32>()`.
ReadLen ==
  /\ pc = "read_len" /\ nmsgs < MaxMsgs
  /\ nmsgs' = nmsgs + 1
  /\ \E n \in LenWords :
       /\ word' = n
       /\ msglen' = (n - SizeOfU32) % UsizeMod
       /\ pc' = IF build = "debug" /\ n < SizeOfU32 THEN "panicked" ELSE "reserve"
  /\ UNCHANGED <<build, len, cap, mem, filled, longest>>

\* Vec::reserve(additional) does nothing when that many bytes are free.
Fits(additional) == additional <= cap - len

\* Mutant: required bytes are the sum of two usize, unchecked.
GrownUnchecked(additional) ==
  Max2(MinCap, Max2((2 * cap) % UsizeMod, (len + additional) % UsizeMod))

\* The capacity reserve asks for.
Grown(additional) == Max2(MinCap, Max2(2 * cap, len + additional))

\* The bytes of a larger allocation behind the old contents are not initialised.
Realloc(n) == [i \in 1..n |-> IF i <= cap THEN mem[i] ELSE Uninit]

\* unsafe { content.set_len(msglen) }, and read_exact begins.
SetLen ==
  /\ len' = msglen /\ filled' = 0
  /\ pc' = "read_exact"
  /\ longest' = Max2(longest, msglen)

\* content.reserve(msglen) with enough room.
ReserveInPlace ==
  /\ pc = "reserve" /\ Fits(msglen)
  /\ SetLen
  /\ UNCHANGED <<build, word, msglen, cap, mem, nmsgs>>

\* Mutant: room is asked for without looking whether it is there.
ReserveGrowAlways ==
  /\ pc = "reserve" /\ msglen > 0 /\ Grown(msglen) <= IsizeMax
  /\ cap' = Grown(msglen) /\ mem' = Realloc(Grown(msglen))
  /\ SetLen
  /\ UNCHANGED <<build, word, msglen, nmsgs>>

\* ... when it has to grow.
ReserveGrow ==
  /\ pc = "reserve" /\ ~Fits(msglen) /\ Grown(msglen) <= IsizeMax
  /\ cap' = Grown(msglen) /\ mem' = Realloc(Grown(msglen))
  /\ SetLen
  /\ UNCHANGED <<build, word, msglen, nmsgs>>

\* ... when there is no memory to grow into.
ReserveNoMemory ==
  /\ pc = "reserve" /\ ~Fits(msglen) /\ Grown(msglen) <= IsizeMax
  /\ pc' = "aborted"
  /\ UNCHANGED <<build, word, msglen, len, cap, mem, filled, nmsgs, longest>>

\* ... when no allocation can be that large.
ReserveOverflow ==
  /\ pc = "reserve" /\ ~Fits(msglen) /\ Grown(msglen) > IsizeMax
  /\ pc' = "panicked"
  /\ UNCHANGED <<build, word, msglen, len, cap, mem, filled, nmsgs, longest>>

\* A read of the socket brings the next k bytes of the body.
Fill ==
  /\ pc = "read_exact"
  /\ \E k \in 1..(len - filled) :
       /\ filled' = filled + k
       /\ mem' = [i \in 1..cap |-> IF i \in (filled + 1)..(filled + k) THEN nmsgs ELSE mem[i]]
  /\ UNCHANGED <<build, pc, word, msglen, len, cap, nmsgs, longest>>

\* Mutant: one read is taken for the whole body.
ReadDoneShort ==
  /\ pc = "read_exact" /\ (filled > 0 \/ len = 0)
  /\ pc' = "dispatch"
  /\ UNCHANGED <<build, word, msglen, len, cap, mem, filled, nmsgs, longest>>

\* read_exact returns, and the caller looks at the slice.
ReadDone ==
  /\ pc = "read_exact" /\ filled = len
  /\ pc' = "dispatch"
  /\ UNCHANGED <<build, word, msglen, len, cap, mem, filled, nmsgs, longest>>

\* A read fails or the stream ends: read_body returns the error and its caller
\* drops the buffer.
ReadFail ==
  /\ pc \in {"read_len", "read_exact"}
  /\ pc' = "failed"
  /\ UNCHANGED <<build, word, msglen, len, cap, mem, filled, nmsgs, longest>>

\* The message was handled and the session reads the next one.
NextMessage ==
  /\ pc = "dispatch" /\ pc' = "read_len"
  /\ UNCHANGED <<build, word, msglen, len, cap, mem, filled, nmsgs, longest>>

Ended == pc \in {"failed", "panicked", "aborted"} /\ UNCHANGED vars

Next ==
  \/ ReadLen \/ ReserveInPlace \/ ReserveGrow \/ ReserveNoMemory \/ ReserveOverflow
  \/ Fill \/ ReadDone \/ ReadFail \/ NextMessage \/ Ended

Spec == Init /\ [][Next]_vars

-----------------------------------------------------------------------------
(* Properties.                                                             *)

\* The type of every variable.
TypeOK ==
  /\ build \in {"debug", "release"}
  /\ pc \in {"read_len", "reserve", "read_exact", "dispatch", "failed", "panicked", "aborted"}
  /\ word \in LenWords \cup {0} /\ msglen \in 0..(UsizeMod - 1)
  /\ len \in Nat /\ cap \in 0..IsizeMax /\ filled \in Nat
  /\ mem \in [1..cap -> 0..nmsgs]
  /\ nmsgs \in 0..MaxMsgs /\ longest \in Nat

\* What set_len requires: whatever the client announces, and whatever is left
\* in the buffer of earlier messages, the length read_body declares lies in
\* the allocation.
LenInCapacity == len <= cap

\* The body that is handed to deserialize is the client's and all of it: it has
\* the length that was announced, a length below the size of the length word
\* was never accepted, and no byte is uninitialised or left of an earlier,
\* longer message.
WholeBodyOnly ==
  pc = "dispatch" =>
    /\ word >= SizeOfU32 /\ len = word - SizeOfU32
    /\ \A i \in 1..len : mem[i] = nmsgs

\* The buffer is never shrunk, and reserve counts from the length of the last
\* message, so that it may ask for room twice over and double that: still the
\* session holds at most four times its longest message.
MemoryBounded == cap <= Max2(MinCap, 4 * longest)
=============================================================================
