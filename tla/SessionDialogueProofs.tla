----------------------- MODULE SessionDialogueProofs -----------------------
(***************************************************************************)
(* Proofs about Session: what the task may have buffered, that nothing is  *)
(* held back while it waits and that no client is dropped without a word.  *)
(* Then, with the Dialogue: a session stays in step with its client's      *)
(* frames and implements the contract.  All for every set of reported      *)
(* gucs, every buffer and socket size and every error size the assumptions *)
(* allow, and any number of frames.                                        *)
(***************************************************************************)
EXTENDS SessionDialogue, SequenceTheorems, FiniteSetTheorems, TLAPS

-----------------------------------------------------------------------------
(* The inductive invariant.                                                *)

Buffered == Len(wbuf) + Len(msg)

\* Nothing is buffered while the task reads, decides or has ended.
Idle == pc \in ReadPcs \cup {"startup_dispatch", "dispatch"} \cup EndPcs =>
          wbuf = <<>> /\ msg = <<>>

\* A flush begins when write_all has returned.
WriteDone == pc \in FlushPcs => msg = <<>>

\* What may have been buffered since the last flush, at each point of the
\* startup sequence and of the loop.
Budget ==
  /\ pc \in {"nossl", "auth", "complete"} => Buffered <= SmallSize
  /\ pc = "gucs" =>
       Buffered + SmallSize * Cardinality(unreported)
         <= SmallSize * (Cardinality(Reported) + 1)
  /\ pc = "key" => Buffered <= SmallSize * (Cardinality(Reported) + 2)
  /\ pc = "ready" => Buffered <= Burst
  /\ pc \in WritePcs \ {"on_error"} => Len(msg) <= SmallSize

\* Output is given up only once an ErrorResponse was being written.
LateLoss == lossy => /\ pc \in {"on_error", "err_flush", "final_flush"} \cup EndPcs
                     /\ msg = <<>>

\* The error, once written, is the last message.
ErrorLast ==
  /\ pc \in {"on_error", "err_flush"} => emitted # <<>> /\ Last(emitted).msg.tag = "E"
  /\ pc \in {"final_flush", "closed"} =>
       \/ msgtype \in {"X", "EOF"}
       \/ emitted # <<>> /\ Last(emitted).msg.tag = "E"

\* A panic has one of its two causes, and a short length that waits to be read
\* was sent.
Panics ==
  /\ \A i \in DOMAIN inq : inq[i].val = "short" => short
  /\ pc = "panicked" => IsCancel \/ short

\* A suffix of what was written is all that can be missing.
Stream ==
  /\ \E r \in Seq(ChunkSet) : emitted = Pipeline \o r
  /\ ~lossy => Pipeline = emitted

Control == Idle /\ WriteDone /\ Budget /\ LateLoss

IInv == TypeOK /\ Control /\ ErrorLast /\ Panics /\ Stream

-----------------------------------------------------------------------------
(* Lemmas on the operators of Session.                                     *)

\* The startup burst is a number of chunks the BufWriter can hold, and more
\* than a single small message.
LEMMA BurstFits ==
  /\ Cardinality(Reported) \in Nat
  /\ Burst \in Nat /\ Burst >= 3 * SmallSize /\ BufCap \in Nat /\ Burst <= BufCap
  <1>1. Cardinality(Reported) \in Nat
    BY ReportedFinite, FS_CardinalityType
  <1> QED
    BY <1>1, BufCapAssumption DEF Burst, SmallSize

\* An emptied buffer is a buffer.
LEMMA EmptyFits == <<>> \in Seq(ChunkSet) /\ Len(<<>>) <= BufCap
  BY BufCapAssumption

\* Every frame of the client is a non-empty sequence of units.
LEMMA FramesTyped ==
  ASSUME NEW i \in Nat, NEW f \in StartupFrames \cup TypedFrames(i)
  PROVE  f \in Seq(Units) /\ f # <<>>
  <1> DEFINE Tails == {Content(b, 0) : b \in StartupBodies} \cup Bodiless
                        \cup {Content("Query", i), Content("NotUTF8", 0)}
  <1>1. ASSUME NEW k \in {"type", "len", "body"}, NEW v \in Vals, NEW j \in Nat
        PROVE  Unit(k, v, j) \in Units
    BY DEF Unit, Units
  <1>2. \A c \in Tails : c \in Seq(Units) /\ c # <<>>
    <2>1. ASSUME NEW b \in StartupBodies \cup TypedBodies, NEW j \in Nat
          PROVE  Content(b, j) \in Seq(Units) /\ Content(b, j) # <<>>
      <3>1. Unit("len", "body", 0) \in Units /\ Unit("body", b, j) \in Units
        BY <1>1 DEF Vals, Lens
      <3> QED BY <3>1 DEF Content
    <2>2. \A c \in Bodiless : c \in Seq(Units) /\ c # <<>>
      <3>1. Unit("len", "short", 0) \in Units /\ Unit("len", "empty", 0) \in Units
        BY <1>1 DEF Vals, Lens
      <3>2. \A u \in Units : <<u>> \in Seq(Units) /\ <<u>> # <<>>
        OBVIOUS
      <3> QED BY <3>1, <3>2, Zenon DEF Bodiless
    <2> QED BY <2>1, <2>2 DEF StartupBodies, TypedBodies
  <1>3. CASE f \in StartupFrames
    BY <1>2, <1>3 DEF StartupFrames
  <1>4. CASE f \in TypedFrames(i)
    <2>1. PICK t \in Types, c \in Tails : f = <<Unit("type", t, 0)>> \o c
      BY <1>4 DEF TypedFrames
    <2>2. Unit("type", t, 0) \in Units
      BY <1>1 DEF Vals
    <2> QED BY <1>2, <2>1, <2>2
  <1> QED BY <1>3, <1>4

\* Serialising a message gives a sequence of its chunks, of the given length,
\* the last of which is the message's last.
LEMMA ChunksTyped ==
  ASSUME NEW m \in MsgSet, NEW n \in Nat \ {0}
  PROVE  /\ Chunks(m, n) \in Seq(ChunkSet)
         /\ Len(Chunks(m, n)) = n
         /\ Chunks(m, n) # <<>>
         /\ Chunks(m, n)[n].msg = m
  BY DEF Chunks, ChunkSet

\* The messages do_postgres_main writes are messages.
LEMMA MessagesTyped ==
  /\ NoSSL \in MsgSet /\ AuthOk \in MsgSet /\ KeyData \in MsgSet /\ ReadyForQuery \in MsgSet
  /\ \A g \in Reported : ParamStatus(g) \in MsgSet
  /\ \A i \in Nat : CmdComplete(i) \in MsgSet
  /\ \A c \in ErrCodes : ErrorResponse(c) \in MsgSet
  BY DEF MsgSet, ParamStatus, CmdComplete, ErrorResponse

\* A sequence is its first n elements followed by the rest.
LEMMA Split ==
  ASSUME NEW S, NEW s \in Seq(S), NEW n \in 1..Len(s)
  PROVE  /\ SubSeq(s, 1, n) \in Seq(S) /\ Len(SubSeq(s, 1, n)) = n
         /\ SubSeq(s, n + 1, Len(s)) \in Seq(S)
         /\ Len(SubSeq(s, n + 1, Len(s))) = Len(s) - n
         /\ s = SubSeq(s, 1, n) \o SubSeq(s, n + 1, Len(s))
  <1>1. \A i \in 1..Len(s) : s[i] \in S
    BY ElementOfSeq
  <1>2. /\ SubSeq(s, 1, n) \in Seq(S) /\ Len(SubSeq(s, 1, n)) = n
        /\ \A i \in 1..n : SubSeq(s, 1, n)[i] = s[i]
    BY <1>1, SubSeqProperties
  <1>3. /\ SubSeq(s, n + 1, Len(s)) \in Seq(S)
        /\ Len(SubSeq(s, n + 1, Len(s))) = Len(s) - n
        /\ \A i \in 1..(Len(s) - n) : SubSeq(s, n + 1, Len(s))[i] = s[n + i]
    BY <1>1, SubSeqProperties
  <1>4. SubSeq(s, 1, n) \o SubSeq(s, n + 1, Len(s)) = SubSeq(s, 1, Len(s))
    BY ConcatAdjacentSubSeq
  <1>5. SubSeq(s, 1, Len(s)) = s
    BY SubSeqFull
  <1> QED BY <1>2, <1>3, <1>4, <1>5

\* write_message hands over all of the message, after everything written
\* before it.
LEMMA EmitTyped ==
  ASSUME TypeOK, NEW m \in MsgSet, NEW n \in Nat \ {0}, Emit(m, n)
  PROVE  /\ msg' \in Seq(ChunkSet) /\ emitted' \in Seq(ChunkSet)
         /\ Len(msg') = n
         /\ emitted' # <<>> /\ Last(emitted').msg = m
  <1> DEFINE c == Chunks(m, n)
  <1>1. c \in Seq(ChunkSet) /\ Len(c) = n /\ c[n].msg = m
    BY ChunksTyped
  <1>2. emitted \in Seq(ChunkSet) /\ msg' = c /\ emitted' = emitted \o c
    BY DEF TypeOK, Emit
  <1> HIDE DEF c
  <1>3. /\ emitted' \in Seq(ChunkSet)
        /\ Len(emitted') = Len(emitted) + n
        /\ emitted'[Len(emitted) + n] = c[n]
    <2>1. /\ emitted \o c \in Seq(ChunkSet)
          /\ Len(emitted \o c) = Len(emitted) + Len(c)
          /\ \A i \in 1..Len(emitted) + Len(c) :
               (emitted \o c)[i] = IF i <= Len(emitted) THEN emitted[i] ELSE c[i - Len(emitted)]
      BY <1>1, <1>2, ConcatProperties
    <2>2. Len(emitted) \in Nat
      BY <1>2, LenProperties
    <2>3. Len(emitted) + n \in 1..Len(emitted) + Len(c) /\ ~(Len(emitted) + n <= Len(emitted))
            /\ (Len(emitted) + n) - Len(emitted) = n
      BY <1>1, <2>2
    <2> QED BY <1>1, <1>2, <2>1, <2>3
  <1>4. emitted' # <<>> /\ Last(emitted') = c[n]
    BY <1>2, <1>3 DEF Last
  <1> QED BY <1>1, <1>2, <1>3, <1>4

\* Leaving the loop with an error writes an ErrorResponse.
LEMMA FailTyped ==
  ASSUME TypeOK, NEW c \in ErrCodes, Fail(c)
  PROVE  /\ pc' = "on_error"
         /\ msg' \in Seq(ChunkSet) /\ emitted' \in Seq(ChunkSet)
         /\ \E n \in Nat \ {0} : Emit(ErrorResponse(c), n)
         /\ emitted' # <<>> /\ Last(emitted').msg.tag = "E"
  <1>1. PICK n \in Nat \ {0} : Emit(ErrorResponse(c), n)
    BY ErrSizesAssumption DEF Fail, SmallSize
  <1>2. ErrorResponse(c) \in MsgSet /\ ErrorResponse(c).tag = "E"
    BY MessagesTyped DEF ErrorResponse
  <1> QED BY <1>1, <1>2, EmitTyped DEF Fail

\* A write moves a prefix of what it is given into the socket.
LEMMA SockWriteTyped ==
  ASSUME TypeOK, NEW s \in Seq(ChunkSet), NEW t, SockWrite(s, t)
  PROVE  /\ outq' \in Seq(ChunkSet) /\ Len(outq') <= SockCap
         /\ t \in Seq(ChunkSet) /\ Len(t) < Len(s)
         /\ \E u \in Seq(ChunkSet) : s = u \o t /\ outq' = outq \o u
  <1>1. PICK n \in 1..Len(s) : /\ n <= Room
                               /\ outq' = outq \o SubSeq(s, 1, n)
                               /\ t = SubSeq(s, n + 1, Len(s))
    BY DEF SockWrite
  <1> DEFINE u == SubSeq(s, 1, n)
  <1>2. u \in Seq(ChunkSet) /\ Len(u) = n /\ t \in Seq(ChunkSet)
          /\ Len(t) = Len(s) - n /\ s = u \o t
    BY <1>1, Split
  <1> HIDE DEF u
  <1>3. outq \in Seq(ChunkSet) /\ Len(outq) <= SockCap /\ outq' = outq \o u
    BY <1>1 DEF TypeOK, u
  <1>4. outq' \in Seq(ChunkSet) /\ Len(outq') = Len(outq) + Len(u)
    BY <1>2, <1>3, ConcatProperties
  <1>5. Len(s) \in Nat /\ Len(outq) \in Nat
    BY <1>3, LenProperties
  <1>6. Len(outq') <= SockCap /\ Len(t) < Len(s)
    BY <1>1, <1>2, <1>3, <1>4, <1>5, SockCapAssumption DEF Room
  <1> QED BY <1>2, <1>3, <1>4, <1>6

-----------------------------------------------------------------------------
(* Type correctness.                                                       *)

\* The initial state has the types.
LEMMA TypeInit == Init => TypeOK
  <1> SUFFICES ASSUME Init PROVE TypeOK
    OBVIOUS
  <1>1. Empty \in Bodies
    BY DEF Empty, Bodies, Vals, Lens
  <1>2. /\ cunits \in Seq(Units) /\ inq \in Seq(Units)
        /\ msg \in Seq(ChunkSet) /\ emitted \in Seq(ChunkSet) /\ rcvd \in Seq(ChunkSet)
        /\ wbuf \in Seq(ChunkSet) /\ Len(wbuf) <= BufCap
        /\ outq \in Seq(ChunkSet) /\ Len(outq) <= SockCap
    BY BufCapAssumption, SockCapAssumption DEF Init
  <1>3. nframes \in 0..MaxFrames /\ nq \in Nat
    BY MaxFramesAssumption DEF Init
  <1>4. pc \in Pcs
    BY DEF Init, Pcs, ReadPcs, LenPcs
  <1> QED BY <1>1, <1>2, <1>3, <1>4, Zenon DEF Init, TypeOK

\* Every step of the task, the client and the network keeps the types.
LEMMA TypeStep == TypeOK /\ [Next]_vars => TypeOK'
  <1> SUFFICES ASSUME TypeOK, [Next]_vars PROVE TypeOK'
    OBVIOUS
  <1> USE DEF cliVars, inVars, outVars
  <1>1. CASE ClientBegin
    <2>1. PICK f \in StartupFrames \cup TypedFrames(nq + 1) :
            SendUnit(f) /\ cstage' = IF f = Content("SSL", 0) THEN "startup" ELSE "typed"
      BY <1>1 DEF ClientBegin
    <2>2. f \in Seq(Units) /\ f # <<>>
      BY <2>1, FramesTyped DEF TypeOK
    <2>3. cunits' \in Seq(Units) /\ inq' \in Seq(Units) /\ nq' \in Nat
      BY <2>1, <2>2 DEF SendUnit, TypeOK
    <2>4. nframes' \in 0..MaxFrames
      BY <1>1, MaxFramesAssumption DEF ClientBegin, TypeOK
    <2>5. short' \in BOOLEAN
      BY <2>1, Zenon DEF SendUnit
    <2> QED BY <1>1, <2>1, <2>3, <2>4, <2>5 DEF ClientBegin, TypeOK
  <1>2. CASE ClientSend
    <2>1. cunits' \in Seq(Units) /\ inq' \in Seq(Units) /\ nq' \in Nat
      BY <1>2 DEF ClientSend, SendUnit, TypeOK
    <2>2. short' \in BOOLEAN
      BY <1>2, Zenon DEF ClientSend, SendUnit
    <2> QED BY <1>2, <2>1, <2>2 DEF ClientSend, TypeOK
  <1>3. CASE ClientShut
    BY <1>3 DEF ClientShut, TypeOK
  <1>4. CASE ClientClose
    BY <1>4 DEF ClientClose, TypeOK
  <1>5. CASE ClientRecv
    <2>1. rcvd' \in Seq(ChunkSet) /\ outq' \in Seq(ChunkSet) /\ Len(outq') <= SockCap
      BY <1>5, SockCapAssumption DEF ClientRecv, TypeOK
    <2> QED BY <1>5, <2>1 DEF ClientRecv, TypeOK
  <1>6. CASE Reset
    BY <1>6, SockCapAssumption DEF Reset, TypeOK
  <1>7. CASE ReadType
    <2>1. inq' \in Seq(Units) /\ Head(inq) \in Units
      BY <1>7, HeadTailProperties DEF ReadType, TypeOK
    <2>2. msgtype' \in Vals
      BY <1>7, <2>1 DEF ReadType, Units
    <2> QED BY <1>7, <2>1, <2>2 DEF ReadType, TypeOK, Pcs, ReadPcs, LenPcs
  <1>8. CASE ReadLen
    <2>1. inq' \in Seq(Units)
      BY <1>8 DEF ReadLen, TypeOK
    <2>2. Empty \in Bodies /\ Garbage \in Bodies
      BY DEF Empty, Garbage, Bodies, Vals, Lens
    <2>3. /\ pc' \in Pcs /\ inmsgbuf' \in Bodies
          /\ wbuf' \in {wbuf, <<>>} /\ msg' \in {msg, <<>>}
          /\ UNCHANGED <<outq, emitted, lossy>>
      BY <1>8, <2>2 DEF ReadLen, Panic, TypeOK, Pcs, ReadPcs, LenPcs, BodyPcs, EndPcs
    <2>4. wbuf' \in Seq(ChunkSet) /\ Len(wbuf') <= BufCap /\ msg' \in Seq(ChunkSet)
      BY <2>3, EmptyFits, Zenon DEF TypeOK
    <2> QED BY <1>8, <2>1, <2>3, <2>4 DEF ReadLen, TypeOK
  <1>9. CASE ReadContent
    <2>1. inq' \in Seq(Units) /\ Head(inq) \in Units
      BY <1>9, HeadTailProperties DEF ReadContent, TypeOK
    <2>2. inmsgbuf' \in Bodies
      BY <1>9, <2>1 DEF ReadContent, Units, Bodies
    <2> QED BY <1>9, <2>1, <2>2 DEF ReadContent, TypeOK, Pcs
  <1>10. CASE ReadEof \/ ReadError
    <2>1. ReadErrCode \in ErrCodes
      BY DEF ReadErrCode, ErrCodes
    <2>2. Fail(ReadErrCode)
      BY <1>10 DEF ReadEof, ReadError
    <2>3. pc' \in Pcs /\ msg' \in Seq(ChunkSet) /\ emitted' \in Seq(ChunkSet)
      BY <2>1, <2>2, FailTyped DEF Pcs, WritePcs
    <2> QED BY <1>10, <2>3 DEF ReadEof, ReadError, TypeOK
  <1>11. CASE StartupDispatch
    <2>1. /\ pc' \in Pcs /\ ssl' \in BOOLEAN
          /\ msg' \in Seq(ChunkSet) /\ emitted' \in Seq(ChunkSet)
          /\ wbuf' \in {wbuf, <<>>} /\ UNCHANGED <<outq, lossy>>
      <3>1. CASE IsCancel
        <4>1. Panic /\ UNCHANGED <<ssl, outq, emitted, lossy>>
          BY <1>11, <3>1 DEF StartupDispatch, IsCancel, IsStartup
        <4> QED BY <4>1 DEF Panic, Pcs, EndPcs, TypeOK
      <3>2. CASE inmsgbuf.form = "SSL" /\ ~ssl
        <4>1. Emit(NoSSL, 1) /\ pc' = "nossl" /\ ssl' = TRUE /\ UNCHANGED <<wbuf, outq, lossy>>
          BY <1>11, <3>2 DEF StartupDispatch, IsCancel, IsStartup
        <4> QED BY <4>1, EmitTyped, MessagesTyped DEF Pcs, WritePcs
      <3>3. CASE IsStartup
        <4>1. Emit(AuthOk, SmallSize) /\ pc' = "auth" /\ UNCHANGED <<ssl, wbuf, outq, lossy>>
          BY <1>11, <3>3 DEF StartupDispatch, IsCancel, IsStartup
        <4> QED BY <4>1, EmitTyped, MessagesTyped DEF Pcs, WritePcs, SmallSize, TypeOK
      <3>4. CASE /\ ~IsCancel
                 /\ ~(inmsgbuf.form = "SSL" /\ ~ssl)
                 /\ ~IsStartup
        <4>1. Fail("08P01") /\ UNCHANGED <<ssl, wbuf, outq, lossy>>
          BY <1>11, <3>4 DEF StartupDispatch, IsCancel, IsStartup
        <4> QED BY <4>1, FailTyped DEF Pcs, WritePcs, ErrCodes, TypeOK
      <3> QED BY <3>1, <3>2, <3>3, <3>4
    <2>2. wbuf' \in Seq(ChunkSet) /\ Len(wbuf') <= BufCap
      BY <2>1, EmptyFits, Zenon DEF TypeOK
    <2> QED BY <1>11, <2>1, <2>2 DEF StartupDispatch, IsCancel, IsStartup, TypeOK
  <1>12. CASE ReportGuc
    <2>1. PICK g \in unreported : unreported' = unreported \ {g} /\ Emit(ParamStatus(g), SmallSize)
      BY <1>12 DEF ReportGuc
    <2>2. msg' \in Seq(ChunkSet) /\ emitted' \in Seq(ChunkSet)
      BY <2>1, EmitTyped, MessagesTyped DEF SmallSize, TypeOK
    <2> QED BY <1>12, <2>1, <2>2 DEF ReportGuc, TypeOK, Pcs, WritePcs
  <1>13. CASE SendKeyData
    <2>1. msg' \in Seq(ChunkSet) /\ emitted' \in Seq(ChunkSet)
      BY <1>13, EmitTyped, MessagesTyped DEF SendKeyData, SmallSize
    <2> QED BY <1>13, <2>1 DEF SendKeyData, TypeOK, Pcs, WritePcs
  <1>14. CASE SendReady
    <2>1. msg' \in Seq(ChunkSet) /\ emitted' \in Seq(ChunkSet)
      BY <1>14, EmitTyped, MessagesTyped DEF SendReady, SmallSize
    <2> QED BY <1>14, <2>1 DEF SendReady, TypeOK, Pcs, WritePcs
  <1>15. CASE Dispatch
    <2>1. /\ pc' \in Pcs /\ msg' \in Seq(ChunkSet) /\ emitted' \in Seq(ChunkSet)
          /\ UNCHANGED <<wbuf, outq, lossy>>
      <3>1. CASE msgtype \in {"EOF", "X"}
        BY <1>15, <3>1 DEF Dispatch, Pcs, FlushPcs, TypeOK
      <3>2. CASE msgtype = "Q" /\ inmsgbuf.form = "Query"
        <4>1. /\ Emit(CmdComplete(inmsgbuf.id), SmallSize)
              /\ pc' = "complete" /\ UNCHANGED <<wbuf, outq, lossy>>
          BY <1>15, <3>2 DEF Dispatch
        <4>2. CmdComplete(inmsgbuf.id) \in MsgSet
          BY MessagesTyped DEF TypeOK, Bodies
        <4> QED BY <4>1, <4>2, EmitTyped DEF Pcs, WritePcs, SmallSize
      <3>3. CASE msgtype \notin {"EOF", "X"} /\ ~(msgtype = "Q" /\ inmsgbuf.form = "Query")
        <4>1. Fail("08P01") /\ UNCHANGED <<wbuf, outq, lossy>>
          BY <1>15, <3>3 DEF Dispatch
        <4> QED BY <4>1, FailTyped DEF Pcs, WritePcs, ErrCodes
      <3> QED BY <3>1, <3>2, <3>3
    <2> QED BY <1>15, <2>1 DEF Dispatch, TypeOK
  <1>16. CASE BufferMsg
    <2>1. wbuf' \in Seq(ChunkSet) /\ Len(wbuf') = Len(wbuf) + Len(msg)
      BY <1>16, ConcatProperties DEF BufferMsg, TypeOK
    <2>2. Len(wbuf') <= BufCap
      BY <1>16, <2>1, BufCapAssumption DEF BufferMsg, MustFlush, Direct, TypeOK
    <2> QED BY <1>16, <2>1, <2>2 DEF BufferMsg, TypeOK
  <1>17. CASE FlushForMsg \/ FlushSome
    <2>1. SockWrite(wbuf, wbuf')
      BY <1>17 DEF FlushForMsg, FlushSome
    <2>2. /\ outq' \in Seq(ChunkSet) /\ Len(outq') <= SockCap
          /\ wbuf' \in Seq(ChunkSet) /\ Len(wbuf') < Len(wbuf)
      BY <2>1, SockWriteTyped DEF TypeOK
    <2>3. Len(wbuf') <= BufCap
      BY <2>2, BufCapAssumption DEF TypeOK
    <2> QED BY <1>17, <2>2, <2>3 DEF FlushForMsg, FlushSome, TypeOK
  <1>18. CASE DirectWrite
    <2>1. SockWrite(msg, msg')
      BY <1>18 DEF DirectWrite
    <2>2. outq' \in Seq(ChunkSet) /\ Len(outq') <= SockCap /\ msg' \in Seq(ChunkSet)
      BY <2>1, SockWriteTyped DEF TypeOK
    <2> QED BY <1>18, <2>2 DEF DirectWrite, TypeOK
  <1>19. CASE WriteFail
    BY <1>19 DEF WriteFail, TypeOK
  <1>20. CASE BeginFlush
    BY <1>20 DEF BeginFlush, TypeOK, Pcs, FlushPcs
  <1>21. CASE FlushDone
    BY <1>21, BufCapAssumption
    DEF FlushDone, Close, TypeOK, Pcs, FlushPcs, ReadPcs, LenPcs, EndPcs
  <1>22. CASE FlushFail
    <2>1. CASE pc \in {"ssl_flush", "ready_flush"}
      <3>1. Fail("XX000") /\ UNCHANGED <<wbuf, lossy>>
        BY <1>22, <2>1 DEF FlushFail
      <3>2. pc' \in Pcs /\ msg' \in Seq(ChunkSet) /\ emitted' \in Seq(ChunkSet)
        BY <3>1, FailTyped DEF Pcs, WritePcs, ErrCodes
      <3> QED BY <1>22, <3>1, <3>2 DEF FlushFail, TypeOK
    <2>2. CASE pc \in {"err_flush", "final_flush"}
      <3>1. /\ pc' \in Pcs /\ lossy' \in BOOLEAN
            /\ wbuf' \in {wbuf, <<>>} /\ UNCHANGED <<msg, emitted>>
        BY <1>22, <2>2 DEF FlushFail, Close, TypeOK, Pcs, FlushPcs, EndPcs
      <3>2. wbuf' \in Seq(ChunkSet) /\ Len(wbuf') <= BufCap
        BY <3>1, EmptyFits, Zenon DEF TypeOK
      <3> QED BY <1>22, <3>1, <3>2 DEF FlushFail, TypeOK
    <2> QED BY <1>22, <2>1, <2>2 DEF FlushFail, FlushPcs
  <1>23. CASE Done \/ UNCHANGED vars
    BY <1>23 DEF Done, vars, TypeOK
  <1> QED
    BY <1>1, <1>2, <1>3, <1>4, <1>5, <1>6, <1>7, <1>8, <1>9, <1>10, <1>11, <1>12,
       <1>13, <1>14, <1>15, <1>16, <1>17, <1>18, <1>19, <1>20, <1>21, <1>22, <1>23
    DEF Next, Server, Progress, Failure, Client

\* Type correctness: in every reachable state the variables have their types,
\* the BufWriter is within SOCK_SEND_BUF_SIZE and the socket within its own.
THEOREM TypeCorrect == Spec => []TypeOK
  BY TypeInit, TypeStep, PTL DEF Spec

-----------------------------------------------------------------------------
(* What is buffered where.                                                 *)

\* Before an error, everything written between two flushes fits the BufWriter:
\* write_all neither flushes nor writes to the socket, and so cannot fail.
LEMMA OnlyErrorsTouchSocket ==
  ASSUME TypeOK, Budget, pc \in WritePcs, MustFlush \/ Direct
  PROVE  pc = "on_error"
  <1> SUFFICES ASSUME pc # "on_error" PROVE FALSE
    OBVIOUS
  <1>1. Len(wbuf) \in Nat /\ Len(msg) \in Nat
    BY LenProperties DEF TypeOK
  <1>2. Cardinality(unreported) \in Nat
    BY ReportedFinite, FS_Subset, FS_CardinalityType DEF TypeOK
  <1>3. Len(wbuf) + Len(msg) <= Burst /\ Len(msg) <= SmallSize
    BY <1>1, <1>2, BurstFits, SMTT(20) DEF Budget, Buffered, WritePcs, Burst, SmallSize
  <1> QED BY <1>1, <1>3, BurstFits DEF MustFlush, Direct, SmallSize

\* The sizes of the messages.
LEMMA Sizes == SmallSize \in Nat \ {0} /\ SmallSize = 2 /\ 1 \in Nat \ {0}
  BY DEF SmallSize

\* Emitting after a return of write_all adds the message's size to the budget.
LEMMA EmitBudget ==
  ASSUME TypeOK, msg = <<>>, NEW m \in MsgSet, NEW n \in Nat \ {0}, Emit(m, n), UNCHANGED wbuf
  PROVE  /\ Buffered \in Nat /\ Buffered' = Buffered + n /\ Len(msg') = n
         /\ Len(wbuf) = Buffered
  <1>1. Len(msg) = 0 /\ Len(wbuf) \in Nat
    BY LenProperties DEF TypeOK
  <1>2. Len(msg') = n
    BY EmitTyped
  <1> QED BY <1>1, <1>2 DEF Buffered

\* Failing leaves the task in on_error with nothing lost.
LEMMA FailControl ==
  ASSUME TypeOK, NEW c \in ErrCodes, Fail(c), ~lossy, UNCHANGED lossy
  PROVE  Control'
  <1>1. pc' = "on_error" /\ ~lossy'
    BY FailTyped
  <1> QED BY <1>1 DEF Control, Idle, WriteDone, Budget, LateLoss, ReadPcs, LenPcs, BodyPcs,
                      EndPcs, FlushPcs

\* Every step keeps the discipline of the buffer.
LEMMA ControlStep == TypeOK /\ Control /\ [Next]_vars => Control'
  <1> SUFFICES ASSUME TypeOK, Control, [Next]_vars PROVE Control'
    OBVIOUS
  <1> USE DEF cliVars, inVars, outVars
  <1>1. ASSUME UNCHANGED <<pc, wbuf, msg, unreported, lossy>> PROVE Control'
    BY <1>1 DEF Control, Idle, WriteDone, Budget, LateLoss, Buffered
  <1>2. CASE Client
    BY <1>1, <1>2 DEF Client, ClientBegin, ClientSend, ClientShut, ClientClose, ClientRecv, SendUnit
  <1>3. CASE Reset
    BY <1>3 DEF Reset, Control, Idle, WriteDone, Budget, LateLoss, Buffered
  <1>4. CASE ReadType \/ ReadLen \/ ReadContent
    <2>1. /\ pc \in ReadPcs /\ pc' \in ReadPcs \cup {"startup_dispatch", "dispatch"} \cup EndPcs
          /\ wbuf' \in {wbuf, <<>>} /\ msg' \in {msg, <<>>} /\ UNCHANGED lossy
      BY <1>4 DEF ReadType, ReadLen, ReadContent, Panic, ReadPcs, LenPcs, BodyPcs, EndPcs
    <2>2. wbuf' = <<>> /\ msg' = <<>>
      BY <2>1 DEF Control, Idle
    <2>3. ~lossy'
      BY <2>1 DEF Control, LateLoss, ReadPcs, LenPcs, BodyPcs, EndPcs
    <2> QED BY <2>1, <2>2, <2>3 DEF Control, Idle, WriteDone, Budget, LateLoss, ReadPcs, LenPcs,
                                    BodyPcs, EndPcs, FlushPcs, WritePcs
  <1>5. CASE ReadEof \/ ReadError
    <2>1. Fail(ReadErrCode) /\ UNCHANGED lossy /\ pc \in ReadPcs
      BY <1>5 DEF ReadEof, ReadError
    <2>2. ~lossy
      BY <2>1 DEF Control, LateLoss, ReadPcs, LenPcs, BodyPcs, EndPcs
    <2>3. ReadErrCode \in ErrCodes
      BY DEF ReadErrCode, ErrCodes
    <2> QED BY <2>1, <2>2, <2>3, FailControl
  <1>6. CASE StartupDispatch
    <2>1. wbuf = <<>> /\ msg = <<>> /\ ~lossy
      BY <1>6 DEF StartupDispatch, IsCancel, IsStartup, Control, Idle, LateLoss, EndPcs
    <2>2. CASE IsCancel
      BY <1>6, <2>1, <2>2 DEF StartupDispatch, IsCancel, IsStartup, Panic, Control, Idle, WriteDone, Budget, LateLoss,
                              EndPcs, FlushPcs, WritePcs
    <2>3. CASE inmsgbuf.form = "SSL" /\ ~ssl
      <3>1. Emit(NoSSL, 1) /\ pc' = "nossl" /\ UNCHANGED <<wbuf, lossy>>
        BY <1>6, <2>3 DEF StartupDispatch, IsCancel, IsStartup
      <3>2. Buffered' = Buffered + 1 /\ Len(msg') = 1 /\ Buffered = 0
        <4>1. Buffered' = Buffered + 1 /\ Len(msg') = 1
          BY <2>1, <3>1, EmitBudget, MessagesTyped, Sizes, Zenon
        <4> QED BY <2>1, <4>1 DEF Buffered
      <3> QED BY <2>1, <3>1, <3>2 DEF Control, Idle, WriteDone, Budget, LateLoss, ReadPcs, LenPcs,
                                      BodyPcs, EndPcs, FlushPcs, SmallSize
    <2>4. CASE IsStartup
      <3>1. Emit(AuthOk, SmallSize) /\ pc' = "auth" /\ UNCHANGED <<wbuf, lossy>>
        BY <1>6, <2>4 DEF StartupDispatch, IsCancel, IsStartup
      <3>2. Buffered' = Buffered + 2 /\ Len(msg') = 2 /\ Buffered = 0
        <4>1. Buffered' = Buffered + SmallSize /\ Len(msg') = SmallSize
          BY <2>1, <3>1, EmitBudget, MessagesTyped, Sizes, Zenon
        <4> QED BY <2>1, <4>1, Sizes DEF Buffered
      <3> QED BY <2>1, <3>1, <3>2 DEF Control, Idle, WriteDone, Budget, LateLoss, ReadPcs, LenPcs,
                                      BodyPcs, EndPcs, FlushPcs, SmallSize
    <2>5. CASE /\ ~IsCancel
               /\ ~(inmsgbuf.form = "SSL" /\ ~ssl)
               /\ ~IsStartup
      <3>1. Fail("08P01") /\ UNCHANGED lossy
        BY <1>6, <2>5 DEF StartupDispatch, IsCancel, IsStartup
      <3> QED BY <2>1, <3>1, FailControl DEF ErrCodes
    <2> QED BY <2>2, <2>3, <2>4, <2>5
  <1>7. CASE ReportGuc
    <2>1. PICK g \in unreported : unreported' = unreported \ {g} /\ Emit(ParamStatus(g), SmallSize)
      BY <1>7 DEF ReportGuc
    <2>2. /\ pc \in {"auth", "gucs"} /\ msg = <<>> /\ pc' = "gucs"
          /\ UNCHANGED <<wbuf, lossy>> /\ ~lossy
      BY <1>7 DEF ReportGuc, Control, LateLoss, EndPcs
    <2>3. Buffered \in Nat /\ Buffered' = Buffered + 2 /\ Len(msg') = 2
      <3>1. ParamStatus(g) \in MsgSet
        BY MessagesTyped DEF TypeOK
      <3>2. Buffered \in Nat /\ Buffered' = Buffered + SmallSize /\ Len(msg') = SmallSize
        BY <2>1, <2>2, <3>1, EmitBudget, Sizes, Zenon
      <3> QED BY <3>2, Sizes
    <2>4. IsFiniteSet(unreported) /\ Cardinality(unreported) <= Cardinality(Reported)
      BY ReportedFinite, FS_Subset DEF TypeOK
    <2>5. Cardinality(unreported) \in Nat /\ Cardinality(unreported') = Cardinality(unreported) - 1
      BY <2>1, <2>4, FS_CardinalityType, FS_RemoveElement
    <2>6. Buffered + 2 * Cardinality(unreported) <= 2 * (Cardinality(Reported) + 1)
      BY <2>2, <2>3, <2>4, <2>5, BurstFits DEF Control, Budget, SmallSize
    <2>7. Buffered' + 2 * Cardinality(unreported') <= 2 * (Cardinality(Reported) + 1)
      BY <2>3, <2>5, <2>6, BurstFits
    <2> QED BY <2>2, <2>3, <2>7 DEF Control, Idle, WriteDone, Budget, LateLoss, ReadPcs, LenPcs,
                                    BodyPcs, EndPcs, FlushPcs, SmallSize
  <1>8. CASE SendKeyData
    <2>1. /\ pc \in {"auth", "gucs"} /\ msg = <<>> /\ pc' = "key" /\ Emit(KeyData, SmallSize)
          /\ UNCHANGED <<wbuf, lossy>> /\ ~lossy
      BY <1>8 DEF SendKeyData, Control, LateLoss, EndPcs
    <2>2. Buffered \in Nat /\ Buffered' = Buffered + 2 /\ Len(msg') = 2
      <3>1. Buffered \in Nat /\ Buffered' = Buffered + SmallSize /\ Len(msg') = SmallSize
        BY <2>1, EmitBudget, MessagesTyped, Sizes, Zenon
      <3> QED BY <3>1, Sizes
    <2>3. Cardinality(unreported) = 0
      BY <1>8, FS_EmptySet DEF SendKeyData
    <2>4. Buffered <= 2 * (Cardinality(Reported) + 1)
      BY <2>1, <2>2, <2>3, BurstFits DEF Control, Budget, SmallSize
    <2>5. Buffered' <= 2 * (Cardinality(Reported) + 2)
      BY <2>2, <2>4, BurstFits
    <2> QED BY <2>1, <2>2, <2>5 DEF Control, Idle, WriteDone, Budget, LateLoss, ReadPcs, LenPcs,
                                    BodyPcs, EndPcs, FlushPcs, SmallSize
  <1>9. CASE SendReady
    <2>1. /\ pc \in {"key", "complete"} /\ msg = <<>> /\ pc' = "ready"
          /\ Emit(ReadyForQuery, SmallSize) /\ UNCHANGED <<wbuf, lossy>> /\ ~lossy
      BY <1>9 DEF SendReady, Control, LateLoss, EndPcs
    <2>2. Buffered \in Nat /\ Buffered' = Buffered + 2 /\ Len(msg') = 2
      <3>1. Buffered \in Nat /\ Buffered' = Buffered + SmallSize /\ Len(msg') = SmallSize
        BY <2>1, EmitBudget, MessagesTyped, Sizes, Zenon
      <3> QED BY <3>1, Sizes
    <2>3. Buffered <= 2 * (Cardinality(Reported) + 2)
      BY <2>1, <2>2, BurstFits DEF Control, Budget, SmallSize
    <2>4. Buffered' <= Burst
      BY <2>2, <2>3, BurstFits DEF Burst, SmallSize
    <2> QED BY <2>1, <2>2, <2>4 DEF Control, Idle, WriteDone, Budget, LateLoss, ReadPcs, LenPcs,
                                    BodyPcs, EndPcs, FlushPcs, SmallSize
  <1>10. CASE Dispatch
    <2>1. wbuf = <<>> /\ msg = <<>> /\ ~lossy
      BY <1>10 DEF Dispatch, Control, Idle, LateLoss, EndPcs
    <2>2. CASE msgtype \in {"EOF", "X"}
      BY <1>10, <2>1, <2>2 DEF Dispatch, Control, Idle, WriteDone, Budget, LateLoss, ReadPcs,
                               LenPcs, BodyPcs, EndPcs, FlushPcs, WritePcs
    <2>3. CASE msgtype = "Q" /\ inmsgbuf.form = "Query"
      <3>1. /\ Emit(CmdComplete(inmsgbuf.id), SmallSize)
            /\ pc' = "complete" /\ UNCHANGED <<wbuf, lossy>>
        BY <1>10, <2>3 DEF Dispatch
      <3>2. CmdComplete(inmsgbuf.id) \in MsgSet
        BY MessagesTyped DEF TypeOK, Bodies
      <3>3. Buffered' = Buffered + 2 /\ Len(msg') = 2 /\ Buffered = 0
        <4>1. Buffered' = Buffered + SmallSize /\ Len(msg') = SmallSize
          BY <2>1, <3>1, <3>2, EmitBudget, Sizes, Zenon
        <4> QED BY <2>1, <4>1, Sizes DEF Buffered
      <3> QED BY <2>1, <3>1, <3>3 DEF Control, Idle, WriteDone, Budget, LateLoss, ReadPcs, LenPcs,
                                      BodyPcs, EndPcs, FlushPcs, SmallSize
    <2>4. CASE msgtype \notin {"EOF", "X"} /\ ~(msgtype = "Q" /\ inmsgbuf.form = "Query")
      <3>1. Fail("08P01") /\ UNCHANGED lossy
        BY <1>10, <2>4 DEF Dispatch
      <3> QED BY <2>1, <3>1, FailControl DEF ErrCodes
    <2> QED BY <2>2, <2>3, <2>4
  <1>11. CASE BufferMsg
    <2>1. Len(wbuf') = Len(wbuf) + Len(msg) /\ Len(msg') = 0
      BY <1>11, ConcatProperties DEF BufferMsg, TypeOK
    <2>2. Len(wbuf) \in Nat /\ Len(msg) \in Nat
      BY LenProperties DEF TypeOK
    <2>3. Buffered' = Buffered
      BY <2>1, <2>2 DEF Buffered
    <2>4. pc \in WritePcs /\ UNCHANGED <<pc, unreported, lossy>> /\ msg' = <<>>
      BY <1>11 DEF BufferMsg
    <2> QED BY <2>1, <2>3, <2>4 DEF Control, Idle, WriteDone, Budget, LateLoss, ReadPcs, LenPcs,
                                    BodyPcs, EndPcs, FlushPcs, WritePcs, SmallSize
  <1>12. CASE FlushForMsg \/ DirectWrite \/ WriteFail
    <2>1. pc = "on_error" /\ pc' = "on_error"
      BY <1>12, OnlyErrorsTouchSocket DEF FlushForMsg, DirectWrite, WriteFail, Control
    <2>2. lossy' => msg' = <<>>
      <3>1. CASE WriteFail
        BY <3>1 DEF WriteFail
      <3>2. CASE FlushForMsg \/ DirectWrite
        <4>1. msg # <<>> /\ lossy' = lossy
          BY <3>2 DEF FlushForMsg, DirectWrite, MustFlush, Direct
        <4> QED BY <4>1 DEF Control, LateLoss
      <3> QED BY <1>12, <3>1, <3>2
    <2> QED BY <2>1, <2>2 DEF Control, Idle, WriteDone, Budget, LateLoss, ReadPcs, LenPcs,
                              BodyPcs, EndPcs, FlushPcs
  <1>13. CASE BeginFlush
    BY <1>13 DEF BeginFlush, Control, Idle, WriteDone, Budget, LateLoss, ReadPcs, LenPcs,
                 BodyPcs, EndPcs, FlushPcs, WritePcs
  <1>14. CASE FlushSome
    BY <1>14 DEF FlushSome, Control, Idle, WriteDone, Budget, LateLoss, ReadPcs, LenPcs,
                 BodyPcs, EndPcs, FlushPcs, WritePcs
  <1>15. CASE FlushDone
    BY <1>15 DEF FlushDone, Close, Control, Idle, WriteDone, Budget, LateLoss, ReadPcs, LenPcs,
                 BodyPcs, EndPcs, FlushPcs, WritePcs
  <1>16. CASE FlushFail
    <2>1. CASE pc \in {"ssl_flush", "ready_flush"}
      <3>1. Fail("XX000") /\ UNCHANGED lossy
        BY <1>16, <2>1 DEF FlushFail
      <3>2. ~lossy
        BY <2>1 DEF Control, LateLoss, EndPcs
      <3> QED BY <3>1, <3>2, FailControl DEF ErrCodes
    <2>2. CASE pc \in {"err_flush", "final_flush"}
      BY <1>16, <2>2 DEF FlushFail, Close, Control, Idle, WriteDone, Budget, LateLoss, ReadPcs,
                         LenPcs, BodyPcs, EndPcs, FlushPcs, WritePcs
    <2> QED BY <1>16, <2>1, <2>2 DEF FlushFail, FlushPcs
  <1>17. CASE Done \/ UNCHANGED vars
    BY <1>1, <1>17 DEF Done, vars
  <1> QED
    BY <1>2, <1>3, <1>4, <1>5, <1>6, <1>7, <1>8, <1>9, <1>10, <1>11, <1>12, <1>13, <1>14,
       <1>15, <1>16, <1>17
    DEF Next, Server, Progress, Failure

-----------------------------------------------------------------------------
(* The error is the last message.                                          *)

\* Every step keeps the error, once written, the last message.
LEMMA ErrorStep == TypeOK /\ ErrorLast /\ [Next]_vars => ErrorLast'
  <1> SUFFICES ASSUME TypeOK, ErrorLast, [Next]_vars PROVE ErrorLast'
    OBVIOUS
  <1> USE DEF cliVars, inVars, outVars
  <1>1. ASSUME UNCHANGED <<pc, emitted, msgtype>> PROVE ErrorLast'
    BY <1>1 DEF ErrorLast
  <1>2. ASSUME pc' \notin {"on_error", "err_flush", "final_flush", "closed"} PROVE ErrorLast'
    BY <1>2 DEF ErrorLast
  <1>3. ASSUME NEW c \in ErrCodes, Fail(c) PROVE ErrorLast'
    BY <1>3, FailTyped DEF ErrorLast
  <1>4. CASE Client \/ Reset \/ BufferMsg \/ FlushForMsg \/ DirectWrite \/ WriteFail \/ FlushSome
               \/ Done \/ UNCHANGED vars
    BY <1>1, <1>4
    DEF Client, ClientBegin, ClientSend, ClientShut, ClientClose, ClientRecv, Reset, BufferMsg,
        FlushForMsg, DirectWrite, WriteFail, FlushSome, Done, vars
  <1>5. CASE ReadType \/ ReadLen \/ ReadContent \/ ReportGuc \/ SendKeyData \/ SendReady
    BY <1>2, <1>5 DEF ReadType, ReadLen, ReadContent, ReportGuc, SendKeyData, SendReady, Panic
  <1>6. CASE ReadEof \/ ReadError
    <2>1. Fail(ReadErrCode) /\ ReadErrCode \in ErrCodes
      BY <1>6 DEF ReadEof, ReadError, ReadErrCode, ErrCodes
    <2> QED BY <1>3, <2>1
  <1>7. CASE StartupDispatch
    <2>1. Fail("08P01") \/ pc' \in {"panicked", "nossl", "auth"}
      BY <1>7 DEF StartupDispatch, IsCancel, IsStartup, Panic
    <2> QED BY <1>2, <1>3, <2>1 DEF ErrCodes
  <1>8. CASE Dispatch
    <2>1. \/ Fail("08P01") \/ pc' = "complete"
          \/ pc' = "final_flush" /\ msgtype' \in {"X", "EOF"}
      BY <1>8 DEF Dispatch
    <2> QED BY <1>2, <1>3, <2>1 DEF ErrCodes, ErrorLast
  <1>9. CASE BeginFlush
    BY <1>9 DEF BeginFlush, ErrorLast
  <1>10. CASE FlushDone
    BY <1>10 DEF FlushDone, Close, ErrorLast
  <1>11. CASE FlushFail
    <2>1. CASE pc \in {"ssl_flush", "ready_flush"}
      BY <1>3, <1>11, <2>1 DEF FlushFail, ErrCodes
    <2>2. CASE pc \in {"err_flush", "final_flush"}
      BY <1>11, <2>2 DEF FlushFail, Close, ErrorLast
    <2> QED BY <1>11, <2>1, <2>2 DEF FlushFail, FlushPcs
  <1> QED
    BY <1>4, <1>5, <1>6, <1>7, <1>8, <1>9, <1>10, <1>11 DEF Next, Server, Progress, Failure

\* No task dies of anything else than the two panics of its code.
LEMMA PanicStep == TypeOK /\ Panics /\ [Next]_vars => Panics'
  <1> SUFFICES ASSUME TypeOK, Panics, [Next]_vars PROVE Panics'
    OBVIOUS
  <1> USE DEF cliVars, inVars, outVars
  <1>1. ASSUME UNCHANGED <<inq, short, pc, ssl, inmsgbuf>> PROVE Panics'
    BY <1>1 DEF Panics, IsCancel
  <1>2. ASSUME UNCHANGED <<inq, short>>, pc' # "panicked" PROVE Panics'
    BY <1>2 DEF Panics
  <1>3. ASSUME NEW c \in ErrCodes, Fail(c), UNCHANGED <<inq, short>> PROVE Panics'
    BY <1>2, <1>3 DEF Fail
  <1>4. CASE ClientBegin \/ ClientSend
    <2>1. PICK f : SendUnit(f) /\ f \in Seq(Units) /\ f # <<>>
      <3>1. CASE ClientBegin
        BY <3>1, FramesTyped DEF ClientBegin, TypeOK
      <3>2. CASE ClientSend
        BY <3>2 DEF ClientSend, TypeOK
      <3> QED BY <1>4, <3>1, <3>2
    <2>2. /\ inq \in Seq(Units) /\ inq' = Append(inq, Head(f)) /\ Head(f) \in Units
          /\ short' = (short \/ Head(f).val = "short") /\ short \in BOOLEAN
      BY <2>1, HeadTailProperties DEF SendUnit, TypeOK
    <2>3. short => short'
      BY <2>2, Zenon
    <2>4. ASSUME NEW i \in DOMAIN inq', inq'[i].val = "short" PROVE short'
      <3>1. CASE i \in DOMAIN inq
        <4>1. inq'[i] = inq[i]
          BY <2>2, <3>1
        <4> QED BY <2>3, <2>4, <3>1, <4>1 DEF Panics
      <3>2. CASE i \notin DOMAIN inq
        <4>1. inq'[i] = Head(f)
          BY <2>2, <2>4, <3>2
        <4> QED BY <2>2, <2>4, <4>1, Zenon
      <3> QED BY <3>1, <3>2
    <2>5. UNCHANGED <<pc, ssl, inmsgbuf>>
      BY <1>4 DEF ClientBegin, ClientSend
    <2>6. (pc = "panicked" => IsCancel \/ short)'
      BY <2>3, <2>5 DEF Panics, IsCancel
    <2> QED BY <2>4, <2>6 DEF Panics
  <1>5. CASE ReadType \/ ReadLen \/ ReadContent
    <2>1. /\ inq \in Seq(Units) /\ inq # <<>> /\ inq' = Tail(inq) /\ UNCHANGED short
          /\ pc' = "panicked" => Head(inq).val = "short"
      BY <1>5 DEF ReadType, ReadLen, ReadContent, TypeOK
    <2>2. ASSUME NEW i \in DOMAIN inq' PROVE i + 1 \in DOMAIN inq /\ inq'[i] = inq[i + 1]
      BY <2>1, <2>2
    <2>3. 1 \in DOMAIN inq /\ Head(inq) = inq[1]
      BY <2>1
    <2>4. ASSUME NEW i \in DOMAIN inq', inq'[i].val = "short" PROVE short'
      BY <2>1, <2>2, <2>4 DEF Panics
    <2>5. pc' = "panicked" => short'
      BY <2>1, <2>3 DEF Panics
    <2> QED BY <2>4, <2>5 DEF Panics
  <1>6. CASE ReadEof \/ ReadError
    <2>1. Fail(ReadErrCode) /\ ReadErrCode \in ErrCodes /\ UNCHANGED <<inq, short>>
      BY <1>6 DEF ReadEof, ReadError, ReadErrCode, ErrCodes
    <2> QED BY <1>3, <2>1
  <1>7. CASE StartupDispatch
    <2>1. UNCHANGED <<inq, short, inmsgbuf>>
      BY <1>7 DEF StartupDispatch
    <2>2. CASE IsCancel
      <3>1. UNCHANGED ssl
        BY <1>7, <2>2 DEF StartupDispatch, IsCancel, IsStartup
      <3> QED BY <2>1, <2>2, <3>1 DEF Panics, IsCancel
    <2>3. CASE ~IsCancel
      <3>1. pc' # "panicked"
        BY <1>7, <2>3 DEF StartupDispatch, Fail
      <3> QED BY <1>2, <2>1, <3>1
    <2> QED BY <2>2, <2>3
  <1>8. CASE \/ ReportGuc \/ SendKeyData \/ SendReady \/ Dispatch \/ BeginFlush \/ FlushDone
             \/ FlushFail
    <2>1. UNCHANGED <<inq, short>> /\ pc' # "panicked"
      BY <1>8 DEF ReportGuc, SendKeyData, SendReady, Dispatch, BeginFlush, FlushDone, FlushFail,
                  Fail, Close
    <2> QED BY <1>2, <2>1
  <1>9. CASE \/ ClientShut \/ ClientClose \/ ClientRecv \/ Reset \/ BufferMsg \/ FlushForMsg
             \/ DirectWrite \/ WriteFail \/ FlushSome \/ Done \/ UNCHANGED vars
    BY <1>1, <1>9
    DEF ClientShut, ClientClose, ClientRecv, Reset, BufferMsg, FlushForMsg, DirectWrite,
        WriteFail, FlushSome, Done, vars
  <1> QED
    BY <1>4, <1>5, <1>6, <1>7, <1>8, <1>9 DEF Next, Server, Progress, Failure, Client

-----------------------------------------------------------------------------
(* The stream.                                                             *)

\* What is on its way is a sequence of chunks.
LEMMA PipelineTyped ==
  ASSUME TypeOK
  PROVE  Pipeline \in Seq(ChunkSet) /\ rcvd \o outq \in Seq(ChunkSet)
           /\ rcvd \o outq \o wbuf \in Seq(ChunkSet)
  <1>1. rcvd \o outq \in Seq(ChunkSet)
    BY ConcatProperties DEF TypeOK
  <1>2. rcvd \o outq \o wbuf \in Seq(ChunkSet)
    BY <1>1, ConcatProperties DEF TypeOK
  <1>3. Pipeline \in Seq(ChunkSet)
    BY <1>2, ConcatProperties DEF TypeOK, Pipeline
  <1> QED BY <1>1, <1>2, <1>3

\* A message emitted when write_all has returned joins the end of the pipeline.
LEMMA EmitStream ==
  ASSUME TypeOK, Stream, ~lossy, ~lossy', msg = <<>>,
         NEW m \in MsgSet, NEW n \in Nat \ {0}, Emit(m, n), UNCHANGED <<rcvd, outq, wbuf>>
  PROVE  Stream'
  <1> DEFINE P == rcvd \o outq \o wbuf
             C == Chunks(m, n)
  <1>1. P \in Seq(ChunkSet) /\ C \in Seq(ChunkSet) /\ P \o C \in Seq(ChunkSet)
    BY PipelineTyped, ChunksTyped, ConcatProperties
  <1>2. emitted = P
    <2>1. P \o <<>> = P
      BY <1>1, ConcatEmptySeq
    <2> QED BY <2>1 DEF Stream, Pipeline
  <1>3. Pipeline' = P \o C /\ emitted' = P \o C
    BY <1>2 DEF Emit, Pipeline
  <1>4. emitted' = Pipeline' \o <<>>
    BY <1>1, <1>3, ConcatEmptySeq
  <1>5. <<>> \in Seq(ChunkSet)
    OBVIOUS
  <1> QED BY <1>3, <1>4, <1>5, Zenon DEF Stream

\* So does the ErrorResponse.
LEMMA FailStream ==
  ASSUME TypeOK, Stream, ~lossy, ~lossy', msg = <<>>,
         NEW c \in ErrCodes, Fail(c), UNCHANGED <<rcvd, outq, wbuf>>
  PROVE  Stream'
  <1>1. PICK n \in Nat \ {0} : Emit(ErrorResponse(c), n)
    BY FailTyped
  <1> QED BY <1>1, EmitStream, MessagesTyped, Zenon

\* Giving up the end of the pipeline leaves a prefix of what was written.
LEMMA LoseStream ==
  ASSUME TypeOK, Stream, lossy', UNCHANGED emitted,
         Pipeline' \in Seq(ChunkSet), NEW u \in Seq(ChunkSet), Pipeline = Pipeline' \o u
  PROVE  Stream'
  <1>1. PICK r \in Seq(ChunkSet) : emitted = Pipeline \o r
    BY DEF Stream
  <1>2. emitted' = Pipeline' \o (u \o r) /\ u \o r \in Seq(ChunkSet)
    BY <1>1, ConcatAssociative, ConcatProperties
  <1> QED BY <1>2, Zenon DEF Stream

\* Moving does not lose.
LEMMA MoveStream ==
  ASSUME Stream, UNCHANGED <<lossy, emitted, Pipeline>>
  PROVE  Stream'
  BY DEF Stream

\* Every step moves chunks along the pipeline, adds a message at its end when
\* nothing was lost, or gives up its end.
LEMMA StreamStep == TypeOK /\ Control /\ Stream /\ [Next]_vars => Stream'
  <1> SUFFICES ASSUME TypeOK, Control, Stream, [Next]_vars PROVE Stream'
    OBVIOUS
  <1> USE DEF cliVars, inVars, outVars
  <1>0. TypeOK'
    BY TypeStep
  <1>1. ASSUME UNCHANGED <<lossy, emitted, rcvd, outq, wbuf, msg>> PROVE Stream'
    BY <1>1, MoveStream DEF Pipeline
  <1>2. CASE ClientBegin \/ ClientSend \/ ClientShut \/ ClientClose \/ ReadType \/ ReadContent
               \/ BeginFlush \/ Done \/ UNCHANGED vars
    BY <1>1, <1>2 DEF ClientBegin, ClientSend, ClientShut, ClientClose, ReadType, ReadContent,
                      BeginFlush, Done, vars
  <1>3. CASE ClientRecv
    <2>1. outq \in Seq(ChunkSet) /\ rcvd \in Seq(ChunkSet) /\ outq # <<>>
      BY <1>3 DEF ClientRecv, TypeOK
    <2>2. Head(outq) \in ChunkSet /\ Tail(outq) \in Seq(ChunkSet) /\ <<Head(outq)>> \in Seq(ChunkSet)
      BY <2>1
    <2>3. outq = <<Head(outq)>> \o Tail(outq)
      <3>1. Len(outq) \in Nat \ {0} /\ 1 \in 1..Len(outq)
        BY <2>1, EmptySeq
      <3>2. SubSeq(outq, 1, Len(outq)) = <<outq[1]>> \o SubSeq(outq, 2, Len(outq))
        BY <2>1, <3>1, SubSeqRecursiveFirst
      <3> QED BY <2>1, <3>2, SubSeqFull, TailIsSubSeq
    <2>4. rcvd' = rcvd \o <<Head(outq)>> /\ outq' = Tail(outq)
      BY <1>3, <2>1, <2>2, AppendIsConcat DEF ClientRecv
    <2>5. rcvd' \o outq' = rcvd \o outq
      BY <2>1, <2>2, <2>3, <2>4, ConcatAssociative
    <2> QED BY <1>3, <2>5, MoveStream DEF ClientRecv, Pipeline
  <1>4. CASE Reset
    <2>1. /\ lossy' /\ UNCHANGED <<emitted, rcvd, wbuf, msg>> /\ outq' = <<>>
          /\ wbuf = <<>> /\ msg = <<>>
      BY <1>4 DEF Reset, Control, Idle
    <2>2. Pipeline = rcvd \o outq /\ Pipeline' = rcvd
      BY <2>1, PipelineTyped, ConcatEmptySeq DEF Pipeline, TypeOK
    <2> QED BY <2>1, <2>2, LoseStream DEF TypeOK
  <1>5. CASE ReadLen
    <2>1. UNCHANGED <<lossy, emitted, rcvd, outq>> /\ pc \in ReadPcs
            /\ wbuf' \in {wbuf, <<>>} /\ msg' \in {msg, <<>>}
      BY <1>5 DEF ReadLen, Panic, ReadPcs
    <2>2. UNCHANGED <<wbuf, msg>>
      BY <2>1 DEF Control, Idle
    <2> QED BY <1>1, <2>1, <2>2
  <1>6. CASE ReadEof \/ ReadError
    <2>1. /\ Fail(ReadErrCode) /\ ReadErrCode \in ErrCodes /\ UNCHANGED <<rcvd, outq, wbuf>>
          /\ pc \in ReadPcs /\ lossy' = lossy
      BY <1>6 DEF ReadEof, ReadError, ReadErrCode, ErrCodes
    <2>2. msg = <<>> /\ ~lossy
      BY <2>1 DEF Control, Idle, LateLoss, ReadPcs, LenPcs, BodyPcs, EndPcs
    <2> QED BY <2>1, <2>2, FailStream
  <1>7. CASE StartupDispatch
    <2>1. wbuf = <<>> /\ msg = <<>> /\ ~lossy /\ lossy' = lossy /\ UNCHANGED <<rcvd, outq>>
      BY <1>7 DEF StartupDispatch, IsCancel, IsStartup, Control, Idle, LateLoss, EndPcs
    <2>2. \/ Panic /\ UNCHANGED emitted
          \/ Emit(NoSSL, 1) /\ UNCHANGED wbuf
          \/ Emit(AuthOk, SmallSize) /\ UNCHANGED wbuf
          \/ Fail("08P01") /\ UNCHANGED wbuf
      BY <1>7 DEF StartupDispatch, IsCancel, IsStartup
    <2>3. CASE Panic /\ UNCHANGED emitted
      BY <1>1, <2>1, <2>3 DEF Panic
    <2>4. CASE Emit(NoSSL, 1) /\ UNCHANGED wbuf
      BY <2>1, <2>4, EmitStream, MessagesTyped, Sizes, Zenon
    <2>5. CASE Emit(AuthOk, SmallSize) /\ UNCHANGED wbuf
      BY <2>1, <2>5, EmitStream, MessagesTyped, Sizes, Zenon
    <2>6. CASE Fail("08P01") /\ UNCHANGED wbuf
      BY <2>1, <2>6, FailStream DEF ErrCodes
    <2> QED BY <2>2, <2>3, <2>4, <2>5, <2>6
  <1>8. CASE ReportGuc \/ SendKeyData \/ SendReady
    <2>1. msg = <<>> /\ ~lossy /\ lossy' = lossy /\ UNCHANGED <<rcvd, outq, wbuf>>
      BY <1>8 DEF ReportGuc, SendKeyData, SendReady, Control, LateLoss, EndPcs
    <2>2. \E m \in MsgSet : Emit(m, SmallSize)
      BY <1>8, MessagesTyped DEF ReportGuc, SendKeyData, SendReady, TypeOK
    <2> QED BY <2>1, <2>2, EmitStream, Sizes, Zenon
  <1>9. CASE Dispatch
    <2>1. msg = <<>> /\ ~lossy /\ lossy' = lossy /\ UNCHANGED <<rcvd, outq, wbuf>>
      BY <1>9 DEF Dispatch, Control, Idle, LateLoss, EndPcs
    <2>2. \/ UNCHANGED <<msg, emitted>>
          \/ Emit(CmdComplete(inmsgbuf.id), SmallSize)
          \/ Fail("08P01")
      BY <1>9 DEF Dispatch
    <2>3. CmdComplete(inmsgbuf.id) \in MsgSet
      BY MessagesTyped DEF TypeOK, Bodies
    <2>4. CASE UNCHANGED <<msg, emitted>>
      BY <1>1, <2>1, <2>4
    <2>5. CASE Emit(CmdComplete(inmsgbuf.id), SmallSize)
      BY <2>1, <2>3, <2>5, EmitStream, Sizes, Zenon
    <2>6. CASE Fail("08P01")
      BY <2>1, <2>6, FailStream DEF ErrCodes
    <2> QED BY <2>2, <2>4, <2>5, <2>6
  <1>10. CASE BufferMsg
    <2> DEFINE A == rcvd \o outq
    <2>1. A \in Seq(ChunkSet) /\ A \o wbuf \in Seq(ChunkSet) /\ A \o wbuf \o msg \in Seq(ChunkSet)
            /\ wbuf \in Seq(ChunkSet) /\ msg \in Seq(ChunkSet)
      BY PipelineTyped DEF TypeOK, Pipeline
    <2>2. UNCHANGED <<lossy, emitted, rcvd, outq>> /\ wbuf' = wbuf \o msg /\ msg' = <<>>
      BY <1>10 DEF BufferMsg
    <2>3. A \o wbuf \o msg = A \o (wbuf \o msg)
      BY <2>1, ConcatAssociative, SMTT(30)
    <2>4. Pipeline' = A \o (wbuf \o msg) \o <<>> /\ Pipeline = A \o wbuf \o msg
      BY <2>2 DEF Pipeline
    <2>5. A \o wbuf \o msg \o <<>> = A \o wbuf \o msg
      BY <2>1, ConcatEmptySeq
    <2>6. Pipeline' = Pipeline
      BY <2>3, <2>4, <2>5
    <2> QED BY <2>2, <2>6, MoveStream
  <1>11. CASE FlushForMsg \/ FlushSome
    <2>1. SockWrite(wbuf, wbuf') /\ UNCHANGED <<lossy, emitted, rcvd, msg>>
      BY <1>11 DEF FlushForMsg, FlushSome
    <2>2. PICK u \in Seq(ChunkSet) : wbuf = u \o wbuf' /\ outq' = outq \o u
      BY <2>1, SockWriteTyped, ZenonT(30) DEF TypeOK
    <2>3. rcvd \o (outq \o u) \o wbuf' = rcvd \o outq \o (u \o wbuf')
      <3>1. /\ rcvd \in Seq(ChunkSet) /\ outq \in Seq(ChunkSet) /\ wbuf' \in Seq(ChunkSet)
            /\ rcvd \o outq \in Seq(ChunkSet)
        <4>1. rcvd \in Seq(ChunkSet) /\ outq \in Seq(ChunkSet)
          BY DEF TypeOK
        <4>2. wbuf' \in Seq(ChunkSet)
          BY <1>0 DEF TypeOK
        <4>3. rcvd \o outq \in Seq(ChunkSet)
          BY PipelineTyped
        <4> QED BY <4>1, <4>2, <4>3
      <3>2. rcvd \o outq \o u = rcvd \o (outq \o u)
        BY <2>2, <3>1, ConcatAssociative
      <3>3. ASSUME NEW a \in Seq(ChunkSet), NEW x \in Seq(ChunkSet)
            PROVE  a \o u \o x = a \o (u \o x)
        BY <2>2, ConcatAssociative, SMTT(30)
      <3> QED BY <3>1, <3>2, <3>3, Zenon
    <2>4. Pipeline' = Pipeline
      BY <2>1, <2>2, <2>3 DEF Pipeline
    <2> QED BY <2>1, <2>4, MoveStream
  <1>12. CASE DirectWrite
    <2>1. SockWrite(msg, msg') /\ UNCHANGED <<lossy, emitted, rcvd, wbuf>> /\ wbuf = <<>>
      BY <1>12 DEF DirectWrite, Direct
    <2>2. PICK u \in Seq(ChunkSet) : msg = u \o msg' /\ outq' = outq \o u
      BY <2>1, SockWriteTyped, ZenonT(30) DEF TypeOK
    <2>3. rcvd \o (outq \o u) \o msg' = rcvd \o outq \o (u \o msg')
      <3>1. /\ rcvd \in Seq(ChunkSet) /\ outq \in Seq(ChunkSet) /\ msg' \in Seq(ChunkSet)
            /\ rcvd \o outq \in Seq(ChunkSet)
        <4>1. rcvd \in Seq(ChunkSet) /\ outq \in Seq(ChunkSet)
          BY DEF TypeOK
        <4>2. msg' \in Seq(ChunkSet)
          BY <1>0 DEF TypeOK
        <4>3. rcvd \o outq \in Seq(ChunkSet)
          BY PipelineTyped
        <4> QED BY <4>1, <4>2, <4>3
      <3>2. rcvd \o outq \o u = rcvd \o (outq \o u)
        BY <2>2, <3>1, ConcatAssociative
      <3>3. ASSUME NEW a \in Seq(ChunkSet), NEW x \in Seq(ChunkSet)
            PROVE  a \o u \o x = a \o (u \o x)
        BY <2>2, ConcatAssociative, SMTT(30)
      <3> QED BY <3>1, <3>2, <3>3, Zenon
    <2>4. rcvd \o outq \o wbuf = rcvd \o outq
      BY <2>1, PipelineTyped, ConcatEmptySeq
    <2>5. rcvd \o (outq \o u) \o wbuf = rcvd \o (outq \o u)
      <3>1. rcvd \o (outq \o u) \in Seq(ChunkSet)
        BY <2>2, ConcatProperties DEF TypeOK
      <3> QED BY <2>1, <3>1, ConcatEmptySeq
    <2>6. Pipeline' = Pipeline
      BY <2>1, <2>2, <2>3, <2>4, <2>5 DEF Pipeline
    <2> QED BY <2>1, <2>6, MoveStream
  <1>13. CASE WriteFail
    <2>1. lossy' /\ UNCHANGED <<emitted, rcvd, outq, wbuf>> /\ msg' = <<>>
      BY <1>13 DEF WriteFail
    <2> DEFINE P == rcvd \o outq \o wbuf
    <2>2. P \in Seq(ChunkSet) /\ msg \in Seq(ChunkSet)
      BY PipelineTyped DEF TypeOK
    <2>3. Pipeline = P \o msg /\ Pipeline' = P
      <3>1. P \o <<>> = P
        BY <2>2, ConcatEmptySeq
      <3> QED BY <2>1, <3>1 DEF Pipeline
    <2> QED BY <2>1, <2>2, <2>3, LoseStream
  <1>14. CASE FlushDone
    <2>1. UNCHANGED <<lossy, emitted, rcvd, outq, wbuf, msg>>
      BY <1>14 DEF FlushDone, Close
    <2> QED BY <1>1, <2>1
  <1>15. CASE FlushFail
    <2>1. msg = <<>> /\ UNCHANGED <<rcvd, outq>>
      BY <1>15 DEF FlushFail, Control, WriteDone
    <2>2. CASE pc \in {"ssl_flush", "ready_flush"}
      <3>1. Fail("XX000") /\ lossy' = lossy /\ UNCHANGED <<rcvd, outq, wbuf>>
        BY <1>15, <2>2 DEF FlushFail
      <3>2. ~lossy
        BY <2>2 DEF Control, LateLoss, EndPcs
      <3> QED BY <2>1, <3>1, <3>2, FailStream DEF ErrCodes
    <2>3. CASE pc = "err_flush"
      <3>1. UNCHANGED <<lossy, emitted, rcvd, outq, wbuf, msg>>
        BY <1>15, <2>3 DEF FlushFail
      <3> QED BY <1>1, <3>1
    <2>4. CASE pc = "final_flush"
      <3>1. lossy' /\ wbuf' = <<>> /\ UNCHANGED <<emitted, rcvd, outq, msg>>
        BY <1>15, <2>4 DEF FlushFail, Close
      <3> DEFINE A == rcvd \o outq
      <3>2. A \in Seq(ChunkSet) /\ wbuf \in Seq(ChunkSet) /\ A \o wbuf \in Seq(ChunkSet)
        BY PipelineTyped DEF TypeOK
      <3>3. A \o <<>> = A /\ A \o wbuf \o <<>> = A \o wbuf
        BY <3>2, ConcatEmptySeq
      <3>4. Pipeline = A \o wbuf /\ Pipeline' = A
        BY <2>1, <3>1, <3>3 DEF Pipeline
      <3> QED BY <3>1, <3>2, <3>4, LoseStream
    <2> QED BY <1>15, <2>2, <2>3, <2>4 DEF FlushFail, FlushPcs
  <1> QED
    BY <1>2, <1>3, <1>4, <1>5, <1>6, <1>7, <1>8, <1>9, <1>10, <1>11, <1>12, <1>13, <1>14, <1>15
    DEF Next, Server, Progress, Failure, Client

-----------------------------------------------------------------------------
(* The theorems.                                                           *)

\* The inductive invariant holds at the start.
LEMMA IInvInit == Init => IInv
  <1> SUFFICES ASSUME Init PROVE IInv
    OBVIOUS
  <1>1. TypeOK
    BY TypeInit
  <1>2. Control
    BY DEF Init, Control, Idle, WriteDone, Budget, LateLoss, FlushPcs, WritePcs
  <1>3. ErrorLast
    BY DEF Init, ErrorLast
  <1>4. Stream
    <2>1. <<>> \in Seq(ChunkSet) /\ <<>> \o <<>> = <<>>
      BY ConcatEmptySeq
    <2>2. Pipeline = <<>> /\ emitted = <<>>
      BY <2>1 DEF Init, Pipeline
    <2> QED BY <2>1, <2>2, Zenon DEF Stream
  <1>5. Panics
    BY DEF Init, Panics
  <1> QED BY <1>1, <1>2, <1>3, <1>4, <1>5 DEF IInv

\* And every step preserves it.
THEOREM Invariance == Spec => []IInv
  <1>1. IInv /\ [Next]_vars => IInv'
    BY TypeStep, ControlStep, ErrorStep, PanicStep, StreamStep DEF IInv
  <1> QED BY IInvInit, <1>1, PTL DEF Spec

\* Whatever the I/O errors, the client's input never has a hole: it is a
\* prefix of the messages do_postgres_main and on_error wrote, and all of
\* them unless output was given up at the very end.
THEOREM StreamIntactAlways == Spec => []StreamIntact
  <1>1. IInv => StreamIntact
    <2> SUFFICES ASSUME IInv PROVE StreamIntact
      OBVIOUS
    <2>1. PICK r \in Seq(ChunkSet) : emitted = Pipeline \o r
      BY DEF IInv, Stream
    <2>2. Pipeline \in Seq(ChunkSet)
      BY PipelineTyped DEF IInv
    <2>3. Len(emitted) = Len(Pipeline) + Len(r) /\ Len(Pipeline) \in Nat /\ Len(r) \in Nat
      BY <2>1, <2>2, ConcatProperties, LenProperties
    <2>4. SubSeq(emitted, 1, Len(Pipeline)) = SubSeq(Pipeline, 1, Len(Pipeline))
      <3>1. CASE Len(Pipeline) = 0
        BY <3>1, SubSeqEmpty
      <3>2. CASE Len(Pipeline) # 0
        BY <2>1, <2>2, <2>3, <3>2, SubSeqOfConcat1
      <3> QED BY <3>1, <3>2
    <2>5. IsPrefix(Pipeline, emitted)
      BY <2>3, <2>4 DEF IsPrefix
    <2> QED BY <2>5 DEF StreamIntact, IInv, Stream
  <1> QED BY Invariance, <1>1, PTL

\* Whenever do_postgres_main waits for the client, everything it has written
\* has left the BufWriter.
THEOREM NothingHeldBackAlways == Spec => []NothingHeldBack
  <1>1. IInv => NothingHeldBack
    BY DEF IInv, Control, Idle, NothingHeldBack
  <1> QED BY Invariance, <1>1, PTL

\* A session that ends, by returning or by a panic, under a client that is
\* still there has written an ErrorResponse last, unless that client sent
\* Terminate or the type byte 0xff, a CancelRequest first, or a length word
\* below four.
THEOREM NoSilentHangupAlways == Spec => []NoSilentHangup
  <1>1. IInv => NoSilentHangup
    BY DEF IInv, ErrorLast, Panics, NoSilentHangup, AskedToLeave, Died, EndPcs
  <1> QED BY Invariance, <1>1, PTL

-----------------------------------------------------------------------------
(* The input: frames as an automaton reads them.  Its state is what comes  *)
(* next (the length or the body of a startup message; the type, the length *)
(* or the body of another) and the number the next query has.              *)

At(a, k) == [at |-> a, next |-> k]
States   == [at : {"slen", "sbody", "type", "tlen", "tbody"}, next : Nat]

\* Unit u takes the automaton from p to q.
Parse(p, u, q) ==
  \/ p.at = "slen"  /\ u.kind = "len"  /\ u.val = "body" /\ q = At("sbody", p.next)
  \/ p.at = "slen"  /\ u.kind = "len"  /\ u.val \in {"short", "empty"} /\ q = At("type", p.next)
  \/ p.at = "sbody" /\ u.kind = "body" /\ u.val = "SSL" /\ q = At("slen", p.next)
  \/ p.at = "sbody" /\ u.kind = "body" /\ u.val \in StartupBodies \ {"SSL"} /\ q = At("type", p.next)
  \/ p.at = "type"  /\ u.kind = "type" /\ q = At("tlen", p.next)
  \/ p.at = "tlen"  /\ u.kind = "len"  /\ u.val = "body" /\ q = At("tbody", p.next)
  \/ p.at = "tlen"  /\ u.kind = "len"  /\ u.val \in {"short", "empty"} /\ q = At("type", p.next)
  \/ p.at = "tbody" /\ u.kind = "body" /\ u.val = "Query" /\ u.id = p.next /\ q = At("type", p.next + 1)
  \/ p.at = "tbody" /\ u.kind = "body" /\ u.val = "NotUTF8" /\ q = At("type", p.next)

\* Units s take it from p to q, through states that expect no later query.
Run(s, p, q) ==
  \E e \in [1..(Len(s) + 1) -> States] :
    /\ e[1] = p /\ e[Len(s) + 1] = q
    /\ \A i \in 1..Len(s) : Parse(e[i], s[i], e[i + 1])
    /\ \A i \in 1..(Len(s) + 1) : e[i].next <= q.next

\* What the client has still to send of its frame, when the part it has sent
\* leaves the automaton at a.
Sending(a) ==
  \/ cunits = <<>> /\ a = IF cstage = "startup" THEN "slen" ELSE "type"
  \/ /\ a = "sbody"
     /\ \E f \in StartupBodies : /\ cunits = <<Unit("body", f, 0)>>
                                 /\ cstage = IF f = "SSL" THEN "startup" ELSE "typed"
  \/ /\ a = "tbody" /\ cstage = "typed"
     /\ cunits \in {<<Unit("body", "Query", nq + 1)>>, <<Unit("body", "NotUTF8", 0)>>}
  \/ /\ a = "tlen" /\ cstage = "typed"
     /\ cunits \in {Content("Query", nq + 1), Content("NotUTF8", 0)} \cup Bodiless

\* A reader at a that expects query k finds whole frames on the connection, up
\* to the one the client is sending.
Track(a, k) ==
  \E mid \in States : Run(inq, At(a, k), mid) /\ mid.next = nq + 1 /\ Sending(mid.at)

-----------------------------------------------------------------------------
(* The output: the messages ms written so far, in full or in part.         *)

Count(ms, k) == Cardinality({j \in 1..k : ms[j].tag = "C"})
TagBefore(ms, k) == IF k = 1 THEN "" ELSE ms[k - 1].tag

\* The Dialogue lets m follow the first k - 1 of the messages ms.
MayFollow(ms, k, m, asked) ==
  \/ m = NoSSL /\ TagBefore(ms, k) = ""
  \/ m = AuthOk /\ TagBefore(ms, k) \in {"", "N"}
  \/ /\ TagBefore(ms, k) \in {"R", "S"}
     /\ \E g \in Reported : m = ParamStatus(g) /\ \A j \in 1..(k - 1) : ms[j] # ParamStatus(g)
  \/ /\ m = KeyData /\ TagBefore(ms, k) \in {"R", "S"}
     /\ \A g \in Reported : \E j \in 1..(k - 1) : ms[j] = ParamStatus(g)
  \/ m = ReadyForQuery /\ TagBefore(ms, k) \in {"K", "C"}
  \/ /\ m = CmdComplete(Count(ms, k - 1) + 1) /\ TagBefore(ms, k) = "Z"
     /\ Count(ms, k - 1) < asked
  \/ TagBefore(ms, k) # "E" /\ \E c \in ErrCodes : m = ErrorResponse(c)

Lawful(ms, asked) == \A k \in 1..Len(ms) : MayFollow(ms, k, ms[k], asked)

\* The chunks s are those of the messages ms, and c[i] of these are complete
\* in the first i chunks.
Completed(ms, s, c) ==
  /\ c \in [0..Len(s) -> 0..Len(ms)]
  /\ c[0] = 0 /\ c[Len(s)] = Len(ms)
  /\ \A i \in 1..Len(s) :
       /\ c[i] = IF s[i].part = s[i].of THEN c[i - 1] + 1 ELSE c[i - 1]
       /\ c[i - 1] < Len(ms) /\ s[i].msg = ms[c[i - 1] + 1]

\* The client was told the first of the messages, as many as are complete in
\* the n chunks it received.
Written(ms, s, n, t) ==
  \E c : Completed(ms, s, c) /\ n \in 0..Len(s) /\ t = SubSeq(ms, 1, c[n])

-----------------------------------------------------------------------------
(* Where the task is, in its input and in its output.                      *)

\* postgres_main reads and writes no more, but for the error.
Ending == {"on_error", "err_flush", "final_flush"} \cup EndPcs

ReaderAt ==
  IF pc \in {"startup_len", "nossl", "ssl_flush"} THEN "slen"
  ELSE IF pc = "startup_body" THEN "sbody"
  ELSE IF pc = "startup_dispatch" /\ inmsgbuf.form = "SSL" THEN "slen"
  ELSE IF pc = "msg_len" THEN "tlen"
  ELSE IF pc = "msg_body" THEN "tbody" ELSE "type"

QueryInHand == pc = "dispatch" /\ inmsgbuf.form = "Query"

\* The reads are where the frames are, and every query read was answered but
\* the one in hand.
InStep(ms) ==
  /\ pc \notin Ending =>
       Track(ReaderAt, Count(ms, Len(ms)) + (IF QueryInHand THEN 2 ELSE 1))
  /\ QueryInHand => inmsgbuf.id = Count(ms, Len(ms)) + 1
  /\ pc = "startup_dispatch" => inmsgbuf.form \in StartupBodies \cup {"empty"}
  /\ pc = "dispatch" => inmsgbuf.form \in TypedBodies \cup {"empty"}

LastTag(ms) == TagBefore(ms, Len(ms) + 1)

\* The last message written, and the gucs still to report, at each point.
Position(ms) ==
  /\ pc \in {"startup_len", "startup_body", "startup_dispatch"} =>
       LastTag(ms) = IF ssl THEN "N" ELSE ""
  /\ pc \in {"nossl", "ssl_flush"} => ssl /\ LastTag(ms) = "N"
  /\ pc = "auth" => LastTag(ms) = "R"
  /\ pc = "gucs" => LastTag(ms) = "S"
  /\ pc = "key" => LastTag(ms) = "K"
  /\ pc \in {"ready", "ready_flush", "msg_type", "msg_len", "msg_body", "dispatch"} => LastTag(ms) = "Z"
  /\ pc = "complete" => LastTag(ms) = "C"
  /\ pc \in {"startup_len", "startup_body", "startup_dispatch", "nossl", "ssl_flush", "auth", "gucs"} =>
       \A g \in Reported : g \in unreported <=> \A j \in 1..Len(ms) : ms[j] # ParamStatus(g)

Talk(ms) ==
  /\ Written(ms, emitted, Len(rcvd), told) /\ Lawful(ms, nq)
  /\ Position(ms) /\ InStep(ms)

SInv == IInv /\ \E ms \in Seq(MsgSet) : Talk(ms)

-----------------------------------------------------------------------------
(* Lemmas on the automaton.                                                *)

\* A step ends in a state, and never at an earlier query.
LEMMA ParseTyped ==
  ASSUME NEW p \in States, NEW u, NEW q, Parse(p, u, q)
  PROVE  q \in States /\ p.next <= q.next
  BY DEF Parse, States, At

LEMMA RunNothing ==
  ASSUME NEW p \in States
  PROVE  Run(<<>>, p, p)
  <1> DEFINE e == [i \in 1..1 |-> p]
  <1>1. e \in [1..(Len(<<>>) + 1) -> States] /\ e[1] = p /\ e[Len(<<>>) + 1] = p
    OBVIOUS
  <1>2. \A i \in 1..Len(<<>>) : Parse(e[i], <<>>[i], e[i + 1])
    OBVIOUS
  <1>3. \A i \in 1..(Len(<<>>) + 1) : e[i].next <= p.next
    BY DEF States
  <1> QED BY <1>1, <1>2, <1>3 DEF Run

\* One more unit at the end.
LEMMA RunAppend ==
  ASSUME NEW s \in Seq(Units), NEW u \in Units, NEW p, NEW q \in States, NEW r,
         Run(s, p, q), Parse(q, u, r)
  PROVE  Run(Append(s, u), p, r)
  <1>1. r \in States /\ q.next <= r.next
    BY ParseTyped
  <1>2. PICK e \in [1..(Len(s) + 1) -> States] :
          /\ e[1] = p /\ e[Len(s) + 1] = q
          /\ \A i \in 1..Len(s) : Parse(e[i], s[i], e[i + 1])
          /\ \A i \in 1..(Len(s) + 1) : e[i].next <= q.next
    BY DEF Run
  <1> DEFINE n == Len(s)
             t == Append(s, u)
             d == [i \in 1..(n + 2) |-> IF i = n + 2 THEN r ELSE e[i]]
  <1>3. n \in Nat /\ Len(t) = n + 1 /\ t[n + 1] = u /\ \A i \in 1..n : t[i] = s[i]
    OBVIOUS
  <1> HIDE DEF t
  <1>4. d \in [1..(Len(t) + 1) -> States] /\ d[1] = p /\ d[Len(t) + 1] = r
    BY <1>1, <1>2, <1>3
  <1>5. ASSUME NEW i \in 1..Len(t)
        PROVE  Parse(d[i], t[i], d[i + 1])
    <2>1. CASE i = n + 1
      <3>1. d[i] = q /\ d[i + 1] = r /\ t[i] = u
        BY <1>2, <1>3, <2>1
      <3> QED BY <3>1
    <2>2. CASE i # n + 1
      <3>1. i \in 1..n /\ d[i] = e[i] /\ d[i + 1] = e[i + 1] /\ t[i] = s[i]
        BY <1>3, <2>2
      <3> QED BY <1>2, <3>1
    <2> QED BY <2>1, <2>2
  <1>6. ASSUME NEW i \in 1..(Len(t) + 1)
        PROVE  d[i].next <= r.next
    <2>1. CASE i = n + 2
      BY <1>1, <1>3, <2>1 DEF States
    <2>2. CASE i # n + 2
      <3>1. i \in 1..(n + 1) /\ d[i] = e[i]
        BY <1>3, <2>2
      <3>2. e[i].next <= q.next /\ e[i].next \in Nat /\ q.next \in Nat /\ r.next \in Nat
        BY <1>1, <1>2, <3>1 DEF States
      <3> QED BY <1>1, <3>1, <3>2
    <2> QED BY <2>1, <2>2
  <1> HIDE DEF d
  <1>7. Run(t, p, r)
    BY <1>4, <1>5, <1>6 DEF Run
  <1> QED BY <1>7 DEF t

\* The first unit is read, and the rest remains.
LEMMA RunTail ==
  ASSUME NEW s \in Seq(Units), s # <<>>, NEW p, NEW q, Run(s, p, q)
  PROVE  \E r \in States : Parse(p, Head(s), r) /\ Run(Tail(s), r, q)
  <1>1. PICK e \in [1..(Len(s) + 1) -> States] :
          /\ e[1] = p /\ e[Len(s) + 1] = q
          /\ \A i \in 1..Len(s) : Parse(e[i], s[i], e[i + 1])
          /\ \A i \in 1..(Len(s) + 1) : e[i].next <= q.next
    BY DEF Run
  <1> DEFINE n == Len(s)
             t == Tail(s)
             d == [i \in 1..n |-> e[i + 1]]
  <1>2. n \in Nat \ {0} /\ Len(t) = n - 1 /\ Head(s) = s[1] /\ \A i \in 1..(n - 1) : t[i] = s[i + 1]
    OBVIOUS
  <1> HIDE DEF t
  <1>3. d \in [1..(Len(t) + 1) -> States] /\ d[1] = e[2] /\ d[Len(t) + 1] = q
    BY <1>1, <1>2
  <1>4. ASSUME NEW i \in 1..Len(t)
        PROVE  Parse(d[i], t[i], d[i + 1])
    <2>1. i + 1 \in 1..n /\ d[i] = e[i + 1] /\ d[i + 1] = e[(i + 1) + 1] /\ t[i] = s[i + 1]
      BY <1>2
    <2> QED BY <1>1, <2>1
  <1>5. \A i \in 1..(Len(t) + 1) : d[i].next <= q.next
    BY <1>1, <1>2
  <1> HIDE DEF d
  <1>6. Run(t, e[2], q)
    BY <1>3, <1>4, <1>5 DEF Run
  <1>7. Parse(p, Head(s), e[2]) /\ e[2] \in States
    BY <1>1, <1>2
  <1> QED BY <1>6, <1>7 DEF t

\* No query on the way has a later number than the one expected at the end.
LEMMA RunBound ==
  ASSUME NEW s \in Seq(Units), NEW p, NEW q, Run(s, p, q)
  PROVE  p \in States /\ p.next <= q.next
  BY DEF Run

-----------------------------------------------------------------------------
(* The client keeps whole frames on the connection.                        *)

\* The unit the client hands over takes the automaton from mid to q.
LEMMA Advance ==
  ASSUME TypeOK, NEW frame \in Seq(Units), frame # <<>>, SendUnit(frame),
         NEW p, NEW mid \in States, Run(inq, p, mid),
         NEW q, Parse(mid, Head(frame), q), q.next = nq' + 1, Sending(q.at)'
  PROVE  \E m \in States : Run(inq, p, m)' /\ m.next = nq' + 1 /\ Sending(m.at)'
  <1>1. inq \in Seq(Units) /\ Head(frame) \in Units /\ inq' = Append(inq, Head(frame))
    BY DEF TypeOK, SendUnit
  <1>2. Run(inq', p, q) /\ q \in States
    BY <1>1, RunAppend, ParseTyped
  <1> QED BY <1>2

\* What the frames of the client begin with, and what is left of them then.
LEMMA Frames ==
  ASSUME NEW k \in Nat
  PROVE  /\ \A f \in StartupBodies \cup TypedBodies :
              /\ Content(f, k) \in Seq(Units) /\ Content(f, k) # <<>>
              /\ Head(Content(f, k)) = Unit("len", "body", 0)
              /\ Tail(Content(f, k)) = <<Unit("body", f, k)>>
              /\ <<Unit("body", f, k)>> \in Seq(Units) /\ <<Unit("body", f, k)>> # <<>>
              /\ Head(<<Unit("body", f, k)>>) = Unit("body", f, k)
              /\ Tail(<<Unit("body", f, k)>>) = <<>>
         /\ \A f \in Bodiless :
              /\ f \in Seq(Units) /\ f # <<>> /\ Tail(f) = <<>>
              /\ Head(f) \in {Unit("len", "short", 0), Unit("len", "empty", 0)}
         /\ \A f \in TypedFrames(k) :
              /\ f \in Seq(Units) /\ f # <<>> /\ Head(f).kind = "type"
              /\ Tail(f) \in {Content("Query", k), Content("NotUTF8", 0)} \cup Bodiless
  <1>1. \A x \in {"type", "len", "body"}, v \in Vals, i \in Nat : Unit(x, v, i) \in Units
    BY DEF Unit, Units
  <1>2. \A v \in Lens \cup Types \cup StartupBodies \cup TypedBodies : v \in Vals
    BY DEF Vals
  <1>3. \A u \in Units : /\ <<u>> \in Seq(Units) /\ <<u>> # <<>>
                         /\ Head(<<u>>) = u /\ Tail(<<u>>) = <<>>
    OBVIOUS
  <1>4. \A u, w \in Units : /\ <<u, w>> \in Seq(Units) /\ <<u, w>> # <<>>
                            /\ Head(<<u, w>>) = u /\ Tail(<<u, w>>) = <<w>>
    OBVIOUS
  <1>5. ASSUME NEW i \in Nat, NEW f \in StartupBodies \cup TypedBodies
        PROVE  /\ Content(f, i) \in Seq(Units) /\ Content(f, i) # <<>>
               /\ Head(Content(f, i)) = Unit("len", "body", 0)
               /\ Tail(Content(f, i)) = <<Unit("body", f, i)>>
               /\ <<Unit("body", f, i)>> \in Seq(Units) /\ <<Unit("body", f, i)>> # <<>>
               /\ Head(<<Unit("body", f, i)>>) = Unit("body", f, i)
               /\ Tail(<<Unit("body", f, i)>>) = <<>>
    <2>1. Unit("len", "body", 0) \in Units /\ Unit("body", f, i) \in Units
      BY <1>1, <1>2 DEF Lens
    <2> QED BY <2>1, <1>3, <1>4, Zenon DEF Content
  <1>6. \A f \in Bodiless :
          /\ f \in Seq(Units) /\ f # <<>> /\ Tail(f) = <<>>
          /\ Head(f) \in {Unit("len", "short", 0), Unit("len", "empty", 0)}
    <2>1. Unit("len", "short", 0) \in Units /\ Unit("len", "empty", 0) \in Units
      BY <1>1, <1>2 DEF Lens
    <2> QED BY <2>1, <1>3, Zenon DEF Bodiless
  <1>7. ASSUME NEW f \in TypedFrames(k)
        PROVE  /\ f \in Seq(Units) /\ f # <<>> /\ Head(f).kind = "type"
               /\ Tail(f) \in {Content("Query", k), Content("NotUTF8", 0)} \cup Bodiless
    <2> DEFINE Rest == {Content("Query", k), Content("NotUTF8", 0)} \cup Bodiless
    <2>1. PICK t \in Types, c \in Rest : f = <<Unit("type", t, 0)>> \o c
      BY DEF TypedFrames
    <2>2. "Query" \in TypedBodies /\ "NotUTF8" \in TypedBodies
      BY DEF TypedBodies
    <2>3. c \in Seq(Units)
      BY <1>5, <1>6, <2>2
    <2>4. Unit("type", t, 0) \in Units /\ Unit("type", t, 0).kind = "type"
      BY <1>1, <1>2 DEF Unit
    <2> HIDE DEF Rest
    <2>5. f \in Seq(Units) /\ f # <<>> /\ Head(f) = Unit("type", t, 0) /\ Tail(f) = c
      BY <2>1, <2>3, <2>4
    <2> QED BY <2>1, <2>4, <2>5 DEF Rest
  <1> QED BY <1>5, <1>6, <1>7

LEMMA UnitFields ==
  \A k, v, i : Unit(k, v, i).kind = k /\ Unit(k, v, i).val = v /\ Unit(k, v, i).id = i
  BY DEF Unit

\* An SSLRequest is told by its length word, a query by its body.
LEMMA Heads ==
  ASSUME NEW k \in Nat
  PROVE  /\ Head(Content("SSL", 0)).kind = "len" /\ Head(Content("SSL", 0)).val = "body"
         /\ Head(<<Unit("body", "Query", k)>>).kind = "body"
  <1>1. Head(Content("SSL", 0)) = Unit("len", "body", 0)
    BY Frames DEF StartupBodies
  <1>2. Head(<<Unit("body", "Query", k)>>) = Unit("body", "Query", k)
    BY Frames DEF TypedBodies
  <1> QED BY <1>1, <1>2, UnitFields

\* The client begins a frame.
LEMMA BeginTrack ==
  ASSUME TypeOK, ClientBegin, NEW a, NEW k, Track(a, k)
  PROVE  Track(a, k)'
  <1>1. PICK mid \in States : Run(inq, At(a, k), mid) /\ mid.next = nq + 1 /\ Sending(mid.at)
    BY DEF Track
  <1>2. nq \in Nat /\ cunits = <<>> /\ mid.at = IF cstage = "startup" THEN "slen" ELSE "type"
    <2>1. nq \in Nat /\ cunits = <<>>
      BY DEF TypeOK, ClientBegin
    <2>2. /\ \A f \in StartupBodies : <<Unit("body", f, 0)>> # <<>>
          /\ <<Unit("body", "Query", nq + 1)>> # <<>> /\ <<Unit("body", "NotUTF8", 0)>> # <<>>
          /\ Content("Query", nq + 1) # <<>> /\ Content("NotUTF8", 0) # <<>>
          /\ \A f \in Bodiless : f # <<>>
      BY <2>1, Frames DEF TypedBodies
    <2> QED BY <1>1, <2>1, <2>2, Zenon DEF Sending
  <1>3. PICK f \in IF cstage = "startup" THEN StartupFrames ELSE TypedFrames(nq + 1) :
          SendUnit(f) /\ cstage' = IF f = Content("SSL", 0) THEN "startup" ELSE "typed"
    BY DEF ClientBegin
  <1>4. ASSUME f \in Seq(Units), f # <<>>, NEW q, Parse(mid, Head(f), q), q.next = nq' + 1, Sending(q.at)'
        PROVE  Track(a, k)'
    BY <1>1, <1>3, <1>4, Advance DEF Track
  <1>5. CASE cstage = "startup" /\ f \in Bodiless
    <2>1. f \in Seq(Units) /\ f # <<>> /\ Tail(f) = <<>> /\ Head(f).kind = "len" /\ Head(f).val \in {"short", "empty"}
      BY <1>5, Frames, UnitFields
    <2>2. f # Content("SSL", 0) /\ f # <<Unit("body", "Query", nq + 1)>>
      <3>1. Head(Content("SSL", 0)).val = "body" /\ Head(<<Unit("body", "Query", nq + 1)>>).kind = "body"
        BY <1>2, Heads
      <3> QED BY <2>1, <3>1
    <2>3. nq' = nq /\ cunits' = <<>> /\ cstage' = "typed"
      BY <1>3, <2>1, <2>2 DEF SendUnit
    <2>4. Parse(mid, Head(f), At("type", mid.next))
      BY <1>2, <1>5, <2>1 DEF Parse
    <2>5. At("type", mid.next).next = nq' + 1 /\ At("type", mid.next).at = "type" /\ Sending("type")'
      BY <1>1, <2>3 DEF At, Sending
    <2> QED BY <1>4, <2>1, <2>4, <2>5
  <1>6. ASSUME cstage = "startup", NEW b \in StartupBodies, f = Content(b, 0)
        PROVE  Track(a, k)'
    <2>1. f \in Seq(Units) /\ f # <<>> /\ Tail(f) = <<Unit("body", b, 0)>> /\ Head(f) = Unit("len", "body", 0)
      BY <1>6, Frames
    <2>2. f = Content("SSL", 0) => b = "SSL"
      <3>1. f = Content("SSL", 0) => <<Unit("body", b, 0)>> = <<Unit("body", "SSL", 0)>>
        BY <1>6, <2>1, Frames DEF StartupBodies
      <3>2. <<Unit("body", b, 0)>>[1].val = b /\ <<Unit("body", "SSL", 0)>>[1].val = "SSL"
        BY UnitFields
      <3> QED BY <3>1, <3>2
    <2>3. f # <<Unit("body", "Query", nq + 1)>>
      <3>1. Head(<<Unit("body", "Query", nq + 1)>>).kind = "body" /\ Head(f).kind = "len"
        BY <1>2, <2>1, Frames, UnitFields DEF TypedBodies
      <3> QED BY <3>1
    <2>4. nq' = nq /\ cunits' = <<Unit("body", b, 0)>> /\ cstage' = IF b = "SSL" THEN "startup" ELSE "typed"
      BY <1>3, <1>6, <2>1, <2>2, <2>3 DEF SendUnit
    <2>5. Parse(mid, Head(f), At("sbody", mid.next))
      BY <1>2, <1>6, <2>1, UnitFields DEF Parse
    <2>6. At("sbody", mid.next).next = nq' + 1 /\ At("sbody", mid.next).at = "sbody" /\ Sending("sbody")'
      BY <1>1, <2>4 DEF At, Sending
    <2> QED BY <1>4, <2>1, <2>5, <2>6
  <1>7. CASE cstage # "startup"
    <2>1. /\ f \in Seq(Units) /\ f # <<>> /\ Head(f).kind = "type"
          /\ Tail(f) \in {Content("Query", nq + 1), Content("NotUTF8", 0)} \cup Bodiless
      BY <1>2, <1>3, <1>7, Frames
    <2>2. f # Content("SSL", 0) /\ f # <<Unit("body", "Query", nq + 1)>>
      <3>1. Head(Content("SSL", 0)).kind = "len" /\ Head(<<Unit("body", "Query", nq + 1)>>).kind = "body"
        BY <1>2, Heads
      <3> QED BY <2>1, <3>1
    <2>3. nq' = nq /\ cunits' = Tail(f) /\ cstage' = "typed"
      BY <1>3, <2>2 DEF SendUnit
    <2>4. Parse(mid, Head(f), At("tlen", mid.next))
      BY <1>2, <1>7, <2>1 DEF Parse
    <2>5. At("tlen", mid.next).next = nq' + 1 /\ At("tlen", mid.next).at = "tlen"
      BY <1>1, <2>3 DEF At
    <2>6. Sending("tlen")'
      BY <2>1, <2>3 DEF Sending
    <2> QED BY <1>4, <2>1, <2>4, <2>5, <2>6
  <1>8. CASE cstage = "startup"
    <2>1. f \in Bodiless \/ \E b \in StartupBodies : f = Content(b, 0)
      BY <1>3, <1>8 DEF StartupFrames
    <2> QED BY <1>5, <1>6, <1>8, <2>1
  <1> QED BY <1>7, <1>8

\* The client goes on with a frame.
LEMMA SendTrack ==
  ASSUME TypeOK, ClientSend, NEW a, NEW k, Track(a, k)
  PROVE  Track(a, k)'
  <1>1. PICK mid \in States : Run(inq, At(a, k), mid) /\ mid.next = nq + 1 /\ Sending(mid.at)
    BY DEF Track
  <1>2. nq \in Nat /\ cunits # <<>> /\ cunits \in Seq(Units) /\ SendUnit(cunits) /\ cstage' = cstage
    BY DEF TypeOK, ClientSend
  <1>3. PICK f : f = cunits
    OBVIOUS
  <1>4. ASSUME NEW q, Parse(mid, Head(f), q), q.next = nq' + 1, Sending(q.at)'
        PROVE  Track(a, k)'
    BY <1>1, <1>2, <1>3, <1>4, Advance DEF Track
  <1>5. /\ cunits' = Tail(f)
        /\ nq' = IF f = <<Unit("body", "Query", nq + 1)>> THEN nq + 1 ELSE nq
    BY <1>2, <1>3 DEF SendUnit
  <1>6. Head(<<Unit("body", "Query", nq + 1)>>) = Unit("body", "Query", nq + 1)
    BY <1>2, Frames DEF TypedBodies
  <1>7. ASSUME mid.at = "sbody", NEW b \in StartupBodies, f = <<Unit("body", b, 0)>>,
               cstage = IF b = "SSL" THEN "startup" ELSE "typed"
        PROVE  Track(a, k)'
    <2>1. Head(f) = Unit("body", b, 0) /\ Tail(f) = <<>>
      BY <1>7, Frames
    <2>2. Head(f).val # "Query"
      BY <2>1, UnitFields DEF StartupBodies
    <2>3. nq' = nq /\ cunits' = <<>>
      BY <1>5, <1>6, <2>1, <2>2, UnitFields
    <2> DEFINE q == At(IF b = "SSL" THEN "slen" ELSE "type", mid.next)
    <2>4. Parse(mid, Head(f), q)
      BY <1>7, <2>1, UnitFields DEF Parse
    <2>5. q.next = nq' + 1 /\ Sending(q.at)'
      BY <1>1, <1>2, <1>7, <2>3 DEF At, Sending
    <2> QED BY <1>4, <2>4, <2>5
  <1>8. CASE mid.at = "tbody" /\ cstage = "typed" /\ f = <<Unit("body", "Query", nq + 1)>>
    <2>1. Head(f) = Unit("body", "Query", nq + 1) /\ Tail(f) = <<>>
      BY <1>2, <1>8, Frames DEF TypedBodies
    <2>2. nq' = nq + 1 /\ cunits' = <<>>
      BY <1>5, <1>8, <2>1
    <2>3. Parse(mid, Head(f), At("type", mid.next + 1))
      BY <1>1, <1>8, <2>1, UnitFields DEF Parse
    <2>4. At("type", mid.next + 1).next = nq' + 1 /\ At("type", mid.next + 1).at = "type" /\ Sending("type")'
      BY <1>1, <1>2, <1>8, <2>2 DEF At, Sending
    <2> QED BY <1>4, <2>3, <2>4
  <1>9. CASE mid.at = "tbody" /\ cstage = "typed" /\ f = <<Unit("body", "NotUTF8", 0)>>
    <2>1. Head(f) = Unit("body", "NotUTF8", 0) /\ Tail(f) = <<>>
      BY <1>9, Frames DEF TypedBodies
    <2>2. nq' = nq /\ cunits' = <<>>
      BY <1>5, <1>6, <2>1, UnitFields
    <2>3. Parse(mid, Head(f), At("type", mid.next))
      BY <1>9, <2>1, UnitFields DEF Parse
    <2>4. At("type", mid.next).next = nq' + 1 /\ At("type", mid.next).at = "type" /\ Sending("type")'
      BY <1>1, <1>2, <1>9, <2>2 DEF At, Sending
    <2> QED BY <1>4, <2>3, <2>4
  <1>10. ASSUME mid.at = "tlen", cstage = "typed",
                NEW u, u \in {<<Unit("body", "Query", nq + 1)>>, <<Unit("body", "NotUTF8", 0)>>},
                Head(f) = Unit("len", "body", 0), Tail(f) = u
         PROVE  Track(a, k)'
    <2>1. nq' = nq /\ cunits' = u
      BY <1>5, <1>6, <1>10, UnitFields
    <2>2. Parse(mid, Head(f), At("tbody", mid.next))
      BY <1>10, UnitFields DEF Parse
    <2>3. At("tbody", mid.next).next = nq' + 1 /\ At("tbody", mid.next).at = "tbody"
      BY <1>1, <2>1 DEF At
    <2>4. Sending("tbody")'
      BY <1>2, <1>10, <2>1 DEF Sending
    <2> QED BY <1>4, <2>2, <2>3, <2>4
  <1>11. CASE mid.at = "tlen" /\ cstage = "typed" /\ f \in {Content("Query", nq + 1), Content("NotUTF8", 0)}
    <2>1. /\ Head(f) = Unit("len", "body", 0)
          /\ Tail(f) \in {<<Unit("body", "Query", nq + 1)>>, <<Unit("body", "NotUTF8", 0)>>}
      BY <1>2, <1>11, Frames DEF TypedBodies
    <2> QED BY <1>10, <1>11, <2>1
  <1>12. CASE mid.at = "tlen" /\ cstage = "typed" /\ f \in Bodiless
    <2>1. Tail(f) = <<>> /\ Head(f).kind = "len" /\ Head(f).val \in {"short", "empty"}
      BY <1>12, Frames, UnitFields
    <2>2. nq' = nq /\ cunits' = <<>>
      BY <1>5, <1>6, <2>1, UnitFields
    <2>3. Parse(mid, Head(f), At("type", mid.next))
      BY <1>12, <2>1 DEF Parse
    <2>4. At("type", mid.next).next = nq' + 1 /\ At("type", mid.next).at = "type" /\ Sending("type")'
      BY <1>1, <1>2, <1>12, <2>2 DEF At, Sending
    <2> QED BY <1>4, <2>3, <2>4
  <1>13. Sending(mid.at) /\ f # <<>>
    BY <1>1, <1>2, <1>3
  <1> QED BY <1>3, <1>7, <1>8, <1>9, <1>11, <1>12, <1>13, Zenon DEF Sending

\* The task reads a unit.
LEMMA ReadTrack ==
  ASSUME TypeOK, inq # <<>>, inq' = Tail(inq), UNCHANGED <<cunits, cstage, nq>>,
         NEW a, NEW k, Track(a, k)
  PROVE  \E q \in States : Parse(At(a, k), Head(inq), q) /\ Track(q.at, q.next)'
  <1>1. PICK mid \in States : Run(inq, At(a, k), mid) /\ mid.next = nq + 1 /\ Sending(mid.at)
    BY DEF Track
  <1>2. PICK q \in States : Parse(At(a, k), Head(inq), q) /\ Run(Tail(inq), q, mid)
    BY <1>1, RunTail DEF TypeOK
  <1>3. Sending(mid.at)'
    BY <1>1 DEF Sending
  <1>4. At(q.at, q.next) = q
    BY DEF At, States
  <1>5. Track(q.at, q.next)'
    BY <1>1, <1>2, <1>3, <1>4 DEF Track
  <1> QED BY <1>2, <1>5

\* Nothing happens to the input.
LEMMA StillTrack ==
  ASSUME UNCHANGED <<inq, cunits, cstage, nq>>, NEW a, NEW k, Track(a, k)
  PROVE  Track(a, k)'
  BY DEF Track, Sending

\* The reader is never ahead of the client.
LEMMA TrackBound ==
  ASSUME TypeOK, NEW a, NEW k, Track(a, k)
  PROVE  k \in Nat /\ k <= nq + 1
  <1>1. PICK mid \in States : Run(inq, At(a, k), mid) /\ mid.next = nq + 1
    BY DEF Track
  <1>2. At(a, k) \in States /\ At(a, k).next <= mid.next
    BY <1>1, RunBound DEF TypeOK
  <1> QED BY <1>1, <1>2 DEF At, States

-----------------------------------------------------------------------------
(* Lemmas on the messages written.                                         *)

\* A message is handed over in whole.
LEMMA EmitWritten ==
  ASSUME NEW ms \in Seq(MsgSet), NEW s \in Seq(ChunkSet), NEW n, NEW t, Written(ms, s, n, t),
         NEW m \in MsgSet, NEW k \in Nat \ {0}
  PROVE  Written(Append(ms, m), s \o Chunks(m, k), n, t)
  <1>1. PICK c : Completed(ms, s, c) /\ n \in 0..Len(s) /\ t = SubSeq(ms, 1, c[n])
    BY DEF Written
  <1> DEFINE l  == Len(ms)
             z  == Len(s)
             ns == Append(ms, m)
             r  == s \o Chunks(m, k)
             d  == [i \in 0..(z + k) |-> IF i <= z THEN c[i] ELSE IF i = z + k THEN l + 1 ELSE l]
  <1>2. /\ c \in [0..z -> 0..l] /\ c[0] = 0 /\ c[z] = l
        /\ \A i \in 1..z : /\ c[i] = IF s[i].part = s[i].of THEN c[i - 1] + 1 ELSE c[i - 1]
                           /\ c[i - 1] < l /\ s[i].msg = ms[c[i - 1] + 1]
    BY <1>1 DEF Completed
  <1>3. l \in Nat /\ Len(ns) = l + 1 /\ ns[l + 1] = m /\ \A i \in 1..l : ns[i] = ms[i]
    OBVIOUS
  <1>4. /\ z \in Nat /\ Len(r) = z + k /\ \A i \in 1..z : r[i] = s[i]
        /\ \A i \in 1..k : /\ r[z + i].msg = m /\ r[z + i].part = i /\ r[z + i].of = k
    <2>1. Chunks(m, k) \in Seq(ChunkSet) /\ Len(Chunks(m, k)) = k
      BY ChunksTyped
    <2>2. \A i \in 1..k : Chunks(m, k)[i] = [msg |-> m, part |-> i, of |-> k]
      BY DEF Chunks
    <2> HIDE DEF r
    <2>3. z \in Nat /\ Len(r) = z + k /\ (\A i \in 1..z : r[i] = s[i]) /\ \A i \in 1..k : r[z + i] = Chunks(m, k)[i]
      BY <2>1 DEF r
    <2>4. ASSUME NEW i \in 1..k
          PROVE  r[z + i].msg = m /\ r[z + i].part = i /\ r[z + i].of = k
      <3>1. r[z + i] = [msg |-> m, part |-> i, of |-> k]
        BY <2>2, <2>3
      <3> QED BY <3>1
    <2> QED BY <2>3, <2>4
  <1> HIDE DEF ns, r
  <1>5. d \in [0..Len(r) -> 0..Len(ns)] /\ d[0] = 0 /\ d[Len(r)] = Len(ns)
    BY <1>2, <1>3, <1>4
  <1>6. ASSUME NEW i \in 1..Len(r)
        PROVE  /\ d[i] = IF r[i].part = r[i].of THEN d[i - 1] + 1 ELSE d[i - 1]
               /\ d[i - 1] < Len(ns) /\ r[i].msg = ns[d[i - 1] + 1]
    <2>1. CASE i <= z
      <3>1. i \in 1..z /\ i - 1 \in 0..z /\ d[i] = c[i] /\ d[i - 1] = c[i - 1] /\ r[i] = s[i]
        BY <1>4, <2>1
      <3>2. c[i - 1] \in 0..l /\ c[i - 1] < l
        BY <1>2, <3>1
      <3>3. c[i - 1] + 1 \in 1..l /\ ns[c[i - 1] + 1] = ms[c[i - 1] + 1]
        BY <1>3, <3>2
      <3> HIDE DEF d
      <3>4. d[i] = IF r[i].part = r[i].of THEN d[i - 1] + 1 ELSE d[i - 1]
        BY <1>2, <3>1
      <3>5. d[i - 1] < Len(ns)
        BY <1>3, <3>1, <3>2
      <3>6. r[i].msg = ns[d[i - 1] + 1]
        BY <1>2, <3>1, <3>3
      <3> QED BY <3>4, <3>5, <3>6
    <2>2. CASE i > z
      <3>1. i - z \in 1..k /\ z + (i - z) = i
        BY <1>4, <2>2
      <3>2. r[i].msg = m /\ r[i].part = i - z /\ r[i].of = k
        BY <1>4, <3>1
      <3>3. d[i - 1] = l
        <4>1. CASE i - 1 = z
          BY <1>2, <1>4, <4>1
        <4>2. CASE i - 1 # z
          BY <1>4, <2>2, <4>2
        <4> QED BY <4>1, <4>2
      <3>4. d[i] = IF i = z + k THEN l + 1 ELSE l
        BY <1>4, <2>2
      <3>5. i - z = k <=> i = z + k
        BY <1>4
      <3> HIDE DEF d
      <3>6. d[i] = IF r[i].part = r[i].of THEN d[i - 1] + 1 ELSE d[i - 1]
        BY <3>2, <3>3, <3>4, <3>5
      <3>7. d[i - 1] < Len(ns) /\ r[i].msg = ns[d[i - 1] + 1]
        BY <1>3, <3>2, <3>3
      <3> QED BY <3>6, <3>7
    <2> QED BY <1>4, <2>1, <2>2
  <1>7. Completed(ns, r, d)
    <2> HIDE DEF d
    <2> QED BY <1>5, <1>6 DEF Completed
  <1>8. n \in 0..Len(r) /\ d[n] = c[n] /\ c[n] \in 0..l
    <2>1. n \in 0..z /\ n \in 0..(z + k) /\ n <= z
      BY <1>1, <1>4
    <2>2. d[n] = c[n]
      BY <2>1
    <2> QED BY <1>2, <1>4, <2>1, <2>2
  <1>9. SubSeq(ns, 1, c[n]) = SubSeq(ms, 1, c[n])
    BY <1>3, <1>8 DEF ns
  <1> HIDE DEF d
  <1>10. Written(ns, r, n, t)
    BY <1>1, <1>7, <1>8, <1>9 DEF Written
  <1> QED BY <1>10 DEF ns, r

\* One more chunk reaches the client: another one of a message, or the last of
\* the next message.
LEMMA HearWritten ==
  ASSUME NEW ms \in Seq(MsgSet), NEW s \in Seq(ChunkSet), NEW n, NEW t, Written(ms, s, n, t), n < Len(s)
  PROVE  \E j \in 0..Len(ms) :
           /\ t = SubSeq(ms, 1, j)
           /\ s[n + 1].part # s[n + 1].of => Written(ms, s, n + 1, t)
           /\ s[n + 1].part = s[n + 1].of =>
                /\ j < Len(ms) /\ s[n + 1].msg = ms[j + 1]
                /\ Written(ms, s, n + 1, Append(t, ms[j + 1]))
  <1>1. PICK c : Completed(ms, s, c) /\ n \in 0..Len(s) /\ t = SubSeq(ms, 1, c[n])
    BY DEF Written
  <1> DEFINE j == c[n]
  <1>2. j \in 0..Len(ms)
    BY <1>1 DEF Completed
  <1>3. n + 1 \in 1..Len(s) /\ (n + 1) - 1 = n
    BY <1>1
  <1>4. /\ c[n + 1] = IF s[n + 1].part = s[n + 1].of THEN j + 1 ELSE j
        /\ j < Len(ms) /\ s[n + 1].msg = ms[j + 1]
    BY <1>1, <1>3 DEF Completed
  <1>5. SubSeq(ms, 1, j + 1) = Append(SubSeq(ms, 1, j), ms[j + 1])
    <2> HIDE DEF j
    <2>1. j \in Nat /\ j + 1 \in 1..Len(ms)
      BY <1>2, <1>4
    <2>2. /\ SubSeq(ms, 1, j) \in Seq(MsgSet) /\ Len(SubSeq(ms, 1, j)) = j
          /\ \A i \in 1..j : SubSeq(ms, 1, j)[i] = ms[i]
      BY <2>1
    <2>3. /\ SubSeq(ms, 1, j + 1) \in Seq(MsgSet) /\ Len(SubSeq(ms, 1, j + 1)) = j + 1
          /\ \A i \in 1..(j + 1) : SubSeq(ms, 1, j + 1)[i] = ms[i]
      BY <2>1
    <2>4. /\ Append(SubSeq(ms, 1, j), ms[j + 1]) \in Seq(MsgSet)
          /\ Len(Append(SubSeq(ms, 1, j), ms[j + 1])) = j + 1
          /\ \A i \in 1..(j + 1) : Append(SubSeq(ms, 1, j), ms[j + 1])[i] = ms[i]
      BY <2>1, <2>2
    <2> QED BY <2>3, <2>4, SeqEqual
  <1>6. n + 1 \in 0..Len(s)
    BY <1>3
  <1> QED BY <1>1, <1>2, <1>4, <1>5, <1>6 DEF Written

\* Answers are counted one by one.
LEMMA CountFacts ==
  ASSUME NEW ms \in Seq(MsgSet)
  PROVE  /\ \A k \in Nat : Count(ms, k) \in Nat
         /\ \A m \in MsgSet, k \in 0..Len(ms) : Count(Append(ms, m), k) = Count(ms, k)
         /\ \A m \in MsgSet : Count(Append(ms, m), Len(ms) + 1) =
              IF m.tag = "C" THEN Count(ms, Len(ms)) + 1 ELSE Count(ms, Len(ms))
  <1> DEFINE A(q, k) == {j \in 1..k : q[j].tag = "C"}
  <1>1. ASSUME NEW q, NEW k \in Nat
        PROVE  IsFiniteSet(A(q, k)) /\ Cardinality(A(q, k)) \in Nat
    <2>1. IsFiniteSet(1..k)
      BY FS_Interval
    <2> QED BY <2>1, FS_Subset, FS_CardinalityType
  <1>2. \A m \in MsgSet, k \in 0..Len(ms) : A(Append(ms, m), k) = A(ms, k)
    OBVIOUS
  <1>3. ASSUME NEW m \in MsgSet
        PROVE  Count(Append(ms, m), Len(ms) + 1) =
                 IF m.tag = "C" THEN Count(ms, Len(ms)) + 1 ELSE Count(ms, Len(ms))
    <2> DEFINE l == Len(ms)
               ns == Append(ms, m)
    <2>1. l \in Nat /\ ns[l + 1] = m /\ \A i \in 1..l : ns[i] = ms[i]
      OBVIOUS
    <2> HIDE DEF ns
    <2>2. A(ns, l + 1) = IF m.tag = "C" THEN A(ms, l) \cup {l + 1} ELSE A(ms, l)
      BY <2>1
    <2>3. l + 1 \notin A(ms, l) /\ IsFiniteSet(A(ms, l))
      BY <1>1, <2>1
    <2>4. Cardinality(A(ms, l) \cup {l + 1}) = Cardinality(A(ms, l)) + 1
      BY <2>3, FS_AddElement
    <2> QED BY <2>2, <2>4 DEF Count, ns
  <1> QED BY <1>1, <1>2, <1>3 DEF Count

\* What may follow depends on what was written before only.
LEMMA FollowPrefix ==
  ASSUME NEW ms \in Seq(MsgSet), NEW m \in MsgSet, NEW k \in 1..(Len(ms) + 1), NEW x, NEW asked
  PROVE  MayFollow(ms, k, x, asked) => MayFollow(Append(ms, m), k, x, asked)
  <1> DEFINE ns == Append(ms, m)
  <1>1. \A j \in 1..(k - 1) : ns[j] = ms[j]
    OBVIOUS
  <1>2. Count(ns, k - 1) = Count(ms, k - 1)
    <2>1. k - 1 \in 0..Len(ms)
      OBVIOUS
    <2> QED BY <2>1, CountFacts
  <1>3. TagBefore(ns, k) = TagBefore(ms, k)
    <2>1. k # 1 => k - 1 \in 1..(k - 1)
      OBVIOUS
    <2> HIDE DEF ns
    <2> QED BY <1>1, <2>1 DEF TagBefore
  <1> HIDE DEF ns
  <1>4. MayFollow(ms, k, x, asked) => MayFollow(ns, k, x, asked)
    BY <1>1, <1>2, <1>3 DEF MayFollow
  <1> QED BY <1>4 DEF ns

LEMMA LawfulAppend ==
  ASSUME NEW ms \in Seq(MsgSet), NEW m \in MsgSet, NEW asked,
         Lawful(ms, asked), MayFollow(ms, Len(ms) + 1, m, asked)
  PROVE  Lawful(Append(ms, m), asked)
  <1> DEFINE l == Len(ms)
             ns == Append(ms, m)
  <1>1. l \in Nat /\ Len(ns) = l + 1 /\ ns[l + 1] = m /\ \A i \in 1..l : ns[i] = ms[i]
    OBVIOUS
  <1>2. ASSUME NEW k \in 1..(l + 1)
        PROVE  MayFollow(ns, k, ns[k], asked)
    <2>1. MayFollow(ms, k, ns[k], asked)
      BY <1>1 DEF Lawful
    <2> QED BY <2>1, FollowPrefix
  <1> QED BY <1>1, <1>2 DEF Lawful

\* More questions make no answer unlawful.
LEMMA LawfulMore ==
  ASSUME NEW ms \in Seq(MsgSet), NEW a \in Nat, NEW b \in Nat, a <= b, Lawful(ms, a)
  PROVE  Lawful(ms, b)
  <1> SUFFICES ASSUME NEW k \in 1..Len(ms)
               PROVE  MayFollow(ms, k, ms[k], b)
    BY DEF Lawful
  <1>1. MayFollow(ms, k, ms[k], a)
    BY DEF Lawful
  <1>2. Count(ms, k - 1) \in Nat
    <2>1. k - 1 \in Nat
      OBVIOUS
    <2> QED BY <2>1, CountFacts
  <1>3. Count(ms, k - 1) < a => Count(ms, k - 1) < b
    BY <1>2
  <1> QED BY <1>1, <1>3 DEF MayFollow

-----------------------------------------------------------------------------
(* Kinds of steps.                                                         *)

\* Nothing that Talk is about changes.
LEMMA StillTalk ==
  ASSUME NEW ms \in Seq(MsgSet), Talk(ms), UNCHANGED <<pc, ssl, unreported, inmsgbuf>>,
         UNCHANGED <<inq, cunits, cstage, nq, emitted, rcvd, told>>
  PROVE  Talk(ms)'
  <1>1. Written(ms, emitted, Len(rcvd), told)' /\ Lawful(ms, nq)'
    BY DEF Talk
  <1>2. Position(ms)'
    BY DEF Talk, Position
  <1>3. InStep(ms)'
    <2>1. ReaderAt' = ReaderAt /\ (QueryInHand' <=> QueryInHand)
      BY DEF ReaderAt, QueryInHand
    <2> QED BY <2>1, StillTrack DEF Talk, InStep
  <1> QED BY <1>1, <1>2, <1>3 DEF Talk

\* The session comes to its end without another message.
LEMMA EndTalk ==
  ASSUME NEW ms \in Seq(MsgSet), Talk(ms), pc' \in Ending, UNCHANGED <<emitted, rcvd, told, nq>>
  PROVE  Talk(ms)'
  <1>1. Written(ms, emitted, Len(rcvd), told)' /\ Lawful(ms, nq)'
    BY DEF Talk
  <1>2. Position(ms)'
    BY DEF Position, Ending, EndPcs
  <1>3. InStep(ms)'
    BY DEF InStep, QueryInHand, Ending, EndPcs
  <1> QED BY <1>1, <1>2, <1>3 DEF Talk

\* A message that may follow is written.
LEMMA EmitTalk ==
  ASSUME TypeOK, NEW ms \in Seq(MsgSet), Talk(ms), NEW m \in MsgSet, NEW n \in Nat \ {0}, Emit(m, n),
         UNCHANGED <<rcvd, told, nq>>, MayFollow(ms, Len(ms) + 1, m, nq)
  PROVE  /\ Append(ms, m) \in Seq(MsgSet)
         /\ Written(Append(ms, m), emitted, Len(rcvd), told)' /\ Lawful(Append(ms, m), nq)'
         /\ LastTag(Append(ms, m)) = m.tag
         /\ Len(Append(ms, m)) = Len(ms) + 1 /\ Append(ms, m)[Len(ms) + 1] = m
         /\ \A i \in 1..Len(ms) : Append(ms, m)[i] = ms[i]
         /\ Count(Append(ms, m), Len(Append(ms, m))) =
              IF m.tag = "C" THEN Count(ms, Len(ms)) + 1 ELSE Count(ms, Len(ms))
  <1>1. /\ Append(ms, m) \in Seq(MsgSet) /\ Len(Append(ms, m)) = Len(ms) + 1
        /\ Append(ms, m)[Len(ms) + 1] = m /\ \A i \in 1..Len(ms) : Append(ms, m)[i] = ms[i]
    OBVIOUS
  <1>2. Written(Append(ms, m), emitted \o Chunks(m, n), Len(rcvd), told)
    BY EmitWritten DEF Talk, TypeOK
  <1>3. Written(Append(ms, m), emitted, Len(rcvd), told)'
    BY <1>2 DEF Emit
  <1>4. Lawful(Append(ms, m), nq)'
    BY LawfulAppend DEF Talk
  <1>5. LastTag(Append(ms, m)) = m.tag
    <2>1. Len(ms) \in Nat /\ (Len(ms) + 1) + 1 # 1 /\ ((Len(ms) + 1) + 1) - 1 = Len(ms) + 1
      OBVIOUS
    <2> QED BY <1>1, <2>1 DEF LastTag, TagBefore
  <1> QED BY <1>1, <1>3, <1>4, <1>5, CountFacts

\* The session fails: the error may follow whatever was not one.
LEMMA FailTalk ==
  ASSUME TypeOK, NEW ms \in Seq(MsgSet), Talk(ms), NEW c \in ErrCodes, Fail(c),
         UNCHANGED <<rcvd, told, nq>>, LastTag(ms) # "E"
  PROVE  \E ns \in Seq(MsgSet) : Talk(ns)'
  <1>1. PICK n \in Nat \ {0} : Emit(ErrorResponse(c), n)
    BY FailTyped
  <1>2. pc' = "on_error" /\ ErrorResponse(c) \in MsgSet
    BY MessagesTyped DEF Fail
  <1>3. MayFollow(ms, Len(ms) + 1, ErrorResponse(c), nq)
    BY DEF MayFollow, LastTag
  <1> DEFINE ns == Append(ms, ErrorResponse(c))
  <1>4. ns \in Seq(MsgSet) /\ Written(ns, emitted, Len(rcvd), told)' /\ Lawful(ns, nq)'
    BY <1>1, <1>2, <1>3, EmitTalk
  <1> HIDE DEF ns
  <1>5. Position(ns)'
    BY <1>2 DEF Position
  <1>6. InStep(ns)'
    BY <1>2 DEF InStep, QueryInHand, Ending
  <1> QED BY <1>4, <1>5, <1>6 DEF Talk

\* A read moves the reader along a unit; q is where it then is.
LEMMA ReadTalk ==
  ASSUME TypeOK, NEW ms \in Seq(MsgSet), Talk(ms), pc \in ReadPcs, inq # <<>>, inq' = Tail(inq),
         UNCHANGED <<cliVars, ssl, unreported, emitted, rcvd, told>>
  PROVE  /\ Written(ms, emitted, Len(rcvd), told)' /\ Lawful(ms, nq)'
         /\ \E q \in States : /\ Parse(At(ReaderAt, Count(ms, Len(ms)) + 1), Head(inq), q)
                              /\ Track(q.at, q.next)'
  <1>1. Written(ms, emitted, Len(rcvd), told)' /\ Lawful(ms, nq)'
    BY DEF Talk, cliVars
  <1>2. pc \notin Ending /\ ~QueryInHand
    BY DEF ReadPcs, LenPcs, BodyPcs, Ending, EndPcs, QueryInHand
  <1>3. Track(ReaderAt, Count(ms, Len(ms)) + 1)
    BY <1>2 DEF Talk, InStep
  <1> QED BY <1>1, <1>3, ReadTrack DEF cliVars

-----------------------------------------------------------------------------
(* The reads.                                                              *)

LEMMA ReadTypeTalk ==
  ASSUME TypeOK, NEW ms \in Seq(MsgSet), Talk(ms), ReadType, UNCHANGED told
  PROVE  Talk(ms)'
  <1>1. /\ pc = "msg_type" /\ pc' = "msg_len" /\ inq # <<>> /\ inq' = Tail(inq)
        /\ UNCHANGED <<cliVars, ssl, unreported, emitted, rcvd>>
    BY DEF ReadType, outVars
  <1>2. /\ Written(ms, emitted, Len(rcvd), told)' /\ Lawful(ms, nq)'
        /\ \E q \in States : /\ Parse(At(ReaderAt, Count(ms, Len(ms)) + 1), Head(inq), q)
                             /\ Track(q.at, q.next)'
    BY <1>1, ReadTalk DEF ReadPcs
  <1>3. PICK q \in States : /\ Parse(At(ReaderAt, Count(ms, Len(ms)) + 1), Head(inq), q)
                            /\ Track(q.at, q.next)'
    BY <1>2
  <1>4. ReaderAt = "type" /\ ReaderAt' = "tlen" /\ ~QueryInHand'
    BY <1>1 DEF ReaderAt, QueryInHand
  <1>5. q.at = "tlen" /\ q.next = Count(ms, Len(ms)) + 1
    BY <1>3, <1>4 DEF Parse, At
  <1>6. InStep(ms)'
    BY <1>1, <1>3, <1>4, <1>5 DEF InStep
  <1>7. Position(ms)'
    BY <1>1 DEF Talk, Position
  <1> QED BY <1>2, <1>6, <1>7 DEF Talk

LEMMA ReadLenTalk ==
  ASSUME TypeOK, NEW ms \in Seq(MsgSet), Talk(ms), ReadLen, UNCHANGED told
  PROVE  Talk(ms)'
  <1>1. /\ pc \in LenPcs /\ inq # <<>> /\ inq' = Tail(inq)
        /\ UNCHANGED <<cliVars, ssl, unreported, emitted, rcvd>>
        /\ \/ Head(inq).val = "short" /\ pc' = "panicked"
           \/ /\ Head(inq).val = "empty" /\ inmsgbuf' = Empty
              /\ pc' = IF pc = "startup_len" THEN "startup_dispatch" ELSE "dispatch"
           \/ /\ Head(inq).val \notin {"short", "empty"}
              /\ pc' = IF pc = "startup_len" THEN "startup_body" ELSE "msg_body"
    <2>1. CASE Head(inq).val = "short"
      BY <2>1 DEF ReadLen, Panic
    <2>2. CASE Head(inq).val = "empty"
      BY <2>2 DEF ReadLen, outVars
    <2>3. CASE Head(inq).val \notin {"short", "empty"}
      BY <2>3 DEF ReadLen, outVars
    <2> QED BY <2>1, <2>2, <2>3
  <1>2. /\ Written(ms, emitted, Len(rcvd), told)' /\ Lawful(ms, nq)'
        /\ \E q \in States : /\ Parse(At(ReaderAt, Count(ms, Len(ms)) + 1), Head(inq), q)
                             /\ Track(q.at, q.next)'
    BY <1>1, ReadTalk DEF ReadPcs
  <1>3. PICK q \in States : /\ Parse(At(ReaderAt, Count(ms, Len(ms)) + 1), Head(inq), q)
                            /\ Track(q.at, q.next)'
    BY <1>2
  <1>4. CASE pc' = "panicked"
    BY <1>1, <1>4, EndTalk DEF Ending, EndPcs, cliVars
  <1>5. CASE pc = "startup_len" /\ pc' # "panicked"
    <2>1. ReaderAt = "slen"
      BY <1>5 DEF ReaderAt
    <2>2. /\ q.next = Count(ms, Len(ms)) + 1
          /\ q.at = IF Head(inq).val = "empty" THEN "type" ELSE "sbody"
      BY <1>1, <1>3, <1>5, <2>1 DEF Parse, At
    <2>3. ReaderAt' = q.at /\ ~QueryInHand'
      BY <1>1, <1>5, <2>2 DEF ReaderAt, QueryInHand, Empty
    <2>4. InStep(ms)'
      BY <1>1, <1>3, <1>5, <2>2, <2>3 DEF InStep, Empty
    <2>5. Position(ms)'
      BY <1>1, <1>5 DEF Talk, Position
    <2> QED BY <1>2, <2>4, <2>5 DEF Talk
  <1>6. CASE pc = "msg_len" /\ pc' # "panicked"
    <2>1. ReaderAt = "tlen"
      BY <1>6 DEF ReaderAt
    <2>2. /\ q.next = Count(ms, Len(ms)) + 1
          /\ q.at = IF Head(inq).val = "empty" THEN "type" ELSE "tbody"
      BY <1>1, <1>3, <1>6, <2>1 DEF Parse, At
    <2>3. ReaderAt' = q.at /\ ~QueryInHand'
      BY <1>1, <1>6, <2>2 DEF ReaderAt, QueryInHand, Empty
    <2>4. InStep(ms)'
      BY <1>1, <1>3, <1>6, <2>2, <2>3 DEF InStep, Empty
    <2>5. Position(ms)'
      BY <1>1, <1>6 DEF Talk, Position
    <2> QED BY <1>2, <2>4, <2>5 DEF Talk
  <1> QED BY <1>1, <1>4, <1>5, <1>6 DEF LenPcs

LEMMA ReadContentTalk ==
  ASSUME TypeOK, NEW ms \in Seq(MsgSet), Talk(ms), ReadContent, UNCHANGED told
  PROVE  Talk(ms)'
  <1>1. /\ pc \in BodyPcs /\ inq # <<>> /\ inq' = Tail(inq)
        /\ UNCHANGED <<cliVars, ssl, unreported, emitted, rcvd>>
        /\ inmsgbuf'.form = Head(inq).val /\ inmsgbuf'.id = Head(inq).id
        /\ pc' = IF pc = "startup_body" THEN "startup_dispatch" ELSE "dispatch"
    BY DEF ReadContent, outVars
  <1>2. /\ Written(ms, emitted, Len(rcvd), told)' /\ Lawful(ms, nq)'
        /\ \E q \in States : /\ Parse(At(ReaderAt, Count(ms, Len(ms)) + 1), Head(inq), q)
                             /\ Track(q.at, q.next)'
    BY <1>1, ReadTalk DEF ReadPcs
  <1>3. PICK q \in States : /\ Parse(At(ReaderAt, Count(ms, Len(ms)) + 1), Head(inq), q)
                            /\ Track(q.at, q.next)'
    BY <1>2
  <1>4. CASE pc = "startup_body"
    <2>1. ReaderAt = "sbody"
      BY <1>4 DEF ReaderAt
    <2>2. /\ q.next = Count(ms, Len(ms)) + 1 /\ Head(inq).val \in StartupBodies
          /\ q.at = IF Head(inq).val = "SSL" THEN "slen" ELSE "type"
      BY <1>3, <2>1 DEF Parse, At, StartupBodies
    <2>3. ReaderAt' = q.at /\ ~QueryInHand'
      BY <1>1, <1>4, <2>2 DEF ReaderAt, QueryInHand
    <2>4. InStep(ms)'
      BY <1>1, <1>3, <1>4, <2>2, <2>3 DEF InStep
    <2>5. Position(ms)'
      BY <1>1, <1>4 DEF Talk, Position
    <2> QED BY <1>2, <2>4, <2>5 DEF Talk
  <1>5. CASE pc = "msg_body"
    <2>1. ReaderAt = "tbody" /\ Count(ms, Len(ms)) \in Nat
      BY <1>5, CountFacts DEF ReaderAt
    <2>2. /\ q.at = "type" /\ Head(inq).val \in TypedBodies
          /\ q.next = Count(ms, Len(ms)) + (IF Head(inq).val = "Query" THEN 2 ELSE 1)
          /\ Head(inq).val = "Query" => Head(inq).id = Count(ms, Len(ms)) + 1
      BY <1>3, <2>1 DEF Parse, At, TypedBodies
    <2>3. ReaderAt' = "type" /\ (QueryInHand' <=> Head(inq).val = "Query")
      BY <1>1, <1>5 DEF ReaderAt, QueryInHand
    <2>4. InStep(ms)'
      BY <1>1, <1>3, <1>5, <2>2, <2>3 DEF InStep
    <2>5. Position(ms)'
      BY <1>1, <1>5 DEF Talk, Position
    <2> QED BY <1>2, <2>4, <2>5 DEF Talk
  <1> QED BY <1>1, <1>4, <1>5 DEF BodyPcs

-----------------------------------------------------------------------------
(* The answers.                                                            *)

\* A message m that is no answer to a query was written in its turn: Talk holds
\* of the longer list when Position does and the reader has not moved.
LEMMA SaidTalk ==
  ASSUME TypeOK, NEW ms \in Seq(MsgSet), Talk(ms), NEW m \in MsgSet, m.tag # "C",
         NEW n \in Nat \ {0}, Emit(m, n), MayFollow(ms, Len(ms) + 1, m, nq),
         UNCHANGED <<rcvd, told, inq, cunits, cstage, nq>>,
         pc \notin Ending, ~QueryInHand, ReaderAt' = ReaderAt,
         pc' \notin {"startup_dispatch", "dispatch"}, Position(Append(ms, m))'
  PROVE  \E ns \in Seq(MsgSet) : Talk(ns)'
  <1> DEFINE ns == Append(ms, m)
  <1>1. /\ ns \in Seq(MsgSet) /\ Written(ns, emitted, Len(rcvd), told)' /\ Lawful(ns, nq)'
        /\ Count(ns, Len(ns)) = Count(ms, Len(ms))
    BY EmitTalk
  <1>2. PICK a : a = ReaderAt
    OBVIOUS
  <1>3. Track(a, Count(ms, Len(ms)) + 1)
    BY <1>2 DEF Talk, InStep
  <1>4. Track(a, Count(ms, Len(ms)) + 1)'
    BY <1>3, StillTrack
  <1>5. Position(ns)'
    OBVIOUS
  <1> HIDE DEF ns
  <1>6. InStep(ns)'
    BY <1>1, <1>2, <1>4 DEF InStep, QueryInHand
  <1> QED BY <1>1, <1>5, <1>6 DEF Talk

LEMMA StartupDispatchTalk ==
  ASSUME TypeOK, NEW ms \in Seq(MsgSet), Talk(ms), StartupDispatch, UNCHANGED told
  PROVE  \E ns \in Seq(MsgSet) : Talk(ns)'
  <1>1. /\ pc = "startup_dispatch" /\ UNCHANGED <<rcvd, inq, cunits, cstage, nq, inmsgbuf, unreported>>
        /\ pc \notin Ending /\ ~QueryInHand
    BY DEF StartupDispatch, cliVars, Ending, EndPcs, QueryInHand
  <1>2. /\ LastTag(ms) = IF ssl THEN "N" ELSE ""
        /\ \A g \in Reported : g \in unreported <=> \A j \in 1..Len(ms) : ms[j] # ParamStatus(g)
    BY <1>1 DEF Talk, Position
  <1>3. CASE IsCancel
    <2>1. pc' = "panicked" /\ UNCHANGED emitted
      BY <1>3 DEF StartupDispatch, IsCancel, IsStartup, Panic
    <2> QED BY <1>1, <2>1, EndTalk DEF Ending, EndPcs
  <1>4. CASE inmsgbuf.form = "SSL" /\ ~ssl
    <2>1. pc' = "nossl" /\ ssl' = TRUE /\ Emit(NoSSL, 1)
      BY <1>4 DEF StartupDispatch, IsCancel, IsStartup
    <2>2. MayFollow(ms, Len(ms) + 1, NoSSL, nq)
      BY <1>2, <1>4 DEF MayFollow, LastTag
    <2>3. NoSSL \in MsgSet /\ NoSSL.tag = "N" /\ \A g \in Reported : NoSSL # ParamStatus(g)
      BY MessagesTyped DEF NoSSL, ParamStatus
    <2>4. /\ LastTag(Append(ms, NoSSL)) = NoSSL.tag
          /\ Len(Append(ms, NoSSL)) = Len(ms) + 1 /\ Append(ms, NoSSL)[Len(ms) + 1] = NoSSL
          /\ \A i \in 1..Len(ms) : Append(ms, NoSSL)[i] = ms[i]
      BY <1>1, <2>1, <2>2, <2>3, EmitTalk, Sizes
    <2>5. Position(Append(ms, NoSSL))'
      <3>1. PICK ns : ns = Append(ms, NoSSL)
        OBVIOUS
      <3>2. \A g \in Reported : (\A j \in 1..Len(ns) : ns[j] # ParamStatus(g))
                                  <=> (\A j \in 1..Len(ms) : ms[j] # ParamStatus(g))
        BY <2>3, <2>4, <3>1
      <3> QED BY <1>1, <1>2, <2>1, <2>3, <2>4, <3>1, <3>2 DEF Position
    <2>6. ReaderAt' = ReaderAt
      BY <1>1, <1>4, <2>1 DEF ReaderAt
    <2> QED BY <1>1, <2>1, <2>2, <2>3, <2>5, <2>6, SaidTalk, Sizes
  <1>5. CASE IsStartup
    <2>1. pc' = "auth" /\ Emit(AuthOk, SmallSize)
      BY <1>5 DEF StartupDispatch, IsCancel, IsStartup
    <2>2. MayFollow(ms, Len(ms) + 1, AuthOk, nq)
      BY <1>2 DEF MayFollow, LastTag
    <2>3. AuthOk \in MsgSet /\ AuthOk.tag = "R" /\ \A g \in Reported : AuthOk # ParamStatus(g)
      BY MessagesTyped DEF AuthOk, ParamStatus
    <2>4. /\ LastTag(Append(ms, AuthOk)) = AuthOk.tag
          /\ Len(Append(ms, AuthOk)) = Len(ms) + 1 /\ Append(ms, AuthOk)[Len(ms) + 1] = AuthOk
          /\ \A i \in 1..Len(ms) : Append(ms, AuthOk)[i] = ms[i]
      BY <1>1, <2>1, <2>2, <2>3, EmitTalk, Sizes
    <2>5. Position(Append(ms, AuthOk))'
      <3>1. PICK ns : ns = Append(ms, AuthOk)
        OBVIOUS
      <3>2. \A g \in Reported : (\A j \in 1..Len(ns) : ns[j] # ParamStatus(g))
                                  <=> (\A j \in 1..Len(ms) : ms[j] # ParamStatus(g))
        BY <2>3, <2>4, <3>1
      <3> QED BY <1>1, <1>2, <2>1, <2>3, <2>4, <3>1, <3>2 DEF Position
    <2>6. ReaderAt' = ReaderAt
      BY <1>1, <1>5, <2>1 DEF ReaderAt, IsStartup
    <2> QED BY <1>1, <2>1, <2>2, <2>3, <2>5, <2>6, SaidTalk, Sizes
  <1>6. CASE /\ ~IsCancel
             /\ ~(inmsgbuf.form = "SSL" /\ ~ssl)
             /\ ~IsStartup
    <2>1. Fail("08P01") /\ LastTag(ms) # "E"
      BY <1>2, <1>6 DEF StartupDispatch, IsCancel, IsStartup
    <2> QED BY <1>1, <2>1, FailTalk DEF ErrCodes
  <1> QED BY <1>3, <1>4, <1>5, <1>6

LEMMA ReportGucTalk ==
  ASSUME TypeOK, NEW ms \in Seq(MsgSet), Talk(ms), ReportGuc, UNCHANGED told
  PROVE  \E ns \in Seq(MsgSet) : Talk(ns)'
  <1>1. PICK g \in unreported : unreported' = unreported \ {g} /\ Emit(ParamStatus(g), SmallSize)
    BY DEF ReportGuc
  <1>2. /\ pc \in {"auth", "gucs"} /\ pc' = "gucs" /\ UNCHANGED <<rcvd, inq, cunits, cstage, nq>>
        /\ pc \notin Ending /\ ~QueryInHand /\ ReaderAt' = ReaderAt /\ g \in Reported
    BY <1>1 DEF ReportGuc, cliVars, inVars, Ending, EndPcs, QueryInHand, ReaderAt, TypeOK
  <1>3. /\ LastTag(ms) \in {"R", "S"}
        /\ \A h \in Reported : h \in unreported <=> \A j \in 1..Len(ms) : ms[j] # ParamStatus(h)
    BY <1>2 DEF Talk, Position
  <1> DEFINE m == ParamStatus(g)
  <1>4. MayFollow(ms, Len(ms) + 1, m, nq)
    <2>1. \A j \in 1..((Len(ms) + 1) - 1) : ms[j] # ParamStatus(g)
      BY <1>1, <1>2, <1>3
    <2> QED BY <1>2, <1>3, <2>1 DEF MayFollow, LastTag
  <1>5. m \in MsgSet /\ m.tag = "S" /\ \A h \in Reported : m = ParamStatus(h) <=> h = g
    <2>1. m \in MsgSet
      BY <1>2, MessagesTyped
    <2>2. \A h : ParamStatus(h).guc = h /\ ParamStatus(h).tag = "S"
      BY DEF ParamStatus
    <2> QED BY <2>1, <2>2
  <1>6. /\ LastTag(Append(ms, m)) = m.tag
        /\ Len(Append(ms, m)) = Len(ms) + 1 /\ Append(ms, m)[Len(ms) + 1] = m
        /\ \A i \in 1..Len(ms) : Append(ms, m)[i] = ms[i]
    BY <1>1, <1>2, <1>4, <1>5, EmitTalk, Sizes
  <1>7. Position(Append(ms, m))'
    <2>1. PICK ns : ns = Append(ms, m)
      OBVIOUS
    <2>2. \A h \in Reported : (\A j \in 1..Len(ns) : ns[j] # ParamStatus(h))
                                <=> ((\A j \in 1..Len(ms) : ms[j] # ParamStatus(h)) /\ h # g)
      BY <1>5, <1>6, <2>1
    <2> HIDE DEF m
    <2> QED BY <1>1, <1>2, <1>3, <1>5, <1>6, <2>1, <2>2 DEF Position
  <1> QED BY <1>1, <1>2, <1>4, <1>5, <1>7, SaidTalk, Sizes

LEMMA SendKeyDataTalk ==
  ASSUME TypeOK, NEW ms \in Seq(MsgSet), Talk(ms), SendKeyData, UNCHANGED told
  PROVE  \E ns \in Seq(MsgSet) : Talk(ns)'
  <1>1. /\ pc \in {"auth", "gucs"} /\ pc' = "key" /\ UNCHANGED <<rcvd, inq, cunits, cstage, nq>>
        /\ pc \notin Ending /\ ~QueryInHand /\ ReaderAt' = ReaderAt /\ unreported = {}
        /\ Emit(KeyData, SmallSize)
    BY DEF SendKeyData, cliVars, inVars, Ending, EndPcs, QueryInHand, ReaderAt
  <1>2. MayFollow(ms, Len(ms) + 1, KeyData, nq)
    <2>1. LastTag(ms) \in {"R", "S"} /\ \A g \in Reported : \E j \in 1..Len(ms) : ms[j] = ParamStatus(g)
      BY <1>1 DEF Talk, Position
    <2>2. Len(ms) = (Len(ms) + 1) - 1
      OBVIOUS
    <2> QED BY <2>1, <2>2 DEF MayFollow, LastTag
  <1>3. KeyData \in MsgSet /\ KeyData.tag = "K"
    BY MessagesTyped DEF KeyData
  <1>4. LastTag(Append(ms, KeyData)) = KeyData.tag
    BY <1>1, <1>2, <1>3, EmitTalk, Sizes
  <1>5. Position(Append(ms, KeyData))'
    BY <1>1, <1>3, <1>4 DEF Position
  <1> QED BY <1>1, <1>2, <1>3, <1>5, SaidTalk, Sizes

LEMMA SendReadyTalk ==
  ASSUME TypeOK, NEW ms \in Seq(MsgSet), Talk(ms), SendReady, UNCHANGED told
  PROVE  \E ns \in Seq(MsgSet) : Talk(ns)'
  <1>1. /\ pc \in {"key", "complete"} /\ pc' = "ready" /\ UNCHANGED <<rcvd, inq, cunits, cstage, nq>>
        /\ pc \notin Ending /\ ~QueryInHand /\ ReaderAt' = ReaderAt
        /\ Emit(ReadyForQuery, SmallSize)
    BY DEF SendReady, cliVars, inVars, Ending, EndPcs, QueryInHand, ReaderAt
  <1>2. MayFollow(ms, Len(ms) + 1, ReadyForQuery, nq)
    <2>1. LastTag(ms) \in {"K", "C"}
      BY <1>1 DEF Talk, Position
    <2> QED BY <2>1 DEF MayFollow, LastTag
  <1>3. ReadyForQuery \in MsgSet /\ ReadyForQuery.tag = "Z"
    BY MessagesTyped DEF ReadyForQuery
  <1>4. LastTag(Append(ms, ReadyForQuery)) = ReadyForQuery.tag
    BY <1>1, <1>2, <1>3, EmitTalk, Sizes
  <1>5. Position(Append(ms, ReadyForQuery))'
    BY <1>1, <1>3, <1>4 DEF Position
  <1> QED BY <1>1, <1>2, <1>3, <1>5, SaidTalk, Sizes

LEMMA DispatchTalk ==
  ASSUME TypeOK, NEW ms \in Seq(MsgSet), Talk(ms), Dispatch, UNCHANGED told
  PROVE  \E ns \in Seq(MsgSet) : Talk(ns)'
  <1>1. /\ pc = "dispatch" /\ UNCHANGED <<rcvd, inq, cunits, cstage, nq, inmsgbuf>>
        /\ pc \notin Ending /\ LastTag(ms) = "Z"
    BY DEF Dispatch, cliVars, inVars, Ending, EndPcs, Talk, Position
  <1>2. CASE msgtype \in {"EOF", "X"}
    <2>1. pc' = "final_flush" /\ UNCHANGED emitted
      BY <1>2 DEF Dispatch, outVars
    <2> QED BY <1>1, <2>1, EndTalk DEF Ending
  <1>3. CASE msgtype = "Q" /\ inmsgbuf.form = "Query"
    <2> DEFINE k == Count(ms, Len(ms))
    <2>1. QueryInHand /\ inmsgbuf.id = k + 1 /\ ReaderAt = "type" /\ Track("type", k + 2)
      BY <1>1, <1>3 DEF Talk, InStep, QueryInHand, ReaderAt
    <2>2. k \in Nat /\ k < nq
      <3>1. k \in Nat /\ nq \in Nat
        BY CountFacts DEF TypeOK
      <3>2. k + 2 <= nq + 1
        BY <2>1, TrackBound
      <3> HIDE DEF k
      <3> QED BY <3>1, <3>2
    <2>3. PICK m : m = CmdComplete(k + 1)
      OBVIOUS
    <2>4. pc' = "complete" /\ Emit(m, SmallSize)
      <3>1. pc' = "complete" /\ Emit(CmdComplete(inmsgbuf.id), SmallSize)
        BY <1>3 DEF Dispatch
      <3> QED BY <2>1, <2>3, <3>1, Zenon
    <2>5. m \in MsgSet /\ m.tag = "C"
      BY <2>2, <2>3, MessagesTyped DEF CmdComplete
    <2>6. MayFollow(ms, Len(ms) + 1, m, nq)
      <3>1. (Len(ms) + 1) - 1 = Len(ms)
        OBVIOUS
      <3> QED BY <1>1, <2>2, <2>3, <3>1 DEF MayFollow, LastTag
    <2> DEFINE ns == Append(ms, m)
    <2>7. /\ ns \in Seq(MsgSet) /\ Written(ns, emitted, Len(rcvd), told)' /\ Lawful(ns, nq)'
          /\ LastTag(ns) = "C" /\ Count(ns, Len(ns)) = k + 1
      BY <1>1, <2>4, <2>5, <2>6, EmitTalk, Sizes
    <2> HIDE DEF ns
    <2>8. Position(ns)'
      BY <2>4, <2>7 DEF Position
    <2>9. Track("type", k + 2)'
      BY <1>1, <2>1, StillTrack
    <2>10. ReaderAt' = "type" /\ ~QueryInHand' /\ (k + 1) + 1 = k + 2
      <3>1. (k + 1) + 1 = k + 2
        <4> HIDE DEF k
        <4> QED BY <2>2
      <3> QED BY <2>4, <3>1 DEF ReaderAt, QueryInHand
    <2> HIDE DEF k
    <2>11. InStep(ns)'
      BY <2>4, <2>7, <2>9, <2>10 DEF InStep
    <2> QED BY <2>7, <2>8, <2>11 DEF Talk
  <1>4. CASE msgtype \notin {"EOF", "X"} /\ ~(msgtype = "Q" /\ inmsgbuf.form = "Query")
    <2>1. Fail("08P01")
      BY <1>4 DEF Dispatch
    <2> QED BY <1>1, <2>1, FailTalk DEF ErrCodes
  <1> QED BY <1>2, <1>3, <1>4

\* Flushing moves the task on, past nothing that is read or written.
LEMMA FlushTalk ==
  ASSUME TypeOK, NEW ms \in Seq(MsgSet), Talk(ms), BeginFlush \/ FlushDone, UNCHANGED told
  PROVE  Talk(ms)'
  <1>1. UNCHANGED <<ssl, unreported, inmsgbuf, inq, cunits, cstage, nq, emitted, rcvd>>
    BY DEF BeginFlush, FlushDone, cliVars, inVars, outVars
  <1>2. \/ <<pc, pc'>> \in {<<"nossl", "ssl_flush">>, <<"ready", "ready_flush">>,
                            <<"ssl_flush", "startup_len">>, <<"ready_flush", "msg_type">>}
        \/ pc' \in {"err_flush", "final_flush", "closed"}
    BY DEF BeginFlush, FlushDone, Close
  <1>3. CASE pc' \in {"err_flush", "final_flush", "closed"}
    BY <1>1, <1>3, EndTalk DEF Ending, EndPcs
  <1>4. CASE <<pc, pc'>> \in {<<"nossl", "ssl_flush">>, <<"ready", "ready_flush">>,
                              <<"ssl_flush", "startup_len">>, <<"ready_flush", "msg_type">>}
    <2>1. Written(ms, emitted, Len(rcvd), told)' /\ Lawful(ms, nq)'
      BY <1>1 DEF Talk
    <2>2. Position(ms)'
      BY <1>1, <1>4 DEF Talk, Position
    <2>3. PICK a : a = ReaderAt
      OBVIOUS
    <2>4. ReaderAt' = a /\ ~QueryInHand /\ ~QueryInHand' /\ pc \notin Ending
      BY <1>4, <2>3 DEF ReaderAt, QueryInHand, Ending, EndPcs
    <2>5. Track(a, Count(ms, Len(ms)) + 1)'
      BY <1>1, <2>3, <2>4, StillTrack DEF Talk, InStep
    <2>6. InStep(ms)'
      BY <1>4, <2>4, <2>5 DEF InStep
    <2> QED BY <2>1, <2>2, <2>6 DEF Talk
  <1> QED BY <1>2, <1>3, <1>4

\* The client sends.
LEMMA ClientTalk ==
  ASSUME TypeOK, NEW ms \in Seq(MsgSet), Talk(ms), ClientBegin \/ ClientSend, UNCHANGED told
  PROVE  Talk(ms)'
  <1>1. UNCHANGED <<pc, ssl, unreported, inmsgbuf, emitted, rcvd>> /\ nq \in Nat /\ nq' \in {nq, nq + 1}
    BY DEF ClientBegin, ClientSend, SendUnit, outVars, TypeOK
  <1>2. Written(ms, emitted, Len(rcvd), told)' /\ Lawful(ms, nq)'
    <2>1. nq' \in Nat /\ nq <= nq'
      BY <1>1
    <2> QED BY <1>1, <2>1, LawfulMore DEF Talk
  <1>3. Position(ms)'
    BY <1>1 DEF Talk, Position
  <1>4. PICK a, k : a = ReaderAt /\ k = Count(ms, Len(ms)) + (IF QueryInHand THEN 2 ELSE 1)
    OBVIOUS
  <1>5. ReaderAt' = a /\ (QueryInHand' <=> QueryInHand)
    BY <1>1, <1>4 DEF ReaderAt, QueryInHand
  <1>6. pc \notin Ending => Track(a, k)'
    <2>1. pc \notin Ending => Track(a, k)
      BY <1>4 DEF Talk, InStep
    <2> QED BY <2>1, BeginTrack, SendTrack
  <1>7. InStep(ms)'
    BY <1>1, <1>4, <1>5, <1>6 DEF Talk, InStep
  <1> QED BY <1>2, <1>3, <1>7 DEF Talk

\* The next chunk the client receives is the next one written.
LEMMA NextChunk ==
  ASSUME TypeOK, Stream, outq # <<>>
  PROVE  /\ Len(rcvd) \in Nat /\ Len(rcvd) < Len(emitted)
         /\ Head(outq) = emitted[Len(rcvd) + 1]
  <1>1. PICK r \in Seq(ChunkSet) : emitted = Pipeline \o r
    BY DEF Stream
  <1> DEFINE a == rcvd \o outq
             b == a \o wbuf
             d == b \o msg
  <1>2. rcvd \in Seq(ChunkSet) /\ outq \in Seq(ChunkSet) /\ wbuf \in Seq(ChunkSet) /\ msg \in Seq(ChunkSet)
    BY DEF TypeOK
  <1>3. a \in Seq(ChunkSet) /\ Len(rcvd) \in Nat /\ Len(rcvd) < Len(a) /\ a[Len(rcvd) + 1] = Head(outq)
    BY <1>2
  <1>4. ASSUME NEW s \in Seq(ChunkSet), NEW t \in Seq(ChunkSet), Len(rcvd) < Len(s), s[Len(rcvd) + 1] = Head(outq)
        PROVE  /\ s \o t \in Seq(ChunkSet) /\ Len(rcvd) < Len(s \o t)
               /\ (s \o t)[Len(rcvd) + 1] = Head(outq)
    BY <1>3, <1>4
  <1> HIDE DEF a
  <1>5. b \in Seq(ChunkSet) /\ Len(rcvd) < Len(b) /\ b[Len(rcvd) + 1] = Head(outq)
    BY <1>2, <1>3, <1>4
  <1> HIDE DEF b
  <1>6. d \in Seq(ChunkSet) /\ Len(rcvd) < Len(d) /\ d[Len(rcvd) + 1] = Head(outq)
    BY <1>2, <1>4, <1>5
  <1>7. emitted = d \o r
    BY <1>1 DEF Pipeline, a, b
  <1> HIDE DEF d
  <1> QED BY <1>3, <1>4, <1>6, <1>7

\* The client hears a chunk.  Either it completes the next of the messages
\* written, and the client is told that one, or it tells the client nothing.
LEMMA RecvTalk ==
  ASSUME TypeOK, Stream, NEW ms \in Seq(MsgSet), Talk(ms), ClientRecv, Hear
  PROVE  /\ Talk(ms)'
         /\ \/ UNCHANGED told
            \/ \E j \in 0..Len(ms) : j < Len(ms) /\ told = SubSeq(ms, 1, j) /\ told' = Append(told, ms[j + 1])
  <1>1. /\ outq # <<>> /\ rcvd' = Append(rcvd, Head(outq))
        /\ UNCHANGED <<pc, ssl, unreported, inmsgbuf, inq, cunits, cstage, nq, emitted>>
    BY DEF ClientRecv, cliVars, inVars
  <1>2. PICK n, u : n = Len(rcvd) /\ u = emitted[n + 1]
    OBVIOUS
  <1>3. n \in Nat /\ n < Len(emitted) /\ Head(outq) = u
    BY <1>1, <1>2, NextChunk
  <1>4. rcvd' # rcvd /\ Last(rcvd') = u /\ Len(rcvd') = n + 1
    <2>1. rcvd \in Seq(ChunkSet) /\ outq \in Seq(ChunkSet)
      BY DEF TypeOK
    <2>2. Len(rcvd') = n + 1 /\ rcvd'[n + 1] = u
      BY <1>1, <1>2, <1>3, <2>1
    <2> QED BY <1>2, <1>3, <2>2 DEF Last
  <1>5. told' = IF u.part = u.of THEN Append(told, u.msg) ELSE told
    BY <1>4 DEF Hear
  <1>6. PICK j \in 0..Len(ms) :
          /\ told = SubSeq(ms, 1, j)
          /\ u.part # u.of => Written(ms, emitted, n + 1, told)
          /\ u.part = u.of =>
               /\ j < Len(ms) /\ u.msg = ms[j + 1]
               /\ Written(ms, emitted, n + 1, Append(told, ms[j + 1]))
    <2>1. Written(ms, emitted, n, told) /\ emitted \in Seq(ChunkSet)
      BY <1>2 DEF Talk, TypeOK
    <2>2. \E j \in 0..Len(ms) :
            /\ told = SubSeq(ms, 1, j)
            /\ emitted[n + 1].part # emitted[n + 1].of => Written(ms, emitted, n + 1, told)
            /\ emitted[n + 1].part = emitted[n + 1].of =>
                 /\ j < Len(ms) /\ emitted[n + 1].msg = ms[j + 1]
                 /\ Written(ms, emitted, n + 1, Append(told, ms[j + 1]))
      BY <1>3, <2>1, HearWritten
    <2> QED BY <1>2, <2>2, Zenon
  <1>7. Written(ms, emitted', Len(rcvd'), told')
    BY <1>1, <1>4, <1>5, <1>6
  <1>8. Position(ms)' /\ Lawful(ms, nq)'
    BY <1>1 DEF Talk, Position
  <1>9. InStep(ms)'
    <2>1. ReaderAt' = ReaderAt /\ (QueryInHand' <=> QueryInHand)
      BY <1>1 DEF ReaderAt, QueryInHand
    <2> QED BY <1>1, <2>1, StillTrack DEF Talk, InStep
  <1>10. Talk(ms)'
    BY <1>7, <1>8, <1>9 DEF Talk
  <1> QED BY <1>5, <1>6, <1>10

-----------------------------------------------------------------------------
(* The inductive invariant.                                                *)

LEMMA SInvInit == Init /\ told = <<>> => SInv
  <1> SUFFICES ASSUME Init, told = <<>> PROVE SInv
    OBVIOUS
  <1> DEFINE c == [i \in 0..0 |-> 0]
  <1>1. Written(<<>>, emitted, Len(rcvd), told)
    <2>1. emitted = <<>> /\ rcvd = <<>>
      BY DEF Init
    <2>2. Completed(<<>>, <<>>, c) /\ 0 \in 0..Len(<<>>) /\ <<>> = SubSeq(<<>>, 1, c[0])
      BY DEF Completed
    <2> HIDE DEF c
    <2>3. Written(<<>>, <<>>, 0, <<>>)
      BY <2>2 DEF Written
    <2> QED BY <2>1, <2>3
  <1>2. Lawful(<<>>, nq)
    BY DEF Lawful
  <1>3. Position(<<>>)
    BY DEF Position, Init, LastTag, TagBefore
  <1>4. Count(<<>>, Len(<<>>)) = 0
    BY FS_EmptySet DEF Count
  <1>5. Track("slen", 1)
    <2>1. At("slen", 1) \in States /\ At("slen", 1).next = 1 /\ At("slen", 1).at = "slen"
      BY DEF At, States
    <2>2. Run(inq, At("slen", 1), At("slen", 1))
      BY <2>1, RunNothing DEF Init
    <2>3. Sending("slen")
      BY DEF Sending, Init
    <2> QED BY <2>1, <2>2, <2>3 DEF Track, Init
  <1>6. InStep(<<>>)
    BY <1>4, <1>5 DEF InStep, ReaderAt, QueryInHand, Init
  <1>7. <<>> \in Seq(MsgSet)
    OBVIOUS
  <1> QED BY <1>1, <1>2, <1>3, <1>6, <1>7, IInvInit DEF SInv, Talk

\* A step of the session keeps Talk; only a chunk received tells the client
\* something, and what it tells is the next of the messages written.
LEMMA TalkStep ==
  ASSUME TypeOK, Stream, NEW ms \in Seq(MsgSet), Talk(ms), Next, Hear
  PROVE  /\ \E ns \in Seq(MsgSet) : Talk(ns)'
         /\ \/ UNCHANGED told
            \/ /\ UNCHANGED nq
               /\ \E j \in 0..Len(ms) : j < Len(ms) /\ told = SubSeq(ms, 1, j) /\ told' = Append(told, ms[j + 1])
  <1> USE DEF cliVars, inVars, outVars
  <1>1. CASE ClientRecv
    BY <1>1, RecvTalk DEF ClientRecv
  <1>2. rcvd' = rcvd => UNCHANGED told
    BY DEF Hear
  <1>3. CASE ReadType \/ ReadLen \/ ReadContent
    <2>1. UNCHANGED told
      BY <1>2, <1>3 DEF ReadType, ReadLen, ReadContent
    <2> QED BY <1>3, <2>1, ReadTypeTalk, ReadLenTalk, ReadContentTalk
  <1>4. CASE ReadEof \/ ReadError
    <2>1. Fail(ReadErrCode) /\ UNCHANGED <<rcvd, nq>> /\ pc \in ReadPcs
      BY <1>4 DEF ReadEof, ReadError
    <2>2. PICK c \in ErrCodes : c = ReadErrCode
      BY DEF ReadErrCode, ErrCodes
    <2>3. LastTag(ms) # "E"
      BY <2>1 DEF Talk, Position, ReadPcs, LenPcs, BodyPcs
    <2> QED BY <1>2, <2>1, <2>2, <2>3, FailTalk
  <1>5. CASE StartupDispatch
    BY <1>2, <1>5, StartupDispatchTalk DEF StartupDispatch
  <1>6. CASE ReportGuc
    BY <1>2, <1>6, ReportGucTalk DEF ReportGuc
  <1>7. CASE SendKeyData
    BY <1>2, <1>7, SendKeyDataTalk DEF SendKeyData
  <1>8. CASE SendReady
    BY <1>2, <1>8, SendReadyTalk DEF SendReady
  <1>9. CASE Dispatch
    BY <1>2, <1>9, DispatchTalk DEF Dispatch
  <1>10. CASE BeginFlush \/ FlushDone
    <2>1. UNCHANGED told
      BY <1>2, <1>10 DEF BeginFlush, FlushDone
    <2> QED BY <1>10, <2>1, FlushTalk
  <1>11. CASE FlushFail
    <2>1. UNCHANGED <<rcvd, told, nq>>
      BY <1>2, <1>11 DEF FlushFail
    <2>2. CASE pc \in {"ssl_flush", "ready_flush"}
      <3>1. Fail("XX000") /\ LastTag(ms) # "E"
        BY <1>11, <2>2 DEF FlushFail, Talk, Position
      <3> QED BY <2>1, <3>1, FailTalk DEF ErrCodes
    <2>3. CASE pc \notin {"ssl_flush", "ready_flush"}
      <3>1. pc' \in {"final_flush", "closed"} /\ UNCHANGED emitted
        BY <1>11, <2>3 DEF FlushFail, Close
      <3> QED BY <2>1, <3>1, EndTalk DEF Ending, EndPcs
    <2> QED BY <2>2, <2>3
  <1>12. CASE ClientBegin \/ ClientSend
    <2>1. UNCHANGED told
      BY <1>2, <1>12 DEF ClientBegin, ClientSend
    <2> QED BY <1>12, <2>1, ClientTalk
  <1>13. CASE \/ BufferMsg \/ FlushForMsg \/ DirectWrite \/ WriteFail \/ FlushSome
              \/ ClientShut \/ ClientClose \/ Reset \/ Done
    <2>1. /\ UNCHANGED <<pc, ssl, unreported, inmsgbuf>>
          /\ UNCHANGED <<inq, cunits, cstage, nq, emitted, rcvd>>
      BY <1>13 DEF BufferMsg, FlushForMsg, DirectWrite, WriteFail, FlushSome, ClientShut, ClientClose, Reset,
                   Done, vars
    <2> QED BY <1>2, <2>1, StillTalk
  <1> QED
    BY <1>1, <1>3, <1>4, <1>5, <1>6, <1>7, <1>8, <1>9, <1>10, <1>11, <1>12, <1>13
    DEF Next, Server, Progress, Failure, Client

LEMMA SInvStep == SInv /\ [Next /\ Hear]_<<vars, told>> => SInv'
  <1> SUFFICES ASSUME SInv, [Next /\ Hear]_<<vars, told>> PROVE SInv'
    OBVIOUS
  <1>1. IInv'
    <2>1. [Next]_vars
      OBVIOUS
    <2> QED BY <2>1, TypeStep, ControlStep, ErrorStep, PanicStep, StreamStep DEF SInv, IInv
  <1>2. PICK ms \in Seq(MsgSet) : Talk(ms)
    BY DEF SInv
  <1>3. CASE Next /\ Hear
    BY <1>1, <1>2, <1>3, TalkStep DEF SInv, IInv
  <1>4. CASE UNCHANGED <<vars, told>>
    <2>1. Talk(ms)'
      BY <1>2, <1>4, StillTalk DEF vars, cliVars, inVars, outVars
    <2> QED BY <1>1, <2>1 DEF SInv
  <1> QED BY <1>3, <1>4

LEMMA SInvariance == HearingSpec => []SInv
  BY SInvInit, SInvStep, PTL DEF HearingSpec

-----------------------------------------------------------------------------
(* The refinement.                                                         *)

\* To be told the next of the messages written is a step of the Dialogue.
LEMMA TellStep ==
  ASSUME NEW ms \in Seq(MsgSet), Lawful(ms, nq), NEW j \in 0..Len(ms), j < Len(ms),
         told = SubSeq(ms, 1, j), told' = Append(told, ms[j + 1]), UNCHANGED nq
  PROVE  D!Next
  <1> DEFINE m == ms[j + 1]
  <1>1. j \in Nat /\ j + 1 \in 1..Len(ms) /\ (j + 1) - 1 = j
    OBVIOUS
  <1>2. told \in Seq(MsgSet) /\ Len(told) = j /\ DOMAIN told = 1..j /\ \A i \in 1..j : told[i] = ms[i]
    BY <1>1
  <1>3. MayFollow(ms, j + 1, m, nq)
    BY <1>1 DEF Lawful
  <1>4. D!LastTag = TagBefore(ms, j + 1)
    <2>1. CASE j = 0
      BY <1>2, <2>1 DEF D!LastTag, TagBefore
    <2>2. CASE j # 0
      <3>1. told # <<>> /\ told[Len(told)] = ms[j] /\ j + 1 # 1
        BY <1>1, <1>2, <2>2
      <3> QED BY <1>1, <3>1 DEF D!LastTag, TagBefore
    <2> QED BY <2>1, <2>2
  <1>5. D!Answers = Count(ms, j)
    <2>1. {i \in DOMAIN told : told[i].tag = "C"} = {i \in 1..j : ms[i].tag = "C"}
      BY <1>2
    <2>2. \A S : D!Cardinality(S) = Cardinality(S)
      BY DEF D!Cardinality, Cardinality
    <2> QED BY <2>1, <2>2 DEF D!Answers, Count
  <1>6. \A g \in Reported : g \in D!Known <=> \E i \in 1..j : ms[i] = ParamStatus(g)
    BY <1>2 DEF D!Known, ParamStatus
  <1>7. D!Tell(m)
    BY DEF D!Tell
  <1> HIDE DEF m
  <1>8. CASE m = NoSSL /\ TagBefore(ms, j + 1) = ""
    BY <1>4, <1>7, <1>8 DEF D!Next, D!RefuseSSL, NoSSL
  <1>9. CASE m = AuthOk /\ TagBefore(ms, j + 1) \in {"", "N"}
    BY <1>4, <1>7, <1>9 DEF D!Next, D!Accept, AuthOk
  <1>10. ASSUME TagBefore(ms, j + 1) \in {"R", "S"}, NEW g \in Reported, m = ParamStatus(g),
                \A i \in 1..((j + 1) - 1) : ms[i] # ParamStatus(g)
         PROVE  D!Next
    <2>1. g \in Reported \ D!Known
      BY <1>1, <1>6, <1>10
    <2> QED BY <1>4, <1>7, <1>10, <2>1 DEF D!Next, D!Report, ParamStatus
  <1>11. CASE /\ m = KeyData /\ TagBefore(ms, j + 1) \in {"R", "S"}
              /\ \A g \in Reported : \E i \in 1..((j + 1) - 1) : ms[i] = ParamStatus(g)
    <2>1. D!Known = Reported
      <3>1. \A g \in Reported : g \in D!Known
        BY <1>1, <1>6, <1>11
      <3>2. D!Known \subseteq Reported
        BY DEF D!Known
      <3> QED BY <3>1, <3>2
    <2> QED BY <1>4, <1>7, <1>11, <2>1 DEF D!Next, D!GiveKey, KeyData
  <1>12. CASE m = ReadyForQuery /\ TagBefore(ms, j + 1) \in {"K", "C"}
    BY <1>4, <1>7, <1>12 DEF D!Next, D!BeReady, ReadyForQuery
  <1>13. CASE /\ m = CmdComplete(Count(ms, (j + 1) - 1) + 1) /\ TagBefore(ms, j + 1) = "Z"
              /\ Count(ms, (j + 1) - 1) < nq
    <2>1. Count(ms, (j + 1) - 1) = D!Answers
      BY <1>1, <1>5
    <2> QED BY <1>4, <1>7, <1>13, <2>1 DEF D!Next, D!Answer, CmdComplete
  <1>14. CASE TagBefore(ms, j + 1) # "E" /\ \E c \in ErrCodes : m = ErrorResponse(c)
    BY <1>4, <1>7, <1>14 DEF D!Next, D!Refuse, ErrorResponse
  <1> QED
    BY <1>3, <1>8, <1>9, <1>10, <1>11, <1>12, <1>13, <1>14 DEF MayFollow

\* Every step of a session is a step of the Dialogue, or none.
LEMMA DialogueStep == SInv /\ [Next /\ Hear]_<<vars, told>> => [D!Next]_(D!dvars)
  <1> SUFFICES ASSUME SInv, [Next /\ Hear]_<<vars, told>> PROVE [D!Next]_(D!dvars)
    OBVIOUS
  <1>1. PICK ms \in Seq(MsgSet) : Talk(ms)
    BY DEF SInv
  <1>2. CASE Next /\ Hear
    <2>1. \/ UNCHANGED told
          \/ /\ UNCHANGED nq
             /\ \E j \in 0..Len(ms) : j < Len(ms) /\ told = SubSeq(ms, 1, j) /\ told' = Append(told, ms[j + 1])
      BY <1>1, <1>2, TalkStep DEF SInv, IInv
    <2>2. CASE UNCHANGED told
      <3>1. nq' \in {nq, nq + 1}
        <4>1. CASE ClientBegin \/ ClientSend
          BY <4>1 DEF ClientBegin, ClientSend, SendUnit
        <4>2. CASE ~(ClientBegin \/ ClientSend)
          BY <1>2, <4>2
             DEF Next, Server, Progress, Failure, Client, Reset, Done, ClientShut, ClientClose, ClientRecv,
                 ReadType, ReadLen, ReadContent, ReadEof, ReadError, StartupDispatch, ReportGuc, SendKeyData,
                 SendReady, Dispatch, BufferMsg, FlushForMsg, DirectWrite, WriteFail, BeginFlush, FlushSome,
                 FlushDone, FlushFail, vars, cliVars
        <4> QED BY <4>1, <4>2
      <3> QED BY <2>2, <3>1 DEF D!Next, D!Ask, D!dvars
    <2>3. ASSUME UNCHANGED nq, NEW j \in 0..Len(ms), j < Len(ms), told = SubSeq(ms, 1, j),
                 told' = Append(told, ms[j + 1])
          PROVE  D!Next
      BY <1>1, <2>3, TellStep DEF Talk
    <2> QED BY <2>1, <2>2, <2>3
  <1>3. CASE UNCHANGED <<vars, told>>
    BY <1>3 DEF vars, cliVars, D!dvars
  <1> QED BY <1>2, <1>3

\* do_postgres_main and on_error tell the client what the Dialogue allows, for
\* any number of pipelined frames and any buffer: through partial writes, a
\* full socket, I/O errors and a client that leaves, the client hears the
\* startup sequence once and in order, every reported guc once, one
\* CommandComplete and one ReadyForQuery for each query in the order of the
\* queries, and nothing after an error.
THEOREM SessionImplementsDialogue == HearingSpec => Contract
  <1>1. Init /\ told = <<>> => D!Init
    BY DEF Init, D!Init
  <1> QED BY <1>1, SInvariance, DialogueStep, PTL DEF HearingSpec, Contract, D!Spec

\* read_message and read_startup_message read a type where the client sent a
\* type, a length where it sent a length and a body where it sent a body,
\* whatever was pipelined, and no body is dispatched before it was read.
THEOREM FramesInStepAlways == HearingSpec => []FramesInStep
  <1>1. SInv => FramesInStep
    <2> SUFFICES ASSUME SInv PROVE FramesInStep
      OBVIOUS
    <2>1. PICK ms \in Seq(MsgSet) : Talk(ms)
      BY DEF SInv
    <2>2. ASSUME pc \in ReadPcs, inq # <<>>
          PROVE  \E q : Parse(At(ReaderAt, Count(ms, Len(ms)) + 1), Head(inq), q)
      <3>1. pc \notin Ending /\ ~QueryInHand
        BY <2>2 DEF ReadPcs, LenPcs, BodyPcs, Ending, EndPcs, QueryInHand
      <3>2. PICK mid \in States : Run(inq, At(ReaderAt, Count(ms, Len(ms)) + 1), mid)
        BY <2>1, <3>1 DEF Talk, InStep, Track
      <3> QED BY <2>2, <3>2, RunTail DEF SInv, IInv, TypeOK
    <2>3. ASSUME inq # <<>>, pc = "msg_type" PROVE Head(inq).kind = "type"
      <3>1. ReaderAt = "type"
        BY <2>3 DEF ReaderAt
      <3> QED BY <2>2, <2>3, <3>1 DEF ReadPcs, Parse, At
    <2>4. ASSUME inq # <<>>, pc \in LenPcs PROVE Head(inq).kind = "len"
      <3>1. ReaderAt \in {"slen", "tlen"}
        BY <2>4 DEF ReaderAt, LenPcs
      <3> QED BY <2>2, <2>4, <3>1 DEF ReadPcs, Parse, At
    <2>5. ASSUME inq # <<>>, pc \in BodyPcs PROVE Head(inq).kind = "body"
      <3>1. ReaderAt \in {"sbody", "tbody"}
        BY <2>5 DEF ReaderAt, BodyPcs
      <3> QED BY <2>2, <2>5, <3>1 DEF ReadPcs, Parse, At
    <2> QED BY <2>1, <2>3, <2>4, <2>5 DEF FramesInStep, Talk, InStep
  <1> QED BY <1>1, SInvariance, PTL

\* The history variable restricts nothing: what SessionProofs proves of Spec
\* holds of a session whose client is listened to.
LEMMA HearingIsSession == HearingSpec => Spec
  <1>1. [Next /\ Hear]_<<vars, told>> => [Next]_vars
    OBVIOUS
  <1> QED BY <1>1, PTL DEF HearingSpec, Spec

=============================================================================
