------------------------------ MODULE Session ------------------------------
(***************************************************************************)
(* One client connection of KuiBaDB: the task postgres_main spawned by the *)
(* accept loop, the framing code of protocol.rs it reads and writes with,  *)
(* the tokio BufStream it writes through, the two directions of the        *)
(* socket, and a frontend that sends whatever it likes whenever it likes.  *)
(*                                                                         *)
(* Bytes are abstracted.  Input is a stream of units (a message type, a    *)
(* length word, a body): for every read of the code, a unit that is cut    *)
(* short is the same as a unit that is missing.  Output is a stream of     *)
(* chunks: a message is cut into SmallSize chunks (one for the single byte *)
(* NOSSL, ErrSizes for an ErrorResponse that prints the offending message),*)
(* and a chunk is what a partial write or a read of the client can move.   *)
(***************************************************************************)
EXTENDS Integers, Sequences, SequencesExt, FiniteSets

CONSTANTS Reported,  \* the gucs with the REPORT flag
          BufCap,    \* SOCK_SEND_BUF_SIZE, in chunks
          SockCap,   \* what the kernel holds for a client that does not read
          InCap,     \* what the kernel holds for a task that does not read
          ErrSizes,  \* the sizes an ErrorResponse may have
          MaxFrames  \* bound: frames the client sends

SmallSize == 2

\* The messages that may be buffered between two flushes: AuthenticationOk, a
\* ParameterStatus for each reported guc, BackendKeyData and ReadyForQuery.
Burst == SmallSize * (Cardinality(Reported) + 3)

ASSUME ReportedFinite == IsFiniteSet(Reported)
ASSUME BufCapAssumption == BufCap \in Nat /\ BufCap >= Burst
ASSUME SockCapAssumption == SockCap \in Nat \ {0}
ASSUME InCapAssumption == InCap \in Nat \ {0}
ASSUME ErrSizesAssumption == ErrSizes \subseteq Nat \ {0}
ASSUME MaxFramesAssumption == MaxFrames \in Nat

VARIABLES
  cli,        \* the client's end: "open", "shut" (it sends no more), "closed"
  cstage,     \* what the client sends next: a "startup" or a "typed" frame
  cunits,     \* the rest of the frame the client is sending
  nframes,    \* frames begun by the client
  nq,         \* well-formed queries the client has sent in full
  short,      \* history: the client has sent a length word below four
  inq,        \* units sent and not read yet (socket and BufReader)
  pc,         \* where postgres_main is
  ssl,        \* an SSLRequest was answered
  msgtype,    \* the type byte read_message returned
  inmsgbuf,   \* the body of the message being handled
  unreported, \* the gucs report_all_gucs has still to visit
  msg,        \* what write_all has still to hand to the BufWriter
  wbuf,       \* the buffer of the BufWriter
  outq,       \* chunks written to the socket and not received
  rcvd,       \* history: the chunks the client received
  emitted,    \* history: the chunks of every message given to write_all
  lossy       \* history: output was given up after an I/O error or a reset

cliVars == <<cli, cstage, cunits, nframes, nq, short>>
inVars  == <<inq, ssl, msgtype, inmsgbuf>>
outVars == <<msg, wbuf, outq, emitted, lossy>>
vars    == <<cliVars, inVars, pc, unreported, outVars, rcvd>>

-----------------------------------------------------------------------------
(* The frontend's frames.                                                  *)

\* "CancelUser" is a CancelRequest whose eight key bytes read user\0x\0\0: a
\* parameter list of its own.
StartupBodies == {"Cancel", "CancelUser", "SSL", "Startup", "BadEncoding", "Malformed"}
TypedBodies   == {"Query", "NotUTF8"}
Types         == {"Q", "X", "EOF", "Other"}

\* A length word below four, of exactly four, or announcing a body.
Lens == {"short", "empty", "body"}

Unit(k, v, i)  == [kind |-> k, val |-> v, id |-> i]
Vals  == Types \cup Lens \cup StartupBodies \cup TypedBodies
Units == [kind : {"type", "len", "body"}, val : Vals, id : Nat]

\* A length word and, when it announces one, a body.  A query carries its
\* number.
Content(f, i) == <<Unit("len", "body", 0), Unit("body", f, i)>>
Bodiless      == {<<Unit("len", "short", 0)>>, <<Unit("len", "empty", 0)>>}

StartupFrames == {Content(f, 0) : f \in StartupBodies} \cup Bodiless
TypedFrames(i) ==
  {<<Unit("type", t, 0)>> \o c : t \in Types,
                                 c \in {Content("Query", i), Content("NotUTF8", 0)} \cup Bodiless}

\* Vec contents between set_len and the end of read_exact: not the message.
Garbage == [form |-> "garbage", id |-> 0]
Empty   == [form |-> "empty", id |-> 0]
Bodies  == [form : Vals \cup {"garbage"}, id : Nat]

-----------------------------------------------------------------------------
(* The backend's messages.                                                 *)

NoSSL         == [tag |-> "N"]
AuthOk        == [tag |-> "R"]
KeyData       == [tag |-> "K"]
ReadyForQuery == [tag |-> "Z"]
ParamStatus(g)     == [tag |-> "S", guc |-> g]
CmdComplete(i)     == [tag |-> "C", query |-> i]
ErrorResponse(c)   == [tag |-> "E", code |-> c]

\* internal error, connection failure, protocol violation
ErrCodes == {"XX000", "08006", "08P01"}

\* serialize(): a message as n consecutive chunks.
Chunks(m, n) == [i \in 1..n |-> [msg |-> m, part |-> i, of |-> n]]

\* write_message and write_all begin: the serialised message is what is left
\* to hand over.
Emit(m, n) ==
  /\ msg' = Chunks(m, n)
  /\ emitted' = emitted \o Chunks(m, n)

-----------------------------------------------------------------------------
(* Control points of postgres_main.                                        *)

LenPcs   == {"startup_len", "msg_len"}
BodyPcs  == {"startup_body", "msg_body"}
ReadPcs  == LenPcs \cup BodyPcs \cup {"msg_type"}
WritePcs == {"nossl", "auth", "gucs", "key", "ready", "complete", "on_error"}
FlushPcs == {"ssl_flush", "ready_flush", "err_flush", "final_flush"}
EndPcs   == {"closed", "panicked"}
Pcs      == ReadPcs \cup WritePcs \cup FlushPcs \cup EndPcs
              \cup {"startup_dispatch", "dispatch"}

Init ==
  /\ cli = "open" /\ cstage = "startup" /\ cunits = <<>>
  /\ nframes = 0 /\ nq = 0 /\ short = FALSE
  /\ inq = <<>> /\ ssl = FALSE /\ msgtype = "none" /\ inmsgbuf = Empty
  /\ pc = "startup_len" /\ unreported = Reported
  /\ msg = <<>> /\ wbuf = <<>> /\ outq = <<>>
  /\ rcvd = <<>> /\ emitted = <<>> /\ lossy = FALSE

-----------------------------------------------------------------------------
(* The frontend.                                                           *)

\* The client hands the next unit of its stream to its socket.  It never
\* waits for an answer: requests may be pipelined.
SendUnit(frame) ==
  /\ Len(inq) < InCap
  /\ cunits' = Tail(frame)
  /\ inq' = Append(inq, Head(frame))
  /\ nq' = IF frame = <<Unit("body", "Query", nq + 1)>>
             THEN nq + 1 ELSE nq
  /\ short' = (short \/ Head(frame).val = "short")

ClientBegin ==
  /\ cli = "open" /\ cunits = <<>> /\ nframes < MaxFrames
  /\ nframes' = nframes + 1
  /\ \E f \in IF cstage = "startup" THEN StartupFrames ELSE TypedFrames(nq + 1) :
       /\ SendUnit(f)
       /\ cstage' = IF f = Content("SSL", 0) THEN "startup" ELSE "typed"
  /\ UNCHANGED <<cli, ssl, msgtype, inmsgbuf, pc, unreported, outVars, rcvd>>

ClientSend ==
  /\ cli = "open" /\ cunits # <<>>
  /\ SendUnit(cunits)
  /\ UNCHANGED <<cli, cstage, nframes, ssl, msgtype, inmsgbuf, pc, unreported, outVars, rcvd>>

\* shutdown(SHUT_WR), possibly in the middle of a frame.
ClientShut ==
  /\ cli = "open" /\ cli' = "shut"
  /\ UNCHANGED <<cstage, cunits, nframes, nq, short, inVars, pc, unreported, outVars, rcvd>>

\* close(), or a connection the network has cut.
ClientClose ==
  /\ cli # "closed" /\ cli' = "closed"
  /\ UNCHANGED <<cstage, cunits, nframes, nq, short, inVars, pc, unreported, outVars, rcvd>>

ClientRecv ==
  /\ cli # "closed" /\ outq # <<>>
  /\ rcvd' = Append(rcvd, Head(outq))
  /\ outq' = Tail(outq)
  /\ UNCHANGED <<cliVars, inVars, pc, unreported, msg, wbuf, emitted, lossy>>

\* The socket was closed while the peer's data was unread: TCP answers with a
\* reset, and what the client has not received may be discarded.
Reset ==
  /\ pc \in EndPcs /\ inq # <<>> /\ outq # <<>>
  /\ outq' = <<>> /\ lossy' = TRUE
  /\ UNCHANGED <<cliVars, inVars, pc, unreported, msg, wbuf, emitted, rcvd>>

-----------------------------------------------------------------------------
(* Ends of the session.                                                    *)

\* `?` leaves do_postgres_main with an error whose code is c; postgres_main
\* calls on_error, which writes an ErrorResponse.  Only a protocol violation
\* prints the message it is about, and so may be long.
Fail(c) ==
  /\ pc' = "on_error"
  /\ \E n \in IF c = "08P01" THEN ErrSizes ELSE {SmallSize} : Emit(ErrorResponse(c), n)

\* todo!() or an arithmetic check: no message, and the unflushed ones are lost.
Panic ==
  /\ pc' = "panicked"
  /\ wbuf' = <<>> /\ msg' = <<>>

-----------------------------------------------------------------------------
(* Reading: read_startup_message, read_message and read_body.              *)

ReadType ==
  /\ pc = "msg_type" /\ inq # <<>>
  /\ inq' = Tail(inq) /\ msgtype' = Head(inq).val
  /\ pc' = "msg_len"
  /\ UNCHANGED <<cliVars, ssl, inmsgbuf, unreported, outVars, rcvd>>

\* The length counts itself: `len as usize - 4` overflows below four.  The
\* buffer has its new length before read_exact has filled it.
ReadLen ==
  /\ pc \in LenPcs /\ inq # <<>>
  /\ inq' = Tail(inq)
  /\ LET startup == pc = "startup_len" IN
     CASE Head(inq).val = "short" ->
            Panic /\ UNCHANGED <<inmsgbuf, outq, emitted, lossy>>
       [] Head(inq).val = "empty" ->
            /\ inmsgbuf' = Empty
            /\ pc' = IF startup THEN "startup_dispatch" ELSE "dispatch"
            /\ UNCHANGED outVars
       [] OTHER ->
            /\ inmsgbuf' = Garbage
            /\ pc' = IF startup THEN "startup_body" ELSE "msg_body"
            /\ UNCHANGED outVars
  /\ UNCHANGED <<cliVars, ssl, msgtype, unreported, rcvd>>

ReadContent ==
  /\ pc \in BodyPcs /\ inq # <<>>
  /\ inq' = Tail(inq)
  /\ inmsgbuf' = [form |-> Head(inq).val, id |-> Head(inq).id]
  /\ pc' = IF pc = "startup_body" THEN "startup_dispatch" ELSE "dispatch"
  /\ UNCHANGED <<cliVars, ssl, msgtype, unreported, outVars, rcvd>>

\* Only read_message's errors carry ERRCODE_CONNECTION_FAILURE.
ReadErrCode == IF pc \in {"startup_len", "startup_body"} THEN "XX000" ELSE "08006"

\* Mutant: read_exact tries again when the stream ends inside a message.
ReadEofBetween ==
  /\ pc = "msg_type" /\ inq = <<>> /\ cli # "open"
  /\ Fail(ReadErrCode)
  /\ UNCHANGED <<cliVars, inVars, unreported, wbuf, outq, lossy, rcvd>>

\* The stream ends where a read needs more: UnexpectedEof.
ReadEof ==
  /\ pc \in ReadPcs /\ inq = <<>> /\ cli # "open"
  /\ Fail(ReadErrCode)
  /\ UNCHANGED <<cliVars, inVars, unreported, wbuf, outq, lossy, rcvd>>

\* Any other error of a recv.
ReadError ==
  /\ pc \in ReadPcs
  /\ Fail(ReadErrCode)
  /\ UNCHANGED <<cliVars, inVars, unreported, wbuf, outq, lossy, rcvd>>

-----------------------------------------------------------------------------
(* do_postgres_main: startup.                                              *)

\* CancelRequest::deserialize is asked of the first message only.
IsCancel == inmsgbuf.form \in {"Cancel", "CancelUser"} /\ ~ssl

\* StartupMessage::deserialize looks at no code: whatever has the parameters
\* of a startup message is one.  After NOSSL that may be a CancelRequest.
IsStartup == inmsgbuf.form = "Startup" \/ (inmsgbuf.form = "CancelUser" /\ ssl)

StartupDispatch ==
  /\ pc = "startup_dispatch"
  /\ CASE IsCancel ->
            Panic /\ UNCHANGED <<ssl, outq, emitted, lossy>>
       [] inmsgbuf.form = "SSL" /\ ~ssl ->
            /\ pc' = "nossl" /\ ssl' = TRUE
            /\ Emit(NoSSL, 1)
            /\ UNCHANGED <<wbuf, outq, lossy>>
       [] IsStartup ->
            /\ pc' = "auth"
            /\ Emit(AuthOk, SmallSize)
            /\ UNCHANGED <<ssl, wbuf, outq, lossy>>
       [] OTHER ->
            Fail("08P01") /\ UNCHANGED <<ssl, wbuf, outq, lossy>>
  /\ UNCHANGED <<cliVars, inq, msgtype, inmsgbuf, unreported, rcvd>>

\* report_all_gucs walks a HashMap: the order is not specified.
ReportGuc ==
  /\ pc \in {"auth", "gucs"} /\ msg = <<>>
  /\ \E g \in unreported :
       /\ unreported' = unreported \ {g}
       /\ Emit(ParamStatus(g), SmallSize)
  /\ pc' = "gucs"
  /\ UNCHANGED <<cliVars, inVars, wbuf, outq, lossy, rcvd>>

SendKeyData ==
  /\ pc \in {"auth", "gucs"} /\ msg = <<>> /\ unreported = {}
  /\ pc' = "key"
  /\ Emit(KeyData, SmallSize)
  /\ UNCHANGED <<cliVars, inVars, unreported, wbuf, outq, lossy, rcvd>>

-----------------------------------------------------------------------------
(* do_postgres_main: the query loop.                                       *)

SendReady ==
  /\ pc \in {"key", "complete"} /\ msg = <<>>
  /\ pc' = "ready"
  /\ Emit(ReadyForQuery, SmallSize)
  /\ UNCHANGED <<cliVars, inVars, unreported, wbuf, outq, lossy, rcvd>>

\* Mutant: a message that is not understood is reported and the loop goes on.
DispatchGoesOn ==
  /\ pc = "dispatch"
  /\ CASE msgtype \in {"EOF", "X"} ->
            pc' = "final_flush" /\ UNCHANGED outVars
       [] msgtype = "Q" /\ inmsgbuf.form = "Query" ->
            /\ pc' = "complete"
            /\ Emit(CmdComplete(inmsgbuf.id), SmallSize)
            /\ UNCHANGED <<wbuf, outq, lossy>>
       [] OTHER ->
            /\ pc' = "complete"
            /\ Emit(ErrorResponse("08P01"), SmallSize)
            /\ UNCHANGED <<wbuf, outq, lossy>>
  /\ UNCHANGED <<cliVars, inVars, unreported, rcvd>>

Dispatch ==
  /\ pc = "dispatch"
  /\ CASE msgtype \in {"EOF", "X"} ->
            pc' = "final_flush" /\ UNCHANGED outVars
       [] msgtype = "Q" /\ inmsgbuf.form = "Query" ->
            /\ pc' = "complete"
            /\ Emit(CmdComplete(inmsgbuf.id), SmallSize)
            /\ UNCHANGED <<wbuf, outq, lossy>>
       [] OTHER ->
            Fail("08P01") /\ UNCHANGED <<wbuf, outq, lossy>>
  /\ UNCHANGED <<cliVars, inVars, unreported, rcvd>>

-----------------------------------------------------------------------------
(* Writing: write_all over BufWriter::poll_write, and flush.               *)

Room == SockCap - Len(outq)
\* Mutant: one chunk too many is copied before the buffer is emptied.
LateFlush == msg # <<>> /\ wbuf # <<>> /\ Len(wbuf) + Len(msg) > BufCap + 1

MustFlush == msg # <<>> /\ wbuf # <<>> /\ Len(wbuf) + Len(msg) > BufCap
Direct    == msg # <<>> /\ wbuf = <<>> /\ Len(msg) >= BufCap

\* A write of the socket takes what fits, at least one chunk.
SockWrite(s, rest) ==
  \E n \in 1..Len(s) :
    /\ n <= Room
    /\ outq' = outq \o SubSeq(s, 1, n)
    /\ rest = SubSeq(s, n + 1, Len(s))

\* poll_write copies a message that fits.
BufferMsg ==
  /\ pc \in WritePcs /\ msg # <<>> /\ ~MustFlush /\ ~Direct
  /\ wbuf' = wbuf \o msg /\ msg' = <<>>
  /\ UNCHANGED <<cliVars, inVars, pc, unreported, outq, emitted, lossy, rcvd>>

\* poll_write empties the buffer first when the message does not fit in it.
\* (Here the message may be copied as soon as it fits; tokio empties the whole
\* buffer.  What is on its way, and its order, is the same.)
FlushForMsg ==
  /\ pc \in WritePcs /\ MustFlush
  /\ SockWrite(wbuf, wbuf')
  /\ UNCHANGED <<cliVars, inVars, pc, unreported, msg, emitted, lossy, rcvd>>

\* poll_write passes by an empty buffer when the message would fill it.
DirectWrite ==
  /\ pc \in WritePcs /\ Direct
  /\ SockWrite(msg, msg')
  /\ UNCHANGED <<cliVars, inVars, pc, unreported, wbuf, emitted, lossy, rcvd>>

\* write_message ignores the error: the rest of the message is given up and
\* the caller goes on.  (The `?` after NOSSL has no error to return: one byte
\* always fits the empty buffer.)
WriteFail ==
  /\ pc \in WritePcs /\ (MustFlush \/ Direct)
  /\ msg' = <<>> /\ lossy' = TRUE
  /\ UNCHANGED <<cliVars, inVars, pc, unreported, wbuf, outq, emitted, rcvd>>

\* Mutant: the loop reads the next message without flushing ReadyForQuery.
BeginFlushButReady ==
  /\ msg = <<>>
  /\ \/ pc = "nossl" /\ pc' = "ssl_flush"
     \/ pc = "ready" /\ pc' = "msg_type"
     \/ pc = "on_error" /\ pc' = "err_flush"
  /\ UNCHANGED <<cliVars, inVars, unreported, outVars, rcvd>>

\* The write returned; the flush that follows it in the code begins.
BeginFlush ==
  /\ msg = <<>>
  /\ \/ pc = "nossl" /\ pc' = "ssl_flush"
     \/ pc = "ready" /\ pc' = "ready_flush"
     \/ pc = "on_error" /\ pc' = "err_flush"
  /\ UNCHANGED <<cliVars, inVars, unreported, outVars, rcvd>>

FlushSome ==
  /\ pc \in FlushPcs
  /\ SockWrite(wbuf, wbuf')
  /\ UNCHANGED <<cliVars, inVars, pc, unreported, msg, emitted, lossy, rcvd>>

\* postgres_main returns: the stream is dropped with what it has buffered,
\* then FdGuard closes the socket.
Close == pc' = "closed" /\ wbuf' = <<>>

\* Mutant: no second read_startup_message after NOSSL.
FlushDoneNoReread ==
  /\ pc \in FlushPcs /\ wbuf = <<>>
  /\ \/ pc = "ssl_flush" /\ pc' = "msg_type" /\ UNCHANGED wbuf
     \/ pc = "ready_flush" /\ pc' = "msg_type" /\ UNCHANGED wbuf
     \/ pc = "err_flush" /\ pc' = "final_flush" /\ UNCHANGED wbuf
     \/ pc = "final_flush" /\ Close
  /\ UNCHANGED <<cliVars, inVars, unreported, msg, outq, emitted, lossy, rcvd>>

FlushDone ==
  /\ pc \in FlushPcs /\ wbuf = <<>>
  /\ \/ pc = "ssl_flush" /\ pc' = "startup_len" /\ UNCHANGED wbuf
     \/ pc = "ready_flush" /\ pc' = "msg_type" /\ UNCHANGED wbuf
     \/ pc = "err_flush" /\ pc' = "final_flush" /\ UNCHANGED wbuf
     \/ pc = "final_flush" /\ Close
  /\ UNCHANGED <<cliVars, inVars, unreported, msg, outq, emitted, lossy, rcvd>>

\* Mutant: a failed flush of ReadyForQuery leaves the loop with Ok(()).
FlushFailQuiet ==
  /\ pc \in FlushPcs /\ wbuf # <<>>
  /\ \/ pc = "ssl_flush" /\ Fail("XX000") /\ UNCHANGED <<wbuf, lossy>>
     \/ pc \in {"ready_flush", "err_flush"} /\ pc' = "final_flush" /\ UNCHANGED <<wbuf, msg, emitted, lossy>>
     \/ pc = "final_flush" /\ Close /\ lossy' = TRUE /\ UNCHANGED <<msg, emitted>>
  /\ UNCHANGED <<cliVars, inVars, unreported, outq, rcvd>>

FlushFail ==
  /\ pc \in FlushPcs /\ wbuf # <<>>
  /\ \/ pc \in {"ssl_flush", "ready_flush"} /\ Fail("XX000") /\ UNCHANGED <<wbuf, lossy>>
     \/ pc = "err_flush" /\ pc' = "final_flush" /\ UNCHANGED <<wbuf, msg, emitted, lossy>>
     \/ pc = "final_flush" /\ Close /\ lossy' = TRUE /\ UNCHANGED <<msg, emitted>>
  /\ UNCHANGED <<cliVars, inVars, unreported, outq, rcvd>>

-----------------------------------------------------------------------------
\* Steps of the task when no I/O operation fails.
Progress ==
  \/ ReadType \/ ReadLen \/ ReadContent \/ ReadEof
  \/ StartupDispatch \/ ReportGuc \/ SendKeyData \/ SendReady \/ Dispatch
  \/ BufferMsg \/ FlushForMsg \/ DirectWrite \/ BeginFlush \/ FlushSome \/ FlushDone

Failure == ReadError \/ WriteFail \/ FlushFail

Server == Progress \/ Failure

Client == ClientBegin \/ ClientSend \/ ClientShut \/ ClientClose \/ ClientRecv

\* The task has ended and the client is gone: nothing is left to happen.
Done == pc \in EndPcs /\ cli = "closed" /\ UNCHANGED vars

Next == Server \/ Client \/ Reset \/ Done

Spec == Init /\ [][Next]_vars

\* The runtime polls a task whose operation completed; an operation on a dead
\* connection completes, with an error if with nothing else; a client reads
\* what it is sent.  An error on a live connection is never counted on.
Fairness ==
  /\ WF_vars(Progress \/ (cli = "closed" /\ Failure))
  /\ WF_vars(ClientRecv)

FairSpec == Spec /\ Fairness

-----------------------------------------------------------------------------
(* Properties.                                                             *)

MsgSet == {NoSSL, AuthOk, KeyData, ReadyForQuery}
            \cup [tag : {"S"}, guc : Reported]
            \cup [tag : {"C"}, query : Nat]
            \cup [tag : {"E"}, code : ErrCodes]
ChunkSet == [msg : MsgSet, part : Nat \ {0}, of : Nat \ {0}]

\* Every variable has its type, the BufWriter never holds more than
\* SOCK_SEND_BUF_SIZE and the socket never more than the kernel takes.
TypeOK ==
  /\ cli \in {"open", "shut", "closed"}
  /\ cstage \in {"startup", "typed"}
  /\ cunits \in Seq(Units) /\ inq \in Seq(Units)
  /\ nframes \in 0..MaxFrames /\ nq \in Nat /\ short \in BOOLEAN
  /\ pc \in Pcs
  /\ ssl \in BOOLEAN /\ lossy \in BOOLEAN
  /\ msgtype \in Vals \cup {"none"}
  /\ inmsgbuf \in Bodies
  /\ unreported \subseteq Reported
  /\ msg \in Seq(ChunkSet) /\ emitted \in Seq(ChunkSet) /\ rcvd \in Seq(ChunkSet)
  /\ wbuf \in Seq(ChunkSet) /\ Len(wbuf) <= BufCap
  /\ outq \in Seq(ChunkSet) /\ Len(outq) <= SockCap

\* Everything on its way to the client, in the order it will arrive.
Pipeline == rcvd \o outq \o wbuf \o msg

\* Although write_message ignores I/O errors, the client never sees a hole:
\* what it received, and what is still on its way, is a prefix of the messages
\* written, and all of them unless output was given up at the very end.  It
\* holds because whatever is written between two flushes fits the BufWriter,
\* so that only the last message, the ErrorResponse, can meet an I/O error.
StreamIntact ==
  /\ IsPrefix(Pipeline, emitted)
  /\ ~lossy => Pipeline = emitted

\* Whenever the task waits for the client, the client has been sent everything
\* written so far: no answer is left in the BufWriter while both sides wait
\* (write_message never flushes; the loop of do_postgres_main must).
NothingHeldBack == pc \in ReadPcs => wbuf = <<>> /\ msg = <<>>

\* The reads of protocol.rs and the frames of the client stay in step,
\* whatever was pipelined, answered with NOSSL or cut off: a type is read
\* where a type was sent, a length where a length was, a body where a body
\* was; and no message is dispatched before read_exact has filled the buffer
\* that set_len made visible.
FramesInStep ==
  /\ inq # <<>> =>
       /\ pc = "msg_type" => Head(inq).kind = "type"
       /\ pc \in LenPcs => Head(inq).kind = "len"
       /\ pc \in BodyPcs => Head(inq).kind = "body"
  /\ pc = "startup_dispatch" => inmsgbuf.form \in StartupBodies \cup {"empty"}
  /\ pc = "dispatch" => inmsgbuf.form \in TypedBodies \cup {"empty"}

\* Why a client that is still there may find its connection closed with no
\* ErrorResponse written last.  It asked to leave: Terminate, or the type byte
\* 0xff that read_message also gives for the end of file.  Or the task died of
\* a panic: of the todo!() for a CancelRequest (lib.rs:222), or of a length
\* word below four (protocol.rs:30).
AskedToLeave == pc = "closed" /\ msgtype \in {"X", "EOF"}
Died         == pc = "panicked" /\ (IsCancel \/ short)

\* Those are all: whatever else ends a session, be it an I/O error on the way
\* out, the last message written to a client that is still there is an
\* ErrorResponse.
NoSilentHangup ==
  pc \in EndPcs /\ cli = "open" =>
    AskedToLeave \/ Died \/ (emitted # <<>> /\ Last(emitted).msg.tag = "E")

Received(m) == \E i \in DOMAIN rcvd : rcvd[i].msg = m /\ rcvd[i].part = rcvd[i].of

\* Every query the client has sent is answered, or the session ends: the
\* write, flush and read of the loop never wait for each other.
QueryAnswered ==
  \A i \in 1..MaxFrames : nq >= i ~> Received(CmdComplete(i)) \/ pc \in EndPcs

\* A client that has gone, in the middle of a frame or of an answer, does not
\* keep its task and its descriptor forever.
GoneClientEndsSession == cli # "open" ~> pc \in EndPcs

\* The loop of do_postgres_main has a case for a client that stops sending
\* after a whole message: msgtype == MsgType::EOF, "end connection", Ok(()).
OrderlyEOF == [][ReadEof /\ pc = "msg_type" => pc' = "final_flush"]_vars
=============================================================================
