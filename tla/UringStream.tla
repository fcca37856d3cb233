---------------------------- MODULE UringStream ----------------------------
(***************************************************************************)
(* io.rs: the AsyncRead and AsyncWrite of Stream over an io_uring.  Each   *)
(* stream belongs to one task; all of them share a ring of Depth slots.    *)
(* The futures of kbio, the executor and the kernel are external: a future *)
(* that finds no free slot wakes its task and tries again, one that has a  *)
(* slot is woken when the kernel completes the operation, and the executor *)
(* may also poll a task for no reason.                                     *)
(*                                                                         *)
(* Bytes are counted: a stream's bytes are delivered in order, so that how *)
(* many were taken says which.                                             *)
(***************************************************************************)
EXTENDS Integers, FiniteSets

CONSTANTS Streams,  \* the streams that share the ring
          Depth,    \* its slots
          MaxLen,   \* bound: bytes a caller asks for at once
          MaxBytes, \* bound: bytes a peer sends
          MaxOps    \* bound: operations a task begins

ASSUME DepthAssumption == Depth \in Nat \ {0}
ASSUME BoundsAssumption == MaxLen \in Nat \ {0} /\ MaxBytes \in Nat /\ MaxOps \in Nat

\* The operations of the two traits that may wait, and the field of Stream
\* that keeps the future of each: write and writev share one.
Ops == {"read", "write", "writev", "shutdown"}
Fields == {"read_fut", "write_fut", "shutdown_fut"}
FieldOf == [op \in Ops |-> CASE op = "read" -> "read_fut"
                             [] op \in {"write", "writev"} -> "write_fut"
                             [] op = "shutdown" -> "shutdown_fut"]

None == [form |-> "None", buf |-> 0, len |-> 0]
\* An OPFuture that has not got a slot, and one that has.
Some(submitted, buf, len) ==
  [form |-> IF submitted THEN "submitted" ELSE "fresh", buf |-> buf, len |-> len]

VARIABLES
  task,    \* the operation each task awaits, with its buffer; or "idle", "gone"
  fut,     \* the futures each Stream keeps
  slots,   \* the operations in the ring, in flight or completed
  ready,   \* the tasks the executor will poll
  peer,    \* whether the peer still sends
  arrived, \* bytes the peer has sent
  taken,   \* bytes the kernel has put into a buffer
  got,     \* bytes poll_read has handed to the task
  sent,    \* bytes the kernel has taken for writing
  told,    \* bytes poll_write has told the task were written
  nops     \* operations begun

vars == <<task, fut, slots, ready, peer, arrived, taken, got, sent, told, nops>>

Idle == [op |-> "idle", buf |-> 0, len |-> 0]
Gone == [op |-> "gone", buf |-> 0, len |-> 0]

Init ==
  /\ task = [s \in Streams |-> Idle]
  /\ fut = [s \in Streams |-> [f \in Fields |-> None]]
  /\ slots = {} /\ ready = {}
  /\ peer = [s \in Streams |-> "open"]
  /\ arrived = [s \in Streams |-> 0] /\ taken = [s \in Streams |-> 0]
  /\ got = [s \in Streams |-> 0]
  /\ sent = [s \in Streams |-> 0] /\ told = [s \in Streams |-> 0]
  /\ nops = [s \in Streams |-> 0]

Field(s) == FieldOf[task[s].op]
Polled(s) == task[s].op \in Ops /\ s \in ready
SlotsOf(s) == {x \in slots : x.s = s /\ x.field = Field(s)}
Inc(f, s, n) == [f EXCEPT ![s] = @ + n]

-----------------------------------------------------------------------------
\* A task begins an operation with a buffer of its own and is polled.
Begin(s) ==
  /\ task[s] = Idle /\ nops[s] < MaxOps
  /\ nops' = Inc(nops, s, 1)
  /\ \E op \in Ops, n \in 1..MaxLen :
       task' = [task EXCEPT ![s] = [op |-> op, buf |-> nops[s] + 1, len |-> n]]
  /\ ready' = ready \cup {s}
  /\ UNCHANGED <<fut, slots, peer, arrived, taken, got, sent, told>>

\* Mutant: on_ready advances by the length of the buffer.
ReturnLen(s, op, res) ==
  /\ task' = [task EXCEPT ![s] = Idle]
  /\ got'  = IF op = "read" /\ res > 0 THEN Inc(got, s, task[s].len) ELSE got
  /\ told' = IF op \in {"write", "writev"} /\ res > 0 THEN Inc(told, s, res) ELSE told

\* on_ready: the result goes to the task, which goes on with no operation.
Return(s, op, res) ==
  /\ task' = [task EXCEPT ![s] = Idle]
  /\ got'  = IF op = "read" /\ res > 0 THEN Inc(got, s, res) ELSE got
  /\ told' = IF op \in {"write", "writev"} /\ res > 0 THEN Inc(told, s, res) ELSE told

\* Mutant: Pending is returned with nothing to wake the task.
PollNoSlotSleep(s) ==
  /\ Polled(s) /\ fut[s][Field(s)].form # "submitted"
  /\ Cardinality(slots) = Depth
  /\ fut' = [fut EXCEPT ![s][Field(s)] =
               IF @ = None THEN Some(FALSE, task[s].buf, task[s].len) ELSE @]
  /\ ready' = ready \ {s}
  /\ UNCHANGED <<task, slots, peer, arrived, taken, got, sent, told, nops>>

\* No future is kept, or one without a slot: the CQEFuture finds the ring full
\* and wakes the task itself (kbio); the poll function keeps it and is Pending.
PollNoSlot(s) ==
  /\ Polled(s) /\ fut[s][Field(s)].form # "submitted"
  /\ Cardinality(slots) = Depth
  /\ fut' = [fut EXCEPT ![s][Field(s)] =
               IF @ = None THEN Some(FALSE, task[s].buf, task[s].len) ELSE @]
  /\ UNCHANGED <<task, slots, ready, peer, arrived, taken, got, sent, told, nops>>

\* Mutant: the ring is not asked for a free slot.
PollSubmitAnyway(s) ==
  /\ Polled(s) /\ fut[s][Field(s)].form # "submitted"
  /\ fut' = [fut EXCEPT ![s][Field(s)] = Some(TRUE, task[s].buf, task[s].len)]
  /\ slots' = slots \cup {[s |-> s, field |-> Field(s), op |-> task[s].op,
                           buf |-> task[s].buf, len |-> task[s].len, st |-> "flight", res |-> 0]}
  /\ ready' = ready \ {s}
  /\ UNCHANGED <<task, peer, arrived, taken, got, sent, told, nops>>

\* Mutant: the pending future is not kept in the stream.
PollSubmitForget(s) ==
  /\ Polled(s) /\ fut[s][Field(s)].form # "submitted"
  /\ Cardinality(slots) < Depth
  /\ slots' = slots \cup {[s |-> s, field |-> Field(s), op |-> task[s].op,
                           buf |-> task[s].buf, len |-> task[s].len, st |-> "flight", res |-> 0]}
  /\ ready' = ready \ {s}
  /\ UNCHANGED <<task, fut, peer, arrived, taken, got, sent, told, nops>>

\* The operation is submitted with the buffer the future was made with, and
\* the future is kept until it is ready.  (A future that is ready in its first
\* poll is a submission, a completion and a poll in a row.)
PollSubmit(s) ==
  /\ Polled(s) /\ fut[s][Field(s)].form # "submitted"
  /\ Cardinality(slots) < Depth
  /\ LET old == fut[s][Field(s)]
         new == IF old = None THEN Some(TRUE, task[s].buf, task[s].len)
                              ELSE Some(TRUE, old.buf, old.len)
     IN  /\ fut' = [fut EXCEPT ![s][Field(s)] = new]
         /\ slots' = slots \cup {[s |-> s, field |-> Field(s), op |-> task[s].op,
                                  buf |-> new.buf, len |-> new.len,
                                  st |-> "flight", res |-> 0]}
  /\ ready' = ready \ {s}
  /\ UNCHANGED <<task, peer, arrived, taken, got, sent, told, nops>>

\* The operation is in flight: the waker is stored again.
PollPending(s) ==
  /\ Polled(s) /\ fut[s][Field(s)].form = "submitted"
  /\ \A x \in SlotsOf(s) : x.st = "flight"
  /\ ready' = ready \ {s}
  /\ UNCHANGED <<task, fut, slots, peer, arrived, taken, got, sent, told, nops>>

\* Mutant: the future that is ready stays in the stream.
PollReadyKeep(s) ==
  /\ Polled(s) /\ fut[s][Field(s)].form = "submitted"
  /\ \E x \in SlotsOf(s) :
       /\ x.st = "done"
       /\ slots' = slots \ {x}
       /\ Return(s, x.op, x.res)
  /\ ready' = ready \ {s}
  /\ UNCHANGED <<fut, peer, arrived, taken, sent, nops>>

\* The operation has completed: the future is dropped before the result is
\* returned.
PollReady(s) ==
  /\ Polled(s) /\ fut[s][Field(s)].form = "submitted"
  /\ \E x \in SlotsOf(s) :
       /\ x.st = "done"
       /\ slots' = slots \ {x}
       /\ Return(s, x.op, x.res)
  /\ fut' = [fut EXCEPT ![s][Field(s)] = None]
  /\ ready' = ready \ {s}
  /\ UNCHANGED <<peer, arrived, taken, sent, nops>>

\* The poll functions differ in the operation and in the field they use.
PollBranch(s) == PollNoSlot(s) \/ PollSubmit(s) \/ PollPending(s) \/ PollReady(s)

poll_read(s)           == task[s].op = "read" /\ PollBranch(s)
poll_write(s)          == task[s].op = "write" /\ PollBranch(s)
poll_write_vectored(s) == task[s].op = "writev" /\ PollBranch(s)
poll_shutdown(s)       == task[s].op = "shutdown" /\ PollBranch(s)

Poll(s) == poll_read(s) \/ poll_write(s) \/ poll_write_vectored(s) \/ poll_shutdown(s)

\* A task ends, or panics, only between two operations: the stream and the
\* buffers are dropped.
Drop(s) ==
  /\ task[s] = Idle
  /\ task' = [task EXCEPT ![s] = Gone]
  /\ fut' = [fut EXCEPT ![s] = [f \in Fields |-> None]]
  /\ UNCHANGED <<slots, ready, peer, arrived, taken, got, sent, told, nops>>

-----------------------------------------------------------------------------
\* The kernel completes an operation and wakes the task that polled it last.
Complete(x, res) ==
  /\ slots' = (slots \ {x}) \cup {[x EXCEPT !.st = "done", !.res = res]}
  /\ ready' = IF task[x.s].op \in Ops THEN ready \cup {x.s} ELSE ready

InFlight(s, ops) == {x \in slots : x.s = s /\ x.st = "flight" /\ x.op \in ops}

Recv(s) ==
  /\ \E x \in InFlight(s, {"read"}) :
       \/ \E n \in 1..x.len :
            /\ n <= arrived[s] - taken[s]
            /\ Complete(x, n) /\ taken' = Inc(taken, s, n)
       \/ /\ peer[s] = "closed" /\ arrived[s] = taken[s]
          /\ \E res \in {0, -1} : Complete(x, res)
          /\ UNCHANGED taken
  /\ UNCHANGED <<task, fut, peer, arrived, got, sent, told, nops>>

Send(s) ==
  /\ \E x \in InFlight(s, {"write", "writev"}) :
       \/ \E n \in 1..x.len : Complete(x, n) /\ sent' = Inc(sent, s, n)
       \/ Complete(x, -1) /\ UNCHANGED sent
  /\ UNCHANGED <<task, fut, peer, arrived, taken, got, told, nops>>

Shutdown(s) ==
  /\ \E x \in InFlight(s, {"shutdown"}) : Complete(x, 0)
  /\ UNCHANGED <<task, fut, peer, arrived, taken, got, sent, told, nops>>

\* The executor polls a task that nothing has woken.
SpuriousWake(s) ==
  /\ task[s].op \in Ops /\ s \notin ready
  /\ ready' = ready \cup {s}
  /\ UNCHANGED <<task, fut, slots, peer, arrived, taken, got, sent, told, nops>>

PeerSend(s) ==
  /\ peer[s] = "open" /\ arrived[s] < MaxBytes
  /\ arrived' = Inc(arrived, s, 1)
  /\ UNCHANGED <<task, fut, slots, ready, peer, taken, got, sent, told, nops>>

PeerClose(s) ==
  /\ peer[s] = "open"
  /\ peer' = [peer EXCEPT ![s] = "closed"]
  /\ UNCHANGED <<task, fut, slots, ready, arrived, taken, got, sent, told, nops>>

Kernel(s) == Recv(s) \/ Send(s) \/ Shutdown(s)

Done == (\A s \in Streams : task[s] = Gone) /\ UNCHANGED vars

Next ==
  \/ \E s \in Streams : \/ Begin(s) \/ Poll(s) \/ Drop(s) \/ Kernel(s)
                        \/ SpuriousWake(s) \/ PeerSend(s) \/ PeerClose(s)
  \/ Done

Spec == Init /\ [][Next]_vars

\* A woken task is polled; the kernel completes what it can complete (peers
\* read what they are sent).
FairSpec == Spec /\ \A s \in Streams : WF_vars(Poll(s)) /\ WF_vars(Kernel(s))

-----------------------------------------------------------------------------
(* Properties.                                                             *)

\* Every variable has its type and the ring never holds more than Depth
\* operations.
TypeOK ==
  /\ task \in [Streams -> [op : Ops \cup {"idle", "gone"}, buf : Nat, len : Nat]]
  /\ fut \in [Streams -> [Fields -> [form : {"None", "fresh", "submitted"}, buf : Nat, len : Nat]]]
  /\ slots \subseteq [s : Streams, field : Fields, op : Ops, buf : Nat, len : Nat,
                      st : {"flight", "done"}, res : Int]
  /\ IsFiniteSet(slots) /\ Cardinality(slots) <= Depth
  /\ ready \subseteq Streams
  /\ peer \in [Streams -> {"open", "closed"}]
  /\ \A f \in {arrived, taken, got, sent, told, nops} : f \in [Streams -> Nat]

\* The kernel reads and writes only the buffer a task is waiting with: every
\* operation in the ring is the one its task awaits, its future is kept in
\* the stream, and it is the stream's only one.  A task that has gone has left
\* nothing behind.
NoOrphans ==
  /\ \A x \in slots :
       /\ task[x.s] = [op |-> x.op, buf |-> x.buf, len |-> x.len]
       /\ x.field = FieldOf[x.op]
       /\ fut[x.s][x.field] = Some(TRUE, x.buf, x.len)
  /\ \A x, y \in slots : x.s = y.s => x = y

\* What the debug assertions of poll_read, poll_write and poll_write_vectored
\* say: a kept future is polled again with the buffer it was made with.
SameBuffer ==
  \A s \in Streams, f \in Fields :
    fut[s][f] # None =>
      /\ task[s].op \in Ops /\ f = FieldOf[task[s].op]
      /\ fut[s][f].buf = task[s].buf /\ fut[s][f].len = task[s].len

\* The bytes of a completed operation that on_ready has still to hand over.
Owed(s, ops) ==
  LET d == {x \in slots : x.s = s /\ x.op \in ops /\ x.st = "done" /\ x.res > 0}
  IN  IF d = {} THEN 0 ELSE (CHOOSE x \in d : TRUE).res

\* Every byte the kernel received is handed to the task exactly once, and
\* every byte it wrote is reported exactly once, across spurious polls,
\* retried submissions and short transfers.
BytesExactlyOnce ==
  \A s \in Streams :
    /\ taken[s] = got[s] + Owed(s, {"read"})
    /\ sent[s] = told[s] + Owed(s, {"write", "writev"})

\* A task that waits and will not be polled has an operation in flight, whose
\* completion will wake it.
NoLostWakeup ==
  \A s \in Streams :
    task[s].op \in Ops /\ s \notin ready => \E x \in SlotsOf(s) : x.st = "flight"

\* With a slot for every stream, an operation returns as soon as its socket
\* allows it, however many other tasks wait for silent peers.
OpReturns ==
  \A s \in Streams :
    task[s].op \in Ops /\ (task[s].op = "read" => arrived[s] > got[s] \/ peer[s] = "closed")
      ~> task[s].op \notin Ops
=============================================================================
