# KuiBaDB: TLA+ models, checks and proofs

KuiBaDB at this commit is a PostgreSQL-protocol server in asynchronous Rust: a
process that loads its configuration, accepts connections over io_uring, and
runs one task per connection that speaks the frontend/backend protocol and
answers every query with a fixed `CommandComplete`. Storage, transactions and
the SQL front end are not part of the crate at this commit (the source of the
latter is in the repository and not compiled). This directory models what the
process does, checks it with TLC on small instances and proves, with TLAPS and
for every value of the constants, every safety property that TLC checks, the
refinement of the protocol by a session among them.

## Inventory

| component | source | state | operations | talks to |
|---|---|---|---|---|
| session task | `src/lib.rs` 171-314, `src/protocol.rs`, `src/utils/err.rs` | position in `postgres_main`, `inmsgbuf`, the `BufStream` | read startup / typed message, dispatch, write message, flush, fail, panic | the client through the socket; the shared gucs |
| io_uring stream | `src/io.rs` | `read_fut`, `write_fut`, `shutdown_fut` | `poll_read`, `poll_write`, `poll_write_vectored`, `poll_shutdown` | kbio's ring, shared by all streams; the executor's wakers |
| server process | `src/bin/kuiba/main.rs`, `src/lib.rs` 107-169 | listener, `Urings`, spawned tasks and their descriptors | start, accept, spawn, end | every session; the kernel's descriptors |
| configuration variables | `src/guc.rs`, `src/guc/gucdef.yaml`, `src/common.rs`, `common.rs`, `build.rs` | `GucState`, the process-wide log filter | `load`, `set_*_guc`, hooks, `show` | read by sessions (`report_all_gucs`) and at start |
| message buffer | `src/protocol.rs` 28-50 | `inmsgbuf`, one `Vec` per session | `read_body`: reserve, `set_len`, `read_exact` | session |
| wire codec | `src/utils/ser.rs`, `src/protocol.rs` | `serbuf`, one `Vec` per session | serialise each message, parse the startup message | session |
| start | `src/bin/kuiba/main.rs`, `src/lib.rs` 97-155 | the rings and their counters, the port | `init`, `new_runtime`, `Urings::new`, bind, `iopoll`, `non_iopoll` | configuration; server process |
| log pipeline | `src/lib.rs` 57-95 | filter, non-blocking writer | `init_log`, reload | guc hook; everything that logs |
| SQL parser | `src/parser*` | `ParseState` | parse, `kb_analyze` | the catalog; not compiled into the crate |

What is hard here, and the properties that make each part correct:

- **Session.** Writes are buffered and their errors ignored, flushes may be
  partial, the client may pipeline, stop or vanish at any byte. Correct means:
  the client never sees a hole in the stream (`StreamIntact`), neither side
  waits for bytes the other has buffered (`NothingHeldBack`, `QueryAnswered`),
  the reads stay in step with the frames (`FramesInStep`), errors are told,
  except where the client asked to end (Terminate, or a type byte 0xff) or the
  task panicked (a CancelRequest, a length word below four: `NoSilentHangup`),
  a gone client frees its task (`GoneClientEndsSession`), and all that the
  client hears is the protocol (`Contract`).
- **io_uring stream.** The kernel holds a raw pointer to the caller's buffer
  between polls. Correct means: each operation in the ring is the one its task
  awaits, with that buffer (`NoOrphans`, `SameBuffer`), bytes count once
  (`BytesExactlyOnce`), nobody sleeps without a wake-up to come
  (`NoLostWakeup`), ready operations return (`OpReturns`).
- **Message buffer.** The length word is the client's, `set_len` is unsafe and
  comes before the bytes. Correct means: the declared length lies in the
  allocation (`LenInCapacity`), what is dispatched is the announced body and
  all of it (`WholeBodyOnly`), and memory follows the longest message
  (`MemoryBounded`).
- **Wire codec.** Strings may hold the terminator, counts and lengths are cut,
  buffers are reused: `FramesAsWritten`, `ReadsAsWritten`. The startup parser
  walks untrusted bytes with a cursor: `CursorInBounds`, `Decided`,
  `AcceptsExactly`, `SpecialIsNoStartup`.
- **Start and rings.** Configuration integers are cast unchecked, indices are
  used unchecked, silent clients keep ring slots: `RingsAsConfigured`,
  `IndexInRange`, `EnoughSlots`, `DataReceived`.
- **Log.** A line must wait for room, not be dropped: `NoGaps`. That the call
  which logs it waits too, and with it a thread of the runtime, is what
  `lossy(false)` asks for.
- **Analysis.** Overloads, numbering and hashing: `TypedAsCatalogSays`,
  `ResnoIsPosition`, `HashIsStructure`.
- **Server.** Descriptors are reused integers, the ring counter wraps, accepts
  fail: `FdOwned`, `RingBalance`, `Served`.
- **Gucs.** A per-state value drives process-wide state, half-done hooks can
  fail, values are told to clients once, integers of the file are cut or
  refused: `FilterCoherent`, `RefusalChangesNothing`, `ReportedNeverStale`,
  `LoadedAsWritten`.

`PROJECT.json` lists every hazard at its line.

## Modules

- `Session` - one connection. Input is a sequence of *units* (type byte, length
  word, body): to every read of the code a unit cut short is a unit missing.
  Output is a sequence of *chunks*, what a partial write can move: two per
  message, one for the byte `N`, `ErrSizes` for an ErrorResponse that quotes
  the request. `pc` names the await points of `postgres_main`:
  `read_startup_message` is `startup_len`/`startup_body`, `read_message` is
  `msg_type`/`msg_len`/`msg_body`, every `write_message` is a write point
  (`nossl` ... `on_error`) and every `flush().await` a flush point. `Emit` is
  `write_message` handing its bytes to `write_all`; `BufferMsg`, `FlushForMsg`
  and `DirectWrite` are the three cases of tokio's `BufWriter::poll_write`,
  `WriteFail` is the ignored error, `FlushFail` the `?` or the ignored error of
  a flush. `Fail` is `?` leaving `do_postgres_main` for `on_error`; `Panic` is
  `todo!()` and the length check. The body of a startup message is one of a few
  kinds: `CancelUser` is a CancelRequest whose eight key bytes read as the
  parameters of a user, which is accepted as a startup message after an
  SSLRequest (`IsStartup`), since only the first message is looked at for the
  special requests. `emitted`, `rcvd`, `lossy` and `short` are history.
- `Dialogue` - the abstract contract: the order of whole messages a frontend is
  told. `SessionDialogue` maps a session to it and states `Contract`: the
  history variable `told` collects the messages of which the client has the
  last chunk (`Hear`, conjoined to every step in `HearingSpec`; it reads `rcvd`
  and constrains nothing else), and the Dialogue's queries are those sent.
- `UringStream` - the poll functions of `Stream`, for several streams on a ring
  of `Depth` slots. All four have one shape, so their branches are shared:
  `PollNoSlot` and `PollSubmit` (no future kept, or one that could not submit),
  `PollPending`, `PollReady`, together `PollBranch`; `poll_read`, `poll_write`,
  `poll_write_vectored` and `poll_shutdown` choose the operation and the field.
  kbio's `CQEFuture`, the kernel and the executor are external, modelled by what
  the poll functions rely on; that a future which found the ring full wakes its
  own task is kbio's doing.
- `Server` - the accept loop, tasks, descriptors and `Urings::non_iopoll`.
  A session is opaque here: it starts (`Run`), ends (`End`) or, in a release
  build, aborts the process (`Abort`).
- `Guc` - the variables. One variable stands for each combination of type,
  context, hook and REPORT flag of `gucdef.yaml`. Conversions of YAML values
  are modelled as they are: an integer is cut to the width (`Half` is 2^31 in
  the code), a text is parsed and refused if it does not fit, a real is no
  integer, `.inf` is no `f64`. `said` is a history of the entries of the file.
  `set_*_guc` and the `Clone` of `GucState` are public and have no caller at
  this commit, where `do_postgres_main` reads the shared `Arc`; they are
  modelled as the API they are (`StartSession`, `SetGuc`).
- `MsgBuf` - `read_body` one statement at a time on a `Vec` with its length,
  capacity and contents (for each byte, the message it came from).
  `Vec::reserve` is the standard library's, with its three ways to end:
  `ReserveInPlace`/`ReserveGrow`, `ReserveOverflow` (a panic) and
  `ReserveNoMemory` (an abort). `usize` is modulo `UsizeMod`.
- `Startup` - what `do_postgres_main` makes of a startup message: `Classify`
  is the two special requests, `Deserialize` to `CheckUser` the steps of
  `StartupMessage::deserialize`, `Cstr` is `read_cstr`. `Accepted` is the
  reference: the same question answered from the whole body at once, with the
  strings numbered by the zeros before them. Its specification is
  `SSpec` and its control point `spc`, since `FrontEnd` extends it together
  with `MsgBuf`.
- `Wire` - the functions of `ser.rs` and every `serialize`, on bytes that are
  digits to `Base` with 16- and 32-bit integers of `W16` and `W32` digits;
  `write_message` is the one action, on the buffer all messages share.
  `Message` is the set of all messages, of which `Msgs` are written. `Ends`,
  `Frame` and `Decode` are the reference reader. All recursion is in recursive
  functions, powers (`Pow`) included, so that it can be proved about.
- `LogPipeline` - `init_log` in a release build and the channel and thread
  behind it. `let (non_blocking, _)` is `InitLog` followed by `DropGuard`. Its
  specification is `LSpec`, since it is extended together with `Boot`.
- `Process` - `Server` extended by the slots of its rings: every action of
  `Server` is conjoined with what it does to the accept's and the sessions'
  operations, and the operations' own steps are added. `Load` counts the
  operations that share a ring, `Crowded` says that they are more than its
  slots, and `Stalled` is the state in which an accept that nobody will answer
  keeps the slot the sessions of its ring wait for.
- `Boot` - `main` up to the accept loop, and then `Urings::iopoll` and
  `Urings::non_iopoll` in any order.
- `Analyze` - `sem.rs`, with the numbers of `syn.rs` and `sql.lalrpop`.
  `opername_get_oprid` and `get_proc` look into the constant catalog
  `Operators` and `Procs`. An md5 is taken to have no collisions. A tree is the
  sequence of its nodes in the order `transform_expr_recurse` is done with them,
  operands before operators; what the code computes by recursion over the tree
  is one function over the places of that sequence (`transform_expr`, `Hash`),
  and `transform_node` and `HashNode` are the bodies of the recursion. This
  differs from the code in one respect no property can tell: nodes behind the
  first error of a target are made too, and thrown away with it.
- `FrontEnd` - `MsgBuf`, `Startup`, `Wire` and `Analyze` put together: a
  behaviour is one of one of them, with the others at rest.
- `MC*` - the constants of the instances; `MCStart` also extends `Boot` and
  `LogPipeline`, which share no state, and puts them side by side, and
  `MCSessionDialogue` is `MCSession` with `SessionDialogue`.
- `SessionDialogueProofs` (`Session` first), `FrontEndProofs` (`MsgBuf`,
  `Startup`, `FrontEnd`), `WireProofs`, `AnalyzeProofs`, `UringStreamProofs`,
  `ServerProofs` (with `Process`), `GucProofs`, `StartProofs` (`Boot` and
  `LogPipeline`) - the proofs.

Definitions whose comment begins "Mutant:" are wrong variants of the definition
that follows; no specification uses them. They document which bug each property
would catch.

## Runs

| run | instance | result |
|---|---|---|
| `session` | 2 gucs, the smallest buffer the assumption allows (10 chunks), socket of 2 chunks, input of 2 units, 4 frames, errors that fit / fill / exceed the buffer | holds, 1.7 M states |
| `session_live` | 1 guc, 3 frames, long errors, fairness | holds, 0.32 M states |
| `session_eof` | 1 guc, 3 frames | `OrderlyEOF` violated |
| `uring` | 2 streams, 1 slot, 2 operations each, up to 2 bytes at once | holds, 1.5 M states |
| `uring_live` | 2 streams, 2 slots, fairness | holds, 97 k states |
| `server` | `Process` (and through it `Server`): 3 clients, 2 descriptors, 2 rings of 1 slot, counter modulo 3, fairness | holds, 174 k states |
| `server_limit` | `Server`: 3 clients, limit 2 | `WithinMaxConnections` violated |
| `guc` | 5 variables, 2-bit INT (`Half` 2), 2 sessions, 2 SETs | holds, 304 k states |
| `guc_warn` | log_min_messages, search_path | `RefusalsWarned` violated |
| `frontend` | `MsgBuf` (4 messages, small and enormous lengths, both builds: 7.3 k states), `Startup` (every body of up to 4 bytes and of up to 5 short strings: 395 k), `Wire` (every message type, 2 in a row, 4-bit bytes: 4.8 k), `Analyze` (depth 2, 3 targets, an i32 up to 3, an i64 up to 7: 42 k) | holds, 449 k states |
| `start` | `Boot` (every configuration of integers -2..5, u16 modulo 4: 21 k states), `LogPipeline` (2 tasks, 3 lines each, channels of 0 to 2) | holds, 22 k states |
| `log_lines` | `LogPipeline`, with a stdout that takes everything | `LinesWritten` violated |

`frontend` and `start` each check several modules that share no state: a
behaviour picks one of them and leaves the others at rest, since interleaving
them would add nothing.

Why the bounds are enough. *Session*: four frames are an SSLRequest, a startup
message and two typed messages, so that pipelining, the second startup read and
two rounds of the loop all happen; the buffer exactly fits the startup burst,
the tightest legal case; a socket of two chunks makes every flush partial; the
three error sizes take the three branches of `poll_write`. *UringStream*: one
slot for two streams forces the retry of `PollNoSlot`; two operations per task
are needed for a stale future to be seen; two-byte buffers give short
transfers. *Guc*: two sessions and two SETs are what it takes for copies to
diverge; of the integers in the file -1 fits two bits and 2 does not. *MsgBuf*:
a long message, a short one and one between them are what it takes to see stale
bytes and growth from an old length; the lengths 0 to 3 wrap. *Startup*: two
parameters and the end of the list, a repeated name included, fit in five
strings, and four arbitrary bytes reach every malformed shape. *Wire*: 16
columns, a value of 128 bytes and a message of 256 cross each width; two
messages show what the first leaves in the buffer. *Process*: more clients
than descriptors forces reuse. The counter is modulo three, which two rings do
not divide, and is read four times, by `do_main` and by three sessions: the
last time after it wrapped, when ring 0 has its second turn in a row. A ring has
one slot, so that slots do run out: each session on ring 0 has to share it with
the accept. `EnoughSlots` is tight there (two hand-outs, two slots), and its
theorem covers all other values. What the code has nothing against is that
sessions on the accept's own ring, whose clients are silent or do not read, take
all of its slots: then nobody is accepted any more, which `Served` excepts; the
other way round, an accept that waits for a client who does not come keeps
sessions of its ring from a slot (`Stalled`), and `DataReceived` excepts crowded
rings. Nothing in the repository promises more.
*Boot*: integers below zero, zero, in range and beyond a u16. *Analyze*:
literals on both sides of either width, an overloaded operator, a prefix
operator, a shell and an operator whose function is missing.

Fairness. `session_live`: the runtime polls a task whose operation completed
(weak fairness of the task's progress), operations on a dead connection
complete, and the client reads what it is sent; nothing relies on an error
happening on a live connection. `uring_live`: woken tasks are polled and the
kernel completes what it can. `server`: the kernel completes accepts and spawned
tasks are polled, and a recv that has data completes. That clients send, read or
leave, and so that sessions end, is *not* assumed: `Served` excepts descriptors
that stay exhausted and an accept ring that stays crowded for ever, and
`DataReceived` a crowded ring. `frontend`: code between two awaits runs on.
`log_lines`: threads run, a sender that waits for the channel is not passed over
for ever (the channel wakes the one that waits longest), and stdout takes what
is written. `start` checks safety only. Deadlock is checked in every passing run
but `guc`, where a finished or dead configuration has nothing left to do.

What the violations show:

- `session_eof`: the loop's case for `MsgType::EOF` cannot be reached by an end
  of file. `read_i8` fails instead, and a client that merely disconnects is
  logged and answered as FATAL 08006.
- `server_limit`: `max_connections` is never read.
- `guc_warn`: an unknown `log_min_messages` is dropped silently, although
  `gucdef.yaml` asks hooks to warn.
- `log_lines`: `_` does not bind the `WorkerGuard`, so it is dropped inside
  `init_log`, and the thread that writes the log of a release build is told to
  stop before the first line. The comment argues about an abort; no abort is
  needed to lose lines.

`Boot` also shows what no statement of the repository excludes: a configured
port beyond 16 bits is cut by `as u16` and another one is bound.

## Proofs

`SessionDialogueProofs` proves of `Session`, for every set of reported gucs,
buffer and socket size, set of error sizes and number of frames, from the
assumptions in `Session` (the gucs are finite, `BufCap >= Burst`, sizes are
positive):

- `TypeCorrect` - `Spec => []TypeOK`;
- `StreamIntactAlways` - `Spec => []StreamIntact`;
- `NothingHeldBackAlways` - `Spec => []NothingHeldBack`;
- `NoSilentHangupAlways` - `Spec => []NoSilentHangup`: the last
  message written to a client that is there when its session ends is an
  ErrorResponse, unless it sent Terminate or a type byte 0xff, or the task
  panicked on a CancelRequest or a length word below four.

`StreamIntact` is not inductive. It is true only because nothing but the last
message can meet an I/O error while it is written, and that is a fact about
sizes: what the buffer may hold at each point of the code. The inductive
invariant `IInv` adds to `TypeOK`

- `Control`: at each control point, what the message and the buffer may hold
  (`Idle`, `WriteDone`), how much of the budget between two flushes is spent
  (`Budget`: it counts the gucs still to report), and that output is given up
  only once an error is being written (`LateLoss`);
- `ErrorLast`: after `on_error` the last message written is an ErrorResponse;
- `Panics`: a length word below four is on the connection only if the client
  sent one, and a task that panicked met it or a CancelRequest;
- `Stream`: `StreamIntact` itself.

Each action preserves each part by a lemma of its own (`...Step`), and
`Invariance` puts them together. The assumption `BufCap >= Burst` is the place
where the code relies on 8192 bytes being enough for the startup messages: a
session that sent rows through `write_message` would lose it, and with it the
right to ignore write errors.

From the same assumptions it proves of `SessionDialogue`:

- `SessionImplementsDialogue` - `HearingSpec => Contract`, the refinement;
- `FramesInStepAlways` - `HearingSpec => []FramesInStep`.

Neither can be seen from the state alone, since what the client may hear next
depends on every message written so far and what it may send on every frame.
The invariant `SInv` adds to `IInv` that a sequence `ms` of whole messages
exists with `Talk(ms)`: `Written` (the chunks ever emitted are those of `ms`, in
order, and `told` is the messages completed within `rcvd`),
`Lawful` (each message of `ms` may follow those before it according to the
Dialogue), `Position` (what each `pc` implies of the last message and of the
gucs not yet reported) and `InStep`. The last one reads the units on the
connection with a small automaton (`Parse`, `Run`): the task's next read is the
automaton's state, and each query it read was answered, except the one in hand.
`StreamIntact` then carries `Lawful` from what was written to what was heard.
`HearingSpec` implies `Spec` (`HearingIsSession`), so that what was proved of
`Session` can be used; conversely `told` is a history variable, and
`FramesInStep` does not mention it.

`FrontEndProofs` proves of `MsgBuf`, for every width of `usize` from three bits
on, every set of length words, any number of messages and any least capacity of
a `Vec`:

- `BufTypeCorrect` - `Spec => []TypeOK`;
- `LenInCapacityAlways` - `Spec => []LenInCapacity`, the safety condition of
  `set_len`;
- `WholeBodyOnlyAlways` - `Spec => []WholeBodyOnly`;
- `MemoryBoundedAlways` - `Spec => []MemoryBounded`.

The inductive invariant adds to these `Reading` (what links the length word,
the declared length and the filled bytes at each point of `read_body`) and
`LenFollows` (the length never exceeds the longest body, from which growth is
counted). The heart of it is `NotWrapped`: a length below four wraps to more
than half of the address space, which no allocation has, so the only way past
`reserve` is with a length that did not wrap.

Of `Startup` it proves, for bodies of any length over the module's alphabet
(`Rests \subseteq Seq(Bytes)`):

- `STypeCorrect`, `CursorInBoundsAlways` and `SpecialIsNoStartupAlways`, from an
  invariant that adds `NameNotEmpty` and `ZerosGiveNothing`: a body of zeros,
  which is what a CancelRequest with the server's own key looks like, is an
  empty list of parameters, and without a user it is refused;
- `AcceptsExactlyAlways` - the loop and the checks behind it accept what the
  reference accepts, with the same parameters, and refuse the rest. `ReadSoFar`
  relates the two half-way: the cursor is behind a zero, as many strings were
  read as there are zeros up to it, and after `k` pairs `params` is
  `LastValues` of the first `k`. The reference numbers the strings by counting
  zeros, so that reading one more string adds one element to a finite set
  (`NextString`), and no induction over the body is needed. `RefusedBy` and
  `AcceptedAtEnd` say what the reference makes of a list cut short and of one
  that ended.

What `find` returns is a minimum; that there is one follows from the
well-foundedness of `<` (`MinOfNats`).

And of `FrontEnd` it proves `FTypeCorrect` - `FSpec => []FTypeOK`. `FInv` joins
the invariants of `MsgBuf`, `Startup` and `Wire`: each step is a step of each
part or leaves it alone, and a part at rest satisfies its invariant too.

`WireProofs` proves, for every base above the number of letters the model tells
apart, every width, any set of messages and any number of them:

- `WTypeCorrect` - `WSpec => []WTypeOK`;
- `FramesAsWrittenAlways` - `WSpec => []FramesAsWritten`;
- `ReadsAsWrittenAlways` - `WSpec => []ReadsAsWritten`.

The argument goes from digits to the stream. What reads an integer back is
Horner's rule over its bytes, and the number read after `i` of them is the upper
`i` digits (`UpperStep`, from the uniqueness of quotients), so that `UIntReads`
gives the value modulo the width and `UIntFits`, `SIntFits` the value itself
where it fits. `Has(b, p, s)` says that the bytes `s` lie in `b` behind place
`p`; a string is read up to its terminator (`StrReads`), and the parts of a row
lie one behind the other (`FlattenDef`, `RowsHas`). `SerializeShape` is the
fact about `protocol.rs`: whatever the buffer held, each `serialize` leaves
the type, the length and the body, and nothing else; the length that is filled
in afterwards is that of the whole. `DecodeFramed` reads each kind of body back,
rows by induction over their fields or columns. The invariant `WInv` then says
that offsets exist at which the frames of the messages lie in the stream, end to
end (`Laid`); a reader that cuts the stream by the length words finds those
offsets (`EndsAre`), as long as the lengths fit.

`AnalyzeProofs` proves, for any catalog in which name and operand types are a
key, any statements, trees of any size and any widths:

- `ResnoIsPositionAlways` - `ASpec => []ResnoIsPosition`;
- `TypedAsCatalogSaysAlways` - `ASpec => []TypedAsCatalogSays`;
- `HashIsStructureAlways` - `ASpec => []HashIsStructure`.

The invariant `AInv` says that the entries so far are the transformed targets in
their places (`Entries`) and what each way to end says of the next target
(`Outcome`). The rest is induction over trees: `Typed` shows that the types
the catalog gives a node are exactly the type `transform_expr` gave it, or none
if it failed, and `HashStrip`, over the nodes of two trees at once, that equal
hashes mean equal structure and conversely. The step for one node is a lemma of
its own (`NodeTyped`, `NodeHash`).

Induction over data. The library's induction and recursion theorems take an
operator as a parameter, which the provers cannot instantiate. `WireProofs` and
`AnalyzeProofs` state induction over a *set* of naturals instead
(`NatSetInduction`, from the well-foundedness of `<`), and prove that the
recursive functions they use exist by it (`StepsAll`, `RecExists`). Operators
declared `RECURSIVE` stay out of reach, which is why `Wire` and `Analyze` have
none.

`UringStreamProofs` proves, for any number of streams, slots, operations and
bytes: `TypeCorrect`, `NoOrphansAlways`, `SameBufferAlways`,
`BytesExactlyOnceAlways` and `NoLostWakeupAlways`. Together the five are nearly
inductive; the invariant adds `SubmittedHasSlot` (a submitted future has its
operation in the ring, the converse of `NoOrphans`), `DoneIsReady` (a completed
operation has woken its task) and `NoneIsNone`. `Owed` chooses among the
completed operations of a stream, and `NoOrphans` is why there is only one to
choose.

`ServerProofs` proves, for any finite set of connections and any descriptors,
rings, slots and width of the counter, of `Server`: `TypeCorrect`,
`FdOwnedAlways`, `RingBalanceAlways`; and of `Process`:

- `ProcessTypeCorrect` - `PSpec => []PTypeOK`, which says that no ring holds
  more operations than it has slots;
- `EnoughSlotsAlways` - `PSpec => []EnoughSlots`;
- `ProcessServes` - `PSpec => [](FdOwned /\ RingBalance)`.

`RingBalance` compares how often each ring was handed out so far, and the
counter forgets how often it wrapped. The invariant `Spread` says that numbers
of wraps and of turns exist, and hand-outs of each ring at the last wrap, from
which the present ones follow ring by ring: those at a wrap are out of balance
by at most the number of wraps, and one turn adds at most one. Slots are counted
by the cardinality of the set of sessions that hold one, which a step changes by
one element. `EnoughSlots` follows from two facts: no more operations share a
ring than it was handed out (`LoadCounted`, a second invariant), and as long as
the counter has not wrapped, a ring had at most one turn in each round
(`TurnsBound`), so that no more than `NRings * Depth` hand-outs are at most
`Depth` of each ring.

`GucProofs` proves, for any choice of the variables of the table, any file, any
width of INT and any number of sessions and SETs: `TypeCorrect`,
`LoadedAsWrittenAlways`, `FilterCoherentAlways`, `ReportedNeverStaleAlways` and
`RefusalsChangeNothing` (the action property `RefusalChangesNothing`). The
invariant adds that the shared state and every copy are well-typed states
(`StateOK`, `CopiesOK`) and that copies are made only once the file was read
(`CopiesLate`): a file's assignment would leave an earlier copy behind.
`DefsFacts` is what the code owes to `gucdef.yaml`: the variable with the
process-wide hook and those with REPORT are in contexts that SET does not reach.
A later variable that breaks this breaks the proof at that lemma.
`LoadedAsWritten` is a second induction (`SaidInv`): each entry is read once,
and a variable whose entry was not read yet has its boot value; `AsInt32Facts`
is what `as i32` keeps of an integer.

`StartProofs` proves `IndexInRangeAlways` and `RingsAsConfiguredAlways` for
every configuration and every width that satisfies `BootAssumption`: an i32 cast
to usize is either unchanged or larger than any vector (`CastUnchanged`). The
invariant says which vectors exist at each point of `main`. Of `LogPipeline` it
proves, for any tasks, channels and numbers of lines, `NoGapsAlways` - `LSpec =>
[]NoGaps`. The invariant `LInv` follows each line: while the thread is there a
line logged is written, queued, or the one its task is sending (`Kept`), the
lines of a task are queued in their order and behind those written (`InOrder`),
and those written are a beginning (`Prefix`).

Each inductive invariant was first checked with TLC on the instance of its run
(that of `SessionDialogueProofs`, whose automaton is dear to evaluate, with one
guc; that of `WireProofs`, which says that offsets exist, by way of the
properties it implies). Where a definition of the library is a power or a
recursive function that takes an operator (`SelectSeq`), the provers cannot see
through it: the messages heard are a history variable, the strings of a body are
numbered by a cardinality, the width of a guc is the number `Half`, and `Wire`
has a power function of its own.

Only model-checked: liveness, which is beyond the prover - `QueryAnswered`,
`GoneClientEndsSession`, `OpReturns`, `Served`, `DataReceived`, `Decided`.

## Not modelled

- `build.rs` beyond the table it makes: camel-casing and printing of Rust
  tokens happen at build time, and their failures are compile errors.
- The productions of `sql.lalrpop` other than number literals, and the types of
  `syn.rs`: they say how text becomes a tree, which lalrpop does.
- Constants (oids, error codes); clap, the tokio builder, kbio, the kernel,
  tracing-appender and the catalog beyond what the code relies on.
- `user` and `database` of a startup message, which have no caller, and the
  commented-out parts of `io.rs` and `lib.rs`.

## Plan

Done, in this order: `Session` and its proofs, `Dialogue`, `UringStream`,
`Server`, `Guc`; then `MsgBuf`, `Startup`, `Wire`, `LogPipeline`, `Process`,
`Boot`, `Analyze`, and the proofs about `MsgBuf`; then the proofs about
`UringStream`, `Server` and `Process`, `Guc`, `Boot`, `Startup`, and of the
refinement of `Dialogue` by `Session`; and last, with `Wire` and `Analyze`
rewritten without recursive operators, the proofs about them and about
`FrontEnd`. Every safety property of a run is now a theorem. When result rows
are sent, `Session`'s budget between two flushes has to be looked at first.
