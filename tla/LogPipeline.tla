----------------------------- MODULE LogPipeline ----------------------------
(***************************************************************************)
(* Logging in a release build: init_log hands tracing_subscriber a writer  *)
(* that sends every line through a bounded channel (lossy(false): a sender *)
(* waits for room) to a thread that writes to stdout.  Dropping the        *)
(* WorkerGuard tells that thread to stop; `let (non_blocking, _)` drops it *)
(* at the end of the statement.  tracing-appender 0.1 and the channel are  *)
(* external.  (A debug build writes to stdout from the task.)              *)
(***************************************************************************)
EXTENDS Integers, Sequences

CONSTANTS Tasks,   \* whatever logs
          Limits,  \* the values of -L: lines the channel holds
          MaxLines \* bound: lines a task logs

ASSUME LogAssumption == Limits \subseteq Nat /\ MaxLines \in Nat

Shutdown == [kind |-> "Shutdown"]
Line(t, n) == [kind |-> "Line", task |-> t, n |-> n]

VARIABLES
  up,      \* "start", "init" (init_log), "running", "aborted"
  limit,   \* the capacity of the channel
  worker,  \* the thread: "none", "spawned", "recv", "gone"
  chan,    \* the channel
  sending, \* the tasks inside a logging call
  nlines,  \* lines each task has logged
  written  \* the lines on stdout

lvars == <<up, limit, worker, chan, sending, nlines, written>>

LInit ==
  /\ up = "start" /\ limit \in Limits
  /\ worker = "none" /\ chan = <<>>
  /\ sending = {} /\ nlines = [t \in Tasks |-> 0] /\ written = {}

\* finish() makes the channel and spawns the thread; then the guard is dropped.
InitLog ==
  /\ up = "start" /\ up' = "init"
  /\ worker' = "spawned"
  /\ UNCHANGED <<limit, chan, sending, nlines, written>>

\* A channel without capacity hands over to a receiver that waits.
CanSend == IF limit = 0 THEN worker = "recv" /\ chan = <<>> ELSE Len(chan) < limit

\* WorkerGuard::drop sends Shutdown, or gives up when the thread is not there
\* to take it in time.
DropGuard ==
  /\ up = "init" /\ up' = "running"
  /\ IF CanSend THEN chan' = Append(chan, Shutdown) ELSE UNCHANGED chan
  /\ UNCHANGED <<limit, worker, sending, nlines, written>>

\* A task enters a logging call.
Log(t) ==
  /\ up = "running" /\ t \notin sending /\ nlines[t] < MaxLines
  /\ sending' = sending \cup {t}
  /\ nlines' = [nlines EXCEPT ![t] = @ + 1]
  /\ UNCHANGED <<up, limit, worker, chan, written>>

\* The line is in the channel and the call returns.
Send(t) ==
  /\ up = "running" /\ t \in sending /\ worker # "gone" /\ CanSend
  /\ chan' = Append(chan, Line(t, nlines[t]))
  /\ sending' = sending \ {t}
  /\ UNCHANGED <<up, limit, worker, nlines, written>>

\* Mutant: lossy(true), a line for which there is no room is dropped.
SendFailLossy(t) ==
  /\ up = "running" /\ t \in sending /\ (worker = "gone" \/ ~CanSend)
  /\ sending' = sending \ {t}
  /\ UNCHANGED <<up, limit, worker, chan, nlines, written>>

\* The thread is gone: send fails at once, also for a sender that waits, and
\* tracing_subscriber ignores the error of its writer.
SendFail(t) ==
  /\ up = "running" /\ t \in sending /\ worker = "gone"
  /\ sending' = sending \ {t}
  /\ UNCHANGED <<up, limit, worker, chan, nlines, written>>

WorkerStart ==
  /\ up # "aborted" /\ worker = "spawned" /\ worker' = "recv"
  /\ UNCHANGED <<up, limit, chan, sending, nlines, written>>

\* The thread writes the line it received: stdout may be slow, or stuck.
WorkerWrite ==
  /\ up # "aborted" /\ worker = "recv" /\ chan # <<>> /\ Head(chan) # Shutdown
  /\ chan' = Tail(chan)
  /\ written' = written \cup {Head(chan)}
  /\ UNCHANGED <<up, limit, worker, sending, nlines>>

\* It ends on Shutdown; the receiver is dropped with what is still queued.
WorkerStop ==
  /\ up # "aborted" /\ worker = "recv" /\ chan # <<>> /\ Head(chan) = Shutdown
  /\ worker' = "gone" /\ chan' = <<>>
  /\ UNCHANGED <<up, limit, sending, nlines, written>>

\* panic = 'abort', in any task.
Abort ==
  /\ up = "running" /\ up' = "aborted"
  /\ UNCHANGED <<limit, worker, chan, sending, nlines, written>>

Quiet == (up = "aborted" \/ \A t \in Tasks : nlines[t] = MaxLines) /\ UNCHANGED lvars

LNext ==
  \/ InitLog \/ DropGuard \/ WorkerStart \/ WorkerWrite \/ WorkerStop \/ Abort \/ Quiet
  \/ \E t \in Tasks : Log(t) \/ Send(t) \/ SendFail(t)

LSpec == LInit /\ [][LNext]_lvars

\* Threads run; a sender whose send can complete returns, and none is passed
\* over for ever (the channel wakes the one that waits longest).
Threads ==
  /\ WF_lvars(InitLog) /\ WF_lvars(DropGuard) /\ WF_lvars(WorkerStart) /\ WF_lvars(WorkerStop)
  /\ \A t \in Tasks : SF_lvars(Send(t)) /\ WF_lvars(SendFail(t))

\* ... and stdout takes what is written to it.
LFairSpec == LSpec /\ Threads /\ WF_lvars(WorkerWrite)

-----------------------------------------------------------------------------
(* Properties.                                                             *)

\* lossy(false): a line waits for room, it is not dropped.  What is on stdout
\* of a task's log is a beginning of it, without gaps, however full the channel
\* was and whenever the thread ended.  (With -L 0, where the guard may fail to
\* stop the thread, lines do get there; for the others see LinesWritten.)
NoGaps ==
  \A t \in Tasks : \A n \in 1..MaxLines :
    Line(t, n) \in written => \A m \in 1..n : Line(t, m) \in written

\* What init_log's comment says: "We do not need the non_blocking::WorkerGuard
\* because we will abort on panic."  A line that is logged is written, unless
\* the process aborts first.
LinesWritten ==
  \A t \in Tasks : \A n \in 1..MaxLines :
    nlines[t] = n ~> Line(t, n) \in written \/ up = "aborted"
=============================================================================
