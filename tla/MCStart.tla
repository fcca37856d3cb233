------------------------------- MODULE MCStart ------------------------------
(***************************************************************************)
(* What main sets up: the rings and the listener (Boot), and the log       *)
(* (LogPipeline).  The two share no state: a behaviour is one of one of    *)
(* them, with the other at rest.  A u16 is modulo four and a usize modulo  *)
(* sixteen; the channel of the log is shorter than what the tasks log.     *)
(***************************************************************************)
EXTENDS Boot, LogPipeline

VARIABLE part \* the one that runs

SomeInts == -2..5

LIdle ==
  /\ up = "aborted" /\ limit = CHOOSE n \in Limits : TRUE
  /\ worker = "none" /\ chan = <<>> /\ sending = {}
  /\ nlines = [t \in Tasks |-> 0] /\ written = {}

BIdle ==
  /\ build = "debug" /\ conf = [port |-> 0, iopoll_num |-> 0, non_iopoll_num |-> 0]
  /\ pc = "panicked" /\ iopolls = 0 /\ non_iopolls = 0 /\ port = 0
  /\ seq = 0 /\ nseq = 0 /\ taken = NoRing /\ uses = 0

StartInit ==
  \/ part = "Boot" /\ Init /\ LIdle
  \/ part = "LogPipeline" /\ BIdle /\ LInit

StartNext ==
  \/ part = "Boot" /\ Next /\ UNCHANGED <<part, lvars>>
  \/ part = "LogPipeline" /\ LNext /\ UNCHANGED <<part, vars>>

StartSpec == StartInit /\ [][StartNext]_<<part, vars, lvars>>
=============================================================================
