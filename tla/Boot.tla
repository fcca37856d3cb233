-------------------------------- MODULE Boot --------------------------------
(***************************************************************************)
(* From main to the accept loop: integers of the configuration, i32 and    *)
(* unchecked, become usize and u16 with `as`, size vectors of rings, and   *)
(* choose the port.  Then the rings are handed out by Urings::non_iopoll   *)
(* and Urings::iopoll, with get_unchecked.                                 *)
(*                                                                         *)
(* Widths are scaled: a u16 is modulo U16Mod, a usize modulo UsizeMod, and *)
(* Vec::with_capacity panics above CapMax.  Every unwrap that may fail for *)
(* a reason outside (the data directory, the runtime, a ring, the bind)    *)
(* may fail here.                                                          *)
(***************************************************************************)
EXTENDS Integers

CONSTANTS Ints,     \* values of the integer gucs
          U16Mod, UsizeMod, CapMax,
          MaxUses   \* bound: rings handed out

ASSUME BootAssumption ==
  /\ Ints \subseteq Int /\ U16Mod \in Nat \ {0} /\ MaxUses \in Nat
  /\ CapMax \in Nat /\ UsizeMod \in Nat /\ CapMax < UsizeMod
  /\ \A n \in Ints : n <= CapMax /\ UsizeMod + n > CapMax

VARIABLES
  build,       \* "debug" or "release"
  conf,        \* the gucs port, iopoll_uring_num, non_iopoll_uring_num
  pc,          \* "main", "runtime", "urings", "iopolls", "non_iopolls", "ring",
               \* "accepting", or "panicked"
  iopolls,     \* the rings started so far
  non_iopolls,
  port,        \* the port listened on
  seq, nseq,   \* the counters of Urings
  taken,       \* the vector and the index of the ring handed out last
  uses         \* rings handed out

vars == <<build, conf, pc, iopolls, non_iopolls, port, seq, nseq, taken, uses>>

NoRing == [from |-> "none", idx |-> 0]

Init ==
  /\ build \in {"debug", "release"}
  /\ conf \in [port : Ints, iopoll_num : Ints, non_iopoll_num : Ints]
  /\ pc = "main" /\ iopolls = 0 /\ non_iopolls = 0 /\ port = 0
  /\ seq = 0 /\ nseq = 0 /\ taken = NoRing /\ uses = 0

usize(n) == n % UsizeMod

\* .unwrap() of a step that failed, or a panic inside it.
Unwrap ==
  /\ pc \in {"main", "runtime", "urings", "iopolls", "non_iopolls"}
  /\ pc' = "panicked"
  /\ UNCHANGED <<build, conf, iopolls, non_iopolls, port, seq, nseq, taken, uses>>

\* kuiba::init: the log, the data directory, the configuration.
KuibaInit ==
  /\ pc = "main" /\ pc' = "runtime"
  /\ UNCHANGED <<build, conf, iopolls, non_iopolls, port, seq, nseq, taken, uses>>

NewRuntime ==
  /\ pc = "runtime" /\ pc' = "urings"
  /\ UNCHANGED <<build, conf, iopolls, non_iopolls, port, seq, nseq, taken, uses>>

\* Mutant: the vectors are made without their capacity.
WithCapacityLazy(n) == TRUE

\* Vec::with_capacity(n) returns.
WithCapacity(n) == usize(n) <= CapMax

\* Urings::new: the assertion of a debug build, and the first vector.
NewUrings ==
  /\ pc = "urings"
  /\ pc' = IF (build = "debug" => usize(conf.non_iopoll_num) > 0) /\ WithCapacity(conf.iopoll_num)
             THEN "iopolls" ELSE "panicked"
  /\ UNCHANGED <<build, conf, iopolls, non_iopolls, port, seq, nseq, taken, uses>>

StartIopoll ==
  /\ pc = "iopolls" /\ iopolls < usize(conf.iopoll_num)
  /\ iopolls' = iopolls + 1
  /\ UNCHANGED <<build, conf, pc, non_iopolls, port, seq, nseq, taken, uses>>

\* The second vector.
IopollsDone ==
  /\ pc = "iopolls" /\ iopolls = usize(conf.iopoll_num)
  /\ pc' = IF WithCapacity(conf.non_iopoll_num) THEN "non_iopolls" ELSE "panicked"
  /\ UNCHANGED <<build, conf, iopolls, non_iopolls, port, seq, nseq, taken, uses>>

StartNonIopoll ==
  /\ pc = "non_iopolls" /\ non_iopolls < usize(conf.non_iopoll_num)
  /\ non_iopolls' = non_iopolls + 1
  /\ UNCHANGED <<build, conf, pc, iopolls, port, seq, nseq, taken, uses>>

\* do_main: `as u16`, TcpListener::bind.  Port 0 is any port that is free.
Bind ==
  /\ pc = "non_iopolls" /\ non_iopolls = usize(conf.non_iopoll_num)
  /\ pc' = "ring"
  /\ \E p \in 1..(U16Mod - 1) :
       /\ conf.port % U16Mod # 0 => p = conf.port % U16Mod
       /\ port' = p
  /\ UNCHANGED <<build, conf, iopolls, non_iopolls, seq, nseq, taken, uses>>

\* Urings::non_iopoll: the remainder panics when there is no ring.
NonIopoll ==
  /\ uses' = uses + 1
  /\ IF non_iopolls = 0
       THEN pc' = "panicked" /\ UNCHANGED <<nseq, taken>>
       ELSE /\ pc' = "accepting" /\ nseq' = usize(nseq + 1)
            /\ taken' = [from |-> "non_iopolls", idx |-> nseq % non_iopolls]

\* do_main's own ring, and after it one for each session.
TakeRing ==
  /\ pc \in {"ring", "accepting"} /\ uses < MaxUses
  /\ NonIopoll
  /\ UNCHANGED <<build, conf, iopolls, non_iopolls, port, seq>>

\* Mutant: the index is taken modulo the number of the other rings.
TakeIopollOther ==
  /\ pc = "accepting" /\ uses < MaxUses /\ iopolls > 0
  /\ uses' = uses + 1 /\ seq' = usize(seq + 1)
  /\ taken' = [from |-> "iopolls", idx |-> seq % non_iopolls]
  /\ UNCHANGED <<build, conf, pc, iopolls, non_iopolls, port, nseq>>

\* Urings::iopoll (public, without a caller yet).
TakeIopoll ==
  /\ pc = "accepting" /\ uses < MaxUses /\ iopolls > 0
  /\ uses' = uses + 1 /\ seq' = usize(seq + 1)
  /\ taken' = [from |-> "iopolls", idx |-> seq % iopolls]
  /\ UNCHANGED <<build, conf, pc, iopolls, non_iopolls, port, nseq>>

\* ... which falls back on the others when iopolling is off.
TakeIopollOff ==
  /\ pc = "accepting" /\ uses < MaxUses /\ iopolls = 0
  /\ NonIopoll
  /\ UNCHANGED <<build, conf, iopolls, non_iopolls, port, seq>>

Stopped == (pc = "panicked" \/ uses = MaxUses) /\ UNCHANGED vars

Next ==
  \/ Unwrap \/ KuibaInit \/ NewRuntime \/ NewUrings \/ StartIopoll \/ IopollsDone
  \/ StartNonIopoll \/ Bind \/ TakeRing \/ TakeIopoll \/ TakeIopollOff \/ Stopped

Spec == Init /\ [][Next]_vars

-----------------------------------------------------------------------------
(* Properties.                                                             *)

\* What get_unchecked requires: a ring is only taken from a vector that has
\* it, whichever vectors the configuration leaves empty, in either build.
IndexInRange ==
  /\ taken.from = "iopolls" => taken.idx < iopolls
  /\ taken.from = "non_iopolls" => taken.idx < non_iopolls

\* The process only gets to the accept loop with the rings it was configured
\* for, at least one among them: a negative or a zero number, cast to usize
\* without a check, never gets that far.
RingsAsConfigured ==
  pc = "accepting" =>
    /\ iopolls = conf.iopoll_num
    /\ non_iopolls = conf.non_iopoll_num /\ non_iopolls > 0
=============================================================================
