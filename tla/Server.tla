------------------------------- MODULE Server -------------------------------
(***************************************************************************)
(* The process: do_main's accept loop, the tasks it spawns, the descriptor *)
(* each of them owns through an FdGuard, and the io_urings of GlobalState, *)
(* handed out in turn by Urings::non_iopoll.  What a task does between its *)
(* first poll and its end is module Session.                               *)
(***************************************************************************)
EXTENDS Integers, FiniteSets

CONSTANTS Conns,          \* the connections clients make
          Fds,            \* the descriptors the process may open
          NoFd,           \* none yet
          NRings,         \* non_iopoll_uring_num
          SeqMod,         \* 2^64: the counter of Urings wraps
          MaxConnections, \* the guc max_connections
          Build           \* "debug": a panic unwinds its task; "release": it aborts

ASSUME ServerAssumption ==
  /\ NRings \in Nat /\ SeqMod \in Nat \ {0}
  /\ MaxConnections \in Nat /\ Build \in {"debug", "release"}
  /\ IsFiniteSet(Conns) /\ NoFd \notin Fds

\* Urings::new: the vector of rings, by index.
Rings == 0..(NRings - 1)

VARIABLES
  up,    \* "starting", "accepting", "aborted"
  st,    \* each connection: "new", "backlog" (until accept returns it),
         \* "spawned", "running", "ended"; or "refused": reset in the backlog
  fd,    \* the descriptor given to its task
  open,  \* the descriptors that are open
  nseq,  \* Urings::nseq
  used   \* history: how many times each ring was handed out

vars == <<up, st, fd, open, nseq, used>>

Init ==
  /\ up = "starting"
  /\ st = [c \in Conns |-> "new"]
  /\ fd = [c \in Conns |-> NoFd]
  /\ open = {} /\ nseq = 0
  /\ used = [r \in Rings |-> 0]

\* Mutant: the counter is read but not advanced.
NonIopollStuck ==
  /\ used' = [used EXCEPT ![nseq % NRings] = @ + 1]
  /\ UNCHANGED nseq

\* Urings::non_iopoll: fetch_add, then the remainder.
NonIopoll ==
  /\ used' = [used EXCEPT ![nseq % NRings] = @ + 1]
  /\ nseq' = (nseq + 1) % SeqMod

\* do_main starts the rings, binds the listener and takes a ring for accept;
\* with no ring the remainder is a division by zero.
Start ==
  /\ up = "starting" /\ NRings > 0
  /\ up' = "accepting"
  /\ NonIopoll
  /\ UNCHANGED <<st, fd, open>>

\* Any unwrap of main or do_main before the loop: the process ends.
StartFail ==
  /\ up = "starting" /\ up' = "aborted"
  /\ UNCHANGED <<st, fd, open, nseq, used>>

Connect(c) ==
  /\ up = "accepting" /\ st[c] = "new"
  /\ st' = [st EXCEPT ![c] = "backlog"]
  /\ UNCHANGED <<up, fd, open, nseq, used>>

\* Mutant: a failed accept ends the loop.
AcceptOnce(c) ==
  /\ up = "accepting" /\ st[c] = "backlog"
  /\ \A d \in Conns : st[d] # "refused"
  /\ \E f \in Fds \ open :
       /\ fd' = [fd EXCEPT ![c] = f]
       /\ open' = open \cup {f}
  /\ st' = [st EXCEPT ![c] = "spawned"]
  /\ UNCHANGED <<up, nseq, used>>

\* accept returns a descriptor and the loop spawns postgres_main with it.
\* (When none is free accept fails, the loop warns and calls it again.)
Accept(c) ==
  /\ up = "accepting" /\ st[c] = "backlog"
  /\ \E f \in Fds \ open :
       /\ fd' = [fd EXCEPT ![c] = f]
       /\ open' = open \cup {f}
  /\ st' = [st EXCEPT ![c] = "spawned"]
  /\ UNCHANGED <<up, nseq, used>>

\* A connection that was reset in the backlog: accept fails, the loop warns
\* and goes on.
AcceptFail(c) ==
  /\ up = "accepting" /\ st[c] = "backlog"
  /\ st' = [st EXCEPT ![c] = "refused"]
  /\ UNCHANGED <<up, fd, open, nseq, used>>

\* The first poll of postgres_main: the guard takes the descriptor, the stream
\* a ring.
Run(c) ==
  /\ up = "accepting" /\ st[c] = "spawned"
  /\ st' = [st EXCEPT ![c] = "running"]
  /\ NonIopoll
  /\ UNCHANGED <<up, fd, open>>

\* Mutant: the end of the task does not close the descriptor.
EndLeaks(c) ==
  /\ up = "accepting" /\ st[c] = "running"
  /\ st' = [st EXCEPT ![c] = "ended"]
  /\ UNCHANGED <<up, fd, open, nseq, used>>

\* postgres_main returns, or unwinds from a panic: the FdGuard closes.
End(c) ==
  /\ up = "accepting" /\ st[c] = "running"
  /\ st' = [st EXCEPT ![c] = "ended"]
  /\ open' = open \ {fd[c]}
  /\ UNCHANGED <<up, fd, nseq, used>>

\* The release profile says panic = 'abort'.
Abort(c) ==
  /\ Build = "release"
  /\ up = "accepting" /\ st[c] = "running"
  /\ up' = "aborted" /\ open' = {}
  /\ st' = [d \in Conns |-> IF st[d] \in {"spawned", "running"} THEN "ended" ELSE st[d]]
  /\ UNCHANGED <<fd, nseq, used>>

Finished ==
  /\ up = "aborted" \/ \A c \in Conns : st[c] \in {"ended", "refused"}
  /\ UNCHANGED vars

Next ==
  \/ Start \/ StartFail \/ Finished
  \/ \E c \in Conns : \/ Connect(c) \/ Accept(c) \/ AcceptFail(c)
                      \/ Run(c) \/ End(c) \/ Abort(c)

Spec == Init /\ [][Next]_vars

-----------------------------------------------------------------------------
(* Properties.                                                             *)

Live == {c \in Conns : st[c] \in {"spawned", "running"}}

\* Every variable stays in its type; a ring is only handed out by an index
\* inside the vector (Urings::non_iopoll reads it unchecked).
TypeOK ==
  /\ up \in {"starting", "accepting", "aborted"}
  /\ st \in [Conns -> {"new", "backlog", "spawned", "running", "ended", "refused"}]
  /\ fd \in [Conns -> Fds \cup {NoFd}]
  /\ open \subseteq Fds
  /\ nseq \in 0..(SeqMod - 1)
  /\ used \in [Rings -> Nat]

\* Descriptors are reused, and still each open one belongs to exactly one task:
\* none is leaked by a session that ended (FdGuard in postgres_main), and none
\* is closed under the task it was handed to next.
FdOwned ==
  /\ open = {fd[c] : c \in Live}
  /\ \A c, d \in Live : fd[c] = fd[d] => c = d

\* The hand-outs of the rings, over the whole life of the process: fetch_add
\* gives no ring more than one turn more than another, and one more each time
\* the counter wraps (where the number of rings does not divide its modulus).
\* It says nothing of the load: a session that ends frees no turn.
RingBalance ==
  LET total == Cardinality({c \in Conns : st[c] \in {"running", "ended"}}) + 1
  IN  \A i, j \in Rings : used[i] - used[j] <= 1 + total \div SeqMod

\* What gucdef.yaml says of max_connections: "Sets the maximum number of
\* concurrent connections."  do_main's loop accepts without looking at it.
WithinMaxConnections == Cardinality(Live) <= MaxConnections
=============================================================================
