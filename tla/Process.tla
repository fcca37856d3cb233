------------------------------- MODULE Process ------------------------------
(***************************************************************************)
(* Server put together with the rings its sessions share.  do_main's       *)
(* accept and every recv or send of a session is an operation that holds a *)
(* slot of a ring, of Depth slots, from its submission until it completes: *)
(* for as long as a client stays silent, or does not read.  The accept     *)
(* uses the first ring that was handed out, a session the one it got when  *)
(* it began (postgres_main).  An operation that finds its ring full tries  *)
(* again (module UringStream).                                             *)
(***************************************************************************)
EXTENDS Server

CONSTANT Depth \* non_iopoll_uring_depth

ASSUME DepthAssumption == Depth \in Nat

NoRing == -1

VARIABLES
  acc,   \* the accept of do_main: "none", "wait" (for a slot), "flight"
  ring,  \* the ring of each session
  op,    \* what each session awaits: "none", "recv_wait", "recv", "send_wait", "send"
  data,  \* whether a client has sent something that was not received
  gone   \* the clients that left

pvars == <<vars, acc, ring, op, data, gone>>

\* The sessions' operations that hold a slot of ring r.
Holders(r) == {c \in Conns : ring[c] = r /\ op[c] \in {"recv", "send"}}

\* Mutant: the vector of Urings::new is filled with clones of one ring.
SlotsShared(r) ==
  Cardinality({c \in Conns : op[c] \in {"recv", "send"}}) + IF acc = "flight" THEN 1 ELSE 0

\* The slots of ring r in use; the accept's ring is index 0.
Slots(r) == Cardinality(Holders(r)) + IF r = 0 /\ acc = "flight" THEN 1 ELSE 0

\* The operations that share ring r, one for each session that runs on it and,
\* on the first, the accept; and whether they are more than its slots.  Nothing
\* in the code bounds them.
Load(r) ==
  Cardinality({c \in Conns : st[c] = "running" /\ ring[c] = r})
    + IF r = 0 /\ acc # "none" THEN 1 ELSE 0
Crowded(r) == Load(r) > Depth

PInit ==
  /\ Init
  /\ acc = "none" /\ gone = {}
  /\ ring = [c \in Conns |-> NoRing]
  /\ op = [c \in Conns |-> "none"] /\ data = [c \in Conns |-> FALSE]

PStart ==
  /\ Start /\ acc' = "wait"
  /\ UNCHANGED <<ring, op, data, gone>>

PStartFail == StartFail /\ UNCHANGED <<acc, ring, op, data, gone>>

-----------------------------------------------------------------------------
(* Clients.                                                                *)

PConnect(c) == Connect(c) /\ UNCHANGED <<acc, ring, op, data, gone>>

ClientSend(c) ==
  /\ st[c] \in {"backlog", "spawned", "running"} /\ c \notin gone /\ ~data[c]
  /\ data' = [data EXCEPT ![c] = TRUE]
  /\ UNCHANGED <<vars, acc, ring, op, gone>>

ClientLeave(c) ==
  /\ st[c] \in {"backlog", "spawned", "running"} /\ c \notin gone
  /\ gone' = gone \cup {c}
  /\ UNCHANGED <<vars, acc, ring, op, data>>

-----------------------------------------------------------------------------
(* do_main: uring.accept(listener).await, over and over.                   *)

AcceptSubmit ==
  /\ up = "accepting" /\ acc = "wait" /\ Slots(0) < Depth
  /\ acc' = "flight"
  /\ UNCHANGED <<vars, ring, op, data, gone>>

PAccept(c) ==
  /\ acc = "flight" /\ acc' = "wait"
  /\ Accept(c)
  /\ UNCHANGED <<ring, op, data, gone>>

PAcceptFail(c) ==
  /\ acc = "flight" /\ acc' = "wait"
  /\ AcceptFail(c)
  /\ UNCHANGED <<ring, op, data, gone>>

\* A connection waits and no descriptor is free: accept fails, and the loop
\* comes back at once.
AcceptNoFd ==
  /\ up = "accepting" /\ acc = "flight" /\ open = Fds
  /\ \E c \in Conns : st[c] = "backlog"
  /\ acc' = "wait"
  /\ UNCHANGED <<vars, ring, op, data, gone>>

-----------------------------------------------------------------------------
(* postgres_main.                                                          *)

PRun(c) ==
  /\ Run(c)
  /\ ring' = [ring EXCEPT ![c] = nseq % NRings]
  /\ op' = [op EXCEPT ![c] = "recv_wait"]
  /\ UNCHANGED <<acc, data, gone>>

Submit(c) ==
  /\ up = "accepting" /\ op[c] \in {"recv_wait", "send_wait"} /\ Slots(ring[c]) < Depth
  /\ op' = [op EXCEPT ![c] = IF @ = "recv_wait" THEN "recv" ELSE "send"]
  /\ UNCHANGED <<vars, acc, ring, data, gone>>

\* The session got something: it reads on or answers.
Received(c) ==
  /\ up = "accepting" /\ op[c] = "recv" /\ data[c]
  /\ data' = [data EXCEPT ![c] = FALSE]
  /\ \E next \in {"recv_wait", "send_wait"} : op' = [op EXCEPT ![c] = next]
  /\ UNCHANGED <<vars, acc, ring, gone>>

\* The client has read the answer, or left.
Sent(c) ==
  /\ up = "accepting" /\ op[c] = "send"
  /\ op' = [op EXCEPT ![c] = "recv_wait"]
  /\ UNCHANGED <<vars, acc, ring, data, gone>>

\* Mutant: the operation outlives its session.
PEndKeepsOp(c) ==
  /\ op[c] = "recv" /\ (data[c] \/ c \in gone)
  /\ End(c)
  /\ UNCHANGED <<acc, ring, op, data, gone>>

\* The session ends on what it received, on the end of the stream, or on an
\* error of either.
PEnd(c) ==
  /\ \/ op[c] = "recv" /\ (data[c] \/ c \in gone)
     \/ op[c] = "send" /\ c \in gone
  /\ End(c)
  /\ op' = [op EXCEPT ![c] = "none"]
  /\ UNCHANGED <<acc, ring, data, gone>>

\* It panics on what it received.
PAbort(c) ==
  /\ op[c] = "recv" /\ data[c]
  /\ Abort(c)
  /\ acc' = "none" /\ op' = [d \in Conns |-> "none"]
  /\ UNCHANGED <<ring, data, gone>>

PFinished == Finished /\ UNCHANGED <<acc, ring, op, data, gone>>

\* The last client has come, and the accept that waits for another keeps the
\* slot that sessions of its ring want: nothing happens until one comes.
Stalled ==
  /\ acc = "flight" /\ Crowded(0) /\ \A c \in Conns : st[c] \notin {"new", "backlog"}
  /\ UNCHANGED pvars

PNext ==
  \/ PStart \/ PStartFail \/ AcceptSubmit \/ AcceptNoFd
  \/ PFinished \/ Stalled
  \/ \E c \in Conns :
       \/ PConnect(c) \/ ClientSend(c) \/ ClientLeave(c) \/ PAccept(c) \/ PAcceptFail(c)
       \/ PRun(c) \/ Submit(c) \/ Received(c) \/ Sent(c) \/ PEnd(c) \/ PAbort(c)

\* The kernel completes an accept or a recv that can complete, and the executor
\* polls what was woken.  That a client reads what it is sent (Sent), sends or
\* leaves is not assumed.
PSpec ==
  /\ PInit /\ [][PNext]_pvars
  /\ WF_pvars(AcceptSubmit) /\ WF_pvars(\E c \in Conns : PAccept(c))
  /\ \A c \in Conns : WF_pvars(PRun(c)) /\ WF_pvars(Submit(c)) /\ WF_pvars(Received(c) \/ PEnd(c))

-----------------------------------------------------------------------------
(* Properties.                                                             *)

\* Every variable has its type, a session that runs has a ring and an
\* operation, and no ring holds more than its slots.
PTypeOK ==
  /\ TypeOK /\ acc \in {"none", "wait", "flight"} /\ gone \subseteq Conns
  /\ \A c \in Conns : /\ ring[c] \in Rings \cup {NoRing} /\ data[c] \in BOOLEAN
                      /\ op[c] # "none" <=> st[c] = "running"
                      /\ st[c] = "running" => ring[c] # NoRing
  /\ \A r \in Rings : Slots(r) <= Depth

\* The round robin leaves every operation a slot as long as the rings were
\* handed out no more often, over the whole life of the process, than they
\* have slots together (and the counter has not come round).  It counts
\* sessions that ended too: their turns do not come back, so that later
\* sessions may crowd one ring while another is idle.
EnoughSlots ==
  LET begun == Cardinality({c \in Conns : st[c] \in {"running", "ended"}}) + 1
  IN  begun <= NRings * Depth /\ begun < SeqMod => \A r \in Rings : ~Crowded(r)

\* A failed accept does not end the service: a connection in the backlog leaves
\* it, unless the process aborts, every descriptor stays in use for ever, or
\* the accept's own ring stays crowded for ever: as many sessions as it has
\* slots, whose clients are silent or do not read, leave do_main none.
Served ==
  \/ <>[](open = Fds)
  \/ <>[]Crowded(0)
  \/ \A c \in Conns : st[c] = "backlog" ~> (st[c] # "backlog" \/ up = "aborted")

\* What a client sends to a session that reads is received, or the session
\* ends, unless its ring is crowded, when silent clients may keep the slots
\* for ever.  Sessions of other rings, sessions that ended and descriptors
\* that ran out never stand in its way.
DataReceived ==
  \A c \in Conns :
    data[c] /\ op[c] \in {"recv_wait", "recv"} ~>
      ~data[c] \/ op[c] = "none" \/ Crowded(ring[c])
=============================================================================
