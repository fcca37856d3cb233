------------------------- MODULE UringStreamProofs --------------------------
(***************************************************************************)
(* Proofs about UringStream: for any number of streams, any depth of the   *)
(* ring and operations of any length, the kernel only touches buffers that *)
(* their tasks still lend it, no byte is lost or counted twice and no      *)
(* wake-up is lost.                                                        *)
(***************************************************************************)
EXTENDS UringStream, FiniteSetTheorems, TLAPS

-----------------------------------------------------------------------------
(* The inductive invariant.                                                *)

\* A field without a future is exactly None.
NoneIsNone ==
  \A s \in Streams, f \in Fields : fut[s][f].form = "None" => fut[s][f] = None

\* A future that was submitted has its operation in the ring.
SubmittedHasSlot ==
  \A s \in Streams, f \in Fields :
    fut[s][f].form = "submitted" => \E x \in slots : x.s = s /\ x.field = f

\* Who has a completed operation will be polled.
DoneIsReady == \A x \in slots : x.st = "done" => x.s \in ready

IInv ==
  /\ TypeOK /\ NoOrphans /\ SameBuffer /\ BytesExactlyOnce /\ NoLostWakeup
  /\ NoneIsNone /\ SubmittedHasSlot /\ DoneIsReady

-----------------------------------------------------------------------------
(* What a ring owes a stream.                                              *)

\* The operations of stream t among S, and the bytes they owe.
Mine(S, t) == {x \in S : x.s = t}
Due(S, t, ops) == {x \in S : x.s = t /\ x.op \in ops /\ x.st = "done" /\ x.res > 0}
OwedIn(S, t, ops) == IF Due(S, t, ops) = {} THEN 0 ELSE (CHOOSE x \in Due(S, t, ops) : TRUE).res

\* Owed is OwedIn the ring, in a state and in the next.
LEMMA OwedIsOwedIn ==
  ASSUME NEW t, NEW ops
  PROVE  /\ Owed(t, ops) = OwedIn(slots, t, ops)
         /\ Owed(t, ops)' = OwedIn(slots', t, ops)
BY DEF Owed, OwedIn, Due

\* A stream is owed by its own operations only.
LEMMA OwedFrame ==
  ASSUME NEW S, NEW T, NEW t, NEW ops, Mine(S, t) = Mine(T, t)
  PROVE  OwedIn(S, t, ops) = OwedIn(T, t, ops)
<1>1. Due(S, t, ops) = Due(T, t, ops)
  BY DEF Due, Mine
<1> QED
  BY <1>1 DEF OwedIn

LEMMA OwedByNone ==
  ASSUME NEW S, NEW t, NEW ops, Mine(S, t) = {}
  PROVE  OwedIn(S, t, ops) = 0
<1>1. Due(S, t, ops) = {}
  BY DEF Due, Mine
<1> QED
  BY <1>1 DEF OwedIn

LEMMA OwedByOne ==
  ASSUME NEW S, NEW t, NEW ops, NEW x, Mine(S, t) = {x}
  PROVE  OwedIn(S, t, ops) =
           IF x.op \in ops /\ x.st = "done" /\ x.res > 0 THEN x.res ELSE 0
<1>1. CASE x.op \in ops /\ x.st = "done" /\ x.res > 0
  <2>1. Due(S, t, ops) = {x}
    BY <1>1 DEF Due, Mine
  <2> QED
    BY <1>1, <2>1 DEF OwedIn
<1>2. CASE ~(x.op \in ops /\ x.st = "done" /\ x.res > 0)
  <2>1. Due(S, t, ops) = {}
    BY <1>2 DEF Due, Mine
  <2> QED
    BY <1>2, <2>1 DEF OwedIn
<1> QED
  BY <1>1, <1>2

-----------------------------------------------------------------------------
(* What the invariant says of one stream.                                  *)

LEMMA FieldOfType == /\ \A op \in Ops : FieldOf[op] \in Fields
                     /\ "idle" \notin Ops /\ "gone" \notin Ops
BY DEF FieldOf, Ops, Fields

\* An operation in the ring, its task and its future.
LEMMA SlotFacts ==
  ASSUME TypeOK, NoOrphans, NEW x \in slots
  PROVE  /\ x.s \in Streams /\ x.op \in Ops /\ x.field = FieldOf[x.op]
         /\ task[x.s].op = x.op /\ task[x.s].buf = x.buf /\ task[x.s].len = x.len
         /\ fut[x.s][x.field].form = "submitted"
         /\ x.buf \in Nat /\ x.len \in Nat /\ x.res \in Int
<1>1. /\ task[x.s] = [op |-> x.op, buf |-> x.buf, len |-> x.len]
      /\ x.field = FieldOf[x.op]
      /\ fut[x.s][x.field] = Some(TRUE, x.buf, x.len)
  BY DEF NoOrphans
<1> QED
  BY <1>1 DEF TypeOK, Some

\* The one operation of a stream.
LEMMA MineIsOne ==
  ASSUME NoOrphans, NEW x \in slots
  PROVE  Mine(slots, x.s) = {x}
BY DEF NoOrphans, Mine

\* A task without an operation has none in the ring and no future.
LEMMA IdleHasNothing ==
  ASSUME IInv, NEW s \in Streams, task[s].op \notin Ops
  PROVE  Mine(slots, s) = {} /\ \A f \in Fields : fut[s][f] = None
<1>1. \A x \in slots : x.s # s
  BY SlotFacts DEF IInv
<1> QED
  BY <1>1 DEF IInv, SameBuffer, Mine

\* A stream whose future has no slot has no operation in the ring.
LEMMA UnsubmittedHasNothing ==
  ASSUME IInv, NEW s \in Streams, task[s].op \in Ops, fut[s][Field(s)].form # "submitted"
  PROVE  Mine(slots, s) = {}
<1>1. ASSUME NEW x \in slots, x.s = s PROVE FALSE
  <2>1. task[s].op = x.op /\ x.field = FieldOf[x.op] /\ fut[s][x.field].form = "submitted"
    BY <1>1, SlotFacts DEF IInv
  <2> QED
    BY <2>1 DEF Field
<1> QED
  BY <1>1 DEF Mine

\* One whose future has a slot has exactly the operation its task awaits.
LEMMA SubmittedHasOne ==
  ASSUME IInv, NEW s \in Streams, task[s].op \in Ops, fut[s][Field(s)].form = "submitted"
  PROVE  \E x \in slots : /\ x.s = s /\ x.field = Field(s) /\ x.op = task[s].op
                          /\ Mine(slots, s) = {x} /\ SlotsOf(s) = {x}
<1>1. Field(s) \in Fields
  BY FieldOfType DEF Field
<1>2. PICK x \in slots : x.s = s /\ x.field = Field(s)
  BY <1>1 DEF IInv, SubmittedHasSlot
<1>3. Mine(slots, s) = {x}
  BY <1>2, MineIsOne DEF IInv
<1>4. SlotsOf(s) = {x}
  BY <1>2, <1>3 DEF SlotsOf, Mine
<1>5. x.op = task[s].op
  BY <1>2, SlotFacts DEF IInv
<1> QED
  BY <1>2, <1>3, <1>4, <1>5

\* The size of a ring that gains an operation, loses one, or has one replaced.
LEMMA RingGrows ==
  ASSUME NEW S, IsFiniteSet(S), Cardinality(S) < Depth, NEW x
  PROVE  IsFiniteSet(S \cup {x}) /\ Cardinality(S \cup {x}) <= Depth
<1>1. Cardinality(S) \in Nat
  BY FS_CardinalityType
<1>2. Cardinality(S \cup {x}) \in {Cardinality(S), Cardinality(S) + 1}
  BY FS_AddElement
<1>3. Cardinality(S \cup {x}) <= Depth
  BY <1>1, <1>2, DepthAssumption
<1> QED
  BY <1>3, FS_AddElement

LEMMA RingShrinks ==
  ASSUME NEW S, IsFiniteSet(S), Cardinality(S) <= Depth, NEW x \in S
  PROVE  /\ IsFiniteSet(S \ {x}) /\ Cardinality(S \ {x}) < Depth
         /\ \A y : IsFiniteSet((S \ {x}) \cup {y}) /\ Cardinality((S \ {x}) \cup {y}) <= Depth
<1>1. Cardinality(S) \in Nat
  BY FS_CardinalityType
<1>2. IsFiniteSet(S \ {x}) /\ Cardinality(S \ {x}) = Cardinality(S) - 1
  BY FS_RemoveElement
<1>3. Cardinality(S \ {x}) < Depth
  BY <1>1, <1>2, DepthAssumption
<1> QED
  BY <1>2, <1>3, RingGrows

LEMMA InitIInv == Init => IInv
<1> SUFFICES ASSUME Init PROVE IInv
  OBVIOUS
<1>1. IsFiniteSet(slots) /\ Cardinality(slots) = 0
  BY FS_EmptySet DEF Init
<1>2. TypeOK
  BY <1>1, DepthAssumption DEF Init, TypeOK, Idle, None
<1>3. \A s, ops : Owed(s, ops) = 0
  BY DEF Init, Owed
<1>4. BytesExactlyOnce
  BY <1>3 DEF Init, BytesExactlyOnce
<1> QED
  BY <1>2, <1>4, FieldOfType DEF Init, IInv, NoOrphans, SameBuffer, NoLostWakeup, NoneIsNone,
     SubmittedHasSlot, DoneIsReady, Idle, None
-----------------------------------------------------------------------------
(* The steps.                                                              *)

\* What relates tasks, futures and the ring survives a step that changes none.
LEMMA RingAlone ==
  ASSUME IInv, UNCHANGED <<task, fut, slots>>
  PROVE  NoOrphans' /\ SameBuffer' /\ NoneIsNone' /\ SubmittedHasSlot'
<1> USE DEF IInv
<1>1. NoOrphans'
  BY DEF NoOrphans
<1>2. SameBuffer'
  BY DEF SameBuffer
<1>3. NoneIsNone'
  BY DEF NoneIsNone
<1>4. SubmittedHasSlot'
  BY DEF SubmittedHasSlot
<1> QED
  BY <1>1, <1>2, <1>3, <1>4

\* A step that leaves tasks, futures, ring and bytes alone and puts nobody to
\* sleep.
LEMMA QuietStep ==
  ASSUME IInv, TypeOK', UNCHANGED <<task, fut, slots, taken, got, sent, told>>,
         ready \subseteq ready'
  PROVE  IInv'
<1> USE DEF IInv
<1>1. NoOrphans' /\ SameBuffer' /\ NoneIsNone' /\ SubmittedHasSlot'
  BY RingAlone
<1>2. BytesExactlyOnce'
  BY OwedIsOwedIn DEF BytesExactlyOnce
<1>3. NoLostWakeup'
  BY DEF NoLostWakeup, SlotsOf, Field
<1>4. DoneIsReady'
  BY DEF DoneIsReady
<1> QED
  BY <1>1, <1>2, <1>3, <1>4

\* The wake-ups and the bytes of the other streams, when a step changes the
\* task, the future and the operations of s only.
LEMMA OthersKeep ==
  ASSUME IInv, NEW s \in Streams, NEW t \in Streams \ {s},
         task'[t] = task[t], t \in ready => t \in ready',
         Mine(slots', t) = Mine(slots, t),
         taken'[t] = taken[t], got'[t] = got[t], sent'[t] = sent[t], told'[t] = told[t]
  PROVE  /\ taken'[t] = got'[t] + Owed(t, {"read"})'
         /\ sent'[t] = told'[t] + Owed(t, {"write", "writev"})'
         /\ task'[t].op \in Ops /\ t \notin ready' => \E x \in SlotsOf(t)' : x.st = "flight"
<1>1. \A ops : Owed(t, ops)' = Owed(t, ops)
  BY OwedIsOwedIn, OwedFrame
<1>2. SlotsOf(t)' = SlotsOf(t)
  BY DEF SlotsOf, Mine, Field
<1> QED
  BY <1>1, <1>2 DEF IInv, BytesExactlyOnce, NoLostWakeup

LEMMA BeginStep == ASSUME NEW s \in Streams, IInv, Begin(s) PROVE IInv'
<1> USE DEF IInv
<1>1. PICK op \in Ops, n \in 1..MaxLen :
        task' = [task EXCEPT ![s] = [op |-> op, buf |-> nops[s] + 1, len |-> n]]
  BY DEF Begin
<1>2. /\ UNCHANGED <<fut, slots, peer, arrived, taken, got, sent, told>>
      /\ ready' = ready \cup {s} /\ nops' = Inc(nops, s, 1)
      /\ task[s].op \notin Ops
  BY FieldOfType DEF Begin, Idle
<1>3. \A t \in Streams \ {s} : task'[t] = task[t]
  BY <1>1 DEF TypeOK
<1>4. Mine(slots, s) = {} /\ \A f \in Fields : fut[s][f] = None
  BY <1>2, IdleHasNothing
<1>5. TypeOK'
  BY <1>1, <1>2, BoundsAssumption DEF TypeOK, Inc
<1>6. NoOrphans'
  <2>1. \A x \in slots : task'[x.s] = task[x.s]
    BY <1>3, <1>4, SlotFacts DEF Mine
  <2> QED
    BY <1>2, <2>1 DEF NoOrphans
<1>7. SameBuffer'
  BY <1>2, <1>3, <1>4 DEF SameBuffer
<1>8. BytesExactlyOnce'
  BY <1>2, OwedIsOwedIn DEF BytesExactlyOnce
<1>9. NoLostWakeup'
  BY <1>2, <1>3 DEF NoLostWakeup, SlotsOf, Field
<1>10. NoneIsNone' /\ SubmittedHasSlot' /\ DoneIsReady'
  BY <1>2 DEF NoneIsNone, SubmittedHasSlot, DoneIsReady
<1> QED
  BY <1>5, <1>6, <1>7, <1>8, <1>9, <1>10

\* What a poll finds.
LEMMA PolledFacts ==
  ASSUME TypeOK, NEW s \in Streams, Polled(s)
  PROVE  task[s].op \in Ops /\ Field(s) \in Fields /\ s \in ready
BY FieldOfType DEF Polled, Field

LEMMA PollNoSlotStep == ASSUME NEW s \in Streams, IInv, PollNoSlot(s) PROVE IInv'
<1> USE DEF IInv
<1> DEFINE new == IF fut[s][Field(s)] = None THEN Some(FALSE, task[s].buf, task[s].len)
                  ELSE fut[s][Field(s)]
<1>1. /\ UNCHANGED <<task, slots, ready, peer, arrived, taken, got, sent, told, nops>>
      /\ fut' = [fut EXCEPT ![s][Field(s)] = new]
      /\ task[s].op \in Ops /\ Field(s) \in Fields
      /\ fut[s][Field(s)].form # "submitted"
  BY PolledFacts DEF PollNoSlot
<1>2. Mine(slots, s) = {}
  BY <1>1, UnsubmittedHasNothing
<1>3. /\ new.form = "fresh" /\ new.buf = task[s].buf /\ new.len = task[s].len
      /\ new \in [form : {"None", "fresh", "submitted"}, buf : Nat, len : Nat]
  <2>1. CASE fut[s][Field(s)] = None
    BY <1>1, <2>1 DEF Some, TypeOK
  <2>2. CASE fut[s][Field(s)] # None
    BY <1>1, <2>2 DEF SameBuffer, NoneIsNone, TypeOK
  <2> QED
    BY <2>1, <2>2
<1> HIDE DEF new
<1>4. /\ fut'[s][Field(s)] = new
      /\ \A f \in Fields \ {Field(s)} : fut'[s][f] = fut[s][f]
      /\ \A t \in Streams \ {s} : fut'[t] = fut[t]
  BY <1>1 DEF TypeOK
<1>5. TypeOK'
  BY <1>1, <1>3 DEF TypeOK
<1>6. NoOrphans'
  <2>1. \A x \in slots : fut'[x.s] = fut[x.s]
    BY <1>2, <1>4, SlotFacts DEF Mine
  <2> QED
    BY <1>1, <2>1 DEF NoOrphans
<1>7. SameBuffer'
  <2> SUFFICES ASSUME NEW t \in Streams, NEW f \in Fields, fut'[t][f] # None
               PROVE  /\ task[t].op \in Ops /\ f = FieldOf[task[t].op]
                      /\ fut'[t][f].buf = task[t].buf /\ fut'[t][f].len = task[t].len
    BY <1>1 DEF SameBuffer
  <2>1. CASE t = s /\ f = Field(s)
    BY <2>1, <1>1, <1>3, <1>4 DEF Field
  <2>2. CASE ~(t = s /\ f = Field(s))
    BY <2>2, <1>4 DEF SameBuffer
  <2> QED
    BY <2>1, <2>2
<1>8. BytesExactlyOnce'
  BY <1>1, OwedIsOwedIn DEF BytesExactlyOnce
<1>9. NoLostWakeup'
  BY <1>1 DEF NoLostWakeup, SlotsOf, Field
<1>10. NoneIsNone' /\ SubmittedHasSlot'
  BY <1>1, <1>3, <1>4 DEF NoneIsNone, SubmittedHasSlot
<1>11. DoneIsReady'
  BY <1>1 DEF DoneIsReady
<1> QED
  BY <1>5, <1>6, <1>7, <1>8, <1>9, <1>10, <1>11

LEMMA PollPendingStep == ASSUME NEW s \in Streams, IInv, PollPending(s) PROVE IInv'
<1> USE DEF IInv
<1>1. /\ UNCHANGED <<task, fut, slots, peer, arrived, taken, got, sent, told, nops>>
      /\ ready' = ready \ {s} /\ task[s].op \in Ops
      /\ fut[s][Field(s)].form = "submitted" /\ \A x \in SlotsOf(s) : x.st = "flight"
  BY PolledFacts DEF PollPending
<1>2. PICK x \in slots : x.s = s /\ Mine(slots, s) = {x} /\ SlotsOf(s) = {x}
  BY <1>1, SubmittedHasOne
<1>3. TypeOK' /\ NoOrphans' /\ SameBuffer' /\ NoneIsNone' /\ SubmittedHasSlot'
  BY <1>1, RingAlone DEF TypeOK
<1>4. BytesExactlyOnce'
  BY <1>1, OwedIsOwedIn DEF BytesExactlyOnce
<1>5. NoLostWakeup'
  <2>1. \A t : SlotsOf(t)' = SlotsOf(t)
    BY <1>1 DEF SlotsOf, Field
  <2> QED
    BY <1>1, <1>2, <2>1 DEF NoLostWakeup
<1>6. DoneIsReady'
  BY <1>1, <1>2 DEF DoneIsReady, Mine
<1> QED
  BY <1>3, <1>4, <1>5, <1>6

LEMMA PollSubmitStep == ASSUME NEW s \in Streams, IInv, PollSubmit(s) PROVE IInv'
<1> USE DEF IInv
<1> DEFINE old == fut[s][Field(s)]
           new == IF old = None THEN Some(TRUE, task[s].buf, task[s].len)
                                ELSE Some(TRUE, old.buf, old.len)
           x == [s |-> s, field |-> Field(s), op |-> task[s].op, buf |-> new.buf,
                 len |-> new.len, st |-> "flight", res |-> 0]
<1>1. /\ UNCHANGED <<task, peer, arrived, taken, got, sent, told, nops>>
      /\ ready' = ready \ {s} /\ slots' = slots \cup {x}
      /\ fut' = [fut EXCEPT ![s][Field(s)] = new]
      /\ task[s].op \in Ops /\ Field(s) \in Fields
      /\ old.form # "submitted" /\ Cardinality(slots) < Depth
  BY PolledFacts DEF PollSubmit
<1>2. Mine(slots, s) = {}
  BY <1>1, UnsubmittedHasNothing
<1>3. new = Some(TRUE, task[s].buf, task[s].len)
  BY <1>1 DEF SameBuffer, Some
<1>4. /\ x.s = s /\ x.field = Field(s) /\ x.op = task[s].op /\ x.st = "flight" /\ x.res = 0
      /\ x.buf = task[s].buf /\ x.len = task[s].len
      /\ x \in [s : Streams, field : Fields, op : Ops, buf : Nat, len : Nat,
                st : {"flight", "done"}, res : Int]
  BY <1>1, <1>3 DEF Some, TypeOK
<1>5. new \in [form : {"None", "fresh", "submitted"}, buf : Nat, len : Nat]
  BY <1>3 DEF Some, TypeOK
<1> HIDE DEF new, x
<1>6. /\ fut'[s][Field(s)] = new
      /\ \A f \in Fields \ {Field(s)} : fut'[s][f] = fut[s][f]
      /\ \A t \in Streams \ {s} : fut'[t] = fut[t]
  BY <1>1 DEF TypeOK
<1>7. Mine(slots', s) = {x} /\ \A t \in Streams \ {s} : Mine(slots', t) = Mine(slots, t)
  BY <1>1, <1>2, <1>4 DEF Mine
<1>8. IsFiniteSet(slots') /\ Cardinality(slots') <= Depth
  BY <1>1, RingGrows DEF TypeOK
<1>9. TypeOK'
  BY <1>1, <1>4, <1>5, <1>8 DEF TypeOK
<1>10. NoOrphans'
  <2>1. \A y \in slots : y.s # s /\ fut'[y.s] = fut[y.s]
    BY <1>2, <1>6, SlotFacts DEF Mine
  <2>2. task[x.s] = [op |-> x.op, buf |-> x.buf, len |-> x.len]
    BY <1>4 DEF TypeOK
  <2>3. fut'[x.s][x.field] = Some(TRUE, x.buf, x.len) /\ x.field = FieldOf[x.op]
    BY <1>3, <1>4, <1>6 DEF Field
  <2>4. \A y \in slots' :
          /\ task'[y.s] = [op |-> y.op, buf |-> y.buf, len |-> y.len]
          /\ y.field = FieldOf[y.op]
          /\ fut'[y.s][y.field] = Some(TRUE, y.buf, y.len)
    BY <1>1, <2>1, <2>2, <2>3 DEF NoOrphans
  <2>5. \A y, z \in slots' : y.s = z.s => y = z
    BY <1>1, <1>4, <2>1 DEF NoOrphans
  <2> QED
    BY <2>4, <2>5 DEF NoOrphans
<1>11. SameBuffer'
  <2> SUFFICES ASSUME NEW t \in Streams, NEW f \in Fields, fut'[t][f] # None
               PROVE  /\ task[t].op \in Ops /\ f = FieldOf[task[t].op]
                      /\ fut'[t][f].buf = task[t].buf /\ fut'[t][f].len = task[t].len
    BY <1>1 DEF SameBuffer
  <2>1. CASE t = s /\ f = Field(s)
    BY <2>1, <1>1, <1>3, <1>6 DEF Field, Some
  <2>2. CASE ~(t = s /\ f = Field(s))
    BY <2>2, <1>6 DEF SameBuffer
  <2> QED
    BY <2>1, <2>2
<1>12. \A t \in Streams \ {s} : /\ task'[t] = task[t] /\ (t \in ready => t \in ready')
                                /\ taken'[t] = taken[t] /\ got'[t] = got[t]
                                /\ sent'[t] = sent[t] /\ told'[t] = told[t]
  BY <1>1
<1>13. BytesExactlyOnce'
  <2>1. \A ops : Owed(s, ops)' = 0 /\ Owed(s, ops) = 0
    BY <1>2, <1>4, <1>7, OwedIsOwedIn, OwedByNone, OwedByOne
  <2>2. /\ taken'[s] = got'[s] + Owed(s, {"read"})'
        /\ sent'[s] = told'[s] + Owed(s, {"write", "writev"})'
    BY <1>1, <2>1 DEF BytesExactlyOnce
  <2> QED
    BY <1>7, <1>12, <2>2, OthersKeep DEF BytesExactlyOnce
<1>14. NoLostWakeup'
  <2>1. x \in SlotsOf(s)'
    BY <1>1, <1>4 DEF SlotsOf, Field
  <2> QED
    BY <1>4, <1>7, <1>12, <2>1, OthersKeep DEF NoLostWakeup
<1>15. NoneIsNone'
  BY <1>3, <1>6 DEF NoneIsNone, Some
<1>16. SubmittedHasSlot'
  <2> SUFFICES ASSUME NEW t \in Streams, NEW f \in Fields, fut'[t][f].form = "submitted"
               PROVE  \E y \in slots' : y.s = t /\ y.field = f
    BY DEF SubmittedHasSlot
  <2>1. CASE t = s /\ f = Field(s)
    BY <2>1, <1>1, <1>4
  <2>2. CASE ~(t = s /\ f = Field(s))
    BY <2>2, <1>1, <1>6 DEF SubmittedHasSlot
  <2> QED
    BY <2>1, <2>2
<1>17. DoneIsReady'
  BY <1>1, <1>2, <1>4 DEF DoneIsReady, Mine
<1> QED
  BY <1>9, <1>10, <1>11, <1>13, <1>14, <1>15, <1>16, <1>17

LEMMA PollReadyStep == ASSUME NEW s \in Streams, IInv, PollReady(s) PROVE IInv'
<1> USE DEF IInv
<1>1. PICK x \in SlotsOf(s) : x.st = "done" /\ slots' = slots \ {x} /\ Return(s, x.op, x.res)
  BY DEF PollReady
<1>2. /\ UNCHANGED <<peer, arrived, taken, sent, nops>>
      /\ fut' = [fut EXCEPT ![s][Field(s)] = None]
      /\ ready' = ready \ {s} /\ task[s].op \in Ops /\ Field(s) \in Fields
      /\ fut[s][Field(s)].form = "submitted"
  BY PolledFacts DEF PollReady
<1>3. x \in slots /\ x.s = s /\ x.op = task[s].op /\ x.res \in Int
  BY <1>1, SlotFacts DEF SlotsOf
<1>4. Mine(slots, s) = {x}
  BY <1>3, MineIsOne
<1>5. Mine(slots', s) = {} /\ \A t \in Streams \ {s} : Mine(slots', t) = Mine(slots, t)
  BY <1>1, <1>3, <1>4 DEF Mine
<1>6. /\ task' = [task EXCEPT ![s] = Idle]
      /\ got' = IF x.op = "read" /\ x.res > 0 THEN Inc(got, s, x.res) ELSE got
      /\ told' = IF x.op \in {"write", "writev"} /\ x.res > 0 THEN Inc(told, s, x.res) ELSE told
  BY <1>1 DEF Return
<1>7. /\ got' \in [Streams -> Nat] /\ told' \in [Streams -> Nat]
      /\ \A t \in Streams \ {s} : got'[t] = got[t] /\ told'[t] = told[t]
      /\ got'[s] = got[s] + (IF x.op = "read" /\ x.res > 0 THEN x.res ELSE 0)
      /\ told'[s] = told[s] + (IF x.op \in {"write", "writev"} /\ x.res > 0 THEN x.res ELSE 0)
  BY <1>3, <1>6 DEF TypeOK, Inc
<1>8. /\ fut'[s][Field(s)] = None
      /\ \A f \in Fields \ {Field(s)} : fut'[s][f] = fut[s][f]
      /\ \A t \in Streams \ {s} : fut'[t] = fut[t]
  BY <1>2 DEF TypeOK
<1>9. \A f \in Fields : fut'[s][f] = None
  BY <1>8 DEF SameBuffer, Field
<1>10. task'[s] = Idle /\ \A t \in Streams \ {s} : task'[t] = task[t]
  BY <1>6 DEF TypeOK
<1>11. TypeOK'
  <2>1. IsFiniteSet(slots') /\ Cardinality(slots') <= Depth
    <3>1. IsFiniteSet(slots') /\ Cardinality(slots') < Depth
      BY <1>1, <1>3, RingShrinks DEF TypeOK
    <3>2. Cardinality(slots') \in Nat
      BY <3>1, FS_CardinalityType
    <3> QED
      BY <3>1, <3>2, DepthAssumption
  <2>2. slots' \subseteq slots
    BY <1>1
  <2>3. task' \in [Streams -> [op : Ops \cup {"idle", "gone"}, buf : Nat, len : Nat]]
    BY <1>6 DEF TypeOK, Idle
  <2>4. fut' \in [Streams -> [Fields -> [form : {"None", "fresh", "submitted"}, buf : Nat, len : Nat]]]
    BY <1>2 DEF TypeOK, None
  <2> QED
    BY <1>2, <1>7, <2>1, <2>2, <2>3, <2>4 DEF TypeOK
<1>12. \A y \in slots' : y \in slots /\ y.s \in Streams \ {s}
  BY <1>1, <1>4, SlotFacts DEF Mine
<1>13. NoOrphans'
  <2>1. ASSUME NEW y \in slots'
        PROVE  y \in slots /\ task'[y.s] = task[y.s] /\ fut'[y.s] = fut[y.s]
    BY <1>8, <1>10, <1>12
  <2> QED
    BY <2>1 DEF NoOrphans
<1>14. SameBuffer'
  <2> SUFFICES ASSUME NEW t \in Streams, NEW f \in Fields, fut'[t][f] # None
               PROVE  /\ task'[t].op \in Ops /\ f = FieldOf[task'[t].op]
                      /\ fut'[t][f].buf = task'[t].buf /\ fut'[t][f].len = task'[t].len
    BY DEF SameBuffer
  <2>1. t # s
    BY <1>9
  <2>2. task'[t] = task[t] /\ fut'[t] = fut[t]
    BY <1>8, <1>10, <2>1
  <2> QED
    BY <2>2 DEF SameBuffer
<1>15. \A t \in Streams \ {s} : /\ task'[t] = task[t] /\ (t \in ready => t \in ready')
                                /\ taken'[t] = taken[t] /\ got'[t] = got[t]
                                /\ sent'[t] = sent[t] /\ told'[t] = told[t]
  BY <1>2, <1>7, <1>10
<1>16. BytesExactlyOnce'
  <2>1. \A ops : /\ Owed(s, ops)' = 0
                 /\ Owed(s, ops) = IF x.op \in ops /\ x.res > 0 THEN x.res ELSE 0
    <3> TAKE ops
    <3>1. OwedIn(slots', s, ops) = 0
      BY <1>5, OwedByNone
    <3>2. OwedIn(slots, s, ops) = IF x.op \in ops /\ x.res > 0 THEN x.res ELSE 0
      BY <1>1, <1>4, OwedByOne
    <3> QED
      BY <3>1, <3>2, OwedIsOwedIn
  <2>2. /\ taken'[s] = got'[s] + Owed(s, {"read"})'
        /\ sent'[s] = told'[s] + Owed(s, {"write", "writev"})'
    BY <1>2, <1>3, <1>7, <2>1 DEF BytesExactlyOnce, TypeOK
  <2> QED
    BY <1>5, <1>15, <2>2, OthersKeep DEF BytesExactlyOnce
<1>17. NoLostWakeup'
  <2>1. task'[s].op \notin Ops
    BY <1>10, FieldOfType DEF Idle
  <2> QED
    BY <1>5, <1>15, <2>1, OthersKeep DEF NoLostWakeup
<1>18. NoneIsNone'
  BY <1>8, <1>9 DEF NoneIsNone
<1>19. SubmittedHasSlot'
  <2> SUFFICES ASSUME NEW t \in Streams, NEW f \in Fields, fut'[t][f].form = "submitted"
               PROVE  \E y \in slots' : y.s = t /\ y.field = f
    BY DEF SubmittedHasSlot
  <2>1. t # s
    BY <1>9 DEF None
  <2>2. PICK y \in slots : y.s = t /\ y.field = f
    BY <1>8, <2>1 DEF SubmittedHasSlot
  <2> QED
    BY <1>1, <1>3, <2>1, <2>2
<1>20. DoneIsReady'
  BY <1>2, <1>12 DEF DoneIsReady
<1> QED
  BY <1>11, <1>13, <1>14, <1>16, <1>17, <1>18, <1>19, <1>20

LEMMA DropStep == ASSUME NEW s \in Streams, IInv, Drop(s) PROVE IInv'
<1> USE DEF IInv
<1>1. /\ UNCHANGED <<slots, ready, peer, arrived, taken, got, sent, told, nops>>
      /\ task' = [task EXCEPT ![s] = Gone]
      /\ fut' = [fut EXCEPT ![s] = [f \in Fields |-> None]]
      /\ task[s].op \notin Ops
  BY FieldOfType DEF Drop, Idle
<1>2. Mine(slots, s) = {} /\ \A f \in Fields : fut[s][f] = None
  BY <1>1, IdleHasNothing
<1>3. /\ task'[s] = Gone /\ \A t \in Streams \ {s} : task'[t] = task[t]
      /\ \A f \in Fields : fut'[s][f] = None
      /\ \A t \in Streams \ {s} : fut'[t] = fut[t]
  BY <1>1 DEF TypeOK
<1>4. TypeOK'
  <2>1. task' \in [Streams -> [op : Ops \cup {"idle", "gone"}, buf : Nat, len : Nat]]
    BY <1>1 DEF TypeOK, Gone
  <2>2. fut' \in [Streams -> [Fields -> [form : {"None", "fresh", "submitted"}, buf : Nat, len : Nat]]]
    BY <1>1 DEF TypeOK, None
  <2> QED
    BY <1>1, <2>1, <2>2 DEF TypeOK
<1>5. \A y \in slots : y.s \in Streams \ {s}
  BY <1>2, SlotFacts DEF Mine
<1>6. NoOrphans'
  <2>1. ASSUME NEW y \in slots
        PROVE  task'[y.s] = task[y.s] /\ fut'[y.s] = fut[y.s]
    BY <1>3, <1>5
  <2> QED
    BY <1>1, <2>1 DEF NoOrphans
<1>7. SameBuffer'
  <2> SUFFICES ASSUME NEW t \in Streams, NEW f \in Fields, fut'[t][f] # None
               PROVE  /\ task'[t].op \in Ops /\ f = FieldOf[task'[t].op]
                      /\ fut'[t][f].buf = task'[t].buf /\ fut'[t][f].len = task'[t].len
    BY DEF SameBuffer
  <2>1. t # s
    BY <1>3
  <2>2. task'[t] = task[t] /\ fut'[t] = fut[t]
    BY <1>3, <2>1
  <2> QED
    BY <2>2 DEF SameBuffer
<1>8. BytesExactlyOnce'
  BY <1>1, OwedIsOwedIn DEF BytesExactlyOnce
<1>9. NoLostWakeup'
  <2>1. task'[s].op \notin Ops
    BY <1>3, FieldOfType DEF Gone
  <2> QED
    BY <1>1, <1>3, <2>1 DEF NoLostWakeup, SlotsOf, Field
<1>10. NoneIsNone'
  BY <1>3 DEF NoneIsNone
<1>11. SubmittedHasSlot'
  BY <1>1, <1>3 DEF SubmittedHasSlot, None
<1>12. DoneIsReady'
  BY <1>1 DEF DoneIsReady
<1> QED
  BY <1>4, <1>6, <1>7, <1>8, <1>9, <1>10, <1>11, <1>12

\* The kernel completes operation x of stream s, and counts its bytes.
LEMMA CompleteStep ==
  ASSUME IInv, NEW s \in Streams, NEW x \in slots, x.s = s, x.st = "flight",
         NEW res \in Int, Complete(x, res),
         UNCHANGED <<task, fut, peer, arrived, got, told, nops>>,
         taken' \in [Streams -> Nat], sent' \in [Streams -> Nat],
         \A t \in Streams \ {s} : taken'[t] = taken[t] /\ sent'[t] = sent[t],
         taken'[s] = taken[s] + (IF x.op = "read" /\ res > 0 THEN res ELSE 0),
         sent'[s] = sent[s] + (IF x.op \in {"write", "writev"} /\ res > 0 THEN res ELSE 0)
  PROVE  IInv'
<1> USE DEF IInv
<1> DEFINE y == [x EXCEPT !.st = "done", !.res = res]
<1>1. /\ slots' = (slots \ {x}) \cup {y}
      /\ ready' = IF task[x.s].op \in Ops THEN ready \cup {x.s} ELSE ready
  BY DEF Complete
<1>2. x \in [s : Streams, field : Fields, op : Ops, buf : Nat, len : Nat,
             st : {"flight", "done"}, res : Int]
  BY DEF TypeOK
<1>3. /\ y.s = s /\ y.field = x.field /\ y.op = x.op /\ y.buf = x.buf /\ y.len = x.len
      /\ y.st = "done" /\ y.res = res
      /\ y \in [s : Streams, field : Fields, op : Ops, buf : Nat, len : Nat,
                st : {"flight", "done"}, res : Int]
  BY <1>2
<1> HIDE DEF y
<1>4. task[s].op \in Ops /\ ready' = ready \cup {s}
  BY <1>1, SlotFacts
<1>5. Mine(slots, s) = {x}
  BY MineIsOne
<1>6. \A z \in slots \ {x} : z.s \in Streams \ {s}
  BY <1>5, SlotFacts DEF Mine
<1>7. Mine(slots', s) = {y} /\ \A t \in Streams \ {s} : Mine(slots', t) = Mine(slots, t)
  BY <1>1, <1>3, <1>5, <1>6 DEF Mine
<1>8. TypeOK'
  <2>1. IsFiniteSet(slots') /\ Cardinality(slots') <= Depth
    BY <1>1, RingShrinks DEF TypeOK
  <2> QED
    BY <1>1, <1>3, <1>4, <2>1 DEF TypeOK
<1>9. NoOrphans'
  <2>1. \A z \in slots' :
          /\ task[z.s] = [op |-> z.op, buf |-> z.buf, len |-> z.len]
          /\ z.field = FieldOf[z.op]
          /\ fut[z.s][z.field] = Some(TRUE, z.buf, z.len)
    <3>1. /\ task[x.s] = [op |-> x.op, buf |-> x.buf, len |-> x.len]
          /\ x.field = FieldOf[x.op]
          /\ fut[x.s][x.field] = Some(TRUE, x.buf, x.len)
      BY DEF NoOrphans
    <3>2. ASSUME NEW z \in slots \ {x}
          PROVE  /\ task[z.s] = [op |-> z.op, buf |-> z.buf, len |-> z.len]
                 /\ z.field = FieldOf[z.op]
                 /\ fut[z.s][z.field] = Some(TRUE, z.buf, z.len)
      BY DEF NoOrphans
    <3>3. /\ task[y.s] = [op |-> y.op, buf |-> y.buf, len |-> y.len]
          /\ y.field = FieldOf[y.op]
          /\ fut[y.s][y.field] = Some(TRUE, y.buf, y.len)
      BY <1>3, <3>1
    <3> QED
      BY <1>1, <3>2, <3>3
  <2>2. \A z, w \in slots' : z.s = w.s => z = w
    BY <1>1, <1>3, <1>6 DEF NoOrphans
  <2> QED
    BY <2>1, <2>2 DEF NoOrphans
<1>10. SameBuffer' /\ NoneIsNone'
  BY DEF SameBuffer, NoneIsNone
<1>11. BytesExactlyOnce'
  <2>1. \A ops : /\ Owed(s, ops) = 0
                 /\ Owed(s, ops)' = IF x.op \in ops /\ res > 0 THEN res ELSE 0
    <3> TAKE ops
    <3>1. OwedIn(slots, s, ops) = 0
      BY <1>5, OwedByOne
    <3>2. OwedIn(slots', s, ops) = IF x.op \in ops /\ res > 0 THEN res ELSE 0
      BY <1>3, <1>7, OwedByOne
    <3> QED
      BY <3>1, <3>2, OwedIsOwedIn
  <2>2. taken[s] = got[s] + 0 /\ sent[s] = told[s] + 0
    BY <2>1 DEF BytesExactlyOnce
  <2>3. {taken[s], got[s], sent[s], told[s]} \subseteq Nat
    BY DEF TypeOK
  <2>4. /\ taken'[s] = got'[s] + Owed(s, {"read"})'
        /\ sent'[s] = told'[s] + Owed(s, {"write", "writev"})'
    BY <2>1, <2>2, <2>3
  <2> QED
    BY <1>4, <1>7, <2>4, OthersKeep DEF BytesExactlyOnce
<1>12. NoLostWakeup'
  BY <1>4, <1>7, OthersKeep DEF NoLostWakeup
<1>13. SubmittedHasSlot'
  BY <1>1, <1>3 DEF SubmittedHasSlot
<1>14. DoneIsReady'
  BY <1>1, <1>3, <1>4 DEF DoneIsReady
<1> QED
  BY <1>8, <1>9, <1>10, <1>11, <1>12, <1>13, <1>14

LEMMA RecvStep == ASSUME NEW s \in Streams, IInv, Recv(s) PROVE IInv'
<1>1. PICK x \in InFlight(s, {"read"}) :
        \/ \E n \in 1..x.len : /\ n <= arrived[s] - taken[s]
                               /\ Complete(x, n) /\ taken' = Inc(taken, s, n)
        \/ \E res \in {0, -1} : Complete(x, res) /\ taken' = taken
  BY DEF Recv
<1>2. x \in slots /\ x.s = s /\ x.st = "flight" /\ x.op = "read"
  BY <1>1 DEF InFlight
<1>3. UNCHANGED <<task, fut, peer, arrived, got, sent, told, nops>>
  BY DEF Recv
<1>4. x.len \in Nat
  BY <1>2, SlotFacts DEF IInv
<1>5. ASSUME NEW n \in 1..x.len, Complete(x, n), taken' = Inc(taken, s, n) PROVE IInv'
  <2>1. /\ n \in Int /\ n > 0 /\ taken' \in [Streams -> Nat] /\ sent' \in [Streams -> Nat]
        /\ \A t \in Streams \ {s} : taken'[t] = taken[t] /\ sent'[t] = sent[t]
        /\ taken'[s] = taken[s] + n /\ sent'[s] = sent[s] + 0
    BY <1>3, <1>4, <1>5 DEF IInv, TypeOK, Inc
  <2> QED
    BY <1>2, <1>3, <1>5, <2>1, CompleteStep
<1>6. ASSUME NEW res \in {0, -1}, Complete(x, res), taken' = taken PROVE IInv'
  <2>1. /\ res \in Int /\ ~(res > 0) /\ taken' \in [Streams -> Nat] /\ sent' \in [Streams -> Nat]
        /\ taken'[s] = taken[s] + 0 /\ sent'[s] = sent[s] + 0
    BY <1>3, <1>6 DEF IInv, TypeOK
  <2> QED
    BY <1>2, <1>3, <1>6, <2>1, CompleteStep
<1> QED
  BY <1>1, <1>5, <1>6

LEMMA SendStep == ASSUME NEW s \in Streams, IInv, Send(s) PROVE IInv'
<1>1. PICK x \in InFlight(s, {"write", "writev"}) :
        \/ \E n \in 1..x.len : Complete(x, n) /\ sent' = Inc(sent, s, n)
        \/ Complete(x, -1) /\ sent' = sent
  BY DEF Send
<1>2. x \in slots /\ x.s = s /\ x.st = "flight" /\ x.op \in {"write", "writev"}
  BY <1>1 DEF InFlight
<1>3. UNCHANGED <<task, fut, peer, arrived, taken, got, told, nops>>
  BY DEF Send
<1>4. x.len \in Nat
  BY <1>2, SlotFacts DEF IInv
<1>5. ASSUME NEW n \in 1..x.len, Complete(x, n), sent' = Inc(sent, s, n) PROVE IInv'
  <2>1. /\ n \in Int /\ n > 0 /\ taken' \in [Streams -> Nat] /\ sent' \in [Streams -> Nat]
        /\ \A t \in Streams \ {s} : taken'[t] = taken[t] /\ sent'[t] = sent[t]
        /\ taken'[s] = taken[s] + 0 /\ sent'[s] = sent[s] + n
    BY <1>3, <1>4, <1>5 DEF IInv, TypeOK, Inc
  <2> QED
    BY <1>2, <1>3, <1>5, <2>1, CompleteStep
<1>6. ASSUME Complete(x, -1), sent' = sent PROVE IInv'
  <2>1. /\ -1 \in Int /\ ~(-1 > 0) /\ taken' \in [Streams -> Nat] /\ sent' \in [Streams -> Nat]
        /\ taken'[s] = taken[s] + 0 /\ sent'[s] = sent[s] + 0
    BY <1>3, <1>6 DEF IInv, TypeOK
  <2> QED
    BY <1>2, <1>3, <1>6, <2>1, CompleteStep
<1> QED
  BY <1>1, <1>5, <1>6

LEMMA ShutdownStep == ASSUME NEW s \in Streams, IInv, Shutdown(s) PROVE IInv'
<1>1. PICK x \in InFlight(s, {"shutdown"}) : Complete(x, 0)
  BY DEF Shutdown
<1>2. x \in slots /\ x.s = s /\ x.st = "flight" /\ x.op = "shutdown"
  BY <1>1 DEF InFlight
<1>3. UNCHANGED <<task, fut, peer, arrived, taken, got, sent, told, nops>>
  BY DEF Shutdown
<1>4. /\ taken' \in [Streams -> Nat] /\ sent' \in [Streams -> Nat]
      /\ taken'[s] = taken[s] + 0 /\ sent'[s] = sent[s] + 0
  BY <1>3 DEF IInv, TypeOK
<1> QED
  BY <1>1, <1>2, <1>3, <1>4, CompleteStep

\* Nothing but the executor and the peer: a task is polled without a reason, or
\* bytes arrive, or their end.
LEMMA EnvironmentStep ==
  ASSUME NEW s \in Streams, IInv, SpuriousWake(s) \/ PeerSend(s) \/ PeerClose(s)
  PROVE  IInv'
<1>1. /\ UNCHANGED <<task, fut, slots, taken, got, sent, told, nops>> /\ ready \subseteq ready'
      /\ ready' \subseteq ready \cup {s}
  BY DEF SpuriousWake, PeerSend, PeerClose
<1>2. arrived' \in [Streams -> Nat]
  <2>1. arrived \in [Streams -> Nat]
    BY DEF IInv, TypeOK
  <2>2. arrived' = arrived \/ arrived' = [arrived EXCEPT ![s] = @ + 1]
    BY DEF SpuriousWake, PeerSend, PeerClose, Inc
  <2> QED
    BY <2>1, <2>2
<1>3. peer' \in [Streams -> {"open", "closed"}]
  BY DEF SpuriousWake, PeerSend, PeerClose, IInv, TypeOK
<1>4. TypeOK'
  BY <1>1, <1>2, <1>3 DEF IInv, TypeOK
<1> QED
  BY <1>1, <1>4, QuietStep

LEMMA Invariance == Spec => []IInv
<1>1. IInv /\ [Next]_vars => IInv'
  <2> SUFFICES ASSUME IInv, [Next]_vars PROVE IInv'
    OBVIOUS
  <2>1. ASSUME UNCHANGED vars PROVE IInv'
    <3>1. TypeOK' /\ UNCHANGED <<task, fut, slots, taken, got, sent, told, ready>>
      BY <2>1 DEF IInv, TypeOK, vars
    <3> QED
      BY <3>1, QuietStep
  <2>2. ASSUME NEW s \in Streams,
               \/ Begin(s) \/ Poll(s) \/ Drop(s) \/ Kernel(s)
               \/ SpuriousWake(s) \/ PeerSend(s) \/ PeerClose(s)
        PROVE  IInv'
    BY <2>2, BeginStep, PollNoSlotStep, PollSubmitStep, PollPendingStep, PollReadyStep, DropStep,
       RecvStep, SendStep, ShutdownStep, EnvironmentStep
       DEF Poll, poll_read, poll_write, poll_write_vectored, poll_shutdown, PollBranch, Kernel
  <2> QED
    BY <2>1, <2>2 DEF Next, Done
<1> QED
  BY <1>1, InitIInv, PTL DEF Spec

-----------------------------------------------------------------------------
(* The theorems.                                                           *)

\* Every variable has its type, and the ring never holds more operations than
\* it has slots.
THEOREM TypeCorrect == Spec => []TypeOK
BY Invariance, PTL DEF IInv

\* The kernel reads and writes only buffers their tasks still wait with: the
\* futures Stream keeps in its fields outlive the operations they stand for.
THEOREM NoOrphansAlways == Spec => []NoOrphans
BY Invariance, PTL DEF IInv

\* The debug assertions of poll_read, poll_write and poll_write_vectored hold:
\* a future is never polled with another buffer than the one it was made with.
THEOREM SameBufferAlways == Spec => []SameBuffer
BY Invariance, PTL DEF IInv

\* What the kernel received or wrote reaches the task once, whatever the order
\* of polls, completions and retries, for transfers of any length.
THEOREM BytesExactlyOnceAlways == Spec => []BytesExactlyOnce
BY Invariance, PTL DEF IInv

\* No task sleeps on an operation that has completed, or that was never
\* submitted.
THEOREM NoLostWakeupAlways == Spec => []NoLostWakeup
BY Invariance, PTL DEF IInv

=============================================================================
