---------------------------- MODULE ServerProofs ----------------------------
(***************************************************************************)
(* Proofs about Server and Process: for any number of connections,         *)
(* descriptors, rings and slots, and a counter that wraps at any width,    *)
(* every open descriptor has one owner, the rings are handed out evenly,   *)
(* no ring holds more operations than it has slots, and as long as they    *)
(* were not handed out more often than that, no operation lacks one.       *)
(***************************************************************************)
EXTENDS Process, FiniteSetTheorems, TLAPS

-----------------------------------------------------------------------------
(* Arithmetic of the counter.                                              *)

LEMMA ModUnique ==
  ASSUME NEW n \in Nat \ {0}, NEW q \in Int, NEW r \in 0..(n - 1)
  PROVE  (n * q + r) % n = r
OBVIOUS

\* The remainder goes up by one, or back to zero.
LEMMA ModNext ==
  ASSUME NEW a \in Nat, NEW n \in Nat \ {0}
  PROVE  /\ a % n \in 0..(n - 1)
         /\ (a + 1) % n = IF (a % n) + 1 = n THEN 0 ELSE (a % n) + 1
<1> DEFINE q == a \div n
           r == a % n
<1>1. q \in Int /\ r \in 0..(n - 1) /\ a = n * q + r
  OBVIOUS
<1> HIDE DEF q, r
<1>2. CASE r + 1 = n
  <2>1. a + 1 = n * (q + 1) + 0
    BY <1>1, <1>2
  <2>2. (n * (q + 1) + 0) % n = 0
    BY <1>1, ModUnique
  <2> QED
    BY <1>1, <1>2, <2>1, <2>2 DEF r
<1>3. CASE r + 1 # n
  <2>1. a + 1 = n * q + (r + 1) /\ r + 1 \in 0..(n - 1)
    BY <1>1, <1>3
  <2>2. (n * q + (r + 1)) % n = r + 1
    BY <1>1, <2>1, ModUnique
  <2> QED
    BY <1>1, <1>3, <2>1, <2>2 DEF r
<1> QED
  BY <1>2, <1>3

LEMMA DivBound ==
  ASSUME NEW q \in Nat, NEW m \in Nat \ {0}, NEW a \in Nat, q * m <= a
  PROVE  q <= a \div m
OBVIOUS

-----------------------------------------------------------------------------
(* The inductive invariant of Server.                                      *)

\* Nobody gets to the loop without a ring.
Started ==
  /\ up = "accepting" => NRings > 0
  /\ up = "starting" => nseq = 0

\* The tasks that have taken a ring, and how many were handed out at most.
Takers == {c \in Conns : st[c] \in {"running", "ended"}}
Handouts == IF up = "starting" THEN 0 ELSE Cardinality(Takers) + 1

\* Before the counter has wrapped, the turns are those it counts.
FirstRound(q, k, base) ==
  q = 0 /\ NRings > 0 => /\ \A r \in Rings : base[r] = 0
                         /\ k * NRings + (nseq % NRings) = nseq

\* After q rounds of the counter: base is what the rings had when it wrapped
\* last, k the turns it has made over the rings since then.
SpreadBy(q, k, base) ==
  /\ q * SeqMod + nseq <= Handouts
  /\ \A i, j \in Rings : base[i] - base[j] <= q
  /\ \A r \in Rings : used[r] = base[r] + k + IF r < nseq % NRings THEN 1 ELSE 0
  /\ FirstRound(q, k, base)
Spread == \E q \in Nat, k \in Nat, base \in [Rings -> Nat] : SpreadBy(q, k, base)

IInv == TypeOK /\ FdOwned /\ Started /\ Spread

LEMMA TakersFinite == IsFiniteSet(Takers) /\ Cardinality(Takers) \in Nat
<1>1. Takers \in SUBSET Conns
  BY DEF Takers
<1>2. IsFiniteSet(Takers)
  BY <1>1, FS_Subset, ServerAssumption
<1> QED
  BY <1>2, FS_CardinalityType

LEMMA TakersFinitePrime == IsFiniteSet(Takers') /\ Cardinality(Takers') \in Nat
<1>1. Takers' \in SUBSET Conns
  BY DEF Takers
<1>2. IsFiniteSet(Takers')
  BY <1>1, FS_Subset, ServerAssumption
<1> QED
  BY <1>2, FS_CardinalityType

LEMMA InitIInv == Init => IInv
<1> SUFFICES ASSUME Init PROVE IInv
  OBVIOUS
<1>1. TypeOK
  BY ServerAssumption DEF Init, TypeOK
<1>2. FdOwned
  BY DEF Init, FdOwned, Live
<1>3. Started
  BY DEF Init, Started
<1>4. Spread
  <2> DEFINE base == [r \in Rings |-> 0]
  <2>1. base \in [Rings -> Nat]
    OBVIOUS
  <2>2. SpreadBy(0, 0, base)
    <3>1. ASSUME NEW r \in Rings PROVE ~(r < 0 % NRings)
      BY ModNext, ServerAssumption DEF Rings
    <3>2. NRings > 0 => 0 % NRings = 0
      BY ServerAssumption
    <3> QED
      BY <3>1, <3>2, ServerAssumption DEF Init, SpreadBy, FirstRound, Handouts
  <2> QED
    BY <2>1, <2>2 DEF Spread
<1> QED
  BY <1>1, <1>2, <1>3, <1>4 DEF IInv

-----------------------------------------------------------------------------
(* A ring is handed out.                                                   *)

LEMMA NonIopollType ==
  ASSUME TypeOK, NRings > 0, NonIopoll
  PROVE  /\ used' \in [Rings -> Nat] /\ nseq' \in 0..(SeqMod - 1)
         /\ nseq % NRings \in Rings
<1>1. nseq \in Nat /\ SeqMod \in Nat \ {0} /\ NRings \in Nat \ {0}
  BY ServerAssumption DEF TypeOK
<1>2. nseq % NRings \in Rings
  BY <1>1, ModNext DEF Rings
<1>3. nseq + 1 \in Nat
  BY <1>1
<1>4. (nseq + 1) % SeqMod \in 0..(SeqMod - 1)
  BY <1>1, <1>3, ModNext
<1> QED
  BY <1>2, <1>4 DEF NonIopoll, TypeOK

LEMMA NonIopollSpread ==
  ASSUME TypeOK, Spread, NRings > 0, NonIopoll, Handouts \in Nat, Handouts' \in Nat,
         Handouts' >= Handouts + 1
  PROVE  Spread'
<1>1. /\ nseq \in Nat /\ nseq <= SeqMod - 1 /\ SeqMod \in Nat \ {0} /\ NRings \in Nat \ {0}
      /\ used \in [Rings -> Nat]
  BY ServerAssumption DEF TypeOK
<1>2. PICK q \in Nat, k \in Nat, base \in [Rings -> Nat] : SpreadBy(q, k, base)
  BY DEF Spread
<1> DEFINE p == nseq % NRings
<1>3. p \in Rings /\ p \in Nat /\ p < NRings
  <2>1. p \in 0..(NRings - 1)
    BY <1>1, ModNext
  <2> HIDE DEF p
  <2> QED
    BY <1>1, <2>1 DEF Rings
<1>4. /\ q * SeqMod + nseq <= Handouts
      /\ \A i, j \in Rings : base[i] - base[j] <= q
      /\ \A r \in Rings : used[r] = base[r] + k + IF r < p THEN 1 ELSE 0
  BY <1>2 DEF SpreadBy
<1>first. q = 0 => (\A r \in Rings : base[r] = 0) /\ k * NRings + p = nseq
  <2>1. FirstRound(q, k, base)
    BY <1>2 DEF SpreadBy
  <2> QED
    BY <2>1, Zenon DEF FirstRound
<1>5. used' = [used EXCEPT ![p] = @ + 1] /\ nseq' = (nseq + 1) % SeqMod
  BY DEF NonIopoll
<1>6. Rings \subseteq Nat /\ \A r \in Rings : r < NRings
  BY <1>1 DEF Rings
<1>7. (nseq + 1) % NRings = IF p + 1 = NRings THEN 0 ELSE p + 1
  BY <1>1, ModNext
<1>8. nseq' = IF nseq + 1 = SeqMod THEN 0 ELSE nseq + 1
  <2>1. nseq % SeqMod = nseq
    BY <1>1
  <2>2. (nseq + 1) % SeqMod = IF (nseq % SeqMod) + 1 = SeqMod THEN 0 ELSE (nseq % SeqMod) + 1
    BY <1>1, ModNext
  <2> QED
    BY <1>5, <2>1, <2>2
<1> HIDE DEF p
<1>9. \A r \in Rings : used'[r] = base[r] + k + IF r <= p THEN 1 ELSE 0
  BY <1>1, <1>3, <1>4, <1>5, <1>6
<1>10. used' \in [Rings -> Nat]
  BY <1>1, <1>3, <1>5
\* The counter wraps: what the rings have by now is the new base.
<1>11. CASE nseq + 1 = SeqMod
  <2>1. nseq' = 0 /\ nseq' % NRings = 0
    BY <1>1, <1>8, <1>11
  <2>2. (q + 1) * SeqMod + nseq' <= Handouts'
    <3>1. (q + 1) * SeqMod = q * SeqMod + SeqMod /\ q * SeqMod \in Nat
      BY <1>1
    <3> QED
      BY <1>1, <1>4, <1>11, <2>1, <3>1
  <2>3. \A i, j \in Rings : used'[i] - used'[j] <= q + 1
    BY <1>4, <1>9
  <2>4. \A r \in Rings : used'[r] = used'[r] + 0 + IF r < nseq' % NRings THEN 1 ELSE 0
    BY <1>6, <1>10, <2>1
  <2>5. PICK b \in [Rings -> Nat] : b = used'
    BY <1>10
  <2>6. SpreadBy(q + 1, 0, b)'
    <3>1. FirstRound(q + 1, 0, b)'
      BY DEF FirstRound
    <3> QED
      BY <2>2, <2>3, <2>4, <2>5, <3>1 DEF SpreadBy, Rings
  <2>7. q + 1 \in Nat /\ 0 \in Nat
    OBVIOUS
  <2> QED
    BY <2>5, <2>6, <2>7 DEF Spread, Rings
\* It does not, and the next ring is the next, or the first again.
<1>12. CASE nseq + 1 # SeqMod
  <2>1. nseq' = nseq + 1
    BY <1>8, <1>12
  <2>2. q * SeqMod + nseq' <= Handouts'
    <3>1. q * SeqMod \in Nat
      BY <1>1
    <3> QED
      BY <1>1, <1>4, <2>1, <3>1
  <2>3. CASE p + 1 = NRings
    <3>1. \A r \in Rings : used'[r] = base[r] + (k + 1) + IF r < nseq' % NRings THEN 1 ELSE 0
      BY <1>3, <1>6, <1>7, <1>9, <2>1, <2>3
    <3>2. FirstRound(q, k + 1, base)'
      <4>1. nseq' % NRings = 0
        BY <1>7, <2>1, <2>3
      <4>2. (k + 1) * NRings = k * NRings + NRings /\ k * NRings \in Nat
        BY <1>1
      <4>3. ASSUME k * NRings + p = nseq PROVE (k + 1) * NRings + 0 = nseq'
        <5> DEFINE x == k * NRings
                   y == (k + 1) * NRings
        <5>1. y = x + NRings /\ x \in Nat /\ x + p = nseq
          BY <4>2, <4>3
        <5> HIDE DEF x, y
        <5>2. y + 0 = nseq'
          BY <1>1, <1>3, <2>1, <2>3, <5>1
        <5> QED
          BY <5>2 DEF y
      <4> QED
        BY <1>first, <4>1, <4>3, Zenon DEF FirstRound, Rings
    <3>3. SpreadBy(q, k + 1, base)'
      BY <1>4, <2>2, <3>1, <3>2 DEF SpreadBy, Rings
    <3> QED
      BY <3>3 DEF Spread, Rings
  <2>4. CASE p + 1 # NRings
    <3>1. \A r \in Rings : used'[r] = base[r] + k + IF r < nseq' % NRings THEN 1 ELSE 0
      BY <1>3, <1>6, <1>7, <1>9, <2>1, <2>4
    <3>2. FirstRound(q, k, base)'
      <4>1. nseq' % NRings = p + 1
        BY <1>7, <2>1, <2>4
      <4>2. k * NRings \in Nat
        BY <1>1
      <4>3. ASSUME k * NRings + p = nseq PROVE k * NRings + (p + 1) = nseq'
        BY <1>1, <1>3, <2>1, <4>2, <4>3
      <4> QED
        BY <1>first, <4>1, <4>3, Zenon DEF FirstRound, Rings
    <3>3. SpreadBy(q, k, base)'
      BY <1>4, <2>2, <3>1, <3>2 DEF SpreadBy, Rings
    <3> QED
      BY <3>3 DEF Spread, Rings
  <2> QED
    BY <2>3, <2>4
<1> QED
  BY <1>11, <1>12

\* A step that hands out no ring.
LEMMA SpreadKeeps ==
  ASSUME TypeOK, Spread, UNCHANGED <<nseq, used>>, Handouts \in Nat, Handouts' \in Nat,
         Handouts' >= Handouts
  PROVE  Spread'
<1>1. PICK q \in Nat, k \in Nat, base \in [Rings -> Nat] : SpreadBy(q, k, base)
  BY DEF Spread
<1>2. q * SeqMod + nseq <= Handouts'
  <2>1. q * SeqMod \in Nat /\ nseq \in Nat
    BY ServerAssumption DEF TypeOK
  <2> QED
    BY <1>1, <2>1 DEF SpreadBy
<1>3. SpreadBy(q, k, base)'
  BY <1>1, <1>2 DEF SpreadBy, FirstRound, Rings
<1> QED
  BY <1>3 DEF Spread, Rings

LEMMA HandoutsType == Handouts \in Nat /\ Handouts' \in Nat
BY TakersFinite, TakersFinitePrime DEF Handouts
-----------------------------------------------------------------------------
(* The steps of Server.                                                    *)

\* A step of one connection that leaves the descriptors of all others alone
\* and hands out no ring.
LEMMA SpreadSame ==
  ASSUME TypeOK, Spread, UNCHANGED <<up, nseq, used>>, Takers' = Takers
  PROVE  Spread'
BY SpreadKeeps, HandoutsType DEF Handouts

LEMMA StartStep == IInv /\ Start => IInv'
<1> SUFFICES ASSUME IInv, Start PROVE IInv'
  OBVIOUS
<1> USE DEF IInv
<1>1. /\ up = "starting" /\ up' = "accepting" /\ NRings > 0 /\ NonIopoll
      /\ UNCHANGED <<st, fd, open>>
  BY DEF Start
<1>2. TypeOK'
  BY <1>1, NonIopollType DEF TypeOK
<1>3. FdOwned'
  BY <1>1 DEF FdOwned, Live
<1>4. Started'
  BY <1>1 DEF Started
<1>5. Handouts = 0 /\ Handouts' >= 1
  BY <1>1, TakersFinitePrime DEF Handouts
<1>6. Spread'
  BY <1>1, <1>5, HandoutsType, NonIopollSpread
<1> QED
  BY <1>2, <1>3, <1>4, <1>6

LEMMA StartFailStep == IInv /\ StartFail => IInv'
<1> SUFFICES ASSUME IInv, StartFail PROVE IInv'
  OBVIOUS
<1> USE DEF IInv
<1>1. up = "starting" /\ up' = "aborted" /\ UNCHANGED <<st, fd, open, nseq, used>>
  BY DEF StartFail
<1>2. TypeOK' /\ Started'
  BY <1>1 DEF TypeOK, Started
<1>3. FdOwned'
  BY <1>1 DEF FdOwned, Live
<1>4. Handouts' >= Handouts
  BY <1>1, TakersFinitePrime DEF Handouts
<1>5. Spread'
  BY <1>1, <1>4, HandoutsType, SpreadKeeps
<1> QED
  BY <1>2, <1>3, <1>5

\* A connection comes, or is reset before accept returned it.
LEMMA BacklogStep == ASSUME NEW c \in Conns, IInv, Connect(c) \/ AcceptFail(c) PROVE IInv'
<1> USE DEF IInv
<1>1. /\ st[c] \in {"new", "backlog"} /\ UNCHANGED <<up, fd, open, nseq, used>>
      /\ st' = [st EXCEPT ![c] = "backlog"] \/ st' = [st EXCEPT ![c] = "refused"]
  BY DEF Connect, AcceptFail
<1>2. TypeOK' /\ Started'
  BY <1>1 DEF TypeOK, Started
<1>3. Live' = Live /\ Takers' = Takers
  BY <1>1 DEF TypeOK, Live, Takers
<1>4. FdOwned'
  BY <1>1, <1>3 DEF FdOwned
<1> QED
  BY <1>1, <1>2, <1>3, <1>4, SpreadSame

\* The new descriptor was closed, so that no task of another connection has it.
LEMMA AcceptStep == ASSUME NEW c \in Conns, IInv, Accept(c) PROVE IInv'
<1> USE DEF IInv
<1>1. PICK f \in Fds \ open : fd' = [fd EXCEPT ![c] = f] /\ open' = open \cup {f}
  BY DEF Accept
<1>2. st[c] = "backlog" /\ st' = [st EXCEPT ![c] = "spawned"] /\ UNCHANGED <<up, nseq, used>>
  BY DEF Accept
<1>3. TypeOK' /\ Started'
  BY <1>1, <1>2 DEF TypeOK, Started
<1>4. Live' = Live \cup {c} /\ c \notin Live /\ Takers' = Takers
  BY <1>2 DEF TypeOK, Live, Takers
<1>5. fd'[c] = f /\ \A d \in Live : fd'[d] = fd[d] /\ fd[d] \in open
  BY <1>1, <1>4 DEF TypeOK, FdOwned, Live
<1>6. open' = {fd'[d] : d \in Live'}
  BY <1>1, <1>4, <1>5 DEF FdOwned
<1>7. \A d, e \in Live' : fd'[d] = fd'[e] => d = e
  BY <1>1, <1>4, <1>5 DEF FdOwned
<1>8. FdOwned'
  BY <1>6, <1>7 DEF FdOwned
<1> QED
  BY <1>2, <1>3, <1>4, <1>8, SpreadSame

LEMMA RunStep == ASSUME NEW c \in Conns, IInv, Run(c) PROVE IInv'
<1> USE DEF IInv
<1>1. /\ up = "accepting" /\ st[c] = "spawned" /\ st' = [st EXCEPT ![c] = "running"]
      /\ NonIopoll /\ UNCHANGED <<up, fd, open>>
  BY DEF Run
<1>2. NRings > 0
  BY <1>1 DEF Started
<1>3. TypeOK' /\ Started'
  BY <1>1, <1>2, NonIopollType DEF TypeOK, Started
<1>4. Live' = Live /\ Takers' = Takers \cup {c} /\ c \notin Takers
  BY <1>1 DEF TypeOK, Live, Takers
<1>5. FdOwned'
  BY <1>1, <1>4 DEF FdOwned
<1>6. Handouts' = Handouts + 1
  <2>1. Cardinality(Takers') = Cardinality(Takers) + 1
    BY <1>4, TakersFinite, FS_AddElement
  <2> QED
    BY <1>1, <2>1, TakersFinite DEF Handouts
<1>7. Spread'
  BY <1>1, <1>2, <1>6, HandoutsType, NonIopollSpread
<1> QED
  BY <1>3, <1>5, <1>7

\* The descriptor that is closed was nobody else's.
LEMMA EndStep == ASSUME NEW c \in Conns, IInv, End(c) PROVE IInv'
<1> USE DEF IInv
<1>1. /\ st[c] = "running" /\ st' = [st EXCEPT ![c] = "ended"] /\ open' = open \ {fd[c]}
      /\ UNCHANGED <<up, fd, nseq, used>>
  BY DEF End
<1>2. TypeOK' /\ Started'
  BY <1>1 DEF TypeOK, Started
<1>3. Live' = Live \ {c} /\ c \in Live /\ Takers' = Takers
  BY <1>1 DEF TypeOK, Live, Takers
<1>4. open' = {fd'[d] : d \in Live'}
  BY <1>1, <1>3 DEF FdOwned
<1>5. \A d, e \in Live' : fd'[d] = fd'[e] => d = e
  BY <1>1, <1>3 DEF FdOwned
<1>6. FdOwned'
  BY <1>4, <1>5 DEF FdOwned
<1> QED
  BY <1>1, <1>2, <1>3, <1>6, SpreadSame

LEMMA AbortStep == ASSUME NEW c \in Conns, IInv, Abort(c) PROVE IInv'
<1> USE DEF IInv
<1>1. /\ up = "accepting" /\ up' = "aborted" /\ open' = {} /\ UNCHANGED <<fd, nseq, used>>
      /\ st' = [d \in Conns |-> IF st[d] \in {"spawned", "running"} THEN "ended" ELSE st[d]]
  BY DEF Abort
<1>2. TypeOK' /\ Started'
  BY <1>1 DEF TypeOK, Started
<1>3. Live' = {} /\ Takers \in SUBSET Takers'
  BY <1>1 DEF TypeOK, Live, Takers
<1>4. FdOwned'
  BY <1>1, <1>3 DEF FdOwned
<1>5. Handouts' >= Handouts
  <2>1. Cardinality(Takers) <= Cardinality(Takers')
    BY <1>3, TakersFinitePrime, FS_Subset
  <2> QED
    BY <1>1, <2>1, TakersFinite, TakersFinitePrime DEF Handouts
<1> QED
  BY <1>1, <1>2, <1>4, <1>5, HandoutsType, SpreadKeeps

LEMMA StutterStep == IInv /\ UNCHANGED vars => IInv'
<1> SUFFICES ASSUME IInv, UNCHANGED <<up, st, fd, open, nseq, used>> PROVE IInv'
  BY DEF vars
<1> USE DEF IInv
<1>1. TypeOK' /\ Started'
  BY DEF TypeOK, Started
<1>2. FdOwned'
  BY DEF FdOwned, Live
<1>3. Takers' = Takers
  BY DEF Takers
<1> QED
  BY <1>1, <1>2, <1>3, SpreadSame

LEMMA NextStep == IInv /\ [Next]_vars => IInv'
BY StartStep, StartFailStep, BacklogStep, AcceptStep, RunStep, EndStep, AbortStep, StutterStep
   DEF Next, Finished

LEMMA Invariance == Spec => []IInv
BY InitIInv, NextStep, PTL DEF Spec

\* Two rings differ by one at most since the counter wrapped last, and by one
\* for every wrap before.
LEMMA SpreadBalances == TypeOK /\ Spread => RingBalance
<1> SUFFICES ASSUME TypeOK, Spread, NEW i \in Rings, NEW j \in Rings
             PROVE  used[i] - used[j] <= 1 + (Cardinality(Takers) + 1) \div SeqMod
  BY DEF RingBalance, Takers
<1>1. PICK q \in Nat, k \in Nat, base \in [Rings -> Nat] : SpreadBy(q, k, base)
  BY DEF Spread
<1> DEFINE total == Cardinality(Takers) + 1
<1>2. total \in Nat /\ Handouts <= total
  BY TakersFinite DEF Handouts
<1>3. q * SeqMod <= total
  <2>1. q * SeqMod \in Nat /\ nseq \in Nat
    BY ServerAssumption DEF TypeOK
  <2> QED
    BY <1>1, <1>2, <2>1, HandoutsType DEF SpreadBy
<1>4. q <= total \div SeqMod
  BY <1>2, <1>3, DivBound, ServerAssumption
<1>5. used[i] - used[j] <= 1 + q
  <2>1. \A r \in Rings : used[r] \in {base[r] + k, base[r] + k + 1}
    BY <1>1 DEF SpreadBy
  <2>2. base[i] \in Nat /\ base[j] \in Nat /\ base[i] - base[j] <= q
    BY <1>1 DEF SpreadBy
  <2> QED
    BY <2>1, <2>2
<1>6. used[i] \in Nat /\ used[j] \in Nat /\ total \div SeqMod \in Int
  BY <1>2, ServerAssumption DEF TypeOK
<1> QED
  BY <1>4, <1>5, <1>6

-----------------------------------------------------------------------------
(* A step of Process is one of Server, or leaves its variables alone.      *)

LEMMA StepSimulation == [PNext]_pvars => [Next]_vars
<1> SUFFICES ASSUME [PNext]_pvars PROVE [Next]_vars
  OBVIOUS
<1>1. CASE UNCHANGED pvars
  BY <1>1 DEF pvars
<1>2. CASE PStart \/ PStartFail \/ AcceptSubmit \/ AcceptNoFd \/ PFinished \/ Stalled
  BY <1>2 DEF PStart, PStartFail, AcceptSubmit, AcceptNoFd, PFinished, Stalled, pvars, Next
<1>3. ASSUME NEW c \in Conns, ClientSend(c) \/ ClientLeave(c) \/ Submit(c) \/ Received(c) \/ Sent(c)
      PROVE  UNCHANGED vars
  BY <1>3 DEF ClientSend, ClientLeave, Submit, Received, Sent
<1>4. ASSUME NEW c \in Conns,
             PConnect(c) \/ PAccept(c) \/ PAcceptFail(c) \/ PRun(c) \/ PEnd(c) \/ PAbort(c)
      PROVE  Connect(c) \/ Accept(c) \/ AcceptFail(c) \/ Run(c) \/ End(c) \/ Abort(c)
  BY <1>4 DEF PConnect, PAccept, PAcceptFail, PRun, PEnd, PAbort
<1> QED
  BY <1>1, <1>2, <1>3, <1>4 DEF PNext, Next

-----------------------------------------------------------------------------
(* The slots of the rings.                                                 *)

PFunctions ==
  /\ ring \in [Conns -> Rings \cup {NoRing}] /\ data \in [Conns -> BOOLEAN]
  /\ op \in [Conns -> {"none", "recv_wait", "recv", "send_wait", "send"}]

PInv == IInv /\ PTypeOK /\ PFunctions

LEMMA HoldersFinite ==
  ASSUME NEW r
  PROVE  /\ IsFiniteSet(Holders(r)) /\ Cardinality(Holders(r)) \in Nat
         /\ IsFiniteSet(Holders(r)') /\ Cardinality(Holders(r)') \in Nat
<1>1. Holders(r) \in SUBSET Conns /\ Holders(r)' \in SUBSET Conns
  BY DEF Holders
<1>2. IsFiniteSet(Holders(r)) /\ IsFiniteSet(Holders(r)')
  BY <1>1, FS_Subset, ServerAssumption
<1> QED
  BY <1>2, FS_CardinalityType

\* A ring on which nothing was submitted is no fuller than before.
LEMMA SlotsShrink ==
  ASSUME NEW r, Holders(r)' \subseteq Holders(r), acc' = "flight" => acc = "flight",
         Slots(r) <= Depth
  PROVE  Slots(r)' <= Depth
<1>1. Cardinality(Holders(r)') <= Cardinality(Holders(r))
  BY HoldersFinite, FS_Subset
<1> QED
  BY <1>1, HoldersFinite, DepthAssumption DEF Slots

LEMMA AcceptSubmitSlots ==
  ASSUME AcceptSubmit, NEW r, Slots(r) <= Depth
  PROVE  Slots(r)' <= Depth
<1>1. acc = "wait" /\ acc' = "flight" /\ Slots(0) < Depth /\ Holders(r)' = Holders(r)
  BY DEF AcceptSubmit, Holders
<1> QED
  BY <1>1, HoldersFinite, DepthAssumption DEF Slots

LEMMA SubmitSlots ==
  ASSUME PFunctions, NEW c \in Conns, Submit(c), NEW r, Slots(r) <= Depth
  PROVE  Slots(r)' <= Depth
<1>1. /\ op[c] \in {"recv_wait", "send_wait"} /\ Slots(ring[c]) < Depth /\ UNCHANGED <<acc, ring>>
      /\ op' = [op EXCEPT ![c] = IF @ = "recv_wait" THEN "recv" ELSE "send"]
  BY DEF Submit
<1>2. CASE r = ring[c]
  <2>1. Holders(r)' = Holders(r) \cup {c} /\ c \notin Holders(r)
    BY <1>1, <1>2 DEF Holders, PFunctions
  <2>2. Cardinality(Holders(r)') = Cardinality(Holders(r)) + 1
    BY <2>1, HoldersFinite, FS_AddElement
  <2> QED
    BY <1>1, <1>2, <2>2, HoldersFinite, DepthAssumption DEF Slots
<1>3. CASE r # ring[c]
  <2>1. Holders(r)' = Holders(r)
    BY <1>1, <1>3 DEF Holders, PFunctions
  <2> QED
    BY <1>1, <2>1, SlotsShrink
<1> QED
  BY <1>2, <1>3

LEMMA PInitPInv == PInit => PInv
<1> SUFFICES ASSUME PInit PROVE PInv
  OBVIOUS
<1>1. IInv
  BY InitIInv DEF PInit
<1>2. PFunctions
  BY DEF PInit, PFunctions
<1>3. \A r : Slots(r) = 0
  <2> TAKE r
  <2>1. Holders(r) = {}
    BY DEF PInit, Holders
  <2> QED
    BY <2>1, FS_EmptySet DEF PInit, Slots
<1>4. PTypeOK
  BY <1>1, <1>2, <1>3, DepthAssumption DEF PInit, Init, IInv, PTypeOK, PFunctions
<1> QED
  BY <1>1, <1>2, <1>4 DEF PInv

\* What a session is: it has an operation exactly as long as it runs.
Sessions ==
  /\ PFunctions /\ acc \in {"none", "wait", "flight"} /\ gone \subseteq Conns
  /\ \A c \in Conns : op[c] # "none" <=> st[c] = "running"
  /\ \A c \in Conns : st[c] = "running" => ring[c] # NoRing

LEMMA PTypeOKParts ==
  PInv <=> IInv /\ Sessions /\ \A r \in Rings : Slots(r) <= Depth
BY DEF PInv, IInv, PTypeOK, Sessions, PFunctions

LEMMA PTypeOKPartsPrime ==
  IInv' /\ Sessions' /\ (\A r \in Rings : Slots(r)' <= Depth) => PInv'
BY DEF PInv, IInv, PTypeOK, Sessions, PFunctions, Rings

\* A step that submits nothing.
LEMMA NoSubmit ==
  ASSUME PInv, IInv', Sessions', acc' = "flight" => acc = "flight",
         \A r \in Rings : Holders(r)' \subseteq Holders(r)
  PROVE  PInv'
<1>1. \A r \in Rings : Slots(r)' <= Depth
  BY SlotsShrink, PTypeOKParts
<1> QED
  BY <1>1, PTypeOKPartsPrime

\* The process and its clients: no session begins, ends or awaits anything else.
LEMMA OutsideStep ==
  ASSUME PInv, IInv', UNCHANGED <<ring, op>>,
         \A c \in Conns : (st'[c] = "running") = (st[c] = "running"),
         acc' \in {acc, "wait"}, data' \in [Conns -> BOOLEAN], gone' \subseteq Conns
  PROVE  PInv'
<1>1. Sessions
  BY PTypeOKParts
<1>2. Sessions'
  BY <1>1 DEF Sessions, PFunctions, Rings
<1>3. \A r \in Rings : Holders(r)' = Holders(r)
  BY DEF Holders
<1> QED
  BY <1>2, <1>3, NoSubmit

LEMMA PRunStep == ASSUME NEW c \in Conns, PInv, IInv', PRun(c) PROVE PInv'
<1>1. /\ Sessions /\ IInv
  BY PTypeOKParts
<1>2. /\ st[c] = "spawned" /\ st' = [st EXCEPT ![c] = "running"] /\ up = "accepting" /\ NonIopoll
      /\ ring' = [ring EXCEPT ![c] = nseq % NRings] /\ op' = [op EXCEPT ![c] = "recv_wait"]
      /\ UNCHANGED <<acc, data, gone>>
  BY DEF PRun, Run
<1>3. nseq % NRings \in Rings
  BY <1>1, <1>2, NonIopollType DEF IInv, Started
<1>4. nseq % NRings # NoRing
  BY <1>3, ServerAssumption DEF Rings, NoRing
<1>5. st \in [Conns -> {"new", "backlog", "spawned", "running", "ended", "refused"}]
  BY <1>1 DEF IInv, TypeOK
<1>6. Sessions'
  BY <1>1, <1>2, <1>3, <1>4, <1>5 DEF Sessions, PFunctions, Rings
<1>7. op[c] = "none"
  BY <1>1, <1>2 DEF Sessions
<1>8. \A r \in Rings : Holders(r)' \subseteq Holders(r)
  BY <1>1, <1>2, <1>7 DEF Holders, Sessions, PFunctions
<1> QED
  BY <1>2, <1>6, <1>8, NoSubmit

LEMMA SubmitStep == ASSUME NEW c \in Conns, PInv, IInv', Submit(c) PROVE PInv'
<1>1. Sessions /\ \A r \in Rings : Slots(r) <= Depth
  BY PTypeOKParts
<1>2. /\ op[c] \in {"recv_wait", "send_wait"} /\ UNCHANGED <<vars, acc, ring, data, gone>>
      /\ op' = [op EXCEPT ![c] = IF @ = "recv_wait" THEN "recv" ELSE "send"]
  BY DEF Submit
<1>3. Sessions'
  BY <1>1, <1>2 DEF Sessions, PFunctions, Rings, vars
<1>4. \A r \in Rings : Slots(r)' <= Depth
  BY <1>1, SubmitSlots DEF Sessions
<1> QED
  BY <1>3, <1>4, PTypeOKPartsPrime

LEMMA AcceptSubmitStep == PInv /\ IInv' /\ AcceptSubmit => PInv'
<1> SUFFICES ASSUME PInv, IInv', AcceptSubmit PROVE PInv'
  OBVIOUS
<1>1. Sessions /\ \A r \in Rings : Slots(r) <= Depth
  BY PTypeOKParts
<1>2. Sessions'
  BY <1>1 DEF AcceptSubmit, Sessions, PFunctions, Rings, vars
<1>3. \A r \in Rings : Slots(r)' <= Depth
  BY <1>1, AcceptSubmitSlots
<1> QED
  BY <1>2, <1>3, PTypeOKPartsPrime

\* An operation completes and the session waits with the next.
LEMMA CompletedStep ==
  ASSUME NEW c \in Conns, PInv, IInv', Received(c) \/ Sent(c)
  PROVE  PInv'
<1>1. Sessions
  BY PTypeOKParts
<1>2. /\ op[c] \in {"recv", "send"} /\ UNCHANGED <<vars, acc, ring, gone>>
      /\ data' \in {data, [data EXCEPT ![c] = FALSE]}
      /\ \E next \in {"recv_wait", "send_wait"} : op' = [op EXCEPT ![c] = next]
  BY DEF Received, Sent
<1>3. Sessions'
  BY <1>1, <1>2 DEF Sessions, PFunctions, Rings, vars
<1>4. \A r \in Rings : Holders(r)' \subseteq Holders(r)
  BY <1>1, <1>2 DEF Holders, Sessions, PFunctions
<1> QED
  BY <1>2, <1>3, <1>4, NoSubmit

\* A session ends, or all of them: their operations leave the rings.
LEMMA PEndStep == ASSUME NEW c \in Conns, PInv, IInv', PEnd(c) \/ PAbort(c) PROVE PInv'
<1>1. Sessions /\ IInv
  BY PTypeOKParts
<1>2. st \in [Conns -> {"new", "backlog", "spawned", "running", "ended", "refused"}]
  BY <1>1 DEF IInv, TypeOK
<1>3. CASE PEnd(c)
  <2>1. /\ st' = [st EXCEPT ![c] = "ended"] /\ op' = [op EXCEPT ![c] = "none"]
        /\ UNCHANGED <<acc, ring, data, gone>>
    BY <1>3 DEF PEnd, End
  <2>2. Sessions'
    BY <1>1, <1>2, <2>1 DEF Sessions, PFunctions, Rings
  <2>3. \A r \in Rings : Holders(r)' \subseteq Holders(r)
    BY <1>1, <2>1 DEF Holders, Sessions, PFunctions
  <2> QED
    BY <2>1, <2>2, <2>3, NoSubmit
<1>4. CASE PAbort(c)
  <2>1. /\ st' = [d \in Conns |-> IF st[d] \in {"spawned", "running"} THEN "ended" ELSE st[d]]
        /\ acc' = "none" /\ op' = [d \in Conns |-> "none"] /\ UNCHANGED <<ring, data, gone>>
    BY <1>4 DEF PAbort, Abort
  <2>2. Sessions'
    BY <1>1, <1>2, <2>1 DEF Sessions, PFunctions, Rings
  <2>3. \A r \in Rings : Holders(r)' \subseteq Holders(r)
    BY <2>1 DEF Holders
  <2> QED
    BY <2>1, <2>2, <2>3, NoSubmit
<1> QED
  BY <1>3, <1>4

LEMMA PNextStep == PInv /\ [PNext]_pvars => PInv'
<1> SUFFICES ASSUME PInv, [PNext]_pvars PROVE PInv'
  OBVIOUS
<1>1. IInv'
  BY StepSimulation, NextStep DEF PInv
<1>2. Sessions /\ st \in [Conns -> {"new", "backlog", "spawned", "running", "ended", "refused"}]
  BY PTypeOKParts DEF IInv, TypeOK
<1>3. CASE UNCHANGED pvars \/ PStart \/ PStartFail \/ AcceptNoFd \/ PFinished \/ Stalled
  <2>1. UNCHANGED <<st, ring, op, data, gone>> /\ acc' \in {acc, "wait"}
    BY <1>3 DEF pvars, vars, PStart, Start, PStartFail, StartFail, AcceptNoFd, PFinished, Finished,
              Stalled
  <2> QED
    BY <1>1, <1>2, <2>1, OutsideStep DEF Sessions, PFunctions
<1>4. ASSUME NEW c \in Conns, ClientSend(c) \/ ClientLeave(c) PROVE PInv'
  <2>1. /\ UNCHANGED <<st, ring, op, acc>> /\ gone' \in {gone, gone \cup {c}}
        /\ data' \in {data, [data EXCEPT ![c] = TRUE]}
    BY <1>4 DEF ClientSend, ClientLeave, vars
  <2>2. data' \in [Conns -> BOOLEAN] /\ gone' \subseteq Conns
    BY <1>2, <2>1 DEF Sessions, PFunctions
  <2> QED
    BY <1>1, <2>1, <2>2, OutsideStep
<1>5. ASSUME NEW c \in Conns, PConnect(c) \/ PAccept(c) \/ PAcceptFail(c) PROVE PInv'
  <2>1. /\ UNCHANGED <<ring, op, data, gone>> /\ acc' \in {acc, "wait"}
        /\ st[c] \in {"new", "backlog"}
        /\ \E v \in {"backlog", "spawned", "refused"} : st' = [st EXCEPT ![c] = v]
    BY <1>5 DEF PConnect, Connect, PAccept, Accept, PAcceptFail, AcceptFail
  <2>2. \A d \in Conns : (st'[d] = "running") = (st[d] = "running")
    BY <1>2, <2>1
  <2> QED
    BY <1>1, <1>2, <2>1, <2>2, OutsideStep DEF Sessions, PFunctions
<1>6. ASSUME NEW c \in Conns,
             PRun(c) \/ Submit(c) \/ Received(c) \/ Sent(c) \/ PEnd(c) \/ PAbort(c)
      PROVE  PInv'
  BY <1>1, <1>6, PRunStep, SubmitStep, CompletedStep, PEndStep
<1>7. CASE AcceptSubmit
  BY <1>1, <1>7, AcceptSubmitStep
<1> QED
  BY <1>3, <1>4, <1>5, <1>6, <1>7 DEF PNext

LEMMA PInvariance == PSpec => []PInv
BY PInitPInv, PNextStep, PTL DEF PSpec

-----------------------------------------------------------------------------
(* The load of a ring is at most what was handed out of it.                *)

Sharers(r) == {c \in Conns : st[c] = "running" /\ ring[c] = r}

LoadCounted == \A r \in Rings : Load(r) <= used[r]

LEMMA SharersFinite ==
  ASSUME NEW r
  PROVE  /\ IsFiniteSet(Sharers(r)) /\ Cardinality(Sharers(r)) \in Nat
         /\ IsFiniteSet(Sharers(r)') /\ Cardinality(Sharers(r)') \in Nat
<1>1. Sharers(r) \in SUBSET Conns /\ Sharers(r)' \in SUBSET Conns
  BY DEF Sharers
<1>2. IsFiniteSet(Sharers(r)) /\ IsFiniteSet(Sharers(r)')
  BY <1>1, FS_Subset, ServerAssumption
<1> QED
  BY <1>2, FS_CardinalityType

LEMMA LoadIs ==
  ASSUME NEW r
  PROVE  /\ Load(r) = Cardinality(Sharers(r)) + IF r = 0 /\ acc # "none" THEN 1 ELSE 0
         /\ Load(r)' = Cardinality(Sharers(r)') + IF r = 0 /\ acc' # "none" THEN 1 ELSE 0
BY DEF Load, Sharers

\* A step that hands out no ring, and with which no operation comes.
LEMMA LoadShrink ==
  ASSUME LoadCounted, TypeOK, UNCHANGED used, acc' # "none" => acc # "none",
         \A r \in Rings : Sharers(r)' \subseteq Sharers(r)
  PROVE  LoadCounted'
<1> SUFFICES ASSUME NEW r \in Rings PROVE Load(r)' <= used'[r]
  BY DEF LoadCounted, Rings
<1>1. Cardinality(Sharers(r)') <= Cardinality(Sharers(r))
  BY SharersFinite, FS_Subset
<1>2. Load(r) <= used[r] /\ used[r] \in Nat
  BY DEF LoadCounted, TypeOK
<1> QED
  BY <1>1, <1>2, LoadIs, SharersFinite

LEMMA PStartLoad == PInv /\ LoadCounted /\ PStart => LoadCounted'
<1> SUFFICES ASSUME PInv, LoadCounted, PStart, NEW r \in Rings PROVE Load(r)' <= used'[r]
  BY DEF LoadCounted, Rings
<1>1. /\ nseq = 0 /\ NRings > 0 /\ used' = [used EXCEPT ![nseq % NRings] = @ + 1]
      /\ UNCHANGED <<st, ring>>
  BY DEF PInv, IInv, Started, PStart, Start, NonIopoll
<1>2. nseq % NRings = 0 /\ 0 \in Rings
  BY <1>1, ServerAssumption DEF Rings
<1>3. used'[r] = used[r] + IF r = 0 THEN 1 ELSE 0
  BY <1>1, <1>2 DEF PInv, IInv, TypeOK
<1>4. Sharers(r)' = Sharers(r)
  BY <1>1 DEF Sharers
<1>5. Load(r) <= used[r] /\ used[r] \in Nat
  BY DEF LoadCounted, PInv, IInv, TypeOK
<1> QED
  BY <1>3, <1>4, <1>5, LoadIs, SharersFinite

LEMMA PRunLoad == ASSUME NEW c \in Conns, PInv, LoadCounted, PRun(c) PROVE LoadCounted'
<1> SUFFICES ASSUME NEW r \in Rings PROVE Load(r)' <= used'[r]
  BY DEF LoadCounted, Rings
<1> DEFINE p == nseq % NRings
<1>1. /\ Sessions /\ TypeOK /\ Started
  BY PTypeOKParts DEF IInv
<1>2. /\ st[c] = "spawned" /\ st' = [st EXCEPT ![c] = "running"] /\ up = "accepting"
      /\ NonIopoll /\ used' = [used EXCEPT ![p] = @ + 1]
      /\ ring' = [ring EXCEPT ![c] = p] /\ UNCHANGED acc
  BY DEF PRun, Run, NonIopoll
<1>3. p \in Rings
  BY <1>1, <1>2, NonIopollType DEF Started
<1> HIDE DEF p
<1>4. used'[r] = used[r] + IF r = p THEN 1 ELSE 0
  BY <1>1, <1>2, <1>3 DEF TypeOK
<1>5. Sharers(r)' = Sharers(r) \cup (IF r = p THEN {c} ELSE {}) /\ c \notin Sharers(r)
  BY <1>1, <1>2 DEF Sharers, Sessions, PFunctions, TypeOK
<1>6. Cardinality(Sharers(r)') = Cardinality(Sharers(r)) + IF r = p THEN 1 ELSE 0
  <2>1. CASE r = p
    BY <1>5, <2>1, SharersFinite, FS_AddElement
  <2>2. CASE r # p
    BY <1>5, <2>2, SharersFinite
  <2> QED
    BY <2>1, <2>2
<1>7. Load(r) <= used[r] /\ used[r] \in Nat
  BY <1>1 DEF LoadCounted, TypeOK
<1> QED
  BY <1>2, <1>4, <1>6, <1>7, LoadIs, SharersFinite

LEMMA LoadStep == PInv /\ LoadCounted /\ [PNext]_pvars => LoadCounted'
<1> SUFFICES ASSUME PInv, LoadCounted, [PNext]_pvars PROVE LoadCounted'
  OBVIOUS
<1>1. Sessions /\ TypeOK
  BY PTypeOKParts DEF IInv
<1>2. ASSUME UNCHANGED <<used, ring>>, acc' # "none" => acc # "none",
             \A c \in Conns : st'[c] = "running" => st[c] = "running"
      PROVE  LoadCounted'
  <2>1. \A r \in Rings : Sharers(r)' \subseteq Sharers(r)
    BY <1>2 DEF Sharers
  <2> QED
    BY <1>1, <1>2, <2>1, LoadShrink
<1>3. CASE \/ UNCHANGED pvars \/ PStartFail \/ AcceptSubmit \/ AcceptNoFd \/ PFinished \/ Stalled
  BY <1>2, <1>3
  DEF pvars, vars, PStartFail, StartFail, AcceptSubmit, AcceptNoFd, PFinished, Finished, Stalled
<1>4. ASSUME NEW c \in Conns,
             ClientSend(c) \/ ClientLeave(c) \/ Submit(c) \/ Received(c) \/ Sent(c)
      PROVE  LoadCounted'
  BY <1>2, <1>4 DEF ClientSend, ClientLeave, Submit, Received, Sent, vars
<1>5. ASSUME NEW c \in Conns,
             PConnect(c) \/ PAccept(c) \/ PAcceptFail(c) \/ PEnd(c) \/ PAbort(c)
      PROVE  LoadCounted'
  <2>1. \/ \E v \in {"backlog", "spawned", "refused", "ended"} : st' = [st EXCEPT ![c] = v]
        \/ st' = [d \in Conns |-> IF st[d] \in {"spawned", "running"} THEN "ended" ELSE st[d]]
    BY <1>5 DEF PConnect, Connect, PAccept, Accept, PAcceptFail, AcceptFail, PEnd, End, PAbort, Abort
  <2>2. UNCHANGED <<used, ring>> /\ (acc' # "none" => acc # "none")
    BY <1>5 DEF PConnect, Connect, PAccept, Accept, PAcceptFail, AcceptFail, PEnd, End, PAbort, Abort
  <2>3. \A d \in Conns : st'[d] = "running" => st[d] = "running"
    BY <1>1, <2>1 DEF TypeOK
  <2> QED
    BY <1>2, <2>2, <2>3
<1> QED
  BY <1>3, <1>4, <1>5, PStartLoad, PRunLoad DEF PNext

LEMMA LoadInvariance == PSpec => []LoadCounted
<1>1. PInit => LoadCounted
  <2> SUFFICES ASSUME PInit, NEW r \in Rings PROVE Load(r) <= used[r]
    BY DEF LoadCounted
  <2>1. Sharers(r) = {} /\ acc = "none" /\ used[r] = 0
    BY DEF PInit, Init, Sharers
  <2> QED
    BY <2>1, LoadIs, FS_EmptySet
<1> QED
  BY <1>1, LoadStep, PInvariance, PTL DEF PSpec

\* Before the counter has wrapped, h hand-outs are at most d for each ring if
\* the rings have d slots each and h in all.
LEMMA TurnsBound ==
  ASSUME NEW n \in Nat \ {0}, NEW d \in Nat, NEW k \in Nat, NEW p \in Nat, NEW h \in Nat,
         k * n + p <= h, h <= n * d
  PROVE  k <= d /\ (k = d => p = 0)
<1>1. CASE k <= d
  <2>1. CASE k = d
    <3>1. k * n = n * d /\ n * d \in Nat
      BY <2>1
    <3> QED
      BY <2>1, <3>1
  <2>2. CASE k # d
    BY <1>1, <2>2
  <2> QED
    BY <2>1, <2>2
<1>2. CASE ~(k <= d)
  <2>1. PICK e \in Nat : k = d + 1 + e
    <3>1. k - d - 1 \in Nat /\ k = d + 1 + (k - d - 1)
      BY <1>2
    <3> QED
      BY <3>1
  <2>2. k * n = n * d + n + e * n /\ n * d \in Nat /\ e * n \in Nat
    BY <2>1
  <2> QED
    BY <2>2
<1> QED
  BY <1>1, <1>2

LEMMA RoomEnough == PInv /\ LoadCounted => EnoughSlots
<1> SUFFICES ASSUME PInv, LoadCounted, Cardinality(Takers) + 1 <= NRings * Depth,
                    Cardinality(Takers) + 1 < SeqMod, NEW r \in Rings
             PROVE  Load(r) <= Depth
  <2>1. ASSUME NEW x \in Rings PROVE Load(x) \in Nat
    BY LoadIs, SharersFinite
  <2> QED
    BY <2>1, DepthAssumption DEF EnoughSlots, Crowded, Takers
<1>1. TypeOK /\ Spread
  BY DEF PInv, IInv
<1>2. PICK q \in Nat, k \in Nat, base \in [Rings -> Nat] : SpreadBy(q, k, base)
  BY <1>1 DEF Spread
<1> DEFINE h == Cardinality(Takers) + 1
           p == nseq % NRings
<1>3. h \in Nat /\ Handouts <= h /\ h <= NRings * Depth /\ h < SeqMod
  BY TakersFinite DEF Handouts
<1>4. NRings \in Nat \ {0} /\ nseq \in Nat /\ SeqMod \in Nat \ {0}
  BY <1>1, ServerAssumption DEF Rings, TypeOK
<1>5. p \in Nat
  BY <1>4, ModNext
<1>6. q * SeqMod + nseq <= Handouts /\ FirstRound(q, k, base)
      /\ used[r] = base[r] + k + IF r < p THEN 1 ELSE 0
  BY <1>2 DEF SpreadBy
<1> HIDE DEF h
<1>7. q = 0
  <2>1. CASE q # 0
    <3>1. PICK e \in Nat : q = e + 1
      <4>1. q - 1 \in Nat /\ q = (q - 1) + 1
        BY <2>1
      <4> QED
        BY <4>1
    <3>2. q * SeqMod = e * SeqMod + SeqMod /\ e * SeqMod \in Nat
      BY <1>4, <3>1
    <3> QED
      BY <1>3, <1>4, <1>6, <3>2, HandoutsType
  <2> QED
    BY <2>1
<1>8. base[r] = 0 /\ k * NRings + p = nseq
  BY <1>4, <1>6, <1>7 DEF FirstRound
<1> HIDE DEF p
<1>9. k * NRings + p <= h
  <2>1. q * SeqMod = 0
    BY <1>4, <1>7
  <2> QED
    BY <1>3, <1>4, <1>6, <1>8, <2>1, HandoutsType
<1>10. k <= Depth /\ (k = Depth => p = 0)
  BY <1>3, <1>4, <1>5, <1>9, DepthAssumption, TurnsBound
<1>11. used[r] <= Depth /\ used[r] \in Nat
  BY <1>1, <1>5, <1>6, <1>8, <1>10, DepthAssumption DEF TypeOK, Rings
<1>12. Load(r) <= used[r] /\ Load(r) \in Nat
  BY LoadIs, SharersFinite DEF LoadCounted
<1> QED
  BY <1>11, <1>12, DepthAssumption

-----------------------------------------------------------------------------
(* The theorems.                                                           *)

\* Server: every variable has its type, and non_iopoll never reads outside the
\* vector of rings.
THEOREM TypeCorrect == Spec => []TypeOK
BY Invariance, PTL DEF IInv

\* Server: descriptors are reused, and still every open one belongs to exactly
\* one task, however many connections come and go.
THEOREM FdOwnedAlways == Spec => []FdOwned
BY Invariance, PTL DEF IInv

\* Server: fetch_add and the remainder hand the rings out evenly, over the life
\* of the process, for any number of rings and across any number of wraps of
\* the counter.
THEOREM RingBalanceAlways == Spec => []RingBalance
BY Invariance, SpreadBalances, PTL DEF IInv

\* Process: a session has a ring and an operation exactly while it runs, and no
\* ring holds more operations than it has slots.
THEOREM ProcessTypeCorrect == PSpec => []PTypeOK
BY PInvariance, PTL DEF PInv

\* Process: as long as the rings were not handed out more often than they have
\* slots together, and the counter has not come round, no ring is asked for
\* more slots than it has, whatever the order in which sessions began and
\* ended.
THEOREM EnoughSlotsAlways == PSpec => []EnoughSlots
BY PInvariance, LoadInvariance, RoomEnough, PTL

\* Process: what Server promises of descriptors and rings holds of it.
THEOREM ProcessServes == PSpec => [](FdOwned /\ RingBalance)
BY PInvariance, SpreadBalances, PTL DEF PInv, IInv

=============================================================================
