---------------------------- MODULE StartProofs -----------------------------
(***************************************************************************)
(* Proofs about Boot: for every configuration, every width of the integers *)
(* and both builds, get_unchecked is only given an index the vector has,   *)
(* and the process accepts with the rings it was configured for.  And      *)
(* about LogPipeline: the log of a task has no gaps.                       *)
(***************************************************************************)
EXTENDS Boot, LogPipeline, TLAPS

\* A number of rings that a vector can hold went through the cast unchanged:
\* a negative one has become too large.
LEMMA CastUnchanged ==
  ASSUME NEW n \in Ints, WithCapacity(n)
  PROVE  usize(n) = n
<1>1. /\ n \in Int /\ UsizeMod \in Nat /\ CapMax \in Nat /\ CapMax < UsizeMod
      /\ n <= CapMax /\ UsizeMod + n > CapMax /\ n % UsizeMod <= CapMax
  BY BootAssumption DEF WithCapacity, usize
<1>2. CASE n >= 0
  <2>1. n % UsizeMod = n
    BY <1>1, <1>2
  <2> QED
    BY <2>1 DEF usize
<1>3. CASE n < 0
  <2>1. n % UsizeMod = n + UsizeMod
    BY <1>1, <1>3
  <2> QED
    BY <1>1, <2>1
<1> QED
  BY <1>1, <1>2, <1>3

LEMMA UsizeNat == ASSUME NEW n \in Int PROVE usize(n) \in Nat
<1>1. UsizeMod \in Nat \ {0}
  BY BootAssumption
<1> QED
  BY <1>1 DEF usize

-----------------------------------------------------------------------------
(* The inductive invariant.                                                *)

Pcs == {"main", "runtime", "urings", "iopolls", "non_iopolls", "ring", "accepting", "panicked"}

TypeOK ==
  /\ pc \in Pcs /\ conf \in [port : Ints, iopoll_num : Ints, non_iopoll_num : Ints]
  /\ iopolls \in Nat /\ non_iopolls \in Nat /\ seq \in Nat /\ nseq \in Nat
  /\ taken \in [from : {"none", "iopolls", "non_iopolls"}, idx : Nat]

\* The first vector could be made, and after its loop it is full; then the
\* second.
FirstVector ==
  /\ pc \in {"iopolls", "non_iopolls", "ring", "accepting"} => WithCapacity(conf.iopoll_num)
  /\ pc \in {"non_iopolls", "ring", "accepting"} => iopolls = usize(conf.iopoll_num)
SecondVector ==
  /\ pc \in {"non_iopolls", "ring", "accepting"} => WithCapacity(conf.non_iopoll_num)
  /\ pc \in {"ring", "accepting"} => non_iopolls = usize(conf.non_iopoll_num)
  /\ pc = "accepting" => non_iopolls > 0

IInv == TypeOK /\ FirstVector /\ SecondVector /\ IndexInRange

LEMMA InitIInv == Init => IInv
BY DEF Init, IInv, TypeOK, Pcs, FirstVector, SecondVector, IndexInRange, NoRing

LEMMA ConfType ==
  ASSUME TypeOK
  PROVE  /\ conf.iopoll_num \in Ints /\ conf.non_iopoll_num \in Ints /\ Ints \subseteq Int
         /\ usize(conf.iopoll_num) \in Nat /\ usize(conf.non_iopoll_num) \in Nat
<1>1. conf.iopoll_num \in Ints /\ conf.non_iopoll_num \in Ints /\ Ints \subseteq Int
  BY BootAssumption DEF TypeOK
<1> QED
  BY <1>1, UsizeNat

\* The steps of main up to the loop of the accepts hand out no ring.
LEMMA StartingStep ==
  ASSUME IInv, \/ Unwrap \/ KuibaInit \/ NewRuntime \/ NewUrings \/ StartIopoll
               \/ IopollsDone \/ StartNonIopoll \/ Bind
  PROVE  IInv'
<1>1. TypeOK
  BY DEF IInv
<1>2. CASE Unwrap \/ KuibaInit \/ NewRuntime
  BY <1>1, <1>2 DEF Unwrap, KuibaInit, NewRuntime, IInv, TypeOK, Pcs, FirstVector, SecondVector,
                    IndexInRange
<1>3. CASE NewUrings
  BY <1>1, <1>3 DEF NewUrings, IInv, TypeOK, Pcs, FirstVector, SecondVector, IndexInRange
<1>4. CASE StartIopoll
  BY <1>1, <1>4 DEF StartIopoll, IInv, TypeOK, Pcs, FirstVector, SecondVector, IndexInRange
<1>5. CASE IopollsDone
  BY <1>1, <1>5 DEF IopollsDone, IInv, TypeOK, Pcs, FirstVector, SecondVector, IndexInRange
<1>6. CASE StartNonIopoll
  BY <1>1, <1>6 DEF StartNonIopoll, IInv, TypeOK, Pcs, FirstVector, SecondVector, IndexInRange
<1>7. CASE Bind
  BY <1>1, <1>7 DEF Bind, IInv, TypeOK, Pcs, FirstVector, SecondVector, IndexInRange
<1> QED
  BY <1>2, <1>3, <1>4, <1>5, <1>6, <1>7

LEMMA NonIopollStep ==
  ASSUME IInv, pc \in {"ring", "accepting"}, NonIopoll,
         UNCHANGED <<build, conf, iopolls, non_iopolls, port, seq>>
  PROVE  IInv'
<1>1. CASE non_iopolls = 0
  BY <1>1 DEF NonIopoll, IInv, TypeOK, Pcs, FirstVector, SecondVector, IndexInRange
<1>2. CASE non_iopolls # 0
  <2>1. /\ pc' = "accepting" /\ nseq' = usize(nseq + 1)
        /\ taken' = [from |-> "non_iopolls", idx |-> nseq % non_iopolls]
    BY <1>2 DEF NonIopoll
  <2>2. nseq \in Nat /\ non_iopolls \in Nat \ {0}
    BY <1>2 DEF IInv, TypeOK
  <2>3. nseq % non_iopolls \in Nat /\ nseq % non_iopolls < non_iopolls
    BY <2>2
  <2>4. nseq' \in Nat
    BY <2>1, <2>2, UsizeNat
  <2>5. /\ taken'.from = "non_iopolls" /\ taken'.idx = nseq % non_iopolls
        /\ taken' \in [from : {"none", "iopolls", "non_iopolls"}, idx : Nat]
    BY <2>1, <2>3
  <2>6. TypeOK'
    BY <2>1, <2>4, <2>5 DEF IInv, TypeOK, Pcs
  <2>7. FirstVector' /\ SecondVector'
    BY <2>1, <2>2 DEF IInv, FirstVector, SecondVector
  <2>8. IndexInRange'
    BY <2>3, <2>5 DEF IndexInRange
  <2> QED
    BY <2>6, <2>7, <2>8 DEF IInv
<1> QED
  BY <1>1, <1>2

LEMMA TakeIopollStep == IInv /\ TakeIopoll => IInv'
<1> SUFFICES ASSUME IInv, TakeIopoll PROVE IInv'
  OBVIOUS
<1>1. /\ pc = "accepting" /\ iopolls > 0 /\ seq' = usize(seq + 1)
      /\ taken' = [from |-> "iopolls", idx |-> seq % iopolls]
      /\ UNCHANGED <<build, conf, pc, iopolls, non_iopolls, port, nseq>>
  BY DEF TakeIopoll
<1>2. seq \in Nat /\ iopolls \in Nat \ {0}
  BY <1>1 DEF IInv, TypeOK
<1>3. seq % iopolls \in Nat /\ seq % iopolls < iopolls
  BY <1>2
<1>4. seq' \in Nat
  BY <1>1, <1>2, UsizeNat
<1>5. /\ taken'.from = "iopolls" /\ taken'.idx = seq % iopolls
      /\ taken' \in [from : {"none", "iopolls", "non_iopolls"}, idx : Nat]
  BY <1>1, <1>3
<1>6. TypeOK'
  BY <1>1, <1>4, <1>5 DEF IInv, TypeOK
<1>7. FirstVector' /\ SecondVector'
  BY <1>1 DEF IInv, FirstVector, SecondVector
<1>8. IndexInRange'
  BY <1>1, <1>3, <1>5 DEF IndexInRange
<1> QED
  BY <1>6, <1>7, <1>8 DEF IInv

LEMMA Invariance == Spec => []IInv
<1>1. IInv /\ [Next]_vars => IInv'
  <2> SUFFICES ASSUME IInv, [Next]_vars PROVE IInv'
    OBVIOUS
  <2>1. CASE TakeRing
    BY <2>1, NonIopollStep DEF TakeRing
  <2>2. CASE TakeIopollOff
    BY <2>2, NonIopollStep DEF TakeIopollOff
  <2>3. CASE Stopped \/ UNCHANGED vars
    BY <2>3 DEF Stopped, vars, IInv, TypeOK, FirstVector, SecondVector, IndexInRange
  <2> QED
    BY <2>1, <2>2, <2>3, StartingStep, TakeIopollStep DEF Next
<1> QED
  BY <1>1, InitIInv, PTL DEF Spec

-----------------------------------------------------------------------------
(* The theorems.                                                           *)

\* get_unchecked of Urings::iopoll and Urings::non_iopoll stays in the vector,
\* whichever vectors the configuration leaves empty and however often the
\* counters wrap.
THEOREM IndexInRangeAlways == Spec => []IndexInRange
BY Invariance, PTL DEF IInv

\* Whatever integers the file holds, the process either panics on the way or
\* accepts with the rings it was configured for, at least one among them.
THEOREM RingsAsConfiguredAlways == Spec => []RingsAsConfigured
<1>1. IInv => RingsAsConfigured
  <2> SUFFICES ASSUME IInv, pc = "accepting"
               PROVE  /\ iopolls = conf.iopoll_num
                      /\ non_iopolls = conf.non_iopoll_num /\ non_iopolls > 0
    BY DEF RingsAsConfigured
  <2>1. WithCapacity(conf.iopoll_num) /\ WithCapacity(conf.non_iopoll_num)
    BY DEF IInv, FirstVector, SecondVector
  <2>2. usize(conf.iopoll_num) = conf.iopoll_num /\ usize(conf.non_iopoll_num) = conf.non_iopoll_num
    BY <2>1, ConfType, CastUnchanged DEF IInv
  <2> QED
    BY <2>2 DEF IInv, FirstVector, SecondVector
<1> QED
  BY <1>1, Invariance, PTL

-----------------------------------------------------------------------------
(* The log.                                                                *)

Items == {Shutdown} \cup {Line(t, n) : t \in Tasks, n \in Nat}

LTypeOK ==
  /\ chan \in Seq(Items) /\ sending \subseteq Tasks /\ nlines \in [Tasks -> Nat]
  /\ up = "start" => worker = "none"

\* While the thread runs, every line but the one being sent is in the channel or
\* written.
Kept ==
  worker # "gone" =>
    \A t \in Tasks : \A m \in 1..nlines[t] :
      \/ t \in sending /\ m = nlines[t]
      \/ Line(t, m) \in written \/ \E i \in DOMAIN chan : chan[i] = Line(t, m)

\* A line in the channel has the earlier ones of its task before it, or they
\* are written.
InOrder ==
  \A i \in DOMAIN chan : \A t \in Tasks : \A n \in Nat :
    chan[i] = Line(t, n) =>
      \A m \in 1..(n - 1) : Line(t, m) \in written \/ \E j \in 1..(i - 1) : chan[j] = Line(t, m)

\* NoGaps for all numbers.
Prefix ==
  \A t \in Tasks : \A n \in Nat :
    Line(t, n) \in written => \A m \in 1..n : Line(t, m) \in written

LInv == LTypeOK /\ Kept /\ InOrder /\ Prefix

LEMMA LineFacts ==
  /\ \A t, n, u, m : Line(t, n) = Line(u, m) <=> t = u /\ n = m
  /\ \A t, n : Line(t, n) # Shutdown
BY DEF Line, Shutdown

LEMMA AppendFacts ==
  ASSUME NEW c \in Seq(Items), NEW x \in Items
  PROVE  /\ Append(c, x) \in Seq(Items) /\ Len(c) \in Nat
         /\ DOMAIN c = 1..Len(c) /\ DOMAIN Append(c, x) = 1..(Len(c) + 1)
         /\ \A i \in 1..Len(c) : Append(c, x)[i] = c[i]
         /\ Append(c, x)[Len(c) + 1] = x
OBVIOUS

LEMMA TailFacts ==
  ASSUME NEW c \in Seq(Items), c # << >>
  PROVE  /\ Tail(c) \in Seq(Items) /\ Len(c) \in Nat \ {0}
         /\ DOMAIN c = 1..Len(c) /\ DOMAIN Tail(c) = 1..(Len(c) - 1)
         /\ \A i \in 1..(Len(c) - 1) : Tail(c)[i] = c[i + 1]
         /\ Head(c) = c[1]
OBVIOUS

\* The channel gets longer by something that is not a line, or by a line whose
\* predecessors are all there.
LEMMA InOrderAppend ==
  ASSUME LInv, NEW x \in Items, chan' = Append(chan, x), written' = written,
         \A t \in Tasks : \A n \in Nat : x = Line(t, n) =>
           \A m \in 1..(n - 1) :
             Line(t, m) \in written \/ \E i \in DOMAIN chan : chan[i] = Line(t, m)
  PROVE  InOrder'
<1>1. /\ DOMAIN chan = 1..Len(chan) /\ DOMAIN chan' = 1..(Len(chan) + 1) /\ Len(chan) \in Nat
      /\ \A i \in 1..Len(chan) : chan'[i] = chan[i]
      /\ chan'[Len(chan) + 1] = x
  BY AppendFacts DEF LInv, LTypeOK
<1> SUFFICES ASSUME NEW i \in DOMAIN chan', NEW t \in Tasks, NEW n \in Nat,
                    chan'[i] = Line(t, n), NEW m \in 1..(n - 1), Line(t, m) \notin written'
             PROVE  \E j \in 1..(i - 1) : chan'[j] = Line(t, m)
  BY DEF InOrder
<1>2. CASE i \in 1..Len(chan)
  <2>1. chan[i] = Line(t, n)
    BY <1>1, <1>2
  <2>2. PICK j \in 1..(i - 1) : chan[j] = Line(t, m)
    BY <1>1, <1>2, <2>1 DEF LInv, InOrder
  <2>3. j \in 1..Len(chan)
    BY <1>1, <1>2
  <2> QED
    BY <1>1, <2>2, <2>3
<1>3. CASE i = Len(chan) + 1
  <2>1. x = Line(t, n)
    BY <1>1, <1>3
  <2>2. PICK j \in DOMAIN chan : chan[j] = Line(t, m)
    BY <2>1
  <2>3. j \in 1..(i - 1) /\ chan'[j] = Line(t, m)
    BY <1>1, <1>3, <2>2
  <2> QED
    BY <2>3
<1> QED
  BY <1>1, <1>2, <1>3

\* What is somewhere stays there when the channel gets longer.
LEMMA KeptAppend ==
  ASSUME LInv, NEW x \in Items, chan' = Append(chan, x), NEW e, NEW i \in DOMAIN chan, chan[i] = e
  PROVE  \E j \in DOMAIN chan' : chan'[j] = e
<1>1. /\ DOMAIN chan = 1..Len(chan) /\ DOMAIN chan' = 1..(Len(chan) + 1) /\ Len(chan) \in Nat
      /\ \A j \in 1..Len(chan) : chan'[j] = chan[j]
  BY AppendFacts DEF LInv, LTypeOK
<1>2. i \in DOMAIN chan' /\ chan'[i] = e
  BY <1>1
<1> QED
  BY <1>2

LEMMA LInvInit == LInit => LInv
<1> SUFFICES ASSUME LInit PROVE LInv
  OBVIOUS
<1>1. /\ chan = << >> /\ written = {} /\ nlines = [t \in Tasks |-> 0]
      /\ sending = {} /\ worker = "none"
  BY DEF LInit
<1>2. LTypeOK
  BY <1>1 DEF LTypeOK
<1>3. Kept
  BY <1>1 DEF Kept
<1>4. InOrder
  BY <1>1 DEF InOrder
<1>5. Prefix
  BY <1>1 DEF Prefix
<1> QED
  BY <1>2, <1>3, <1>4, <1>5 DEF LInv

\* The steps that leave the channel and stdout alone.
LEMMA LogQuietStep ==
  ASSUME LInv, UNCHANGED <<chan, written>>, LTypeOK', Kept' PROVE LInv'
BY DEF LInv, InOrder, Prefix

LEMMA DropGuardStep == ASSUME LInv, DropGuard PROVE LInv'
<1>1. /\ UNCHANGED <<worker, sending, nlines, written>> /\ up' # "start"
      /\ chan' = Append(chan, Shutdown) \/ chan' = chan
  BY DEF DropGuard
<1>2. CASE chan' = chan
  <2>1. LTypeOK' /\ Kept'
    BY <1>1, <1>2 DEF LInv, LTypeOK, Kept
  <2> QED
    BY <1>1, <1>2, <2>1, LogQuietStep
<1>3. CASE chan' = Append(chan, Shutdown)
  <2>0. Shutdown \in Items
    BY DEF Items
  <2>1. LTypeOK'
    <3>1. chan' \in Seq(Items)
      BY <1>3, <2>0, AppendFacts DEF LInv, LTypeOK
    <3> QED
      BY <1>1, <3>1 DEF LInv, LTypeOK
  <2>2. InOrder'
    BY <1>1, <1>3, <2>0, LineFacts, InOrderAppend
  <2>3. Kept'
    BY <1>1, <1>3, <2>0, KeptAppend DEF LInv, Kept
  <2>4. Prefix'
    BY <1>1 DEF LInv, Prefix
  <2> QED
    BY <2>1, <2>2, <2>3, <2>4 DEF LInv
<1> QED
  BY <1>1, <1>2, <1>3

LEMMA LogStep == ASSUME NEW t \in Tasks, LInv, Log(t) PROVE LInv'
<1>1. /\ UNCHANGED <<up, worker, chan, written>> /\ t \notin sending
      /\ sending' = sending \cup {t} /\ nlines' = [nlines EXCEPT ![t] = @ + 1]
      /\ nlines \in [Tasks -> Nat]
  BY DEF Log, LInv, LTypeOK
<1>2. /\ nlines'[t] = nlines[t] + 1 /\ nlines[t] \in Nat
      /\ \A u \in Tasks \ {t} : nlines'[u] = nlines[u]
  BY <1>1
<1>3. LTypeOK'
  BY <1>1 DEF LInv, LTypeOK
<1>4. Kept'
  <2> SUFFICES ASSUME worker # "gone", NEW u \in Tasks, NEW m \in 1..nlines'[u],
                      ~(u \in sending' /\ m = nlines'[u])
               PROVE  Line(u, m) \in written \/ \E i \in DOMAIN chan : chan[i] = Line(u, m)
    BY <1>1 DEF Kept
  <2>1. m \in 1..nlines[u] /\ ~(u \in sending /\ m = nlines[u])
    BY <1>1, <1>2
  <2> QED
    BY <2>1 DEF LInv, Kept
<1> QED
  BY <1>1, <1>3, <1>4, LogQuietStep

LEMMA SendStep == ASSUME NEW t \in Tasks, LInv, Send(t) PROVE LInv'
<1> DEFINE x == Line(t, nlines[t])
<1>1. /\ UNCHANGED <<up, worker, nlines, written>> /\ t \in sending /\ worker # "gone"
      /\ chan' = Append(chan, x) /\ sending' = sending \ {t} /\ nlines[t] \in Nat
  BY DEF Send, LInv, LTypeOK
<1>2. x \in Items
  BY <1>1 DEF Items
<1> HIDE DEF x
<1>3. LTypeOK'
  <2>1. chan' \in Seq(Items)
    BY <1>1, <1>2, AppendFacts DEF LInv, LTypeOK
  <2> QED
    BY <1>1, <2>1 DEF LInv, LTypeOK
<1>4. InOrder'
  <2>1. ASSUME NEW u \in Tasks, NEW n \in Nat, x = Line(u, n), NEW m \in 1..(n - 1)
        PROVE  Line(u, m) \in written \/ \E i \in DOMAIN chan : chan[i] = Line(u, m)
    <3>1. u = t /\ n = nlines[t]
      BY <2>1, LineFacts DEF x
    <3>2. m \in 1..nlines[u] /\ m # nlines[u]
      BY <1>1, <3>1
    <3> QED
      BY <1>1, <3>2 DEF LInv, Kept
  <2> QED
    BY <1>1, <1>2, <2>1, InOrderAppend
<1>5. Kept'
  <2> SUFFICES ASSUME NEW u \in Tasks, NEW m \in 1..nlines[u],
                      ~(u \in sending' /\ m = nlines[u]), Line(u, m) \notin written
               PROVE  \E i \in DOMAIN chan' : chan'[i] = Line(u, m)
    BY <1>1 DEF Kept
  <2>1. CASE u = t /\ m = nlines[t]
    <3>1. /\ Len(chan) + 1 \in DOMAIN chan' /\ chan'[Len(chan) + 1] = x
      BY <1>1, <1>2, AppendFacts DEF LInv, LTypeOK
    <3> QED
      BY <2>1, <3>1 DEF x
  <2>2. CASE ~(u = t /\ m = nlines[t])
    <3>1. PICK i \in DOMAIN chan : chan[i] = Line(u, m)
      BY <1>1, <2>2 DEF LInv, Kept
    <3> QED
      BY <1>1, <1>2, <3>1, KeptAppend
  <2> QED
    BY <2>1, <2>2
<1>6. Prefix'
  BY <1>1 DEF LInv, Prefix
<1> QED
  BY <1>3, <1>4, <1>5, <1>6 DEF LInv

LEMMA WorkerWriteStep == ASSUME LInv, WorkerWrite PROVE LInv'
<1>1. /\ UNCHANGED <<up, worker, sending, nlines>> /\ chan # << >>
      /\ chan' = Tail(chan) /\ written' = written \cup {Head(chan)} /\ chan \in Seq(Items)
  BY DEF WorkerWrite, LInv, LTypeOK
<1>2. /\ chan' \in Seq(Items) /\ Len(chan) \in Nat \ {0}
      /\ DOMAIN chan = 1..Len(chan) /\ DOMAIN chan' = 1..(Len(chan) - 1)
      /\ \A i \in 1..(Len(chan) - 1) : chan'[i] = chan[i + 1]
      /\ written' = written \cup {chan[1]}
  BY <1>1, TailFacts
<1>3. LTypeOK'
  BY <1>1, <1>2 DEF LInv, LTypeOK
\* What was in the channel is in it still, a place earlier, or written.
<1>4. ASSUME NEW k \in 1..Len(chan)
      PROVE  chan[k] \in written' \/ (k - 1 \in DOMAIN chan' /\ chan'[k - 1] = chan[k])
  <2>1. CASE k = 1
    BY <1>2, <2>1
  <2>2. CASE k # 1
    <3>1. k - 1 \in 1..(Len(chan) - 1) /\ (k - 1) + 1 = k
      BY <1>2, <2>2
    <3>2. chan'[k - 1] = chan[(k - 1) + 1]
      BY <1>2, <3>1
    <3> QED
      BY <1>2, <3>1, <3>2
  <2> QED
    BY <2>1, <2>2
<1>5. Kept'
  <2> SUFFICES ASSUME worker # "gone", NEW u \in Tasks, NEW m \in 1..nlines[u],
                      ~(u \in sending /\ m = nlines[u]), Line(u, m) \notin written'
               PROVE  \E i \in DOMAIN chan' : chan'[i] = Line(u, m)
    BY <1>1 DEF Kept
  <2>1. PICK k \in 1..Len(chan) : chan[k] = Line(u, m)
    BY <1>2 DEF LInv, Kept
  <2> QED
    BY <1>4, <2>1
<1>6. InOrder'
  <2> SUFFICES ASSUME NEW i \in DOMAIN chan', NEW t \in Tasks, NEW n \in Nat,
                      chan'[i] = Line(t, n), NEW m \in 1..(n - 1), Line(t, m) \notin written'
               PROVE  \E j \in 1..(i - 1) : chan'[j] = Line(t, m)
    BY Zenon DEF InOrder
  <2>1. i + 1 \in DOMAIN chan /\ chan[i + 1] = Line(t, n) /\ i \in Nat
    BY <1>2
  <2>2. PICK k \in 1..i : chan[k] = Line(t, m)
    <3>1. (i + 1) - 1 = i
      BY <2>1
    <3>2. Line(t, m) \notin written
      BY <1>2
    <3> QED
      BY <2>1, <3>1, <3>2 DEF LInv, InOrder
  <2>3. k \in 1..Len(chan)
    BY <1>2, <2>1
  <2>4. k - 1 \in 1..(i - 1) /\ chan'[k - 1] = Line(t, m)
    BY <1>2, <1>4, <2>1, <2>2, <2>3
  <2> QED
    BY <2>4
<1>7. Prefix'
  <2> SUFFICES ASSUME NEW t \in Tasks, NEW n \in Nat, Line(t, n) \in written',
                      NEW m \in 1..n
               PROVE  Line(t, m) \in written'
    BY Zenon DEF Prefix
  <2>1. CASE Line(t, n) \in written
    BY <1>2, <2>1 DEF LInv, Prefix
  <2>2. CASE Line(t, n) = chan[1]
    <3>1. CASE m = n
      BY <3>1
    <3>2. CASE m # n
      <4>1. m \in 1..(n - 1) /\ 1 \in DOMAIN chan
        BY <1>2, <3>2
      <4>2. Line(t, m) \in written \/ \E j \in 1..(1 - 1) : chan[j] = Line(t, m)
        BY <2>2, <4>1, Zenon DEF LInv, InOrder
      <4> QED
        BY <1>2, <4>2
    <3> QED
      BY <3>1, <3>2
  <2> QED
    BY <1>2, <2>1, <2>2
<1> QED
  BY <1>3, <1>5, <1>6, <1>7 DEF LInv

LEMMA WorkerStopStep == ASSUME LInv, WorkerStop PROVE LInv'
<1>1. /\ UNCHANGED <<up, sending, nlines, written>> /\ worker = "recv" /\ worker' = "gone"
      /\ chan' = << >>
  BY DEF WorkerStop
<1>2. LTypeOK'
  BY <1>1 DEF LInv, LTypeOK
<1>3. Kept' /\ InOrder'
  BY <1>1 DEF Kept, InOrder
<1>4. Prefix'
  BY <1>1 DEF LInv, Prefix
<1> QED
  BY <1>2, <1>3, <1>4 DEF LInv

\* The start, the end, and a send that fails because the thread is gone.
LEMMA LogControlStep ==
  ASSUME LInv, InitLog \/ WorkerStart \/ Abort \/ UNCHANGED lvars \/ \E t \in Tasks : SendFail(t)
  PROVE  LInv'
<1>1. /\ UNCHANGED <<chan, nlines, written>> /\ sending' \subseteq sending
      /\ up' = "start" => up = "start" /\ worker' = worker
      /\ worker' # "gone" => worker # "gone" /\ sending' = sending
  BY DEF InitLog, WorkerStart, Abort, lvars, SendFail, LInv, LTypeOK
<1>2. LTypeOK'
  BY <1>1 DEF LInv, LTypeOK
<1>3. Kept'
  BY <1>1 DEF LInv, Kept
<1> QED
  BY <1>1, <1>2, <1>3, LogQuietStep

\* lossy(false): what a task's log has on stdout is a beginning of it, for any
\* number of tasks and lines and any length of the channel.
THEOREM NoGapsAlways == LSpec => []NoGaps
<1>1. LInv /\ [LNext]_lvars => LInv'
  BY DropGuardStep, LogStep, SendStep, WorkerWriteStep, WorkerStopStep, LogControlStep
     DEF LNext, Quiet
<1>2. LInv => NoGaps
  BY LogAssumption DEF LInv, Prefix, NoGaps
<1> QED
  BY <1>1, <1>2, LInvInit, PTL DEF LSpec

=============================================================================
