----------------------------- MODULE WireProofs -----------------------------
(***************************************************************************)
(* The invariants of Wire, proved for every base, all widths and any       *)
(* messages: the frames of a stream are those of the messages written, and *)
(* reading a frame gives the message back.                                 *)
(*                                                                         *)
(* Every serialised message is a type, a length word and a body, so that   *)
(* what the buffer held before is gone; and what is read at an offset      *)
(* depends only on the piece of the stream that lies there.                *)
(***************************************************************************)
EXTENDS Wire, SequenceTheorems, WellFoundedInduction, TLAPS

-----------------------------------------------------------------------------
(* Induction on natural numbers, for a set in place of a predicate.        *)

NatLess == {p \in Nat \X Nat : p[1] < p[2]}

\* The order of the naturals is well-founded.
LEMMA NatLessWF == IsWellFoundedOn(NatLess, Nat)
  BY NatLessThanWellFounded, Zenon DEF NatLess, OpToRel

\* A set with zero and with the successor of each of its naturals has them all.
LEMMA NatSetInduction ==
  ASSUME NEW T, 0 \in T, \A n \in Nat : n \in T => (n + 1) \in T
  PROVE  \A n \in Nat : n \in T
<1> DEFINE U == {n \in Nat : n \notin T}
<1>1. SUFFICES ASSUME U # {} PROVE FALSE
  OBVIOUS
<1>2. PICK x \in U : \A y \in U : ~ (<<y, x>> \in NatLess)
  <2>1. U \subseteq Nat
    OBVIOUS
  <2> HIDE DEF U
  <2>2. QED
    BY <1>1, <2>1, WFMin, NatLessWF
<1>3. \A y \in U : ~(y < x)
  BY <1>2 DEF NatLess
<1>4. x \in Nat /\ x # 0 /\ x - 1 \in Nat /\ x - 1 < x
  OBVIOUS
<1>5. x - 1 \in T
  BY <1>3, <1>4
<1> QED
  BY <1>4, <1>5

-----------------------------------------------------------------------------
(* Functions defined by recursion on natural numbers.                      *)

\* g holds the values of a step F taken n times from x.
Steps(g, n, x, F, S) == g \in [0..n -> S] /\ g[0] = x /\ \A i \in 1..n : g[i] = F[<<i, g[i - 1]>>]

\* The same, for as many steps as one likes.
AllSteps(g, x, F, S) == g \in [Nat -> S] /\ g[0] = x /\ \A i \in Nat \ {0} : g[i] = F[<<i, g[i - 1]>>]

\* One step more.
LEMMA StepsMore ==
  ASSUME NEW S, NEW x \in S, NEW F \in [Nat \X S -> S], NEW k \in Nat, NEW g, Steps(g, k, x, F, S)
  PROVE  \E h : Steps(h, k + 1, x, F, S)
<1> DEFINE h == [i \in 0..(k + 1) |-> IF i = k + 1 THEN F[<<k + 1, g[k]>>] ELSE g[i]]
<1>1. \A i \in 0..k : g[i] \in S /\ h[i] = g[i]
  BY DEF Steps
<1>2. k \in 0..k /\ k + 1 \in Nat /\ 0 \in 0..k
  OBVIOUS
<1>3. F[<<k + 1, g[k]>>] \in S
  BY <1>1, <1>2
<1>4. h \in [0..(k + 1) -> S] /\ h[0] = x
  BY <1>1, <1>2, <1>3 DEF Steps
<1>5. ASSUME NEW i \in 1..(k + 1) PROVE h[i] = F[<<i, h[i - 1]>>]
  <2>1. i - 1 \in 0..k
    OBVIOUS
  <2>2. h[i - 1] = g[i - 1]
    BY <1>1, <2>1
  <2>3. CASE i = k + 1
    <3>1. h[i] = F[<<k + 1, g[k]>>] /\ i - 1 = k
      BY <2>3
    <3> QED
      BY <2>2, <2>3, <3>1
  <2>4. CASE i # k + 1
    <3>1. i \in 1..k /\ i \in 0..k
      BY <2>4
    <3> HIDE DEF h
    <3> QED
      BY <2>2, <3>1, <1>1 DEF Steps
  <2> QED
    BY <2>3, <2>4
<1>6. Steps(h, k + 1, x, F, S)
  BY <1>4, <1>5 DEF Steps
<1> HIDE DEF h
<1> QED
  BY <1>6

\* Any number of steps can be taken.
LEMMA StepsUpto ==
  ASSUME NEW S, NEW x \in S, NEW F \in [Nat \X S -> S]
  PROVE  \A n \in Nat : \E g : Steps(g, n, x, F, S)
<1> DEFINE T == {k \in Nat : \E g : Steps(g, k, x, F, S)}
<1>1. 0 \in T
  <2> DEFINE g0 == [i \in 0..0 |-> x]
  <2>1. Steps(g0, 0, x, F, S)
    BY DEF Steps
  <2> HIDE DEF g0
  <2> QED
    BY <2>1
<1>2. \A k \in Nat : k \in T => (k + 1) \in T
  BY StepsMore
<1> HIDE DEF T
<1>3. \A k \in Nat : k \in T
  BY <1>1, <1>2, NatSetInduction
<1> QED
  BY <1>3 DEF T

\* Their values do not depend on how many are taken.
LEMMA StepsAgree ==
  ASSUME NEW S, NEW x, NEW F, NEW n \in Nat, NEW m \in Nat, NEW g, NEW h,
         Steps(g, n, x, F, S), Steps(h, m, x, F, S)
  PROVE  \A k \in Nat : k <= n /\ k <= m => g[k] = h[k]
<1> DEFINE T == {k \in Nat : k <= n /\ k <= m => g[k] = h[k]}
<1>1. 0 \in T
  BY DEF Steps
<1>2. ASSUME NEW k \in Nat, k \in T PROVE (k + 1) \in T
  <2>1. SUFFICES ASSUME k + 1 <= n, k + 1 <= m PROVE g[k + 1] = h[k + 1]
    OBVIOUS
  <2>2. k + 1 \in 1..n /\ k + 1 \in 1..m /\ (k + 1) - 1 = k /\ k <= n /\ k <= m
    BY <2>1
  <2>3. g[k + 1] = F[<<k + 1, g[k]>>] /\ h[k + 1] = F[<<k + 1, h[k]>>]
    BY <2>2 DEF Steps
  <2> QED
    BY <1>2, <2>2, <2>3
<1> HIDE DEF T
<1>3. \A k \in Nat : k \in T
  BY <1>1, <1>2, NatSetInduction
<1> QED
  BY <1>3 DEF T

\* A function for all of them exists.
LEMMA StepsAll ==
  ASSUME NEW S, NEW x \in S, NEW F \in [Nat \X S -> S]
  PROVE  \E g : AllSteps(g, x, F, S)
<1> DEFINE up(n) == CHOOSE g : Steps(g, n, x, F, S)
           all == [n \in Nat |-> up(n)[n]]
<1>1. \A n \in Nat : Steps(up(n), n, x, F, S)
  BY StepsUpto
<1> HIDE DEF up
<1>2. \A n \in Nat : all[n] \in S
  BY <1>1 DEF Steps
<1>3. all \in [Nat -> S]
  BY <1>2
<1>4. all[0] = x
  BY <1>1 DEF Steps
<1>5. ASSUME NEW i \in Nat \ {0} PROVE all[i] = F[<<i, all[i - 1]>>]
  <2>1. i - 1 \in Nat /\ i - 1 <= i /\ i \in 1..i
    OBVIOUS
  <2>2. up(i)[i - 1] = up(i - 1)[i - 1]
    BY <1>1, <2>1, StepsAgree
  <2>3. up(i)[i] = F[<<i, up(i)[i - 1]>>]
    BY <1>1, <2>1 DEF Steps
  <2> QED
    BY <2>1, <2>2, <2>3
<1>6. AllSteps(all, x, F, S)
  BY <1>3, <1>4, <1>5 DEF AllSteps
<1> HIDE DEF all
<1> QED
  BY <1>6

-----------------------------------------------------------------------------
(* Powers and digits.                                                      *)

\* Pow is what its equations say.
LEMMA PowDef == Pow \in [Nat -> Nat] /\ Pow[0] = 1 /\ \A n \in Nat : Pow[n + 1] = Base * Pow[n]
<1> DEFINE Is(g) == g = [n \in Nat |-> IF n = 0 THEN 1 ELSE Base * g[n - 1]]
           F == [y \in Nat \X Nat |-> Base * y[2]]
<1>1. F \in [Nat \X Nat -> Nat] /\ \A i, y \in Nat : F[<<i, y>>] = Base * y
  BY BaseAssumption
<1> HIDE DEF F
<1>2. PICK g : AllSteps(g, 1, F, Nat)
  <2>1. 1 \in Nat
    OBVIOUS
  <2> QED
    BY <1>1, <2>1, StepsAll, Zenon
<1>3. ASSUME NEW i \in Nat \ {0} PROVE g[i] = Base * g[i - 1]
  <2>1. i - 1 \in Nat /\ i \in Nat
    OBVIOUS
  <2>2. g[i] = F[<<i, g[i - 1]>>] /\ g[i - 1] \in Nat
    BY <1>2, <2>1 DEF AllSteps
  <2> QED
    BY <1>1, <2>1, <2>2
<1>4. Is(g)
  BY <1>2, <1>3 DEF AllSteps
<1>5. Pow = CHOOSE h : Is(h)
  BY DEF Pow
<1> HIDE DEF Is
<1>6. Is(Pow)
  BY <1>4, <1>5
<1>7. ASSUME NEW h, Is(h)
      PROVE  h[0] = 1 /\ DOMAIN h = Nat /\ h = [n \in DOMAIN h |-> h[n]] /\ \A n \in Nat : h[n + 1] = Base * h[n]
  <2>1. h = [n \in Nat |-> IF n = 0 THEN 1 ELSE Base * h[n - 1]]
    BY <1>7 DEF Is
  <2>2. ASSUME NEW n \in Nat PROVE h[n + 1] = Base * h[n]
    <3>1. n + 1 \in Nat /\ n + 1 # 0 /\ (n + 1) - 1 = n
      OBVIOUS
    <3> QED
      BY <2>1, <3>1
  <2> QED
    BY <2>1, <2>2
<1> DEFINE T == {n \in Nat : Pow[n] \in Nat}
<1>8. 0 \in T /\ \A n \in Nat : n \in T => (n + 1) \in T
  <2>1. Base \in Nat
    BY BaseAssumption
  <2>2. Pow[0] = 1 /\ \A n \in Nat : Pow[n + 1] = Base * Pow[n]
    BY <1>6, <1>7
  <2> QED
    BY <2>1, <2>2
<1>9. \A n \in Nat : n \in T
  <2> HIDE DEF T
  <2> QED
    BY <1>8, NatSetInduction
<1> QED
  BY <1>6, <1>7, <1>9
\* A byte has room for every letter.
LEMMA BaseFacts == Base \in Nat /\ Base > 10
<1>1. Len(Letters) = 10
  BY DEF Letters
<1> QED
  BY <1>1, BaseAssumption

\* Powers are positive.
LEMMA PowPos == \A n \in Nat : Pow[n] \in Nat /\ Pow[n] > 0
<1> DEFINE T == {n \in Nat : Pow[n] > 0}
<1>1. 0 \in T
  BY PowDef
<1>2. ASSUME NEW n \in Nat, n \in T PROVE (n + 1) \in T
  <2>1. Pow[n] \in Nat /\ Pow[n] > 0 /\ Pow[n + 1] = Base * Pow[n]
    BY <1>2, PowDef
  <2>2. \A x, y \in Nat : x > 0 /\ y > 0 => x * y > 0
    OBVIOUS
  <2> QED
    BY <2>1, <2>2, BaseFacts
<1>3. \A n \in Nat : n \in T
  <2> HIDE DEF T
  <2> QED
    BY <1>1, <1>2, NatSetInduction
<1> QED
  BY <1>3, PowDef

\* The quotient is the only number that leaves a remainder in range.
LEMMA QuotientUnique ==
  ASSUME NEW v \in Int, NEW d \in Nat, d > 0, NEW q \in Int, d * q <= v, v < d * q + d
  PROVE  v \div d = q
<1>1. v \div d \in Int /\ d * (v \div d) <= v /\ v < d * (v \div d) + d
  OBVIOUS
<1> DEFINE r == v \div d
<1> HIDE DEF r
<1>2. ASSUME q < r PROVE FALSE
  <2>1. r \in Int /\ q + 1 <= r
    BY <1>1, <1>2 DEF r
  <2>2. d * (q + 1) <= d * r
    BY <2>1
  <2>3. d * (q + 1) = d * q + d
    OBVIOUS
  <2> QED
    BY <1>1, <2>1, <2>2, <2>3 DEF r
<1>3. ASSUME r < q PROVE FALSE
  <2>1. r \in Int /\ r + 1 <= q
    BY <1>1, <1>3 DEF r
  <2>2. d * (r + 1) <= d * q
    BY <2>1
  <2>3. d * (r + 1) = d * r + d
    BY <2>1
  <2> QED
    BY <1>1, <2>1, <2>2, <2>3 DEF r
<1> QED
  BY <1>1, <1>2, <1>3 DEF r

\* What a quotient and a remainder are.
LEMMA Quotient ==
  ASSUME NEW v \in Int, NEW d \in Nat, d > 0
  PROVE  \E q \in Int, r \in 0..(d - 1) : v \div d = q /\ v % d = r /\ v = d * q + r
<1>1. v \div d \in Int /\ v % d \in Int /\ v % d >= 0 /\ v % d < d
  OBVIOUS
<1>2. v - d * (v \div d) = v % d
  OBVIOUS
<1>3. PICK q \in Int, r \in 0..(d - 1) : v \div d = q /\ v % d = r
  BY <1>1
<1>4. v - d * q = r
  BY <1>2, <1>3
<1>5. v = d * q + r
  BY <1>4
<1> QED
  BY <1>3, <1>5

\* A quotient by Base * d in two steps.
LEMMA QuotientTwice ==
  ASSUME NEW v \in Int, NEW d \in Nat, d > 0
  PROVE  v \div (Base * d) = (v \div d) \div Base
<1> DEFINE u == v \div d
           q == u \div Base
<1>0. Base \in Nat /\ Base > 0
  BY BaseFacts
<1>1. u \in Int /\ d * u <= v /\ v < d * u + d
  OBVIOUS
<1>2. q \in Int /\ Base * q <= u /\ u <= Base * q + (Base - 1)
  <2>1. \E x \in Int, r \in 0..(Base - 1) : u \div Base = x /\ u % Base = r /\ u = Base * x + r
    BY <1>0, <1>1, Quotient
  <2> QED
    BY <1>0, <2>1
<1> HIDE DEF u, q
<1>3. d * (Base * q) <= d * u
  BY <1>0, <1>1, <1>2
<1>4. d * u <= d * (Base * q + (Base - 1))
  BY <1>0, <1>1, <1>2
<1>5. d * (Base * q + (Base - 1)) + d = (Base * d) * q + Base * d
  <2>1. \A b, x, y \in Int : y * (b * x + (b - 1)) + y = (b * y) * x + b * y
    OBVIOUS
  <2> QED
    BY <1>0, <1>2, <2>1
<1>6. d * (Base * q) = (Base * d) * q
  <2>1. \A b, x, y \in Int : y * (b * x) = (b * y) * x
    OBVIOUS
  <2> QED
    BY <1>0, <1>2, <2>1
<1>7. Base * d \in Nat /\ Base * d > 0
  BY <1>0
<1>8. (Base * d) * q <= v /\ v < (Base * d) * q + Base * d
  <2>1. (Base * d) * q \in Int /\ d * u \in Int /\ d * (Base * q + (Base - 1)) \in Int
    BY <1>0, <1>1, <1>2
  <2> QED
    BY <1>1, <1>3, <1>4, <1>5, <1>6, <1>7, <2>1
<1> QED
  BY <1>2, <1>7, <1>8, QuotientUnique DEF u, q

-----------------------------------------------------------------------------
(* Bytes, and the pieces of a sequence of bytes.                           *)

\* s lies in b behind the first p bytes.
Has(b, p, s) == p + Len(s) <= Len(b) /\ \A i \in 1..Len(s) : b[p + i] = s[i]

\* The memory of an integer in network order.
LEMMA ToBe ==
  ASSUME NEW v \in Int, NEW w \in Nat
  PROVE  /\ to_be(v, w) \in Seq(Byte) /\ Len(to_be(v, w)) = w
         /\ \A i \in 1..w : to_be(v, w)[i] = (v \div Pow[w - i]) % Base
<1> DEFINE a == [i \in 1..w |-> (v \div Pow[i - 1]) % Base]
<1>1. ASSUME NEW i \in 1..w PROVE (v \div Pow[i - 1]) % Base \in Byte
  <2>1. i - 1 \in Nat
    OBVIOUS
  <2>2. Pow[i - 1] \in Nat /\ Pow[i - 1] > 0
    BY <2>1, PowPos
  <2>3. v \div Pow[i - 1] \in Int
    BY <2>2
  <2> QED
    BY <2>3, BaseFacts DEF Byte
<1>2. a \in Seq(Byte) /\ Len(a) = w
  BY <1>1
<1>3. to_be(v, w) = [i \in 1..Len(a) |-> a[(Len(a) - i) + 1]]
  BY DEF to_be, as_bytes, Reverse
<1>4. ASSUME NEW i \in 1..w PROVE to_be(v, w)[i] = (v \div Pow[w - i]) % Base /\ to_be(v, w)[i] \in Byte
  <2>1. (w - i) + 1 \in 1..w /\ ((w - i) + 1) - 1 = w - i
    OBVIOUS
  <2>2. to_be(v, w)[i] = a[(w - i) + 1]
    BY <1>2, <1>3
  <2>3. a[(w - i) + 1] = (v \div Pow[w - i]) % Base
    BY <2>1
  <2> QED
    BY <1>1, <2>1, <2>2, <2>3
<1> QED
  <2>1. to_be(v, w) = [i \in 1..w |-> to_be(v, w)[i]]
    BY <1>2, <1>3
  <2> QED
    BY <1>4, <2>1

\* A piece in two parts.
LEMMA HasConcat ==
  ASSUME NEW b \in Seq(Byte), NEW p \in Nat, NEW s \in Seq(Byte), NEW t \in Seq(Byte), Has(b, p, s \o t)
  PROVE  Has(b, p, s) /\ Has(b, p + Len(s), t)
<1>1. Len(s \o t) = Len(s) + Len(t) /\ Len(s) \in Nat /\ Len(t) \in Nat
  OBVIOUS
<1>2. ASSUME NEW i \in 1..Len(s) PROVE b[p + i] = s[i]
  <2>1. i \in 1..Len(s \o t) /\ (s \o t)[i] = s[i]
    BY <1>1
  <2> QED
    BY <2>1 DEF Has
<1>3. ASSUME NEW i \in 1..Len(t) PROVE b[(p + Len(s)) + i] = t[i]
  <2>1. Len(s) + i \in 1..Len(s \o t) /\ (s \o t)[Len(s) + i] = t[i]
    BY <1>1
  <2>2. p + (Len(s) + i) = (p + Len(s)) + i
    BY <1>1
  <2> QED
    BY <2>1, <2>2 DEF Has
<1> QED
  BY <1>1, <1>2, <1>3 DEF Has

\* A piece stays where it is when more is written.
LEMMA HasMore ==
  ASSUME NEW b \in Seq(Byte), NEW p \in Nat, NEW s \in Seq(Byte), NEW t \in Seq(Byte), Has(b, p, s)
  PROVE  Has(b \o t, p, s)
  BY DEF Has

\* What is written lies behind what was there.
LEMMA HasLast ==
  ASSUME NEW b \in Seq(Byte), NEW t \in Seq(Byte)
  PROVE  Has(b \o t, Len(b), t)
  BY DEF Has

\* A sequence is a piece of itself.
LEMMA HasSelf ==
  ASSUME NEW b \in Seq(Byte)
  PROVE  Has(b, 0, b)
  BY DEF Has

\* A piece of a piece.
LEMMA HasPart ==
  ASSUME NEW b \in Seq(Byte), NEW p \in Nat, NEW s \in Seq(Byte), Has(b, p, s)
  PROVE  SubSeq(b, p + 1, p + Len(s)) = s
<1>1. Len(s) \in Nat /\ \A i \in (p + 1)..(p + Len(s)) : b[i] \in Byte
  BY DEF Has
<1> DEFINE t == SubSeq(b, p + 1, p + Len(s))
<1>2. t \in Seq(Byte) /\ Len(t) = Len(s) /\ \A i \in 1..Len(s) : t[i] = b[p + i]
  BY <1>1, SubSeqProperties
<1> HIDE DEF t
<1>3. \A i \in 1..Len(t) : t[i] = s[i]
  BY <1>2 DEF Has
<1>4. t = s
  BY <1>2, <1>3, SeqEqual
<1> QED
  BY <1>4 DEF t

-----------------------------------------------------------------------------
(* Integers are read as they were written, cut to their width.             *)

\* The i-th digit of v, of w.
Digit(v, w, i) == (v \div Pow[w - i]) % Base

\* The digits of v up to the i-th, of w: all of v but what lies to their right
\* and what does not fit.
Upper(v, w, i) == v \div Pow[w - i] - (v \div Pow[w]) * Pow[i]

\* The next digit.
LEMMA UpperStep ==
  ASSUME NEW v \in Int, NEW w \in Nat, NEW i \in 1..w
  PROVE  Upper(v, w, i) = Upper(v, w, i - 1) * Base + Digit(v, w, i)
<1> DEFINE u == v \div Pow[w - i]
           top == v \div Pow[w]
<1>1. w - i \in Nat /\ i - 1 \in Nat /\ w - (i - 1) = (w - i) + 1 /\ i = (i - 1) + 1
  OBVIOUS
<1>2. Pow[w - i] \in Nat /\ Pow[w - i] > 0 /\ Pow[w] \in Nat /\ Pow[w] > 0 /\ Pow[i - 1] \in Nat
  BY <1>1, PowPos
<1>3. Pow[w - (i - 1)] = Base * Pow[w - i] /\ Pow[i] = Base * Pow[i - 1]
  BY <1>1, PowDef
<1>4. v \div Pow[w - (i - 1)] = u \div Base
  BY <1>2, <1>3, QuotientTwice
<1>5. u \in Int /\ top \in Int
  BY <1>2
<1>6. PICK q \in Int, r \in 0..(Base - 1) : u \div Base = q /\ u % Base = r /\ u = Base * q + r
  <2>1. Base \in Nat /\ Base > 0
    BY BaseFacts
  <2> HIDE DEF u
  <2> QED
    BY <1>5, <2>1, Quotient
<1>7. Upper(v, w, i - 1) = q - top * Pow[i - 1]
  BY <1>4, <1>6 DEF Upper
<1>8. Upper(v, w, i) = u - top * (Base * Pow[i - 1])
  BY <1>3 DEF Upper
<1>9. \A b, x, y, z, t \in Int : (b * x + y) - z * (b * t) = (x - z * t) * b + y
  OBVIOUS
<1>10. Base \in Int /\ r \in Int /\ Pow[i - 1] \in Int
  BY <1>2, BaseFacts
<1> HIDE DEF u, top
<1>11. (Base * q + r) - top * (Base * Pow[i - 1]) = (q - top * Pow[i - 1]) * Base + r
  BY <1>5, <1>9, <1>10
<1>12. Upper(v, w, i) = Upper(v, w, i - 1) * Base + r
  BY <1>6, <1>7, <1>8, <1>11
<1>13. Digit(v, w, i) = r
  BY <1>6, Zenon DEF Digit, u
<1> QED
  BY <1>12, <1>13

\* A reader of w digits finds v, but for what the width does not hold.
LEMMA UIntReads ==
  ASSUME NEW b \in Seq(Byte), NEW p \in Nat, NEW v \in Int, NEW w \in Nat, Has(b, p, to_be(v, w))
  PROVE  UInt(b, p, w) = v - (v \div Pow[w]) * Pow[w]
<1> DEFINE Is(g) == g = [i \in 0..w |-> IF i = 0 THEN 0 ELSE g[i - 1] * Base + At(b, p + i)]
           up == [i \in 0..w |-> Upper(v, w, i)]
<1>1. Pow[w] \in Nat /\ Pow[w] > 0 /\ Pow[0] = 1 /\ v \div Pow[w] \in Int
  <2>1. Pow[w] \in Nat /\ Pow[w] > 0
    BY PowPos
  <2>2. Pow[0] = 1
    BY PowDef
  <2> QED
    BY <2>1, <2>2
<1>2. Upper(v, w, 0) = 0 /\ Upper(v, w, w) = v - (v \div Pow[w]) * Pow[w]
  <2>1. w - 0 = w /\ w - w = 0 /\ v \div 1 = v
    OBVIOUS
  <2> QED
    BY <1>1, <2>1 DEF Upper
<1>3. ASSUME NEW i \in 1..w PROVE At(b, p + i) = Digit(v, w, i)
  <2>1. Len(to_be(v, w)) = w /\ to_be(v, w)[i] = (v \div Pow[w - i]) % Base
    BY ToBe
  <2>2. p + w <= Len(b) /\ b[p + i] = to_be(v, w)[i]
    BY <2>1 DEF Has
  <2>3. p + i \in DOMAIN b
    BY <2>2
  <2> QED
    BY <2>1, <2>2, <2>3, Zenon DEF At, Digit
<1>4. ASSUME NEW i \in 1..w PROVE up[i] = up[i - 1] * Base + At(b, p + i)
  <2>1. i \in 0..w /\ i - 1 \in 0..w
    OBVIOUS
  <2>2. up[i] = Upper(v, w, i) /\ up[i - 1] = Upper(v, w, i - 1)
    BY <2>1
  <2>3. Upper(v, w, i) = Upper(v, w, i - 1) * Base + Digit(v, w, i)
    BY UpperStep
  <2> HIDE DEF up
  <2> QED
    BY <1>3, <2>2, <2>3
<1>5. Is(up)
  <2>1. 0 \in 0..w
    OBVIOUS
  <2>2. up[0] = 0
    BY <1>2, <2>1
  <2>3. DOMAIN up = 0..w /\ up = [i \in 0..w |-> up[i]]
    BY Zenon
  <2> HIDE DEF up
  <2>4. \A i \in 0..w : up[i] = IF i = 0 THEN 0 ELSE up[i - 1] * Base + At(b, p + i)
    <3> TAKE i \in 0..w
    <3>1. CASE i = 0
      BY <3>1, <2>2
    <3>2. CASE i # 0
      <4>1. i \in 1..w
        BY <3>2
      <4> QED
        BY <3>2, <4>1, <1>4
    <3> QED
      BY <3>1, <3>2
  <2> QED
    BY <2>3, <2>4
<1>6. UInt(b, p, w) = (CHOOSE g : Is(g))[w]
  BY DEF UInt
<1> HIDE DEF Is, up
<1>7. PICK g : Is(g) /\ UInt(b, p, w) = g[w]
  BY <1>5, <1>6
<1> DEFINE T == {k \in Nat : k <= w => g[k] = up[k]}
<1>8. 0 \in T
  BY <1>5, <1>7 DEF Is
<1>9. ASSUME NEW k \in Nat, k \in T PROVE (k + 1) \in T
  <2>1. SUFFICES ASSUME k + 1 <= w PROVE g[k + 1] = up[k + 1]
    OBVIOUS
  <2>2. k + 1 \in 0..w /\ k + 1 # 0 /\ (k + 1) - 1 = k /\ k <= w
    BY <2>1
  <2>3. g[k + 1] = g[k] * Base + At(b, p + (k + 1)) /\ up[k + 1] = up[k] * Base + At(b, p + (k + 1))
    BY <1>5, <1>7, <2>2 DEF Is
  <2> QED
    BY <1>9, <2>2, <2>3
<1>10. \A k \in Nat : k \in T
  <2> HIDE DEF T
  <2> QED
    BY <1>8, <1>9, NatSetInduction
<1>11. g[w] = up[w] /\ up[w] = Upper(v, w, w)
  <2>1. w \in 0..w /\ w <= w
    OBVIOUS
  <2>2. up[w] = Upper(v, w, w)
    BY <2>1, Zenon DEF up
  <2> QED
    BY <1>10, <2>1, <2>2
<1> QED
  BY <1>2, <1>7, <1>11

\* An unsigned integer that fits is read as it is.
LEMMA UIntFits ==
  ASSUME NEW b \in Seq(Byte), NEW p \in Nat, NEW w \in Nat, NEW v \in 0..(Pow[w] - 1), Has(b, p, to_be(v, w))
  PROVE  UInt(b, p, w) = v
<1>1. Pow[w] \in Nat /\ Pow[w] > 0
  BY PowPos
<1>2. v \in Int /\ v \div Pow[w] = 0
  <2>1. v \in Int /\ 0 \in Int /\ Pow[w] * 0 = 0 /\ 0 <= v /\ v < 0 + Pow[w]
    BY <1>1
  <2> QED
    BY <1>1, <2>1, QuotientUnique
<1> QED
  BY <1>1, <1>2, UIntReads

\* A signed one too, sign and all.
LEMMA SIntFits ==
  ASSUME NEW b \in Seq(Byte), NEW p \in Nat, NEW w \in Nat, NEW v \in Int, Has(b, p, to_be(v, w)),
         -Pow[w] <= 2 * v, 2 * v < Pow[w]
  PROVE  SInt(b, p, w) = v
<1>1. Pow[w] \in Nat /\ Pow[w] > 0
  BY PowPos
<1>2. CASE v >= 0
  <2>1. v \in 0..(Pow[w] - 1)
    BY <1>1, <1>2
  <2> QED
    BY <1>1, <2>1, UIntFits DEF SInt
<1>3. CASE v < 0
  <2>1. -1 \in Int /\ Pow[w] * (-1) = -Pow[w] /\ -Pow[w] <= v /\ v < -Pow[w] + Pow[w]
    BY <1>1, <1>3
  <2>2. v \div Pow[w] = -1
    BY <1>1, <2>1, QuotientUnique
  <2>3. UInt(b, p, w) = v + Pow[w]
    BY <1>1, <2>2, UIntReads
  <2> QED
    BY <1>1, <1>3, <2>3 DEF SInt
<1> QED
  BY <1>2, <1>3

-----------------------------------------------------------------------------
(* Strings are read as they were written, if they hold no zero.            *)

\* The zero a string ends with is the first, and the string is what lies before.
LEMMA StrReads ==
  ASSUME NEW b \in Seq(Byte), NEW p \in Nat, NEW s \in Seq(Byte), 0 \notin Range(s), Has(b, p, s \o << 0 >>)
  PROVE  Zero(b, p) = p + Len(s) + 1 /\ Str(b, p) = s
<1> DEFINE z == p + Len(s) + 1
<1>1. <<0>> \in Seq(Byte) /\ Len(s) \in Nat /\ Len(<<0>>) = 1 /\ z \in Nat
  BY BaseFacts DEF Byte
<1>2. Has(b, p, s) /\ Has(b, p + Len(s), <<0>>)
  BY <1>1, HasConcat
<1>3. z <= Len(b) /\ b[z] = 0
  BY <1>1, <1>2 DEF Has
<1>4. ASSUME NEW i \in (p + 1)..(p + Len(s)) PROVE b[i] # 0
  <2>1. i - p \in 1..Len(s) /\ p + (i - p) = i
    BY <1>1
  <2>2. b[i] = s[i - p]
    BY <1>2, <2>1 DEF Has
  <2>3. s[i - p] \in Range(s)
    BY <2>1 DEF Range
  <2> QED
    BY <2>2, <2>3
<1>5. z \in Zeroes(b, p)
  BY <1>1, <1>3 DEF Zeroes
<1>6. ASSUME NEW j \in Zeroes(b, p) PROVE z <= j /\ j \in Nat
  BY <1>1, <1>4 DEF Zeroes
<1> DEFINE First(i) == i \in Zeroes(b, p) /\ \A j \in Zeroes(b, p) : i <= j
<1>7. \A i : First(i) => i = z
  BY <1>1, <1>5, <1>6
<1>8. First(z)
  BY <1>5, <1>6
<1>9. Zeroes(b, p) # {}
  BY <1>5
<1>10. Zero(b, p) = CHOOSE i \in Zeroes(b, p) : \A j \in Zeroes(b, p) : i <= j
  BY <1>9 DEF Zero
<1>11. Zero(b, p) = CHOOSE i : First(i)
  BY <1>10
<1> HIDE DEF First
<1>12. Zero(b, p) = z
  BY <1>7, <1>8, <1>11
<1>13. z - 1 = p + Len(s)
  BY <1>1
<1>14. SubSeq(b, p + 1, p + Len(s)) = s
  BY <1>2, HasPart
<1> QED
  BY <1>12, <1>13, <1>14 DEF Str

-----------------------------------------------------------------------------
(* Pieces in a row, FlattenSeq.                                            *)

\* g[i] are the first i pieces.
Rows(g, s) ==
  g \in [0..Len(s) -> Seq(Byte)] /\ g[0] = <<>> /\ \A i \in 1..Len(s) : g[i] = g[i - 1] \o s[i]

\* FlattenSeq puts the pieces behind each other.
LEMMA FlattenDef ==
  ASSUME NEW s, Len(s) \in Nat, s = [i \in 1..Len(s) |-> s[i]], \A i \in 1..Len(s) : s[i] \in Seq(Byte)
  PROVE  \E g : Rows(g, s) /\ FlattenSeq(s) = g[Len(s)]
<1> DEFINE n == Len(s)
           F == [y \in Nat \X Seq(Byte) |-> IF y[1] \in 1..n THEN y[2] \o s[y[1]] ELSE y[2]]
<1>1. F \in [Nat \X Seq(Byte) -> Seq(Byte)]
  OBVIOUS
<1>2. ASSUME NEW i \in 1..n, NEW x \in Seq(Byte) PROVE F[<<i, x>>] = x \o s[i]
  <2>1. <<i, x>> \in Nat \X Seq(Byte) /\ <<i, x>>[1] = i /\ <<i, x>>[2] = x
    OBVIOUS
  <2> QED
    BY <2>1, Zenon
<1> HIDE DEF F
<1>3. PICK g : Steps(g, n, <<>>, F, Seq(Byte))
  <2>1. <<>> \in Seq(Byte)
    OBVIOUS
  <2> QED
    BY <1>1, <2>1, StepsUpto, Zenon
<1>4. Rows(g, s)
  <2>1. \A i \in 1..n : i - 1 \in 0..n
    OBVIOUS
  <2>2. \A i \in 1..n : g[i] = g[i - 1] \o s[i]
    BY <1>2, <1>3, <2>1 DEF Steps
  <2> QED
    BY <1>3, <2>2 DEF Steps, Rows
<1>5. CASE n = 0
  <2>1. s = <<>> /\ FlattenSeq(s) = s
    BY <1>5 DEF FlattenSeq
  <2> QED
    BY <1>4, <1>5, <2>1 DEF Rows
<1>6. CASE n # 0
  <2> DEFINE Is(f) == f = [i \in 1..n |-> IF i = 1 THEN s[i] ELSE f[i - 1] \o s[i]]
             f0 == [i \in 1..n |-> g[i]]
  <2>1. FlattenSeq(s) = (CHOOSE f : Is(f))[n]
    BY <1>6 DEF FlattenSeq
  <2>2. Is(f0)
    <3>1. g[1] = s[1]
      <4>1. 1 \in 1..n /\ 1 - 1 = 0
        BY <1>6
      <4>2. g[0] = <<>> /\ g[1] = g[0] \o s[1] /\ s[1] \in Seq(Byte)
        BY <1>4, <4>1 DEF Rows
      <4> QED
        BY <4>2
    <3>2. \A i \in 1..n : i # 1 => i - 1 \in 1..n
      OBVIOUS
    <3> QED
      BY <1>4, <3>1, <3>2 DEF Rows
  <2> HIDE DEF Is, f0
  <2>3. PICK f : Is(f) /\ FlattenSeq(s) = f[n]
    BY <2>1, <2>2
  <2> DEFINE T == {k \in Nat : k + 1 <= n => f[k + 1] = g[k + 1]}
  <2>4. 0 \in T
    <3>1. 1 \in 1..n /\ 0 + 1 = 1
      BY <1>6
    <3>2. f[1] = s[1] /\ f0[1] = s[1]
      BY <2>2, <2>3, <3>1 DEF Is
    <3>3. f0[1] = g[1]
      BY <3>1 DEF f0
    <3> QED
      BY <3>1, <3>2, <3>3
  <2>5. ASSUME NEW k \in Nat, k \in T PROVE (k + 1) \in T
    <3>1. SUFFICES ASSUME (k + 1) + 1 <= n PROVE f[(k + 1) + 1] = g[(k + 1) + 1]
      OBVIOUS
    <3>2. (k + 1) + 1 \in 1..n /\ (k + 1) + 1 # 1 /\ ((k + 1) + 1) - 1 = k + 1 /\ k + 1 <= n
      BY <3>1
    <3>3. f[(k + 1) + 1] = f[k + 1] \o s[(k + 1) + 1]
      BY <2>3, <3>2 DEF Is
    <3>4. g[(k + 1) + 1] = g[k + 1] \o s[(k + 1) + 1]
      BY <1>4, <3>2 DEF Rows
    <3> QED
      BY <2>5, <3>2, <3>3, <3>4
  <2>6. \A k \in Nat : k \in T
    <3> HIDE DEF T
    <3> QED
      BY <2>4, <2>5, NatSetInduction
  <2>7. f[n] = g[n]
    <3>1. n - 1 \in Nat /\ (n - 1) + 1 = n /\ n <= n
      BY <1>6
    <3> QED
      BY <2>6, <3>1
  <2> QED
    BY <1>4, <2>3, <2>7
<1> QED
  BY <1>5, <1>6

\* Each piece lies behind those before it.
LEMMA RowsHas ==
  ASSUME NEW s, Len(s) \in Nat, \A i \in 1..Len(s) : s[i] \in Seq(Byte), NEW g, Rows(g, s),
         NEW b \in Seq(Byte), NEW p \in Nat, Has(b, p, g[Len(s)])
  PROVE  \A i \in 1..Len(s) : Has(b, p + Len(g[i - 1]), s[i]) /\ Len(g[i]) = Len(g[i - 1]) + Len(s[i])
<1> DEFINE n == Len(s)
           T == {k \in Nat : k <= n => Has(b, p, g[n - k])}
<1>1. \A i \in 0..n : g[i] \in Seq(Byte)
  BY DEF Rows
<1>2. ASSUME NEW i \in 1..n
      PROVE  i - 1 \in 0..n /\ g[i - 1] \in Seq(Byte) /\ s[i] \in Seq(Byte) /\ g[i] = g[i - 1] \o s[i]
  <2>1. i - 1 \in 0..n
    OBVIOUS
  <2> QED
    BY <1>1, <2>1 DEF Rows
<1>3. 0 \in T
  OBVIOUS
<1>4. ASSUME NEW k \in Nat, k \in T PROVE (k + 1) \in T
  <2>1. SUFFICES ASSUME k + 1 <= n PROVE Has(b, p, g[n - (k + 1)])
    OBVIOUS
  <2>2. n - k \in 1..n /\ (n - k) - 1 = n - (k + 1) /\ k <= n
    BY <2>1
  <2>3. Has(b, p, g[n - (k + 1)] \o s[n - k])
    BY <1>2, <1>4, <2>2
  <2> QED
    BY <1>2, <2>2, <2>3, HasConcat
<1>5. \A k \in Nat : k \in T
  <2> HIDE DEF T
  <2> QED
    BY <1>3, <1>4, NatSetInduction
<1>6. ASSUME NEW i \in 1..n PROVE Has(b, p + Len(g[i - 1]), s[i]) /\ Len(g[i]) = Len(g[i - 1]) + Len(s[i])
  <2>1. n - i \in Nat /\ n - i <= n /\ n - (n - i) = i
    OBVIOUS
  <2>2. Has(b, p, g[i])
    BY <1>5, <2>1
  <2>3. g[i - 1] \in Seq(Byte) /\ s[i] \in Seq(Byte) /\ g[i] = g[i - 1] \o s[i]
    BY <1>2
  <2>4. Has(b, p + Len(g[i - 1]), s[i])
    BY <2>2, <2>3, HasConcat
  <2>5. Len(g[i - 1] \o s[i]) = Len(g[i - 1]) + Len(s[i])
    BY <2>3, ConcatProperties
  <2> QED
    BY <2>3, <2>4, <2>5
<1> QED
  BY <1>6

-----------------------------------------------------------------------------
(* A serialised message is its type, its length and its body.              *)

\* The types of messages.
Tag == {"R", "K", "Z", "S", "C", "E", "I", "T", "D"}

\* A letter is some byte, and is found again.
LEMMA OrdLetter ==
  ASSUME NEW c \in {"R", "K", "Z", "S", "C", "E", "I", "T", "D", "M"}
  PROVE  ord(c) \in 1..10 /\ ord(c) \in Byte /\ Letters[ord(c)] = c
<1>1. DOMAIN Letters = 1..10
  BY DEF Letters
<1>2. \E i \in 1..10 : Letters[i] = c
  BY DEF Letters
<1>3. ord(c) \in 1..10 /\ Letters[ord(c)] = c
  BY <1>1, <1>2 DEF ord
<1> QED
  BY <1>3, BaseFacts DEF Byte

\* The bytes of a message of type t.
Framed(t, x) == <<ord(t)>> \o (to_be(W32 + Len(x), W32) \o x)

\* The parts of a frame.
LEMMA FramedParts ==
  ASSUME NEW t \in Tag, NEW x \in Seq(Byte)
  PROVE  /\ Framed(t, x) \in Seq(Byte) /\ Len(Framed(t, x)) = Hdr + Len(x)
         /\ At(Framed(t, x), 1) = ord(t) /\ Framed(t, x)[1] = ord(t)
         /\ Has(Framed(t, x), 1, to_be(Len(Framed(t, x)) - 1, W32))
         /\ Has(Framed(t, x), Hdr, x)
<1> DEFINE n == to_be(W32 + Len(x), W32)
           f == <<ord(t)>> \o (n \o x)
<1>1. ord(t) \in Byte
  BY OrdLetter DEF Tag
<1>2. W32 \in Nat /\ W32 + Len(x) \in Int /\ Len(x) \in Nat
  BY WidthAssumption
<1>3. n \in Seq(Byte) /\ Len(n) = W32
  BY <1>2, ToBe
<1> HIDE DEF n
<1>4. n \o x \in Seq(Byte) /\ Len(n \o x) = W32 + Len(x) /\ <<ord(t)>> \in Seq(Byte) /\ Len(<<ord(t)>>) = 1
  BY <1>1, <1>2, <1>3
<1>5. f \in Seq(Byte) /\ Len(f) = 1 + (W32 + Len(x)) /\ f[1] = ord(t)
  BY <1>2, <1>4
<1>6. Has(f, 0, <<ord(t)>>) /\ Has(f, 1, n \o x)
  <2>0. f = <<ord(t)>> \o (n \o x)
    OBVIOUS
  <2> HIDE DEF f
  <2>1. Has(f, 0, f)
    BY <1>5, HasSelf
  <2>2. Has(f, 0, <<ord(t)>> \o (n \o x)) /\ 0 \in Nat /\ 0 + Len(<<ord(t)>>) = 1
    BY <2>0, <2>1, <1>4
  <2>3. Has(f, 0, <<ord(t)>>) /\ Has(f, 0 + Len(<<ord(t)>>), n \o x)
    BY <1>4, <1>5, <2>2, HasConcat, Zenon
  <2> QED
    BY <2>2, <2>3
<1> HIDE DEF f
<1>7. Has(f, 1, n) /\ Has(f, 1 + W32, x)
  BY <1>3, <1>5, <1>6, HasConcat
<1>8. Framed(t, x) = f
  BY DEF Framed, f, n
<1>9. At(f, 1) = ord(t)
  BY <1>2, <1>5 DEF At
<1>10. Len(f) - 1 = W32 + Len(x) /\ Len(f) = Hdr + Len(x) /\ Hdr = 1 + W32
  BY <1>2, <1>5 DEF Hdr
<1> QED
  BY <1>5, <1>7, <1>8, <1>9, <1>10 DEF n

\* Two pieces.
LEMMA Cat ==
  ASSUME NEW x \in Seq(Byte), NEW y \in Seq(Byte)
  PROVE  x \o y \in Seq(Byte) /\ Len(x \o y) = Len(x) + Len(y)
  BY ConcatProperties

\* Three pieces, either way.
LEMMA Assoc ==
  ASSUME NEW x \in Seq(Byte), NEW y \in Seq(Byte), NEW z \in Seq(Byte)
  PROVE  (x \o y) \o z = x \o (y \o z) /\ x \o y \in Seq(Byte) /\ Len(x \o y) = Len(x) + Len(y)
  BY ConcatAssociative, ConcatProperties

\* A message whose length is known in advance.
LEMMA FixedShape ==
  ASSUME NEW t \in Tag, NEW out, NEW x \in Seq(Byte)
  PROVE  /\ Fixed(out, t, W32 + Len(x)) \in Seq(Byte)
         /\ Fixed(out, t, W32 + Len(x)) \o x = Framed(t, x)
<1> DEFINE n == to_be(W32 + Len(x), W32)
<1>1. ord(t) \in Byte /\ W32 \in Nat /\ W32 + Len(x) \in Int
  BY OrdLetter, WidthAssumption DEF Tag
<1>2. n \in Seq(Byte)
  BY <1>1, ToBe
<1>3. Append(<<>>, ord(t)) = <<ord(t)>> /\ <<ord(t)>> \in Seq(Byte)
  BY <1>1
<1>4. Fixed(out, t, W32 + Len(x)) = <<ord(t)>> \o n
  BY <1>3 DEF Fixed, ser_be_u32, ser_be, ser, clear
<1> HIDE DEF n
<1>5. (<<ord(t)>> \o n) \o x = <<ord(t)>> \o (n \o x) /\ <<ord(t)>> \o n \in Seq(Byte)
  BY <1>2, <1>3, Assoc
<1> QED
  BY <1>4, <1>5 DEF Framed, n

\* A message whose length is filled in at the end.
LEMMA CloseShape ==
  ASSUME NEW t \in Tag, NEW out, NEW x \in Seq(Byte)
  PROVE  Open(out, t) \in Seq(Byte) /\ Close(Open(out, t) \o x) = Framed(t, x)
<1> DEFINE o == Open(out, t)
           n == to_be(W32 + Len(x), W32)
           c == Close(o \o x)
           f == <<ord(t)>> \o (n \o x)
<1>1. ord(t) \in Byte /\ W32 \in Nat /\ Len(x) \in Nat /\ W32 + Len(x) \in Int
  BY OrdLetter, WidthAssumption DEF Tag
<1>2. o = [i \in 1..(1 + W32) |-> ord(t)]
  <2>1. Len(<<>>) = 0 /\ \A i \in 1..(1 + W32) : ~(i <= 0)
    BY <1>1
  <2> QED
    BY <2>1 DEF Open, resize, clear
<1>3. o \in Seq(Byte) /\ Len(o) = 1 + W32 /\ \A i \in 1..(1 + W32) : o[i] = ord(t)
  BY <1>1, <1>2
<1> HIDE DEF o
<1>4. /\ o \o x \in Seq(Byte) /\ Len(o \o x) = 1 + W32 + Len(x)
      /\ \A i \in 1..(1 + W32) : (o \o x)[i] = ord(t)
      /\ \A i \in 1..Len(x) : (o \o x)[(1 + W32) + i] = x[i]
  BY <1>1, <1>3
<1>5. n \in Seq(Byte) /\ Len(n) = W32
  BY <1>1, ToBe
<1>6. Len(o \o x) - 1 = W32 + Len(x)
  BY <1>1, <1>4
<1>7. c = [i \in DOMAIN (o \o x) |-> IF i \in 2..(1 + W32) THEN n[i - 1] ELSE (o \o x)[i]]
  <2>1. c = ser_at(o \o x, 1, n)
    BY <1>6 DEF Close, ser_be_u32_at, ser_be_at
  <2>2. 1 + 1 = 2
    OBVIOUS
  <2> HIDE DEF n, c
  <2> QED
    BY <1>5, <2>1, <2>2 DEF ser_at
<1> HIDE DEF n, c
<1>8. DOMAIN (o \o x) = 1..(1 + W32 + Len(x))
  BY <1>4
<1>9. /\ n \o x \in Seq(Byte) /\ Len(n \o x) = W32 + Len(x)
      /\ \A i \in 1..W32 : (n \o x)[i] = n[i]
      /\ \A i \in 1..Len(x) : (n \o x)[W32 + i] = x[i]
  BY <1>1, <1>5
<1>10. /\ f \in Seq(Byte) /\ Len(f) = 1 + W32 + Len(x) /\ f[1] = ord(t)
       /\ \A i \in 1..(W32 + Len(x)) : f[1 + i] = (n \o x)[i]
  <2> DEFINE y == n \o x
  <2>1. y \in Seq(Byte) /\ Len(y) = W32 + Len(x)
    BY <1>9
  <2> HIDE DEF y
  <2>2. <<ord(t)>> \in Seq(Byte) /\ Len(<<ord(t)>>) = 1
    BY <1>1
  <2>3. <<ord(t)>> \o y \in Seq(Byte) /\ Len(<<ord(t)>> \o y) = 1 + W32 + Len(x) /\ (<<ord(t)>> \o y)[1] = ord(t)
    BY <1>1, <2>1, <2>2
  <2>4. \A i \in 1..(W32 + Len(x)) : (<<ord(t)>> \o y)[1 + i] = y[i]
    BY <1>1, <2>1, <2>2
  <2> QED
    BY <2>3, <2>4 DEF y
<1> HIDE DEF f
<1>11. ASSUME NEW i \in 1..(1 + W32 + Len(x)) PROVE c[i] = f[i]
  <2>1. CASE i = 1
    <3>1. c[i] = (o \o x)[1] /\ (o \o x)[1] = ord(t)
      BY <1>1, <1>4, <1>7, <1>8, <2>1
    <3> QED
      BY <2>1, <3>1, <1>10
  <2>2. CASE i \in 2..(1 + W32)
    <3>1. c[i] = n[i - 1]
      BY <1>7, <1>8, <2>2
    <3>2. i - 1 \in 1..W32 /\ i - 1 \in 1..(W32 + Len(x)) /\ 1 + (i - 1) = i
      BY <1>1, <2>2
    <3> QED
      BY <1>9, <1>10, <3>1, <3>2
  <2>3. CASE i > 1 + W32
    <3>1. c[i] = (o \o x)[i]
      BY <1>1, <1>7, <1>8, <2>3
    <3>2. i - (1 + W32) \in 1..Len(x) /\ (1 + W32) + (i - (1 + W32)) = i
      BY <1>1, <2>3
    <3>3. c[i] = x[i - (1 + W32)]
      BY <1>4, <3>1, <3>2
    <3>4. i - 1 \in 1..(W32 + Len(x)) /\ 1 + (i - 1) = i /\ W32 + (i - (1 + W32)) = i - 1
      BY <1>1, <2>3
    <3>5. f[i] = (n \o x)[i - 1]
      BY <1>10, <3>4
    <3>6. (n \o x)[i - 1] = x[i - (1 + W32)]
      BY <1>9, <3>2, <3>4
    <3> QED
      BY <3>3, <3>5, <3>6
  <2> QED
    BY <1>1, <2>1, <2>2, <2>3
<1>12. f = [i \in 1..(1 + W32 + Len(x)) |-> f[i]]
  BY <1>10
<1>13. c = [i \in 1..(1 + W32 + Len(x)) |-> c[i]]
  BY <1>7, <1>8
<1>14. c = f
  BY <1>11, <1>12, <1>13
<1> QED
  BY <1>3, <1>14 DEF o, c, f, n, Framed

\* What a message of each type holds.
LEMMA MessageParts ==
  ASSUME NEW m \in Message
  PROVE  /\ m.tag \in Tag
         /\ m.tag \in {"R", "I"} => m = [tag |-> m.tag]
         /\ m.tag = "K" => /\ m = [tag |-> "K", backendid |-> m.backendid, key |-> m.key]
                           /\ m.backendid \in U32 /\ m.key \in U32
         /\ m.tag = "Z" => m = [tag |-> "Z", status |-> m.status] /\ m.status \in {"I", "T", "E"}
         /\ m.tag = "C" => m = [tag |-> "C", text |-> m.text] /\ m.text \in Seq(Byte)
         /\ m.tag = "S" => /\ m = [tag |-> "S", name |-> m.name, value |-> m.value]
                           /\ m.name \in Seq(Byte) /\ m.value \in Seq(Byte)
         /\ m.tag = "E" => /\ m = [tag |-> "E", severity |-> m.severity, code |-> m.code, msg |-> m.msg]
                           /\ m.severity \in Seq(Byte) /\ m.code \in Seq(Byte) /\ m.msg \in Seq(Byte)
         /\ m.tag = "T" => m = [tag |-> "T", fields |-> m.fields] /\ m.fields \in Seq(Field)
         /\ m.tag = "D" => m = [tag |-> "D", cols |-> m.cols] /\ m.cols \in Seq(Col)
<1>1. CASE m \in [tag : {"R", "I"}]
  BY <1>1 DEF Tag
<1>2. CASE m \in [tag : {"K"}, backendid : U32, key : U32]
  BY <1>2 DEF Tag
<1>3. CASE m \in [tag : {"Z"}, status : {"I", "T", "E"}]
  BY <1>3 DEF Tag
<1>4. CASE m \in [tag : {"C"}, text : Seq(Byte)]
  BY <1>4 DEF Tag
<1>5. CASE m \in [tag : {"S"}, name : Seq(Byte), value : Seq(Byte)]
  BY <1>5 DEF Tag
<1>6. CASE m \in [tag : {"E"}, severity : Seq(Byte), code : Seq(Byte), msg : Seq(Byte)]
  BY <1>6 DEF Tag
<1>7. CASE m \in [tag : {"T"}, fields : Seq(Field)]
  BY <1>7 DEF Tag
<1>8. CASE m \in [tag : {"D"}, cols : Seq(Col)]
  BY <1>8 DEF Tag
<1> QED
  BY <1>1, <1>2, <1>3, <1>4, <1>5, <1>6, <1>7, <1>8 DEF Message

\* A zero-terminated string, and one of an error's fields.
ZeroEnded(s)  == s \o <<0>>
ErrPart(c, s) == <<ord(c)>> \o ZeroEnded(s)

\* The pieces of a row description and of a row.
FieldParts(m) == [i \in DOMAIN m.fields |-> FieldDesc(m.fields[i])]
ColParts(m)   == [i \in DOMAIN m.cols |-> Column(m.cols[i])]

\* What follows the length of a message.
BodyOf(m) ==
  CASE m.tag = "E" -> ErrPart("S", m.severity) \o (ErrPart("C", m.code) \o (ErrPart("M", m.msg) \o <<0>>))
    [] m.tag = "R" -> to_be(0, W32)
    [] m.tag = "K" -> to_be(m.backendid, W32) \o to_be(m.key, W32)
    [] m.tag = "Z" -> <<ord(m.status)>>
    [] m.tag = "C" -> ZeroEnded(m.text)
    [] m.tag = "S" -> ZeroEnded(m.name) \o ZeroEnded(m.value)
    [] m.tag = "I" -> <<>>
    [] m.tag = "T" -> to_be(Len(m.fields), W16) \o FlattenSeq(FieldParts(m))
    [] m.tag = "D" -> to_be(Len(m.cols), W16) \o FlattenSeq(ColParts(m))

\* Zero-terminated strings are bytes, and ser_cstr writes them.
LEMMA CstrBytes ==
  ASSUME NEW s \in Seq(Byte)
  PROVE  /\ <<0>> \in Seq(Byte) /\ ZeroEnded(s) \in Seq(Byte) /\ Len(ZeroEnded(s)) = Len(s) + 1
         /\ \A out \in Seq(Byte) : ser_cstr(out, s) = out \o ZeroEnded(s)
<1>1. <<0>> \in Seq(Byte) /\ Len(<<0>>) = 1
  BY BaseFacts DEF Byte
<1>2. ZeroEnded(s) \in Seq(Byte) /\ Len(ZeroEnded(s)) = Len(s) + 1
  BY <1>1, Assoc DEF ZeroEnded
<1>3. ASSUME NEW out \in Seq(Byte) PROVE ser_cstr(out, s) = out \o ZeroEnded(s)
  BY <1>1, Assoc DEF ZeroEnded, ser_cstr
<1> QED
  BY <1>1, <1>2, <1>3

\* The fields of an error.
LEMMA ErrPartBytes ==
  ASSUME NEW s \in Seq(Byte), NEW c \in {"S", "C", "M"}
  PROVE  /\ ErrPart(c, s) \in Seq(Byte) /\ Len(ErrPart(c, s)) = Len(s) + 2
         /\ <<ord(c)>> \in Seq(Byte) /\ Len(<<ord(c)>>) = 1
         /\ \A out \in Seq(Byte) : ErrField(out, c, s) = out \o ErrPart(c, s)
<1>1. ord(c) \in Byte
  BY OrdLetter
<1>2. <<ord(c)>> \in Seq(Byte) /\ Len(<<ord(c)>>) = 1
  BY <1>1
<1>3. ZeroEnded(s) \in Seq(Byte) /\ Len(ZeroEnded(s)) = Len(s) + 1 /\ Len(s) \in Nat
  BY CstrBytes
<1>4. ErrPart(c, s) \in Seq(Byte) /\ Len(ErrPart(c, s)) = Len(s) + 2
  BY <1>2, <1>3, Assoc DEF ErrPart
<1>5. ASSUME NEW out \in Seq(Byte) PROVE ErrField(out, c, s) = out \o ErrPart(c, s)
  <2>1. Append(out, ord(c)) = out \o <<ord(c)>> /\ out \o <<ord(c)>> \in Seq(Byte)
    BY <1>1, <1>2, Assoc, AppendIsConcat
  <2>2. ErrField(out, c, s) = (out \o <<ord(c)>>) \o ZeroEnded(s)
    BY <2>1, CstrBytes DEF ErrField
  <2> QED
    BY <1>2, <1>3, <2>2, Assoc DEF ErrPart
<1> QED
  BY <1>2, <1>4, <1>5

\* The widths and the limits of the integers.
LEMMA Widths ==
  /\ W16 \in Nat /\ W32 \in Nat /\ W32 > 0 /\ Pow[W16] \in Nat /\ Pow[W16] > 0 /\ Pow[W32] \in Nat /\ Pow[W32] > 0
  BY WidthAssumption, PowPos

\* What a field holds.
LEMMA FieldHolds ==
  ASSUME NEW f \in Field
  PROVE  /\ f = [name |-> f.name, reloid |-> f.reloid, attnum |-> f.attnum,
                 typoid |-> f.typoid, typlen |-> f.typlen, typmod |-> f.typmod]
         /\ f.name \in Seq(Byte) /\ f.typoid \in U32 /\ f.typlen \in I16 /\ f.typmod \in I32
         /\ OrZero(f.reloid) \in U32 /\ OptOf(OrZero(f.reloid)) = f.reloid
         /\ OrZero(f.attnum) \in U16 /\ OptOf(OrZero(f.attnum)) = f.attnum
<1>1. /\ f = [name |-> f.name, reloid |-> f.reloid, attnum |-> f.attnum,
              typoid |-> f.typoid, typlen |-> f.typlen, typmod |-> f.typmod]
      /\ f.name \in Seq(Byte) /\ f.typoid \in U32 /\ f.typlen \in I16 /\ f.typmod \in I32
      /\ f.reloid \in Opt(U32) /\ f.attnum \in Opt(U16)
  BY DEF Field
<1>2. 0 \in U32 /\ 0 \in U16
  BY Widths DEF U16, U32
<1>3. ASSUME NEW S, 0 \in S, NEW x \in Opt(S) PROVE OrZero(x) \in S /\ OptOf(OrZero(x)) = x
  <2>1. CASE x = <<>>
    BY <1>3, <2>1 DEF OrZero, OptOf
  <2>2. CASE x # <<>>
    <3>1. PICK k \in S \ {0} : x = <<k>>
      BY <2>2 DEF Opt
    <3>2. OrZero(x) = k
      BY <2>2, <3>1 DEF OrZero
    <3> QED
      BY <3>1, <3>2 DEF OptOf
  <2> QED
    BY <2>1, <2>2
<1> QED
  BY <1>1, <1>2, <1>3

\* The bytes of a field, with the end of each part.
FieldUpTo(f, k) ==
  CASE k = 1 -> ZeroEnded(f.name)
    [] k = 2 -> ZeroEnded(f.name) \o to_be(OrZero(f.reloid), W32)
    [] k = 3 -> (ZeroEnded(f.name) \o to_be(OrZero(f.reloid), W32)) \o to_be(OrZero(f.attnum), W16)
    [] k = 4 -> ((ZeroEnded(f.name) \o to_be(OrZero(f.reloid), W32)) \o to_be(OrZero(f.attnum), W16))
                  \o to_be(f.typoid, W32)
    [] k = 5 -> (((ZeroEnded(f.name) \o to_be(OrZero(f.reloid), W32)) \o to_be(OrZero(f.attnum), W16))
                  \o to_be(f.typoid, W32)) \o to_be(f.typlen, W16)
    [] k = 6 -> ((((ZeroEnded(f.name) \o to_be(OrZero(f.reloid), W32)) \o to_be(OrZero(f.attnum), W16))
                  \o to_be(f.typoid, W32)) \o to_be(f.typlen, W16)) \o to_be(f.typmod, W32)

\* Its parts in order.
LEMMA FieldDescParts ==
  ASSUME NEW f \in Field
  PROVE  LET z == Len(f.name) + 1
             u(k) == FieldUpTo(f, k)
         IN  /\ u(1) = ZeroEnded(f.name) /\ u(1) \in Seq(Byte) /\ Len(u(1)) = z
             /\ u(2) = u(1) \o to_be(OrZero(f.reloid), W32) /\ u(2) \in Seq(Byte) /\ Len(u(2)) = z + W32
             /\ u(3) = u(2) \o to_be(OrZero(f.attnum), W16) /\ u(3) \in Seq(Byte) /\ Len(u(3)) = z + W32 + W16
             /\ u(4) = u(3) \o to_be(f.typoid, W32) /\ u(4) \in Seq(Byte) /\ Len(u(4)) = z + 2 * W32 + W16
             /\ u(5) = u(4) \o to_be(f.typlen, W16) /\ u(5) \in Seq(Byte) /\ Len(u(5)) = z + 2 * W32 + 2 * W16
             /\ u(6) = u(5) \o to_be(f.typmod, W32) /\ u(6) \in Seq(Byte) /\ Len(u(6)) = z + 3 * W32 + 2 * W16
             /\ FieldDesc(f) = u(6) \o to_be(0, W16) /\ FieldDesc(f) \in Seq(Byte)
             /\ Len(FieldDesc(f)) = z + 3 * W32 + 3 * W16
<1> DEFINE z == Len(f.name) + 1
           u(k) == FieldUpTo(f, k)
           a == to_be(OrZero(f.reloid), W32)
           b == to_be(OrZero(f.attnum), W16)
           c == to_be(f.typoid, W32)
           d == to_be(f.typlen, W16)
           e == to_be(f.typmod, W32)
           h == to_be(0, W16)
<1>0. W16 \in Nat /\ W32 \in Nat /\ z \in Nat /\ f.name \in Seq(Byte)
  BY FieldHolds, Widths
<1>1. /\ OrZero(f.reloid) \in Int /\ OrZero(f.attnum) \in Int /\ f.typoid \in Int
      /\ f.typlen \in Int /\ f.typmod \in Int /\ 0 \in Int
  BY FieldHolds, Widths DEF U16, U32, I16, I32
<1>2. /\ a \in Seq(Byte) /\ Len(a) = W32 /\ b \in Seq(Byte) /\ Len(b) = W16 /\ c \in Seq(Byte) /\ Len(c) = W32
      /\ d \in Seq(Byte) /\ Len(d) = W16 /\ e \in Seq(Byte) /\ Len(e) = W32 /\ h \in Seq(Byte) /\ Len(h) = W16
  BY <1>0, <1>1, ToBe
<1>3. u(1) = ZeroEnded(f.name) /\ u(1) \in Seq(Byte) /\ Len(u(1)) = z
  BY <1>0, CstrBytes DEF FieldUpTo
<1>4. /\ u(2) = u(1) \o a /\ u(3) = u(2) \o b /\ u(4) = u(3) \o c
      /\ u(5) = u(4) \o d /\ u(6) = u(5) \o e
  BY DEF FieldUpTo
<1>5. FieldDesc(f) = u(6) \o h
  <2>1. ser_cstr(<<>>, f.name) = ZeroEnded(f.name)
    <3>1. <<>> \in Seq(Byte) /\ <<>> \o ZeroEnded(f.name) = ZeroEnded(f.name)
      BY <1>0, CstrBytes, ConcatEmptySeq
    <3> QED
      BY <1>0, <3>1, CstrBytes
  <2> QED
    BY <2>1 DEF FieldDesc, FieldUpTo, ser_be_u32, ser_be_u16, ser_be_i32, ser_be_i16, ser_be, ser
<1> HIDE DEF u, a, b, c, d, e, h, z
<1>6. u(2) \in Seq(Byte) /\ Len(u(2)) = z + W32
  BY <1>2, <1>3, <1>4, Cat
<1>7. u(3) \in Seq(Byte) /\ Len(u(3)) = z + W32 + W16
  BY <1>0, <1>2, <1>4, <1>6, Cat
<1>8. u(4) \in Seq(Byte) /\ Len(u(4)) = z + 2 * W32 + W16
  <2>1. u(4) \in Seq(Byte) /\ Len(u(4)) = Len(u(3)) + W32
    BY <1>2, <1>4, <1>7, Cat
  <2> QED
    BY <1>0, <1>7, <2>1
<1>9. u(5) \in Seq(Byte) /\ Len(u(5)) = z + 2 * W32 + 2 * W16
  <2>1. u(5) \in Seq(Byte) /\ Len(u(5)) = Len(u(4)) + W16
    BY <1>2, <1>4, <1>8, Cat
  <2> QED
    BY <1>0, <1>8, <2>1
<1>10. u(6) \in Seq(Byte) /\ Len(u(6)) = z + 3 * W32 + 2 * W16
  <2>1. u(6) \in Seq(Byte) /\ Len(u(6)) = Len(u(5)) + W32
    BY <1>2, <1>4, <1>9, Cat
  <2> QED
    BY <1>0, <1>9, <2>1
<1>11. u(6) \o h \in Seq(Byte) /\ Len(u(6) \o h) = z + 3 * W32 + 3 * W16
  <2>1. u(6) \o h \in Seq(Byte) /\ Len(u(6) \o h) = Len(u(6)) + W16
    BY <1>2, <1>4, <1>10, Cat
  <2> QED
    BY <1>0, <1>10, <2>1
<1> QED
  BY <1>3, <1>4, <1>5, <1>6, <1>7, <1>8, <1>9, <1>10, <1>11 DEF u, a, b, c, d, e, h, z

\* The bytes of a column.
LEMMA ColumnBytes ==
  ASSUME NEW col \in Col
  PROVE  /\ Column(col) \in Seq(Byte) /\ col.data \in Seq(Byte) /\ col.null \in BOOLEAN
         /\ col = [null |-> col.null, data |-> col.data]
         /\ col.null => col.data = <<>> /\ Column(col) = to_be(-1, W32)
         /\ ~col.null => Column(col) = to_be(Len(col.data), W32) \o col.data
<1>1. /\ col.data \in Seq(Byte) /\ col.null \in BOOLEAN /\ col = [null |-> col.null, data |-> col.data]
      /\ col.null => col.data = <<>>
  <2>1. CASE col \in [null : {TRUE}, data : {<<>>}]
    <3>1. col = [null |-> col.null, data |-> col.data] /\ col.null \in {TRUE} /\ col.data = <<>>
      BY <2>1
    <3>2. <<>> \in Seq(Byte)
      OBVIOUS
    <3> QED
      BY <3>1, <3>2, Zenon
  <2>2. CASE col \in [null : {FALSE}, data : Seq(Byte)]
    <3>1. col = [null |-> col.null, data |-> col.data] /\ col.null \in {FALSE} /\ col.data \in Seq(Byte)
      BY <2>2
    <3> QED
      BY <3>1, Zenon
  <2> QED
    BY <2>1, <2>2 DEF Col
<1>2. to_be(-1, W32) \in Seq(Byte) /\ to_be(Len(col.data), W32) \in Seq(Byte)
  <2>1. -1 \in Int /\ Len(col.data) \in Int
    BY <1>1
  <2> QED
    BY <2>1, Widths, ToBe
<1>3. CASE col.null
  BY <1>1, <1>2, <1>3 DEF Column
<1>4. CASE ~col.null
  <2>1. Column(col) = to_be(Len(col.data), W32) \o col.data
    BY <1>4 DEF Column
  <2> QED
    BY <1>1, <1>2, <1>4, <2>1, Cat
<1> QED
  BY <1>1, <1>3, <1>4

\* The pieces of a row description are bytes, and so is what they make.
LEMMA FieldPartsFlat ==
  ASSUME NEW m \in Message, m.tag = "T"
  PROVE  /\ Len(FieldParts(m)) = Len(m.fields) /\ Len(m.fields) \in Nat
         /\ \A i \in 1..Len(m.fields) : FieldParts(m)[i] = FieldDesc(m.fields[i]) /\ FieldParts(m)[i] \in Seq(Byte)
         /\ \E g : Rows(g, FieldParts(m)) /\ FlattenSeq(FieldParts(m)) = g[Len(m.fields)]
         /\ FlattenSeq(FieldParts(m)) \in Seq(Byte)
<1> DEFINE s == FieldParts(m)
<1>1. m.fields \in Seq(Field) /\ Len(m.fields) \in Nat /\ DOMAIN m.fields = 1..Len(m.fields)
  BY MessageParts
<1>2. s = [i \in 1..Len(m.fields) |-> FieldDesc(m.fields[i])]
  BY <1>1 DEF FieldParts
<1>3. ASSUME NEW i \in 1..Len(m.fields) PROVE FieldDesc(m.fields[i]) \in Seq(Byte)
  <2>1. m.fields[i] \in Field
    BY <1>1
  <2> QED
    BY <2>1, FieldDescParts, Zenon
<1>4. s \in Seq(Seq(Byte)) /\ Len(s) = Len(m.fields)
  BY <1>1, <1>2, <1>3
<1>5. s = [i \in 1..Len(s) |-> s[i]] /\ \A i \in 1..Len(m.fields) : s[i] = FieldDesc(m.fields[i])
  BY <1>2, <1>4
<1> HIDE DEF s
<1>6. \A i \in 1..Len(s) : s[i] \in Seq(Byte)
  BY <1>3, <1>4, <1>5
<1>7. PICK g : Rows(g, s) /\ FlattenSeq(s) = g[Len(s)]
  BY <1>1, <1>4, <1>5, <1>6, FlattenDef
<1>8. g[Len(s)] \in Seq(Byte)
  <2>1. Len(s) \in 0..Len(s)
    BY <1>1, <1>4
  <2>2. g \in [0..Len(s) -> Seq(Byte)]
    BY <1>7 DEF Rows
  <2> QED
    BY <2>1, <2>2, Zenon
<1> QED
  BY <1>1, <1>3, <1>4, <1>5, <1>7, <1>8 DEF s

\* The same for a row.
LEMMA ColPartsFlat ==
  ASSUME NEW m \in Message, m.tag = "D"
  PROVE  /\ Len(ColParts(m)) = Len(m.cols) /\ Len(m.cols) \in Nat
         /\ \A i \in 1..Len(m.cols) : ColParts(m)[i] = Column(m.cols[i]) /\ ColParts(m)[i] \in Seq(Byte)
         /\ \E g : Rows(g, ColParts(m)) /\ FlattenSeq(ColParts(m)) = g[Len(m.cols)]
         /\ FlattenSeq(ColParts(m)) \in Seq(Byte)
<1> DEFINE s == ColParts(m)
<1>1. m.cols \in Seq(Col) /\ Len(m.cols) \in Nat /\ DOMAIN m.cols = 1..Len(m.cols)
  BY MessageParts
<1>2. s = [i \in 1..Len(m.cols) |-> Column(m.cols[i])]
  BY <1>1 DEF ColParts
<1>3. ASSUME NEW i \in 1..Len(m.cols) PROVE Column(m.cols[i]) \in Seq(Byte)
  <2>1. m.cols[i] \in Col
    BY <1>1
  <2> QED
    BY <2>1, ColumnBytes, Zenon
<1>4. s \in Seq(Seq(Byte)) /\ Len(s) = Len(m.cols)
  BY <1>1, <1>2, <1>3
<1>5. s = [i \in 1..Len(s) |-> s[i]] /\ \A i \in 1..Len(m.cols) : s[i] = Column(m.cols[i])
  BY <1>2, <1>4
<1> HIDE DEF s
<1>6. \A i \in 1..Len(s) : s[i] \in Seq(Byte)
  BY <1>3, <1>4, <1>5
<1>7. PICK g : Rows(g, s) /\ FlattenSeq(s) = g[Len(s)]
  BY <1>1, <1>4, <1>5, <1>6, FlattenDef
<1>8. g[Len(s)] \in Seq(Byte)
  <2>1. Len(s) \in 0..Len(s)
    BY <1>1, <1>4
  <2>2. g \in [0..Len(s) -> Seq(Byte)]
    BY <1>7 DEF Rows
  <2> QED
    BY <2>1, <2>2, Zenon
<1> QED
  BY <1>1, <1>3, <1>4, <1>5, <1>7, <1>8 DEF s

\* Whatever the buffer held, serialize leaves the frame of the message in it.
LEMMA SerializeShape ==
  ASSUME NEW m \in Message, NEW out
  PROVE  BodyOf(m) \in Seq(Byte) /\ serialize(m, out) = Framed(m.tag, BodyOf(m))
<1>0a. "R" \in Tag /\ "K" \in Tag /\ "Z" \in Tag /\ "S" \in Tag /\ "C" \in Tag /\ "E" \in Tag /\ "I" \in Tag /\ "T" \in Tag /\ "D" \in Tag
  BY DEF Tag
<1>0. W16 \in Nat /\ W32 \in Nat /\ 0 \in Int
  BY Widths
<1>1. CASE m.tag = "R"
  <2>1. to_be(0, W32) \in Seq(Byte) /\ Len(to_be(0, W32)) = W32
    BY <1>0, ToBe
  <2>2. BodyOf(m) = to_be(0, W32) /\ serialize(m, out) = Fixed(out, "R", 2 * W32) \o to_be(0, W32)
    BY <1>1 DEF BodyOf, serialize, AuthenticationOk, ser_be_u32, ser_be, ser
  <2>3. 2 * W32 = W32 + Len(to_be(0, W32))
    BY <1>0, <2>1
  <2>4. Fixed(out, "R", W32 + Len(to_be(0, W32))) \o to_be(0, W32) = Framed("R", to_be(0, W32))
    BY <1>0a, <2>1, FixedShape
  <2>5. Fixed(out, "R", 2 * W32) \o to_be(0, W32) = Framed("R", to_be(0, W32))
    BY <2>3, <2>4, Zenon
  <2> QED
    BY <1>1, <2>1, <2>2, <2>5
<1>2. CASE m.tag = "I"
  <2>1. BodyOf(m) = <<>> /\ serialize(m, out) = Fixed(out, "I", W32) /\ <<>> \in Seq(Byte)
    BY <1>2 DEF BodyOf, serialize, EmptyQueryResponse
  <2>2. W32 = W32 + Len(<<>>)
    BY <1>0
  <2>3. Fixed(out, "I", W32) \in Seq(Byte) /\ Fixed(out, "I", W32) \o <<>> = Framed("I", <<>>)
    <3>1. /\ Fixed(out, "I", W32 + Len(<<>>)) \in Seq(Byte)
          /\ Fixed(out, "I", W32 + Len(<<>>)) \o <<>> = Framed("I", <<>>)
      BY <1>0a, <2>1, FixedShape
    <3> QED
      BY <2>2, <3>1, Zenon
  <2> QED
    BY <1>2, <2>1, <2>3, ConcatEmptySeq
<1>3. CASE m.tag = "Z"
  <2>1. m.status \in {"I", "T", "E"}
    BY <1>3, MessageParts
  <2>2. ord(m.status) \in Byte
    BY <2>1, OrdLetter
  <2>3. <<ord(m.status)>> \in Seq(Byte) /\ W32 + 1 = W32 + Len(<<ord(m.status)>>)
    BY <1>0, <2>2
  <2>4. Fixed(out, "Z", W32 + 1) \in Seq(Byte)
        /\ Fixed(out, "Z", W32 + 1) \o <<ord(m.status)>> = Framed("Z", <<ord(m.status)>>)
    BY <1>0a, <2>3, FixedShape
  <2>5. BodyOf(m) = <<ord(m.status)>> /\ serialize(m, out) = Append(Fixed(out, "Z", W32 + 1), ord(m.status))
    BY <1>3 DEF BodyOf, serialize, ReadyForQuery
  <2> QED
    BY <1>3, <2>2, <2>3, <2>4, <2>5, AppendIsConcat
<1>4. CASE m.tag = "K"
  <2> DEFINE a == to_be(m.backendid, W32)
             b == to_be(m.key, W32)
  <2>1. m.backendid \in Int /\ m.key \in Int
    BY <1>4, MessageParts, Widths DEF U32
  <2>2. a \in Seq(Byte) /\ Len(a) = W32 /\ b \in Seq(Byte) /\ Len(b) = W32
    BY <1>0, <2>1, ToBe
  <2>3. BodyOf(m) = a \o b /\ serialize(m, out) = (Fixed(out, "K", 3 * W32) \o a) \o b
    BY <1>4 DEF BodyOf, serialize, BackendKeyData, ser_be_u32, ser_be, ser
  <2> HIDE DEF a, b
  <2>4. a \o b \in Seq(Byte) /\ Len(a \o b) = W32 + W32
    BY <2>2, Cat
  <2>5. 3 * W32 = W32 + Len(a \o b)
    BY <1>0, <2>4
  <2>6. Fixed(out, "K", 3 * W32) \in Seq(Byte) /\ Fixed(out, "K", 3 * W32) \o (a \o b) = Framed("K", a \o b)
    <3>1. /\ Fixed(out, "K", W32 + Len(a \o b)) \in Seq(Byte)
          /\ Fixed(out, "K", W32 + Len(a \o b)) \o (a \o b) = Framed("K", a \o b)
      BY <1>0a, <2>4, FixedShape
    <3> QED
      BY <2>5, <3>1, Zenon
  <2> QED
    BY <1>4, <2>2, <2>3, <2>4, <2>6, Assoc
<1>5. CASE m.tag = "C"
  <2>1. m.text \in Seq(Byte)
    BY <1>5, MessageParts
  <2>2. BodyOf(m) = ZeroEnded(m.text) /\ serialize(m, out) = Close(ser_cstr(Open(out, "C"), m.text))
    BY <1>5 DEF BodyOf, serialize, CommandComplete
  <2>3. Open(out, "C") \in Seq(Byte) /\ Close(Open(out, "C") \o ZeroEnded(m.text)) = Framed("C", ZeroEnded(m.text))
    BY <1>0a, <2>1, CstrBytes, CloseShape
  <2> QED
    BY <1>5, <2>1, <2>2, <2>3, CstrBytes
<1>6. CASE m.tag = "S"
  <2>1. m.name \in Seq(Byte) /\ m.value \in Seq(Byte)
    BY <1>6, MessageParts
  <2>2. BodyOf(m) = ZeroEnded(m.name) \o ZeroEnded(m.value)
        /\ serialize(m, out) = Close(ser_cstr(ser_cstr(Open(out, "S"), m.name), m.value))
    BY <1>6 DEF BodyOf, serialize, ParameterStatus
  <2>3. ZeroEnded(m.name) \in Seq(Byte) /\ ZeroEnded(m.value) \in Seq(Byte) /\ ZeroEnded(m.name) \o ZeroEnded(m.value) \in Seq(Byte)
    BY <2>1, CstrBytes, Cat
  <2>4. Open(out, "S") \in Seq(Byte)
        /\ Close(Open(out, "S") \o (ZeroEnded(m.name) \o ZeroEnded(m.value))) = Framed("S", ZeroEnded(m.name) \o ZeroEnded(m.value))
    BY <1>0a, <2>3, CloseShape
  <2>5. ser_cstr(Open(out, "S"), m.name) = Open(out, "S") \o ZeroEnded(m.name)
    BY <2>1, <2>4, CstrBytes
  <2>6. Open(out, "S") \o ZeroEnded(m.name) \in Seq(Byte)
    BY <2>3, <2>4, Cat
  <2>7. ser_cstr(Open(out, "S") \o ZeroEnded(m.name), m.value) = (Open(out, "S") \o ZeroEnded(m.name)) \o ZeroEnded(m.value)
    BY <2>1, <2>6, CstrBytes
  <2>8. (Open(out, "S") \o ZeroEnded(m.name)) \o ZeroEnded(m.value) = Open(out, "S") \o (ZeroEnded(m.name) \o ZeroEnded(m.value))
    BY <2>3, <2>4, Assoc
  <2> QED
    BY <1>6, <2>2, <2>3, <2>4, <2>5, <2>7, <2>8
<1>7. CASE m.tag = "E"
  <2> DEFINE o == Open(out, "E")
             a == ErrPart("S", m.severity)
             b == ErrPart("C", m.code)
             c == ErrPart("M", m.msg)
  <2>1. m.severity \in Seq(Byte) /\ m.code \in Seq(Byte) /\ m.msg \in Seq(Byte)
    BY <1>7, MessageParts
  <2>2. a \in Seq(Byte) /\ b \in Seq(Byte) /\ c \in Seq(Byte) /\ <<0>> \in Seq(Byte) /\ 0 \in Byte
    BY <2>1, ErrPartBytes, CstrBytes, BaseFacts DEF Byte
  <2>3. BodyOf(m) = a \o (b \o (c \o <<0>>)) /\ serialize(m, out) = serialize_errmsg(m, out)
    BY <1>7 DEF BodyOf, serialize
  <2>4. c \o <<0>> \in Seq(Byte)
    BY <2>2, Cat
  <2>5. b \o (c \o <<0>>) \in Seq(Byte)
    BY <2>2, <2>4, Cat
  <2>6. a \o (b \o (c \o <<0>>)) \in Seq(Byte)
    BY <2>2, <2>5, Cat
  <2>7. o \in Seq(Byte) /\ Close(o \o (a \o (b \o (c \o <<0>>)))) = Framed("E", a \o (b \o (c \o <<0>>)))
    BY <1>0a, <2>6, CloseShape
  <2>8. ErrField(o, "S", m.severity) = o \o a /\ o \o a \in Seq(Byte)
    BY <2>1, <2>2, <2>7, ErrPartBytes, Cat
  <2>9. ErrField(o \o a, "C", m.code) = (o \o a) \o b /\ (o \o a) \o b \in Seq(Byte)
    BY <2>1, <2>2, <2>8, ErrPartBytes, Cat
  <2>10. ErrField((o \o a) \o b, "M", m.msg) = ((o \o a) \o b) \o c /\ ((o \o a) \o b) \o c \in Seq(Byte)
    BY <2>1, <2>2, <2>9, ErrPartBytes, Cat
  <2>11. serialize_errmsg(m, out) = Close(Append(((o \o a) \o b) \o c, 0))
    BY <2>8, <2>9, <2>10 DEF serialize_errmsg
  <2> HIDE DEF o, a, b, c
  <2>12. Append(((o \o a) \o b) \o c, 0) = (((o \o a) \o b) \o c) \o <<0>>
    BY <2>2, <2>10, AppendIsConcat
  <2>13. (((o \o a) \o b) \o c) \o <<0>> = ((o \o a) \o b) \o (c \o <<0>>)
    BY <2>2, <2>9, Assoc
  <2>14. ((o \o a) \o b) \o (c \o <<0>>) = (o \o a) \o (b \o (c \o <<0>>))
    BY <2>2, <2>4, <2>8, Assoc
  <2>15. (o \o a) \o (b \o (c \o <<0>>)) = o \o (a \o (b \o (c \o <<0>>)))
    BY <2>2, <2>5, <2>7, Assoc
  <2> QED
    BY <1>7, <2>3, <2>6, <2>7, <2>11, <2>12, <2>13, <2>14, <2>15
<1>8. CASE m.tag = "T"
  <2> DEFINE n == to_be(Len(m.fields), W16)
             x == FlattenSeq(FieldParts(m))
  <2>0. Len(m.fields) \in Int
    BY <1>8, FieldPartsFlat
  <2>1. n \in Seq(Byte)
    BY <1>0, <2>0, ToBe
  <2>2. x \in Seq(Byte)
    BY <1>8, FieldPartsFlat
  <2>3. BodyOf(m) = n \o x /\ serialize(m, out) = Close((Open(out, "T") \o n) \o x)
    BY <1>8 DEF BodyOf, serialize, RowDescription, ser_be_u16, ser_be, ser, FieldParts
  <2> HIDE DEF n, x
  <2>4. n \o x \in Seq(Byte)
    BY <2>1, <2>2, Cat
  <2>5. Open(out, "T") \in Seq(Byte) /\ Close(Open(out, "T") \o (n \o x)) = Framed("T", n \o x)
    BY <1>0a, <2>4, CloseShape
  <2> QED
    BY <1>8, <2>1, <2>2, <2>3, <2>4, <2>5, Assoc
<1>9. CASE m.tag = "D"
  <2> DEFINE n == to_be(Len(m.cols), W16)
             x == FlattenSeq(ColParts(m))
  <2>0. Len(m.cols) \in Int
    BY <1>9, ColPartsFlat
  <2>1. n \in Seq(Byte)
    BY <1>0, <2>0, ToBe
  <2>2. x \in Seq(Byte)
    BY <1>9, ColPartsFlat
  <2>3. BodyOf(m) = n \o x /\ serialize(m, out) = Close((Open(out, "D") \o n) \o x)
    BY <1>9 DEF BodyOf, serialize, DataRow, ser_be_u16, ser_be, ser, ColParts
  <2> HIDE DEF n, x
  <2>4. n \o x \in Seq(Byte)
    BY <2>1, <2>2, Cat
  <2>5. Open(out, "D") \in Seq(Byte) /\ Close(Open(out, "D") \o (n \o x)) = Framed("D", n \o x)
    BY <1>0a, <2>4, CloseShape
  <2> QED
    BY <1>9, <2>1, <2>2, <2>3, <2>4, <2>5, Assoc
<1> QED
  BY <1>1, <1>2, <1>3, <1>4, <1>5, <1>6, <1>7, <1>8, <1>9, MessageParts DEF Tag

-----------------------------------------------------------------------------
(* A reader finds the message in its frame.                                *)

\* Letters differ as bytes.
LEMMA OrdInjective ==
  ASSUME NEW c \in {"R", "K", "Z", "S", "C", "E", "I", "T", "D", "M"},
         NEW d \in {"R", "K", "Z", "S", "C", "E", "I", "T", "D", "M"}, ord(c) = ord(d)
  PROVE  c = d
<1>1. Letters[ord(c)] = c /\ Letters[ord(d)] = d
  BY OrdLetter
<1> QED
  BY <1>1

\* The first byte chooses the format.
LEMMA DecodeByTag ==
  ASSUME NEW t \in Tag, NEW f, At(f, 1) = ord(t)
  PROVE  /\ t \in {"R", "I"} => Decode(f) = [tag |-> t]
         /\ t = "K" => Decode(f) = [tag |-> "K", backendid |-> UInt(f, Hdr, W32), key |-> UInt(f, Hdr + W32, W32)]
         /\ t = "Z" => Decode(f) = [tag |-> "Z", status |-> Letters[At(f, Hdr + 1)]]
         /\ t = "C" => Decode(f) = IF Zero(f, Hdr) = Len(f) THEN [tag |-> "C", text |-> Str(f, Hdr)] ELSE Bad
         /\ t = "S" => Decode(f) = DecodeStatus(f)
         /\ t = "E" => Decode(f) = DecodeErr(f)
         /\ t = "T" => Decode(f) = DecodeFields(f)
         /\ t = "D" => Decode(f) = DecodeRow(f)
<1>1. \A c \in Tag : At(f, 1) = ord(c) <=> c = t
  BY OrdInjective DEF Tag
<1> QED
  BY <1>1 DEF Decode, Tag

\* Strings of a message that can be represented hold no zero.
LEMMA RepresentableStrings ==
  ASSUME NEW m \in Message, Representable(m)
  PROVE  /\ m.tag = "C" => 0 \notin Range(m.text)
         /\ m.tag = "S" => 0 \notin Range(m.name) /\ 0 \notin Range(m.value)
         /\ m.tag = "E" => 0 \notin Range(m.severity) /\ 0 \notin Range(m.code) /\ 0 \notin Range(m.msg)
<1>0. \A f \in {"severity", "code", "msg", "text", "name", "value"} \cap DOMAIN m : 0 \notin Range(m[f])
  BY DEF Representable
<1>1. CASE m.tag = "C"
  <2>1. m = [tag |-> "C", text |-> m.text]
    BY <1>1, MessageParts
  <2>2. "text" \in DOMAIN m
    BY <2>1
  <2> QED
    BY <1>0, <1>1, <2>2
<1>2. CASE m.tag = "S"
  <2>1. m = [tag |-> "S", name |-> m.name, value |-> m.value]
    BY <1>2, MessageParts
  <2>2. "name" \in DOMAIN m /\ "value" \in DOMAIN m
    BY <2>1
  <2> QED
    BY <1>0, <1>2, <2>2
<1>3. CASE m.tag = "E"
  <2>1. m = [tag |-> "E", severity |-> m.severity, code |-> m.code, msg |-> m.msg]
    BY <1>3, MessageParts
  <2>2. "severity" \in DOMAIN m /\ "code" \in DOMAIN m /\ "msg" \in DOMAIN m
    BY <2>1
  <2> QED
    BY <1>0, <1>3, <2>2
<1> QED
  BY <1>1, <1>2, <1>3

\* The messages without rows.
LEMMA DecodePlain ==
  ASSUME NEW m \in Message, Representable(m), m.tag \in {"R", "I", "K", "Z", "C", "S"}
  PROVE  Decode(Framed(m.tag, BodyOf(m))) = m
<1> DEFINE f == Framed(m.tag, BodyOf(m))
           x == BodyOf(m)
<1>0. W32 \in Nat /\ Hdr \in Nat
  BY Widths DEF Hdr
<1>1. x \in Seq(Byte)
  BY SerializeShape
<1>2. /\ f \in Seq(Byte) /\ Len(f) = Hdr + Len(x) /\ At(f, 1) = ord(m.tag) /\ Has(f, Hdr, x)
  <2>1. m.tag \in Tag /\ f = Framed(m.tag, x)
    BY MessageParts
  <2> HIDE DEF f, x
  <2> QED
    BY <1>1, <2>1, FramedParts
<1> HIDE DEF f
<1>3. CASE m.tag \in {"R", "I"}
  <2>1. Decode(f) = [tag |-> m.tag]
    BY <1>2, <1>3, DecodeByTag, MessageParts
  <2> QED
    BY <1>3, <2>1, MessageParts DEF f
<1>4. CASE m.tag = "K"
  <2> DEFINE a == to_be(m.backendid, W32)
             b == to_be(m.key, W32)
  <2>1. m = [tag |-> "K", backendid |-> m.backendid, key |-> m.key] /\ m.backendid \in U32 /\ m.key \in U32
    BY <1>4, MessageParts
  <2>2. m.backendid \in 0..(Pow[W32] - 1) /\ m.key \in 0..(Pow[W32] - 1) /\ m.backendid \in Int /\ m.key \in Int
    BY <2>1, Widths DEF U32
  <2>3. a \in Seq(Byte) /\ Len(a) = W32 /\ b \in Seq(Byte)
    BY <1>0, <2>2, ToBe
  <2>4. x = a \o b
    BY <1>4 DEF BodyOf
  <2> HIDE DEF a, b, x
  <2>5. Has(f, Hdr, a) /\ Has(f, Hdr + W32, b)
    BY <1>0, <1>2, <2>3, <2>4, HasConcat
  <2>6. UInt(f, Hdr, W32) = m.backendid
    BY <1>0, <1>2, <2>2, <2>5, UIntFits DEF a
  <2>7. Hdr + W32 \in Nat /\ UInt(f, Hdr + W32, W32) = m.key
    BY <1>0, <1>2, <2>2, <2>5, UIntFits DEF b
  <2>8. Decode(f) = [tag |-> "K", backendid |-> UInt(f, Hdr, W32), key |-> UInt(f, Hdr + W32, W32)]
    BY <1>2, <1>4, DecodeByTag, MessageParts
  <2>9. Decode(f) = m
    BY <2>1, <2>6, <2>7, <2>8, Zenon
  <2> QED
    BY <2>9 DEF f, x
<1>5. CASE m.tag = "Z"
  <2>1. m = [tag |-> "Z", status |-> m.status] /\ m.status \in {"I", "T", "E"}
    BY <1>5, MessageParts
  <2>2. x = <<ord(m.status)>> /\ Letters[ord(m.status)] = m.status
    BY <1>5, <2>1, OrdLetter DEF BodyOf
  <2>3. Len(x) = 1 /\ x[1] = ord(m.status)
    BY <2>2
  <2> HIDE DEF x
  <2>4. At(f, Hdr + 1) = ord(m.status)
    BY <1>0, <1>2, <2>3 DEF Has, At
  <2>5. Decode(f) = [tag |-> "Z", status |-> Letters[At(f, Hdr + 1)]]
    BY <1>2, <1>5, DecodeByTag, MessageParts
  <2>6. Decode(f) = m
    BY <2>1, <2>2, <2>4, <2>5, Zenon
  <2> QED
    BY <2>6 DEF f, x
<1>6. CASE m.tag = "C"
  <2>1. m = [tag |-> "C", text |-> m.text] /\ m.text \in Seq(Byte)
    BY <1>6, MessageParts
  <2>2. x = m.text \o <<0>> /\ Len(x) = Len(m.text) + 1
    BY <1>6, <2>1, CstrBytes DEF BodyOf, ZeroEnded
  <2> HIDE DEF x
  <2>3. 0 \notin Range(m.text)
    BY <1>6, RepresentableStrings
  <2>4. Zero(f, Hdr) = Hdr + Len(m.text) + 1 /\ Str(f, Hdr) = m.text
    BY <1>0, <1>2, <2>1, <2>2, <2>3, StrReads
  <2>5. Zero(f, Hdr) = Len(f)
    BY <1>0, <1>2, <2>1, <2>2, <2>4
  <2>6. Decode(f) = IF Zero(f, Hdr) = Len(f) THEN [tag |-> "C", text |-> Str(f, Hdr)] ELSE Bad
    BY <1>2, <1>6, DecodeByTag, MessageParts
  <2>7. Decode(f) = m
    BY <2>1, <2>4, <2>5, <2>6, Zenon
  <2> QED
    BY <2>7 DEF f, x
<1>7. CASE m.tag = "S"
  <2> DEFINE z == Hdr + Len(m.name) + 1
  <2>1. /\ m = [tag |-> "S", name |-> m.name, value |-> m.value]
        /\ m.name \in Seq(Byte) /\ m.value \in Seq(Byte)
    BY <1>7, MessageParts
  <2>2. x = ZeroEnded(m.name) \o ZeroEnded(m.value)
    BY <1>7 DEF BodyOf
  <2> HIDE DEF x
  <2>3. 0 \notin Range(m.name) /\ 0 \notin Range(m.value)
    BY <1>7, RepresentableStrings
  <2>4. /\ ZeroEnded(m.name) \in Seq(Byte) /\ Len(ZeroEnded(m.name)) = Len(m.name) + 1
        /\ ZeroEnded(m.value) \in Seq(Byte) /\ Len(ZeroEnded(m.value)) = Len(m.value) + 1
        /\ Len(m.name) \in Nat /\ Len(m.value) \in Nat /\ z \in Nat
    BY <1>0, <2>1, CstrBytes
  <2>5. Has(f, Hdr, ZeroEnded(m.name)) /\ Has(f, z, ZeroEnded(m.value))
    <3>1. Has(f, Hdr, ZeroEnded(m.name)) /\ Has(f, Hdr + Len(ZeroEnded(m.name)), ZeroEnded(m.value))
      BY <1>0, <1>2, <2>2, <2>4, HasConcat
    <3>2. Hdr + Len(ZeroEnded(m.name)) = z
      BY <1>0, <2>4
    <3> QED
      BY <3>1, <3>2
  <2>6. Zero(f, Hdr) = z /\ Str(f, Hdr) = m.name
    BY <1>0, <1>2, <2>1, <2>3, <2>5, StrReads DEF ZeroEnded
  <2>7. Zero(f, z) = z + Len(m.value) + 1 /\ Str(f, z) = m.value
    BY <1>2, <2>1, <2>3, <2>4, <2>5, StrReads DEF ZeroEnded
  <2>8. z + Len(m.value) + 1 = Len(f)
    <3>1. Len(x) = Len(ZeroEnded(m.name)) + Len(ZeroEnded(m.value))
      BY <2>2, <2>4, Cat
    <3>2. Len(f) = Hdr + ((Len(m.name) + 1) + (Len(m.value) + 1))
      BY <1>2, <2>4, <3>1
    <3>3. \A h, a, b \in Nat : (h + a + 1) + b + 1 = h + ((a + 1) + (b + 1))
      OBVIOUS
    <3>4. Hdr \in Nat /\ Len(m.name) \in Nat /\ Len(m.value) \in Nat
      BY <1>0, <2>4
    <3> QED
      BY <3>2, <3>3, <3>4, Zenon
  <2> HIDE DEF z
  <2>9. DecodeStatus(f) = [tag |-> "S", name |-> Str(f, Hdr), value |-> Str(f, z)]
    BY <2>6, <2>7, <2>8, Zenon DEF DecodeStatus
  <2>10. Decode(f) = DecodeStatus(f)
    BY <1>2, <1>7, DecodeByTag, MessageParts
  <2>11. Decode(f) = m
    BY <2>1, <2>6, <2>7, <2>9, <2>10, Zenon
  <2> QED
    BY <2>11 DEF f, x
<1> QED
  BY <1>3, <1>4, <1>5, <1>6, <1>7 DEF f, x

\* One field of an error.
LEMMA ErrPartReads ==
  ASSUME NEW b \in Seq(Byte), NEW p \in Nat, NEW s \in Seq(Byte), NEW c \in {"S", "C", "M"},
         0 \notin Range(s), Has(b, p, ErrPart(c, s))
  PROVE  b[p + 1] = ord(c) /\ Zero(b, p + 1) = p + Len(s) + 2 /\ Str(b, p + 1) = s
<1>1. <<ord(c)>> \in Seq(Byte) /\ Len(<<ord(c)>>) = 1 /\ <<ord(c)>>[1] = ord(c)
  BY ErrPartBytes
<1>2. ZeroEnded(s) \in Seq(Byte) /\ Len(s) \in Nat /\ p + 1 \in Nat
  BY CstrBytes
<1>3. Has(b, p, <<ord(c)>>) /\ Has(b, p + 1, ZeroEnded(s))
  BY <1>1, <1>2, HasConcat DEF ErrPart
<1>4. b[p + 1] = ord(c)
  <2>1. 1 \in 1..Len(<<ord(c)>>)
    BY <1>1
  <2> QED
    BY <1>1, <1>3, <2>1 DEF Has
<1>5. Zero(b, p + 1) = (p + 1) + Len(s) + 1 /\ Str(b, p + 1) = s
  BY <1>2, <1>3, StrReads DEF ZeroEnded
<1>6. (p + 1) + Len(s) + 1 = p + Len(s) + 2
  BY <1>2
<1> QED
  BY <1>4, <1>5, <1>6

\* An error.
LEMMA DecodeError ==
  ASSUME NEW m \in Message, Representable(m), m.tag = "E"
  PROVE  Decode(Framed(m.tag, BodyOf(m))) = m
<1> DEFINE f == Framed(m.tag, BodyOf(m))
           a == ErrPart("S", m.severity)
           b == ErrPart("C", m.code)
           d == ErrPart("M", m.msg)
           i == Len(m.severity)
           j == Len(m.code)
           k == Len(m.msg)
           s == Hdr + i + 2
           c == s + j + 2
           t == c + k + 2
<1>0. Hdr \in Nat
  BY Widths DEF Hdr
<1>1. /\ m = [tag |-> "E", severity |-> m.severity, code |-> m.code, msg |-> m.msg]
      /\ m.severity \in Seq(Byte) /\ m.code \in Seq(Byte) /\ m.msg \in Seq(Byte)
  BY MessageParts
<1>2. 0 \notin Range(m.severity) /\ 0 \notin Range(m.code) /\ 0 \notin Range(m.msg)
  BY RepresentableStrings
<1>3. i \in Nat /\ j \in Nat /\ k \in Nat
  BY <1>1
<1>5. /\ a \in Seq(Byte) /\ Len(a) = i + 2
      /\ b \in Seq(Byte) /\ Len(b) = j + 2
      /\ d \in Seq(Byte) /\ Len(d) = k + 2
  BY <1>1, ErrPartBytes
<1> HIDE DEF i, j, k
<1>4. s \in Nat /\ c \in Nat /\ t \in Nat
  BY <1>0, <1>3
<1>6. <<0>> \in Seq(Byte) /\ Len(<<0>>) = 1 /\ <<0>>[1] = 0
  BY <1>1, CstrBytes
<1>7. BodyOf(m) = a \o (b \o (d \o <<0>>)) /\ BodyOf(m) \in Seq(Byte)
  BY SerializeShape DEF BodyOf
<1>8. /\ f \in Seq(Byte) /\ Len(f) = Hdr + Len(BodyOf(m)) /\ At(f, 1) = ord("E")
      /\ Has(f, Hdr, a \o (b \o (d \o <<0>>)))
  BY <1>7, FramedParts, MessageParts
<1>9. Decode(f) = DecodeErr(f)
  BY <1>8, DecodeByTag, MessageParts
<1> HIDE DEF f, a, b, d
<1>10. d \o <<0>> \in Seq(Byte) /\ Len(d \o <<0>>) = k + 2 + 1
  BY <1>3, <1>5, <1>6, Cat
<1>11. b \o (d \o <<0>>) \in Seq(Byte) /\ Len(b \o (d \o <<0>>)) = (j + 2) + (k + 2 + 1)
  BY <1>3, <1>5, <1>10, Cat
<1>12. Len(BodyOf(m)) = (i + 2) + ((j + 2) + (k + 2 + 1))
  <2>1. Len(a \o (b \o (d \o <<0>>))) = Len(a) + Len(b \o (d \o <<0>>))
    BY <1>5, <1>11, Cat
  <2> QED
    BY <1>3, <1>5, <1>7, <1>11, <2>1
<1>13. Len(f) = t + 1
  BY <1>0, <1>3, <1>8, <1>12
<1>14. Has(f, Hdr, a) /\ Has(f, s, b \o (d \o <<0>>))
  <2>1. Has(f, Hdr, a) /\ Has(f, Hdr + Len(a), b \o (d \o <<0>>))
    BY <1>0, <1>5, <1>8, <1>11, HasConcat
  <2>2. Hdr + Len(a) = s
    BY <1>0, <1>3, <1>5
  <2> QED
    BY <2>1, <2>2
<1>15. Has(f, s, b) /\ Has(f, c, d \o <<0>>)
  <2>1. Has(f, s, b) /\ Has(f, s + Len(b), d \o <<0>>)
    BY <1>4, <1>5, <1>8, <1>10, <1>14, HasConcat
  <2>2. s + Len(b) = c
    BY <1>3, <1>4, <1>5
  <2> QED
    BY <2>1, <2>2
<1>16. Has(f, c, d) /\ Has(f, t, <<0>>)
  <2>1. Has(f, c, d) /\ Has(f, c + Len(d), <<0>>)
    BY <1>4, <1>5, <1>6, <1>8, <1>15, HasConcat
  <2>2. c + Len(d) = t
    BY <1>3, <1>4, <1>5
  <2> QED
    BY <2>1, <2>2
<1> HIDE DEF s, c, t
<1>17. f[t + 1] = 0
  <2>1. 1 \in 1..Len(<<0>>)
    BY <1>6
  <2> QED
    BY <1>6, <1>16, <2>1 DEF Has
<1>18. f[Hdr + 1] = ord("S") /\ Zero(f, Hdr + 1) = s /\ Str(f, Hdr + 1) = m.severity
  BY <1>0, <1>1, <1>2, <1>8, <1>14, ErrPartReads DEF a, s, i
<1>19. f[s + 1] = ord("C") /\ Zero(f, s + 1) = c /\ Str(f, s + 1) = m.code
  BY <1>4, <1>1, <1>2, <1>8, <1>15, ErrPartReads DEF b, c, j
<1>20. f[c + 1] = ord("M") /\ Zero(f, c + 1) = t /\ Str(f, c + 1) = m.msg
  BY <1>4, <1>1, <1>2, <1>8, <1>16, ErrPartReads DEF d, t, k
<1>21. DecodeErr(f) = [tag |-> "E", severity |-> Str(f, Hdr + 1), code |-> Str(f, s + 1), msg |-> Str(f, c + 1)]
  BY <1>13, <1>17, <1>18, <1>19, <1>20, Zenon DEF DecodeErr
<1>22. Decode(f) = m
  BY <1>1, <1>9, <1>18, <1>19, <1>20, <1>21, Zenon
<1> QED
  BY <1>22 DEF f

\* A field of a row description.
LEMMA FieldReads ==
  ASSUME NEW b \in Seq(Byte), NEW p \in Nat, NEW f \in Field, 0 \notin Range(f.name), Has(b, p, FieldDesc(f))
  PROVE  FieldAt(b, p) = f /\ FieldEnd(b, p) = p + Len(FieldDesc(f))
<1> DEFINE n == Len(f.name)
           z == p + n + 1
           u(k) == FieldUpTo(f, k)
<1>0. W16 \in Nat /\ W32 \in Nat /\ n \in Nat /\ z \in Nat /\ f.name \in Seq(Byte)
  BY FieldHolds, Widths
<1>1. /\ OrZero(f.reloid) \in 0..(Pow[W32] - 1) /\ OrZero(f.attnum) \in 0..(Pow[W16] - 1)
      /\ f.typoid \in 0..(Pow[W32] - 1) /\ f.typlen \in Int /\ f.typmod \in Int
      /\ -Pow[W16] <= 2 * f.typlen /\ 2 * f.typlen < Pow[W16]
      /\ -Pow[W32] <= 2 * f.typmod /\ 2 * f.typmod < Pow[W32]
  <2>1. OrZero(f.reloid) \in U32 /\ OrZero(f.attnum) \in U16 /\ f.typoid \in U32 /\ f.typlen \in I16 /\ f.typmod \in I32
    BY FieldHolds
  <2>2. f.typlen \in Int /\ f.typmod \in Int
    BY <2>1, Widths DEF I16, I32
  <2> QED
    BY <2>1, <2>2, Zenon DEF U16, U32, I16, I32
<1>2. OrZero(f.reloid) \in Int /\ OrZero(f.attnum) \in Int /\ f.typoid \in Int /\ 0 \in Int
  BY <1>1, Widths
<1>3. /\ u(1) = ZeroEnded(f.name) /\ u(1) \in Seq(Byte) /\ Len(u(1)) = n + 1
      /\ u(2) = u(1) \o to_be(OrZero(f.reloid), W32) /\ u(2) \in Seq(Byte) /\ Len(u(2)) = (n + 1) + W32
      /\ u(3) = u(2) \o to_be(OrZero(f.attnum), W16) /\ u(3) \in Seq(Byte) /\ Len(u(3)) = (n + 1) + W32 + W16
      /\ u(4) = u(3) \o to_be(f.typoid, W32) /\ u(4) \in Seq(Byte) /\ Len(u(4)) = (n + 1) + 2 * W32 + W16
      /\ u(5) = u(4) \o to_be(f.typlen, W16) /\ u(5) \in Seq(Byte) /\ Len(u(5)) = (n + 1) + 2 * W32 + 2 * W16
      /\ u(6) = u(5) \o to_be(f.typmod, W32) /\ u(6) \in Seq(Byte) /\ Len(u(6)) = (n + 1) + 3 * W32 + 2 * W16
      /\ FieldDesc(f) = u(6) \o to_be(0, W16)
      /\ Len(FieldDesc(f)) = (n + 1) + 3 * W32 + 3 * W16
  BY FieldDescParts
<1>4. /\ to_be(OrZero(f.reloid), W32) \in Seq(Byte) /\ to_be(OrZero(f.attnum), W16) \in Seq(Byte)
      /\ to_be(f.typoid, W32) \in Seq(Byte) /\ to_be(f.typlen, W16) \in Seq(Byte)
      /\ to_be(f.typmod, W32) \in Seq(Byte) /\ to_be(0, W16) \in Seq(Byte)
  BY <1>0, <1>1, <1>2, ToBe
<1> HIDE DEF u, n
<1>5. Has(b, p, u(6))
  <2>1. Has(b, p, u(6) \o to_be(0, W16)) /\ u(6) \in Seq(Byte)
    BY <1>3, Zenon
  <2> QED
    BY <1>4, <2>1, HasConcat
<1>6. Has(b, p, u(5)) /\ Has(b, p + Len(u(5)), to_be(f.typmod, W32))
  <2>1. Has(b, p, u(5) \o to_be(f.typmod, W32)) /\ u(5) \in Seq(Byte)
    BY <1>3, <1>5, Zenon
  <2> QED
    BY <1>4, <2>1, HasConcat
<1>7. Has(b, p, u(4)) /\ Has(b, p + Len(u(4)), to_be(f.typlen, W16))
  <2>1. Has(b, p, u(4) \o to_be(f.typlen, W16)) /\ u(4) \in Seq(Byte)
    BY <1>3, <1>6, Zenon
  <2> QED
    BY <1>4, <2>1, HasConcat
<1>8. Has(b, p, u(3)) /\ Has(b, p + Len(u(3)), to_be(f.typoid, W32))
  <2>1. Has(b, p, u(3) \o to_be(f.typoid, W32)) /\ u(3) \in Seq(Byte)
    BY <1>3, <1>7, Zenon
  <2> QED
    BY <1>4, <2>1, HasConcat
<1>9. Has(b, p, u(2)) /\ Has(b, p + Len(u(2)), to_be(OrZero(f.attnum), W16))
  <2>1. Has(b, p, u(2) \o to_be(OrZero(f.attnum), W16)) /\ u(2) \in Seq(Byte)
    BY <1>3, <1>8, Zenon
  <2> QED
    BY <1>4, <2>1, HasConcat
<1>10. Has(b, p, u(1)) /\ Has(b, p + Len(u(1)), to_be(OrZero(f.reloid), W32))
  <2>1. Has(b, p, u(1) \o to_be(OrZero(f.reloid), W32)) /\ u(1) \in Seq(Byte)
    BY <1>3, <1>9, Zenon
  <2> QED
    BY <1>4, <2>1, HasConcat
<1>11. Zero(b, p) = z /\ Str(b, p) = f.name
  <2>1. Has(b, p, f.name \o <<0>>)
    BY <1>3, <1>10, Zenon DEF ZeroEnded
  <2> QED
    BY <1>0, <2>1, StrReads DEF n
<1>12. /\ p + Len(u(1)) = z /\ p + Len(u(2)) = z + W32 /\ p + Len(u(3)) = z + W32 + W16
       /\ p + Len(u(4)) = z + 2 * W32 + W16 /\ p + Len(u(5)) = z + 2 * W32 + 2 * W16
       /\ p + Len(FieldDesc(f)) = z + 3 * W32 + 3 * W16
  <2>1. /\ Len(u(1)) = n + 1 /\ Len(u(2)) = (n + 1) + W32 /\ Len(u(3)) = (n + 1) + W32 + W16
        /\ Len(u(4)) = (n + 1) + 2 * W32 + W16 /\ Len(u(5)) = (n + 1) + 2 * W32 + 2 * W16
        /\ Len(FieldDesc(f)) = (n + 1) + 3 * W32 + 3 * W16
    BY <1>3, Zenon
  <2>2. p + (n + 1) = z /\ p + ((n + 1) + W32) = z + W32 /\ p + ((n + 1) + W32 + W16) = z + W32 + W16
    BY <1>0
  <2>3. /\ p + ((n + 1) + 2 * W32 + W16) = z + 2 * W32 + W16
        /\ p + ((n + 1) + 2 * W32 + 2 * W16) = z + 2 * W32 + 2 * W16
        /\ p + ((n + 1) + 3 * W32 + 3 * W16) = z + 3 * W32 + 3 * W16
    BY <1>0
  <2> QED
    BY <2>1, <2>2, <2>3, Zenon
<1>13. /\ z + W32 \in Nat /\ z + W32 + W16 \in Nat /\ z + 2 * W32 + W16 \in Nat /\ z + 2 * W32 + 2 * W16 \in Nat
  BY <1>0
<1> HIDE DEF z
<1>14. UInt(b, z, W32) = OrZero(f.reloid)
  BY <1>0, <1>1, <1>10, <1>12, UIntFits
<1>15. UInt(b, z + W32, W16) = OrZero(f.attnum)
  BY <1>0, <1>1, <1>9, <1>12, <1>13, UIntFits
<1>16. UInt(b, z + W32 + W16, W32) = f.typoid
  BY <1>0, <1>1, <1>8, <1>12, <1>13, UIntFits
<1>17. SInt(b, z + 2 * W32 + W16, W16) = f.typlen
  BY <1>0, <1>1, <1>7, <1>12, <1>13, SIntFits
<1>18. SInt(b, z + 2 * W32 + 2 * W16, W32) = f.typmod
  BY <1>0, <1>1, <1>6, <1>12, <1>13, SIntFits
<1>19. FieldAt(b, p) = [name |-> f.name, reloid |-> f.reloid, attnum |-> f.attnum,
                        typoid |-> f.typoid, typlen |-> f.typlen, typmod |-> f.typmod]
  <2>1. OptOf(OrZero(f.reloid)) = f.reloid /\ OptOf(OrZero(f.attnum)) = f.attnum
    BY FieldHolds
  <2> QED
    BY <1>11, <1>14, <1>15, <1>16, <1>17, <1>18, <2>1, Zenon DEF FieldAt
<1>20. FieldAt(b, p) = f
  BY <1>19, FieldHolds, Zenon
<1>21. FieldEnd(b, p) = p + Len(FieldDesc(f))
  BY <1>11, <1>12, Zenon DEF FieldEnd
<1> QED
  BY <1>20, <1>21

\* A column of a row: NULL is told from an empty value.
LEMMA ColumnReads ==
  ASSUME NEW b \in Seq(Byte), NEW p \in Nat, NEW col \in Col, 2 * Len(col.data) < Pow[W32], Has(b, p, Column(col))
  PROVE  ColAt(b, p) = col /\ ColEnd(b, p) = p + Len(Column(col))
<1>0. W32 \in Nat /\ Pow[W32] \in Nat /\ Pow[W32] >= 2
  <2>1. W32 \in Nat /\ W32 - 1 \in Nat /\ W32 = (W32 - 1) + 1
    BY Widths
  <2>2. Pow[W32] = Base * Pow[W32 - 1] /\ Pow[W32 - 1] \in Nat /\ Pow[W32 - 1] > 0
    BY <2>1, PowDef, PowPos
  <2>3. \A x, y \in Nat : x > 10 /\ y > 0 => x * y \in Nat /\ x * y >= 2
    <3> SUFFICES ASSUME NEW x \in Nat, NEW y \in Nat, x > 10, y > 0 PROVE x * y \in Nat /\ x * y >= 2
      OBVIOUS
    <3>1. x * y >= x * 1
      OBVIOUS
    <3> QED
      BY <3>1
  <2> QED
    BY <2>1, <2>2, <2>3, BaseFacts
<1>1. /\ col.data \in Seq(Byte) /\ col = [null |-> col.null, data |-> col.data] /\ Len(col.data) \in Nat
      /\ col.null \in BOOLEAN
  <2>1. col.data \in Seq(Byte) /\ col = [null |-> col.null, data |-> col.data] /\ col.null \in BOOLEAN
    BY ColumnBytes, Zenon
  <2>2. Len(col.data) \in Nat
    BY <2>1
  <2> QED
    BY <2>1, <2>2, Zenon
<1>2. CASE col.null
  <2>1. col.data = <<>> /\ Column(col) = to_be(-1, W32) /\ col.null = TRUE
    BY <1>1, <1>2, ColumnBytes, Zenon
  <2>2. -1 \in Int /\ -Pow[W32] <= 2 * (-1) /\ 2 * (-1) < Pow[W32]
    BY <1>0
  <2>3. SInt(b, p, W32) = -1
    BY <1>0, <2>1, <2>2, SIntFits
  <2>4. Len(Column(col)) = W32
    BY <1>0, <2>1, <2>2, ToBe
  <2>5. SInt(b, p, W32) < 0
    BY <2>3
  <2>6. ColAt(b, p) = [null |-> TRUE, data |-> <<>>]
    BY <2>5 DEF ColAt
  <2>7. ColEnd(b, p) = p + W32 + 0
    BY <2>5 DEF ColEnd
  <2>8. p + W32 + 0 = p + W32
    BY <1>0
  <2> QED
    BY <1>1, <2>1, <2>4, <2>6, <2>7, <2>8, Zenon
<1>3. CASE ~col.null
  <2> DEFINE n == Len(col.data)
             a == to_be(n, W32)
  <2>1. Column(col) = a \o col.data /\ col.null = FALSE
    BY <1>1, <1>3, ColumnBytes, Zenon
  <2>2. n \in Nat /\ n \in Int /\ -Pow[W32] <= 2 * n /\ 2 * n < Pow[W32]
    BY <1>0, <1>1
  <2>3. a \in Seq(Byte) /\ Len(a) = W32
    BY <1>0, <2>2, ToBe
  <2>4. Has(b, p, a) /\ Has(b, p + W32, col.data)
    <3> HIDE DEF a
    <3> QED
      BY <1>1, <2>1, <2>3, HasConcat
  <2>5. SInt(b, p, W32) = n
    BY <1>0, <2>2, <2>4, SIntFits
  <2>6. Len(Column(col)) = W32 + n
    <3> HIDE DEF a
    <3> QED
      BY <1>1, <2>1, <2>3, Cat
  <2> HIDE DEF n
  <2>7. ~(SInt(b, p, W32) < 0)
    BY <2>2, <2>5
  <2>8. ColEnd(b, p) = p + W32 + n
    BY <2>5, <2>7, Zenon DEF ColEnd
  <2>9. p + (W32 + n) = p + W32 + n /\ p + W32 \in Nat
    BY <1>0, <2>2
  <2>10. SubSeq(b, p + W32 + 1, p + W32 + n) = col.data
    BY <1>1, <2>4, <2>9, HasPart DEF n
  <2>11. ColAt(b, p) = [null |-> FALSE, data |-> SubSeq(b, p + W32 + 1, ColEnd(b, p))]
    BY <2>7, Zenon DEF ColAt
  <2>12. ColAt(b, p) = col
    BY <1>1, <2>1, <2>8, <2>10, <2>11, Zenon
  <2>13. ColEnd(b, p) = p + Len(Column(col))
    BY <2>6, <2>8, <2>9
  <2> QED
    BY <2>12, <2>13
<1> QED
  BY <1>2, <1>3

\* A row description.
LEMMA DecodeRowDescription ==
  ASSUME NEW m \in Message, Representable(m), m.tag = "T"
  PROVE  Decode(Framed(m.tag, BodyOf(m))) = m
<1> DEFINE f == Framed(m.tag, BodyOf(m))
           n == Len(m.fields)
           s == FieldParts(m)
           w == to_be(n, W16)
           p == Hdr + W16
           Is(h) == h = [i \in 0..n |-> IF i = 0 THEN p ELSE FieldEnd(f, h[i - 1])]
<1>0. W16 \in Nat /\ Hdr \in Nat /\ p \in Nat
  BY Widths DEF Hdr
<1>1. m = [tag |-> "T", fields |-> m.fields] /\ m.fields \in Seq(Field) /\ n \in Nat
  BY MessageParts
<1>2. n \in 0..(Pow[W16] - 1) /\ \A i \in 1..n : 0 \notin Range(m.fields[i].name)
  BY <1>1, Widths DEF Representable
<1>3. Len(s) = n /\ \A i \in 1..n : s[i] = FieldDesc(m.fields[i]) /\ s[i] \in Seq(Byte)
  BY FieldPartsFlat
<1>4. PICK g : Rows(g, s) /\ FlattenSeq(s) = g[n]
  BY FieldPartsFlat
<1>5. FlattenSeq(s) \in Seq(Byte)
  BY FieldPartsFlat
<1>6. w \in Seq(Byte) /\ Len(w) = W16
  <2>1. n \in Int
    BY <1>1
  <2> HIDE DEF n
  <2> QED
    BY <1>0, <2>1, ToBe
<1>7. BodyOf(m) = w \o g[n] /\ BodyOf(m) \in Seq(Byte)
  BY <1>4, SerializeShape DEF BodyOf
<1>8. f \in Seq(Byte) /\ Len(f) = Hdr + Len(BodyOf(m)) /\ At(f, 1) = ord("T") /\ Has(f, Hdr, w \o g[n])
  BY <1>7, FramedParts, MessageParts
<1>9. Decode(f) = DecodeFields(f)
  BY <1>8, DecodeByTag, MessageParts
<1> HIDE DEF f, w, s, n
<1>10. Has(f, Hdr, w) /\ Has(f, p, g[n])
  <2>1. g[n] \in Seq(Byte)
    BY <1>4, <1>5
  <2> QED
    BY <1>0, <1>6, <1>8, <2>1, HasConcat
<1>10a. p \in Nat
  BY <1>0
<1> HIDE DEF p
<1>11. UInt(f, Hdr, W16) = n
  BY <1>0, <1>2, <1>8, <1>10, UIntFits DEF w
<1>12. \A i \in 1..n : Has(f, p + Len(g[i - 1]), s[i]) /\ Len(g[i]) = Len(g[i - 1]) + Len(s[i])
  BY <1>10a, <1>1, <1>3, <1>4, <1>8, <1>10, RowsHas
<1>13. \A i \in 0..n : g[i] \in Seq(Byte) /\ Len(g[i]) \in Nat
  <2>1. g \in [0..n -> Seq(Byte)]
    BY <1>3, <1>4, Zenon DEF Rows
  <2> QED
    BY <2>1
<1>14. g[0] = <<>> /\ Len(g[0]) = 0
  BY <1>4 DEF Rows
<1>15. ASSUME NEW i \in 1..n
       PROVE  FieldAt(f, p + Len(g[i - 1])) = m.fields[i] /\ FieldEnd(f, p + Len(g[i - 1])) = p + Len(g[i])
  <2>1. m.fields[i] \in Field /\ 0 \notin Range(m.fields[i].name) /\ i - 1 \in 0..n
    BY <1>1, <1>2 DEF n
  <2>2. p + Len(g[i - 1]) \in Nat /\ Has(f, p + Len(g[i - 1]), FieldDesc(m.fields[i]))
    BY <1>10a, <1>3, <1>12, <1>13, <2>1
  <2>3. /\ FieldAt(f, p + Len(g[i - 1])) = m.fields[i]
        /\ FieldEnd(f, p + Len(g[i - 1])) = (p + Len(g[i - 1])) + Len(s[i])
    <3>1. f \in Seq(Byte) /\ s[i] = FieldDesc(m.fields[i])
      BY <1>3, <1>8
    <3>2. /\ FieldAt(f, p + Len(g[i - 1])) = m.fields[i]
          /\ FieldEnd(f, p + Len(g[i - 1])) = (p + Len(g[i - 1])) + Len(FieldDesc(m.fields[i]))
      BY <2>1, <2>2, <3>1, FieldReads
    <3> QED
      BY <3>1, <3>2, Zenon
  <2>4. Len(s[i]) \in Nat /\ Len(g[i - 1]) \in Nat
    BY <1>3, <1>13, <2>1
  <2>5. (p + Len(g[i - 1])) + Len(s[i]) = p + Len(g[i])
    <3>1. Len(g[i]) = Len(g[i - 1]) + Len(s[i])
      BY <1>12
    <3>2. \A x, y \in Nat : (p + x) + y = p + (x + y)
      BY <1>10a
    <3> QED
      BY <2>4, <3>1, <3>2, Zenon
  <2> QED
    BY <2>3, <2>5
<1> DEFINE q == [i \in 0..n |-> p + Len(g[i])]
<1>16. Is(q)
  <2>1. \A i \in 0..n : q[i] = IF i = 0 THEN p ELSE FieldEnd(f, q[i - 1])
    <3> TAKE i \in 0..n
    <3>1. CASE i = 0
      <4>1. p + Len(g[0]) = p /\ 0 \in 0..n
        BY <1>1, <1>10a, <1>14
      <4> QED
        BY <3>1, <4>1
    <3>2. CASE i # 0
      <4>1. i \in 1..n /\ i - 1 \in 0..n
        BY <1>1, <3>2
      <4> QED
        BY <1>15, <3>2, <4>1
    <3> QED
      BY <3>1, <3>2
  <2>2. q = [i \in 0..n |-> q[i]]
    BY Zenon
  <2> HIDE DEF q
  <2> QED
    BY <2>1, <2>2
<1>17. \A i \in 0..n : q[i] = p + Len(g[i])
  OBVIOUS
<1> HIDE DEF Is, q
<1>18. ASSUME NEW h, Is(h) PROVE \A k \in Nat : k <= n => h[k] = q[k]
  <2> DEFINE T == {k \in Nat : k <= n => h[k] = q[k]}
  <2>1. 0 \in T
    BY <1>1, <1>16, <1>18 DEF Is
  <2>2. ASSUME NEW k \in Nat, k \in T PROVE (k + 1) \in T
    <3>1. SUFFICES ASSUME k + 1 <= n PROVE h[k + 1] = q[k + 1]
      OBVIOUS
    <3>2. k + 1 \in 0..n /\ k + 1 # 0 /\ (k + 1) - 1 = k /\ k <= n
      BY <1>1, <3>1
    <3>3. h[k + 1] = FieldEnd(f, h[k]) /\ q[k + 1] = FieldEnd(f, q[k])
      BY <1>16, <1>18, <3>2 DEF Is
    <3> QED
      BY <2>2, <3>2, <3>3
  <2>3. \A k \in Nat : k \in T
    <3> HIDE DEF T
    <3> QED
      BY <2>1, <2>2, NatSetInduction
  <2> QED
    BY <2>3
<1> DEFINE h == CHOOSE h : Is(h)
<1>19. Is(h)
  BY <1>16
<1>20. DecodeFields(f) = IF h[n] = Len(f) THEN [tag |-> "T", fields |-> [i \in 1..n |-> FieldAt(f, h[i - 1])]] ELSE Bad
  BY <1>11 DEF DecodeFields, Is, p
<1> HIDE DEF h
<1>21. h[n] = Len(f)
  <2>1. h[n] = p + Len(g[n])
    BY <1>1, <1>17, <1>18, <1>19
  <2>2. Len(BodyOf(m)) = W16 + Len(g[n]) /\ Len(g[n]) \in Nat
    BY <1>1, <1>6, <1>7, <1>13, Cat
  <2>3. Len(f) = Hdr + (W16 + Len(g[n]))
    BY <1>8, <2>2
  <2>4. \A x \in Nat : (Hdr + W16) + x = Hdr + (W16 + x)
    BY <1>0
  <2> QED
    BY <2>1, <2>2, <2>3, <2>4 DEF p
<1>22. \A i \in 1..n : FieldAt(f, h[i - 1]) = m.fields[i]
  <2> TAKE i \in 1..n
  <2>1. i - 1 \in Nat /\ i - 1 <= n /\ i - 1 \in 0..n
    BY <1>1
  <2>2. h[i - 1] = p + Len(g[i - 1])
    BY <1>17, <1>18, <1>19, <2>1
  <2> QED
    BY <1>15, <2>2
<1>23. [i \in 1..n |-> FieldAt(f, h[i - 1])] = m.fields
  <2>1. m.fields = [i \in 1..n |-> m.fields[i]]
    BY <1>1 DEF n
  <2> QED
    BY <1>22, <2>1
<1>24. Decode(f) = m
  BY <1>1, <1>9, <1>20, <1>21, <1>23, Zenon
<1> QED
  BY <1>24 DEF f

\* A row.
LEMMA DecodeDataRow ==
  ASSUME NEW m \in Message, Representable(m), m.tag = "D"
  PROVE  Decode(Framed(m.tag, BodyOf(m))) = m
<1> DEFINE f == Framed(m.tag, BodyOf(m))
           n == Len(m.cols)
           s == ColParts(m)
           w == to_be(n, W16)
           p == Hdr + W16
           Is(h) == h = [i \in 0..n |-> IF i = 0 THEN p ELSE ColEnd(f, h[i - 1])]
<1>0. W16 \in Nat /\ Hdr \in Nat /\ p \in Nat
  BY Widths DEF Hdr
<1>1. m = [tag |-> "D", cols |-> m.cols] /\ m.cols \in Seq(Col) /\ n \in Nat
  BY MessageParts
<1>2. n \in 0..(Pow[W16] - 1) /\ \A i \in 1..n : 2 * Len(m.cols[i].data) < Pow[W32]
  BY <1>1, Widths DEF Representable
<1>3. Len(s) = n /\ \A i \in 1..n : s[i] = Column(m.cols[i]) /\ s[i] \in Seq(Byte)
  BY ColPartsFlat
<1>4. PICK g : Rows(g, s) /\ FlattenSeq(s) = g[n]
  BY ColPartsFlat
<1>5. FlattenSeq(s) \in Seq(Byte)
  BY ColPartsFlat
<1>6. w \in Seq(Byte) /\ Len(w) = W16
  <2>1. n \in Int
    BY <1>1
  <2> HIDE DEF n
  <2> QED
    BY <1>0, <2>1, ToBe
<1>7. BodyOf(m) = w \o g[n] /\ BodyOf(m) \in Seq(Byte)
  BY <1>4, SerializeShape DEF BodyOf
<1>8. f \in Seq(Byte) /\ Len(f) = Hdr + Len(BodyOf(m)) /\ At(f, 1) = ord("D") /\ Has(f, Hdr, w \o g[n])
  BY <1>7, FramedParts, MessageParts
<1>9. Decode(f) = DecodeRow(f)
  BY <1>8, DecodeByTag, MessageParts
<1> HIDE DEF f, w, s, n
<1>10. Has(f, Hdr, w) /\ Has(f, p, g[n])
  <2>1. g[n] \in Seq(Byte)
    BY <1>4, <1>5
  <2> QED
    BY <1>0, <1>6, <1>8, <2>1, HasConcat
<1>10a. p \in Nat
  BY <1>0
<1> HIDE DEF p
<1>11. UInt(f, Hdr, W16) = n
  BY <1>0, <1>2, <1>8, <1>10, UIntFits DEF w
<1>12. \A i \in 1..n : Has(f, p + Len(g[i - 1]), s[i]) /\ Len(g[i]) = Len(g[i - 1]) + Len(s[i])
  BY <1>10a, <1>1, <1>3, <1>4, <1>8, <1>10, RowsHas
<1>13. \A i \in 0..n : g[i] \in Seq(Byte) /\ Len(g[i]) \in Nat
  <2>1. g \in [0..n -> Seq(Byte)]
    BY <1>3, <1>4, Zenon DEF Rows
  <2> QED
    BY <2>1
<1>14. g[0] = <<>> /\ Len(g[0]) = 0
  BY <1>4 DEF Rows
<1>15. ASSUME NEW i \in 1..n
       PROVE  ColAt(f, p + Len(g[i - 1])) = m.cols[i] /\ ColEnd(f, p + Len(g[i - 1])) = p + Len(g[i])
  <2>1. m.cols[i] \in Col /\ 2 * Len(m.cols[i].data) < Pow[W32] /\ i - 1 \in 0..n
    BY <1>1, <1>2 DEF n
  <2>2. p + Len(g[i - 1]) \in Nat /\ Has(f, p + Len(g[i - 1]), Column(m.cols[i]))
    BY <1>10a, <1>3, <1>12, <1>13, <2>1
  <2>3. /\ ColAt(f, p + Len(g[i - 1])) = m.cols[i]
        /\ ColEnd(f, p + Len(g[i - 1])) = (p + Len(g[i - 1])) + Len(s[i])
    <3>1. f \in Seq(Byte) /\ s[i] = Column(m.cols[i])
      BY <1>3, <1>8
    <3>2. /\ ColAt(f, p + Len(g[i - 1])) = m.cols[i]
          /\ ColEnd(f, p + Len(g[i - 1])) = (p + Len(g[i - 1])) + Len(Column(m.cols[i]))
      BY <2>1, <2>2, <3>1, ColumnReads
    <3> QED
      BY <3>1, <3>2, Zenon
  <2>4. Len(s[i]) \in Nat /\ Len(g[i - 1]) \in Nat
    BY <1>3, <1>13, <2>1
  <2>5. (p + Len(g[i - 1])) + Len(s[i]) = p + Len(g[i])
    <3>1. Len(g[i]) = Len(g[i - 1]) + Len(s[i])
      BY <1>12
    <3>2. \A x, y \in Nat : (p + x) + y = p + (x + y)
      BY <1>10a
    <3> QED
      BY <2>4, <3>1, <3>2, Zenon
  <2> QED
    BY <2>3, <2>5
<1> DEFINE q == [i \in 0..n |-> p + Len(g[i])]
<1>16. Is(q)
  <2>1. \A i \in 0..n : q[i] = IF i = 0 THEN p ELSE ColEnd(f, q[i - 1])
    <3> TAKE i \in 0..n
    <3>1. CASE i = 0
      <4>1. p + Len(g[0]) = p /\ 0 \in 0..n
        BY <1>1, <1>10a, <1>14
      <4> QED
        BY <3>1, <4>1
    <3>2. CASE i # 0
      <4>1. i \in 1..n /\ i - 1 \in 0..n
        BY <1>1, <3>2
      <4> QED
        BY <1>15, <3>2, <4>1
    <3> QED
      BY <3>1, <3>2
  <2>2. q = [i \in 0..n |-> q[i]]
    BY Zenon
  <2> HIDE DEF q
  <2> QED
    BY <2>1, <2>2
<1>17. \A i \in 0..n : q[i] = p + Len(g[i])
  OBVIOUS
<1> HIDE DEF Is, q
<1>18. ASSUME NEW h, Is(h) PROVE \A k \in Nat : k <= n => h[k] = q[k]
  <2> DEFINE T == {k \in Nat : k <= n => h[k] = q[k]}
  <2>1. 0 \in T
    BY <1>1, <1>16, <1>18 DEF Is
  <2>2. ASSUME NEW k \in Nat, k \in T PROVE (k + 1) \in T
    <3>1. SUFFICES ASSUME k + 1 <= n PROVE h[k + 1] = q[k + 1]
      OBVIOUS
    <3>2. k + 1 \in 0..n /\ k + 1 # 0 /\ (k + 1) - 1 = k /\ k <= n
      BY <1>1, <3>1
    <3>3. h[k + 1] = ColEnd(f, h[k]) /\ q[k + 1] = ColEnd(f, q[k])
      BY <1>16, <1>18, <3>2 DEF Is
    <3> QED
      BY <2>2, <3>2, <3>3
  <2>3. \A k \in Nat : k \in T
    <3> HIDE DEF T
    <3> QED
      BY <2>1, <2>2, NatSetInduction
  <2> QED
    BY <2>3
<1> DEFINE h == CHOOSE h : Is(h)
<1>19. Is(h)
  BY <1>16
<1>20. DecodeRow(f) = IF h[n] = Len(f) THEN [tag |-> "D", cols |-> [i \in 1..n |-> ColAt(f, h[i - 1])]] ELSE Bad
  BY <1>11 DEF DecodeRow, Is, p
<1> HIDE DEF h
<1>21. h[n] = Len(f)
  <2>1. h[n] = p + Len(g[n])
    BY <1>1, <1>17, <1>18, <1>19
  <2>2. Len(BodyOf(m)) = W16 + Len(g[n]) /\ Len(g[n]) \in Nat
    BY <1>1, <1>6, <1>7, <1>13, Cat
  <2>3. Len(f) = Hdr + (W16 + Len(g[n]))
    BY <1>8, <2>2
  <2>4. \A x \in Nat : (Hdr + W16) + x = Hdr + (W16 + x)
    BY <1>0
  <2> QED
    BY <2>1, <2>2, <2>3, <2>4 DEF p
<1>22. \A i \in 1..n : ColAt(f, h[i - 1]) = m.cols[i]
  <2> TAKE i \in 1..n
  <2>1. i - 1 \in Nat /\ i - 1 <= n /\ i - 1 \in 0..n
    BY <1>1
  <2>2. h[i - 1] = p + Len(g[i - 1])
    BY <1>17, <1>18, <1>19, <2>1
  <2> QED
    BY <1>15, <2>2
<1>23. [i \in 1..n |-> ColAt(f, h[i - 1])] = m.cols
  <2>1. m.cols = [i \in 1..n |-> m.cols[i]]
    BY <1>1 DEF n
  <2> QED
    BY <1>22, <2>1
<1>24. Decode(f) = m
  BY <1>1, <1>9, <1>20, <1>21, <1>23, Zenon
<1> QED
  BY <1>24 DEF f

\* A message that can be represented is read from its frame.
LEMMA DecodeFramed ==
  ASSUME NEW m \in Message, Representable(m)
  PROVE  Decode(Framed(m.tag, BodyOf(m))) = m
  BY DecodePlain, DecodeError, DecodeRowDescription, DecodeDataRow, MessageParts DEF Tag

-----------------------------------------------------------------------------
(* The stream.                                                             *)

\* The frame of a message, and the frames of a stream that start at o.
FrameOf(m) == Framed(m.tag, BodyOf(m))

Laid(o, b, s) ==
  /\ o \in [0..Len(s) -> Nat] /\ o[0] = 0 /\ o[Len(s)] = Len(b)
  /\ \A i \in 1..Len(s) : o[i] = o[i - 1] + s[i].size /\ Has(b, o[i - 1], FrameOf(s[i].msg))

\* The record of what was written.
Sent == [msg : Message, size : Nat]

Recorded == sent \in Seq(Sent) /\ \A i \in 1..Len(sent) : sent[i].size = Len(FrameOf(sent[i].msg))

\* The inductive invariant: the stream is the frames of the messages, in order.
WInv == WTypeOK /\ Recorded /\ \E o : Laid(o, wire, sent)

\* Frames are bytes.
LEMMA FrameBytes ==
  ASSUME NEW m \in Message
  PROVE  /\ FrameOf(m) \in Seq(Byte) /\ Len(FrameOf(m)) \in Nat /\ Len(FrameOf(m)) > 0
         /\ FrameOf(m)[1] = ord(m.tag)
         /\ Has(FrameOf(m), 1, to_be(Len(FrameOf(m)) - 1, W32))
         /\ \A out : serialize(m, out) = FrameOf(m)
<1>1. BodyOf(m) \in Seq(Byte) /\ m.tag \in Tag
  BY SerializeShape, MessageParts
<1>2. /\ FrameOf(m) \in Seq(Byte) /\ Len(FrameOf(m)) = Hdr + Len(BodyOf(m)) /\ FrameOf(m)[1] = ord(m.tag)
      /\ Has(FrameOf(m), 1, to_be(Len(FrameOf(m)) - 1, W32))
  <2> DEFINE x == BodyOf(m)
             t == m.tag
  <2>1. x \in Seq(Byte) /\ t \in Tag /\ FrameOf(m) = Framed(t, x)
    BY <1>1 DEF FrameOf
  <2> HIDE DEF x, t
  <2>2. /\ FrameOf(m) \in Seq(Byte) /\ Len(FrameOf(m)) = Hdr + Len(x) /\ FrameOf(m)[1] = ord(t)
        /\ Has(FrameOf(m), 1, to_be(Len(FrameOf(m)) - 1, W32))
    <3>1. Framed(t, x) \in Seq(Byte)
      BY <2>1, FramedParts
    <3>2. Len(Framed(t, x)) = Hdr + Len(x)
      <4>1. x \in Seq(Byte) /\ t \in Tag
        BY <2>1
      <4> QED
        BY <4>1, FramedParts
    <3>3. Framed(t, x)[1] = ord(t)
      BY <2>1, FramedParts
    <3>4. Has(Framed(t, x), 1, to_be(Len(Framed(t, x)) - 1, W32))
      BY <2>1, FramedParts
    <3> QED
      BY <2>1, <3>1, <3>2, <3>3, <3>4, Zenon
  <2> QED
    BY <2>2 DEF x, t
<1>3. Len(FrameOf(m)) > 0 /\ Len(FrameOf(m)) \in Nat
  BY <1>1, <1>2, Widths DEF Hdr
<1>4. \A out : serialize(m, out) = FrameOf(m)
  BY SerializeShape DEF FrameOf
<1> QED
  BY <1>2, <1>3, <1>4

\* A piece of a piece lies where both offsets say.
LEMMA HasWithin ==
  ASSUME NEW b \in Seq(Byte), NEW p \in Nat, NEW s \in Seq(Byte), Has(b, p, s),
         NEW d \in Nat, NEW t \in Seq(Byte), Has(s, d, t)
  PROVE  Has(b, p + d, t)
<1>1. Len(t) \in Nat /\ Len(s) \in Nat /\ Len(b) \in Nat
  OBVIOUS
<1>2. (p + d) + Len(t) <= Len(b)
  BY <1>1 DEF Has
<1>3. ASSUME NEW i \in 1..Len(t) PROVE b[(p + d) + i] = t[i]
  <2>1. d + i \in 1..Len(s) /\ p + (d + i) = (p + d) + i
    BY <1>1 DEF Has
  <2>2. b[p + (d + i)] = s[d + i] /\ s[d + i] = t[i]
    BY <2>1 DEF Has
  <2> QED
    BY <2>1, <2>2
<1> QED
  BY <1>2, <1>3 DEF Has

\* Cut by the length words, the stream falls into its frames.
LEMMA EndsAre ==
  ASSUME NEW b \in Seq(Byte), NEW s \in Seq(Sent), \A i \in 1..Len(s) : s[i].size = Len(FrameOf(s[i].msg)),
         NEW o, Laid(o, b, s), \A i \in 1..Len(s) : LengthFits(s[i])
  PROVE  \A i \in 0..Len(s) : Ends(b, Len(s))[i] = o[i]
<1> DEFINE n == Len(s)
           Is(g) == g = [i \in 0..n |-> IF i = 0 THEN 0 ELSE g[i - 1] + 1 + UInt(b, g[i - 1] + 1, W32)]
<1>0. n \in Nat /\ W32 \in Nat /\ Pow[W32] \in Nat
  BY Widths
<1>1. o = [i \in 0..n |-> o[i]] /\ (\A i \in 0..n : o[i] \in Nat) /\ o[0] = 0
  BY DEF Laid
<1>2. ASSUME NEW i \in 1..n PROVE o[i] = o[i - 1] + 1 + UInt(b, o[i - 1] + 1, W32)
  <2> DEFINE f == FrameOf(s[i].msg)
             z == Len(f) - 1
  <2>1. s[i].msg \in Message /\ i - 1 \in 0..n
    <3>1. s[i] \in Sent
      OBVIOUS
    <3> QED
      BY <3>1 DEF Sent
  <2>2. f \in Seq(Byte) /\ Len(f) \in Nat /\ Len(f) > 0 /\ Has(f, 1, to_be(z, W32))
    BY <2>1, FrameBytes
  <2>3. o[i - 1] \in Nat /\ o[i] = o[i - 1] + Len(f) /\ Has(b, o[i - 1], f)
    BY <1>1, <2>1 DEF Laid
  <2>4. z \in 0..(Pow[W32] - 1) /\ z \in Int
    <3>1. Len(f) - 1 < Pow[W32]
      BY DEF LengthFits
    <3> HIDE DEF f
    <3> QED
      BY <1>0, <2>2, <3>1
  <2>5. to_be(z, W32) \in Seq(Byte)
    BY <1>0, <2>4, ToBe
  <2> HIDE DEF f, z
  <2>6. Has(b, o[i - 1] + 1, to_be(z, W32))
    BY <2>2, <2>3, <2>5, HasWithin
  <2>7. UInt(b, o[i - 1] + 1, W32) = z
    BY <1>0, <2>3, <2>4, <2>6, UIntFits
  <2>8. Len(f) = 1 + z
    BY <2>2 DEF z
  <2>9. o[i - 1] + (1 + z) = o[i - 1] + 1 + z
    <3>1. \A x, y \in Int : x + (1 + y) = x + 1 + y
      OBVIOUS
    <3>2. o[i - 1] \in Int /\ z \in Int
      BY <2>3, <2>4
    <3> QED
      BY <3>1, <3>2, Zenon
  <2> QED
    BY <2>3, <2>7, <2>8, <2>9
<1>3. Is(o)
  <2>1. \A i \in 0..n : o[i] = IF i = 0 THEN 0 ELSE o[i - 1] + 1 + UInt(b, o[i - 1] + 1, W32)
    <3> TAKE i \in 0..n
    <3>1. CASE i = 0
      BY <1>1, <3>1
    <3>2. CASE i # 0
      <4>1. i \in 1..n
        BY <1>0, <3>2
      <4> QED
        BY <1>2, <3>2, <4>1
    <3> QED
      BY <3>1, <3>2
  <2> QED
    BY <1>1, <2>1
<1>4. Ends(b, n) = CHOOSE g : Is(g)
  BY DEF Ends
<1> HIDE DEF Is
<1>5. PICK g : Is(g) /\ Ends(b, n) = g
  BY <1>3, <1>4
<1> DEFINE T == {k \in Nat : k <= n => g[k] = o[k]}
<1>6. 0 \in T
  BY <1>0, <1>1, <1>5 DEF Is
<1>7. ASSUME NEW k \in Nat, k \in T PROVE (k + 1) \in T
  <2>1. SUFFICES ASSUME k + 1 <= n PROVE g[k + 1] = o[k + 1]
    OBVIOUS
  <2>2. k + 1 \in 0..n /\ k + 1 # 0 /\ (k + 1) - 1 = k /\ k <= n
    BY <1>0, <2>1
  <2>3. /\ g[k + 1] = g[k] + 1 + UInt(b, g[k] + 1, W32)
        /\ o[k + 1] = o[k] + 1 + UInt(b, o[k] + 1, W32)
    BY <1>3, <1>5, <2>2 DEF Is
  <2> QED
    BY <1>7, <2>2, <2>3
<1>8. \A k \in Nat : k \in T
  <2> HIDE DEF T
  <2> QED
    BY <1>6, <1>7, NatSetInduction
<1> QED
  BY <1>0, <1>5, <1>8

-----------------------------------------------------------------------------
(* The theorems.                                                           *)

\* It holds before anything is written.
LEMMA WInitWInv == WInit => WInv
<1> SUFFICES ASSUME WInit PROVE WInv
  OBVIOUS
<1>1. serbuf = <<>> /\ wire = <<>> /\ sent = <<>> /\ Len(sent) = 0 /\ Len(wire) = 0
  BY DEF WInit
<1>2. WTypeOK
  <2>1. <<>> \in Seq(Byte)
    OBVIOUS
  <2> QED
    BY <1>1, <2>1, MaxSentAssumption DEF WTypeOK
<1>3. Recorded
  BY <1>1 DEF Recorded
<1> DEFINE o == [i \in 0..0 |-> 0]
<1>4. Laid(o, wire, sent)
  BY <1>1 DEF Laid
<1> HIDE DEF o
<1> QED
  BY <1>2, <1>3, <1>4 DEF WInv

\* Every message written adds its frame.
LEMMA WriteWInv ==
  ASSUME WInv, NEW m \in Msgs, write_message(m)
  PROVE  WInv'
<1> DEFINE f == FrameOf(m)
           n == Len(sent)
<1>1. m \in Message
  BY MsgsAssumption
<1>2. f \in Seq(Byte) /\ Len(f) \in Nat /\ serialize(m, serbuf) = f
  BY <1>1, FrameBytes
<1> HIDE DEF f
<1>3. /\ n < MaxSent /\ serbuf' = f /\ wire' = wire \o f
      /\ sent' = Append(sent, [msg |-> m, size |-> Len(f)])
  BY <1>2 DEF write_message
<1>4. wire \in Seq(Byte) /\ sent \in Seq(Sent) /\ n \in Nat /\ \A i \in 1..n : sent[i].size = Len(FrameOf(sent[i].msg))
  BY DEF WInv, WTypeOK, Recorded
<1>5. [msg |-> m, size |-> Len(f)] \in Sent
  BY <1>1, <1>2 DEF Sent
<1>6. /\ sent' \in Seq(Sent) /\ Len(sent') = n + 1 /\ sent'[n + 1] = [msg |-> m, size |-> Len(f)]
      /\ \A i \in 1..n : sent'[i] = sent[i]
  BY <1>3, <1>4, <1>5, AppendProperties
<1>7. wire' \in Seq(Byte) /\ Len(wire') = Len(wire) + Len(f) /\ Len(wire) \in Nat
  BY <1>2, <1>3, <1>4, Cat
<1>8. WTypeOK'
  BY <1>2, <1>3, <1>4, <1>6, <1>7, MaxSentAssumption DEF WTypeOK
<1>9. Recorded'
  <2>1. ASSUME NEW i \in 1..(n + 1) PROVE sent'[i].size = Len(FrameOf(sent'[i].msg))
    <3>1. CASE i \in 1..n
      BY <1>4, <1>6, <3>1
    <3>2. CASE i = n + 1
      BY <1>6, <3>2 DEF f
    <3> QED
      BY <1>4, <3>1, <3>2
  <2> QED
    BY <1>6, <2>1 DEF Recorded
<1>10. PICK o : Laid(o, wire, sent)
  BY DEF WInv
<1> DEFINE p == [i \in 0..(n + 1) |-> IF i = n + 1 THEN Len(wire) + Len(f) ELSE o[i]]
<1>11. (\A i \in 0..n : o[i] \in Nat /\ p[i] = o[i]) /\ p[n + 1] = Len(wire) + Len(f) /\ o[n] = Len(wire) /\ o[0] = 0
  <2>1. o \in [0..n -> Nat] /\ o[n] = Len(wire) /\ o[0] = 0
    BY <1>10, Zenon DEF Laid
  <2>2. n + 1 \in 0..(n + 1) /\ \A i \in 0..n : i \in 0..(n + 1) /\ i # n + 1
    BY <1>4
  <2>3. \A i \in 0..n : o[i] \in Nat
    BY <2>1, Zenon
  <2>4. \A i \in 0..n : p[i] = o[i]
    BY <2>2, Zenon
  <2> QED
    BY <2>1, <2>2, <2>3, <2>4, Zenon
<1>12. p \in [0..(n + 1) -> Nat] /\ p[0] = 0
  <2>1. \A i \in 0..(n + 1) : i = n + 1 \/ i \in 0..n
    BY <1>4
  <2>2. \A i \in 0..(n + 1) : p[i] \in Nat
    <3>1. Len(wire) + Len(f) \in Nat
      BY <1>2, <1>7
    <3> HIDE DEF p
    <3> QED
      BY <1>11, <2>1, <3>1, Zenon
  <2>3. 0 \in 0..n
    BY <1>4
  <2>4. p = [i \in 0..(n + 1) |-> p[i]]
    BY Zenon
  <2> HIDE DEF p
  <2> QED
    BY <1>11, <2>2, <2>3, <2>4
<1> HIDE DEF p
<1>13. ASSUME NEW i \in 1..(n + 1)
       PROVE  p[i] = p[i - 1] + sent'[i].size /\ Has(wire', p[i - 1], FrameOf(sent'[i].msg))
  <2>1. CASE i \in 1..n
    <3>1. i - 1 \in 0..n /\ i \in 0..n
      BY <1>4, <2>1
    <3>2. o[i] = o[i - 1] + sent[i].size /\ Has(wire, o[i - 1], FrameOf(sent[i].msg))
      BY <1>10, <2>1 DEF Laid
    <3>3. FrameOf(sent[i].msg) \in Seq(Byte)
      <4>1. sent[i] \in Sent
        BY <1>4, <2>1
      <4>2. sent[i].msg \in Message
        BY <4>1 DEF Sent
      <4> QED
        BY <4>2, FrameBytes
    <3>4. Has(wire \o f, o[i - 1], FrameOf(sent[i].msg))
      BY <1>2, <1>4, <1>11, <3>1, <3>2, <3>3, HasMore
    <3> QED
      BY <1>3, <1>6, <1>11, <2>1, <3>1, <3>2, <3>4
  <2>2. CASE i = n + 1
    <3>1. i - 1 = n /\ n \in 0..n
      BY <1>4, <2>2
    <3>2. p[i - 1] = Len(wire) /\ p[i] = Len(wire) + Len(f)
      BY <1>11, <2>2, <3>1
    <3>3. sent'[i].size = Len(f) /\ FrameOf(sent'[i].msg) = f
      BY <1>6, <2>2 DEF f
    <3>4. Has(wire \o f, Len(wire), f)
      BY <1>2, <1>4, HasLast
    <3> QED
      BY <1>3, <3>2, <3>3, <3>4, Zenon
  <2> QED
    BY <1>4, <2>1, <2>2
<1>14. Laid(p, wire', sent')
  BY <1>6, <1>7, <1>11, <1>12, <1>13 DEF Laid
<1> QED
  BY <1>8, <1>9, <1>14 DEF WInv

\* Every step keeps it.
LEMMA NextWInv == WInv /\ [WNext]_wvars => WInv'
<1> SUFFICES ASSUME WInv, [WNext]_wvars PROVE WInv'
  OBVIOUS
<1>1. ASSUME NEW m \in Msgs, write_message(m) PROVE WInv'
  BY <1>1, WriteWInv
<1>2. CASE UNCHANGED wvars
  BY <1>2 DEF WInv, WTypeOK, Recorded, wvars
<1> QED
  BY <1>1, <1>2 DEF WNext, Written

LEMMA WInvAlways == WSpec => []WInv
  BY WInitWInv, NextWInv, PTL DEF WSpec

\* The offsets of the frames are where a client cuts the stream.
LEMMA CutAsLaid ==
  ASSUME WInv, \A i \in DOMAIN sent : LengthFits(sent[i])
  PROVE  \E o : Laid(o, wire, sent) /\ \A i \in 0..Len(sent) : Ends(wire, Len(sent))[i] = o[i]
<1>1. PICK o : Laid(o, wire, sent)
  BY DEF WInv
<1>2. /\ wire \in Seq(Byte) /\ sent \in Seq(Sent) /\ DOMAIN sent = 1..Len(sent)
      /\ \A i \in 1..Len(sent) : sent[i].size = Len(FrameOf(sent[i].msg))
  BY DEF WInv, WTypeOK, Recorded
<1>3. \A i \in 0..Len(sent) : Ends(wire, Len(sent))[i] = o[i]
  BY <1>1, <1>2, EndsAre
<1> QED
  BY <1>1, <1>3

\* What a message is sent as: its frame, between two offsets.
LEMMA FrameLies ==
  ASSUME WInv, NEW o, Laid(o, wire, sent), NEW i \in DOMAIN sent
  PROVE  /\ i \in 1..Len(sent) /\ i \in 0..Len(sent) /\ i - 1 \in 0..Len(sent)
         /\ sent[i].msg \in Message /\ o[i - 1] \in Nat /\ o[i] = o[i - 1] + sent[i].size
         /\ sent[i].size = Len(FrameOf(sent[i].msg)) /\ Has(wire, o[i - 1], FrameOf(sent[i].msg))
<1>1. sent \in Seq(Sent) /\ i \in 1..Len(sent) /\ Len(sent) \in Nat
  BY DEF WInv, Recorded
<1>2. i \in 0..Len(sent) /\ i - 1 \in 0..Len(sent) /\ sent[i] \in Sent
  BY <1>1
<1>3. sent[i].msg \in Message
  BY <1>2 DEF Sent
<1>4. sent[i].size = Len(FrameOf(sent[i].msg))
  BY <1>1 DEF WInv, Recorded
<1>5. o[i - 1] \in Nat
  BY <1>2 DEF Laid
<1>6. o[i] = o[i - 1] + sent[i].size /\ Has(wire, o[i - 1], FrameOf(sent[i].msg))
  BY <1>1 DEF Laid
<1> QED
  BY <1>1, <1>2, <1>3, <1>4, <1>5, <1>6

\* The serialised messages are bytes, whatever is written.
THEOREM WTypeCorrect == WSpec => []WTypeOK
<1>1. WInv => WTypeOK
  BY DEF WInv
<1> QED
  BY <1>1, WInvAlways, PTL

\* The serialisers of protocol.rs never leave a client out of step: cut by the
\* length words, the stream is the messages written, one frame each, for every
\* sequence of messages whose lengths fit a u32.
THEOREM FramesAsWrittenAlways == WSpec => []FramesAsWritten
<1>1. ASSUME WInv PROVE FramesAsWritten
  <2> DEFINE ends == Ends(wire, Len(sent))
  <2> SUFFICES ASSUME \A i \in DOMAIN sent : LengthFits(sent[i])
               PROVE  /\ ends[Len(sent)] = Len(wire)
                      /\ \A i \in DOMAIN sent :
                           ends[i] = ends[i - 1] + sent[i].size /\ wire[ends[i - 1] + 1] = ord(sent[i].msg.tag)
    BY DEF FramesAsWritten
  <2>1. PICK o : Laid(o, wire, sent) /\ \A i \in 0..Len(sent) : ends[i] = o[i]
    BY <1>1, CutAsLaid
  <2> HIDE DEF ends
  <2>2. ends[Len(sent)] = Len(wire)
    <3>1. Len(sent) \in 0..Len(sent)
      BY <1>1 DEF WInv, Recorded
    <3> QED
      BY <2>1, <3>1 DEF Laid
  <2>3. ASSUME NEW i \in DOMAIN sent
        PROVE  ends[i] = ends[i - 1] + sent[i].size /\ wire[ends[i - 1] + 1] = ord(sent[i].msg.tag)
    <3> DEFINE f == FrameOf(sent[i].msg)
    <3>1. /\ i \in 0..Len(sent) /\ i - 1 \in 0..Len(sent) /\ sent[i].msg \in Message
          /\ o[i - 1] \in Nat /\ o[i] = o[i - 1] + sent[i].size /\ Has(wire, o[i - 1], f)
      BY <1>1, <2>1, FrameLies
    <3>2. Len(f) \in Nat /\ Len(f) > 0 /\ f[1] = ord(sent[i].msg.tag)
      BY <3>1, FrameBytes
    <3>3. 1 \in 1..Len(f)
      BY <3>2
    <3>4. wire[o[i - 1] + 1] = ord(sent[i].msg.tag)
      BY <3>1, <3>2, <3>3 DEF Has
    <3> QED
      BY <2>1, <3>1, <3>4
  <2> QED
    BY <2>2, <2>3
<1> QED
  BY <1>1, WInvAlways, PTL

\* What a client reads of a frame is the message that was written, for every
\* message within the limits of its format: no field is lost, moved, cut,
\* given another sign or taken for another's, and NULL is not an empty value.
THEOREM ReadsAsWrittenAlways == WSpec => []ReadsAsWritten
<1>1. ASSUME WInv PROVE ReadsAsWritten
  <2> SUFFICES ASSUME \A i \in DOMAIN sent : LengthFits(sent[i]), NEW i \in DOMAIN sent, Representable(sent[i].msg)
               PROVE  Decode(Frame(wire, Len(sent), i)) = sent[i].msg
    BY DEF ReadsAsWritten
  <2> DEFINE ends == Ends(wire, Len(sent))
             f == FrameOf(sent[i].msg)
  <2>1. PICK o : Laid(o, wire, sent) /\ \A k \in 0..Len(sent) : ends[k] = o[k]
    BY <1>1, CutAsLaid
  <2>2. Frame(wire, Len(sent), i) = SubSeq(wire, ends[i - 1] + 1, ends[i])
    BY DEF Frame
  <2> HIDE DEF ends
  <2>3. /\ i \in 0..Len(sent) /\ i - 1 \in 0..Len(sent) /\ sent[i].msg \in Message
        /\ o[i - 1] \in Nat /\ o[i] = o[i - 1] + sent[i].size /\ sent[i].size = Len(f) /\ Has(wire, o[i - 1], f)
    BY <1>1, <2>1, FrameLies
  <2>4. f \in Seq(Byte) /\ wire \in Seq(Byte)
    BY <1>1, <2>3, FrameBytes DEF WInv, WTypeOK
  <2>5. SubSeq(wire, o[i - 1] + 1, o[i - 1] + Len(f)) = f
    BY <2>3, <2>4, HasPart
  <2>6. Frame(wire, Len(sent), i) = f
    BY <2>1, <2>2, <2>3, <2>5
  <2>7. Decode(f) = sent[i].msg
    BY <2>3, DecodeFramed DEF FrameOf
  <2> QED
    BY <2>6, <2>7
<1> QED
  BY <1>1, WInvAlways, PTL

=============================================================================
