---------------------------- MODULE Pms7003FrameProofs ----------------------------
(* Theorems about the frame layer of pms7003.c, for every size of a frame and of *)
(* the receive buffer, every number of values of a byte and of faults.            *)
EXTENDS Pms7003Frame, SequenceTheorems, WellFoundedInduction, TLAPS

--------------------------------------------------------------------------------
(* Facts about sequences. *)

LEMMA FrontOfAppend ==
  ASSUME NEW S, NEW s \in Seq(S), NEW e \in S
  PROVE  LET t == Append(s, e)
         IN  t \in Seq(S) /\ t # <<>> /\ Len(t) = Len(s) + 1 /\ s = SubSeq(t, 1, Len(t) - 1)
<1> DEFINE t == Append(s, e)
           f == SubSeq(t, 1, Len(t) - 1)
<1>1. /\ t \in Seq(S) /\ t # <<>> /\ Len(t) = Len(s) + 1 /\ Len(s) \in Nat
      /\ \A i \in 1..Len(s) : t[i] = s[i]
  <2>1. /\ t \in Seq(S) /\ t # <<>> /\ Len(t) = Len(s) + 1
        /\ \A i \in 1..Len(s) : t[i] = s[i]
    BY AppendProperties
  <2>2. QED
    BY <2>1, LenProperties
<1> HIDE DEF t
<1>2. Len(t) - 1 = Len(s) /\ \A i \in 1..Len(t) - 1 : t[i] \in S
  BY <1>1, ElementOfSeq
<1>3. /\ f \in Seq(S) /\ Len(f) = Len(s) /\ \A i \in 1..Len(s) : f[i] = t[i]
  BY <1>1, <1>2
<1> HIDE DEF f
<1>4. f = s
  BY <1>1, <1>3, SeqEqual
<1>5. QED
  BY <1>1, <1>4 DEF t, f

LEMMA PartOf ==
  ASSUME NEW S, NEW s \in Seq(S), NEW m \in Nat \ {0}, NEW n \in Nat, m <= n + 1, n <= Len(s)
  PROVE  /\ SubSeq(s, m, n) \in Seq(S) /\ Len(SubSeq(s, m, n)) = n - m + 1
         /\ \A i \in 1..n - m + 1 : SubSeq(s, m, n)[i] = s[m + i - 1]
<1>1. Len(s) \in Nat
  BY LenProperties
<1>2. \A i \in m..n : s[i] \in S
  BY <1>1, ElementOfSeq
<1>3. QED
  BY <1>1, <1>2

LEMMA RestOf ==
  ASSUME NEW S, NEW s \in Seq(S), NEW n \in 0..Len(s)
  PROVE  SubSeq(s, n + 1, Len(s)) \in Seq(S) /\ Len(SubSeq(s, n + 1, Len(s))) = Len(s) - n
<1>1. PICK l \in Nat : l = Len(s)
  BY LenProperties
<1>2. PICK m \in Nat \ {0} : m = n + 1
  BY <1>1
<1>3. m <= l + 1 /\ l - m + 1 = l - n
  BY <1>1, <1>2
<1>4. \A i \in m..l : s[i] \in S
  BY <1>1, <1>2, ElementOfSeq
<1>5. SubSeq(s, m, l) \in Seq(S) /\ Len(SubSeq(s, m, l)) = l - m + 1
  BY <1>3, <1>4
<1>6. QED
  BY <1>1, <1>2, <1>3, <1>5

\* A cut behind the first part of a concatenation.
LEMMA CutBehind ==
  ASSUME NEW S, NEW h \in Seq(S), NEW r \in Seq(S), NEW n \in 0..Len(r)
  PROVE  /\ SubSeq(h \o r, 1, Len(h) + n) = h \o SubSeq(r, 1, n)
         /\ SubSeq(h \o r, Len(h) + n + 1, Len(h \o r)) = SubSeq(r, n + 1, Len(r))
<1> DEFINE c == h \o r
           a == SubSeq(r, 1, n)
           b == SubSeq(r, n + 1, Len(r))
           p == SubSeq(c, 1, Len(h) + n)
           q == SubSeq(c, Len(h) + n + 1, Len(c))
           x == h \o a
<1>1. Len(h) \in Nat /\ Len(r) \in Nat /\ n \in Nat /\ n <= Len(r)
  BY LenProperties
<1>2. /\ c \in Seq(S) /\ Len(c) = Len(h) + Len(r)
      /\ \A i \in 1..Len(h) + Len(r) : c[i] = IF i <= Len(h) THEN h[i] ELSE r[i - Len(h)]
  BY ConcatProperties, Zenon
<1>3. /\ a \in Seq(S) /\ Len(a) = n /\ \A i \in 1..n : a[i] = r[i]
  BY <1>1, PartOf
<1>4. /\ b \in Seq(S) /\ Len(b) = Len(r) - n /\ \A i \in 1..Len(r) - n : b[i] = r[n + i]
  BY <1>1, PartOf
<1> HIDE DEF c, a, b
<1>5. /\ x \in Seq(S) /\ Len(x) = Len(h) + n
      /\ \A i \in 1..Len(h) + n : x[i] = IF i <= Len(h) THEN h[i] ELSE a[i - Len(h)]
  BY <1>3, ConcatProperties
<1>6. /\ p \in Seq(S) /\ Len(p) = Len(h) + n /\ \A i \in 1..Len(h) + n : p[i] = c[i]
  BY <1>1, <1>2, PartOf
<1>7. /\ q \in Seq(S) /\ Len(q) = Len(r) - n
      /\ \A i \in 1..Len(r) - n : q[i] = c[Len(h) + n + i]
  BY <1>1, <1>2, PartOf
<1> HIDE DEF x, p, q
<1>8. p = x
  <2>1. \A i \in 1..Len(h) + n : p[i] = x[i]
    <3> TAKE i \in 1..Len(h) + n
    <3>1. i \in 1..Len(h) + Len(r) /\ p[i] = c[i]
      BY <1>1, <1>6
    <3>2. CASE i <= Len(h)
      BY <1>2, <1>5, <3>1, <3>2
    <3>3. CASE i > Len(h)
      <4>1. i - Len(h) \in 1..n /\ ~(i <= Len(h))
        BY <1>1, <3>3
      <4>2. c[i] = r[i - Len(h)] /\ x[i] = a[i - Len(h)]
        BY <1>2, <1>5, <3>1, <4>1
      <4>3. QED
        BY <1>3, <3>1, <4>1, <4>2
    <3>4. QED
      BY <1>1, <3>2, <3>3
  <2>2. QED
    BY <1>5, <1>6, <2>1, SeqEqual
<1>9. q = b
  <2>1. \A i \in 1..Len(r) - n : q[i] = b[i]
    <3> TAKE i \in 1..Len(r) - n
    <3>1. /\ Len(h) + n + i \in 1..Len(h) + Len(r) /\ ~(Len(h) + n + i <= Len(h))
          /\ Len(h) + n + i - Len(h) = n + i
      BY <1>1
    <3>2. q[i] = c[Len(h) + n + i] /\ b[i] = r[n + i]
      BY <1>4, <1>7
    <3>3. c[Len(h) + n + i] = r[n + i]
      BY <1>2, <3>1
    <3>4. QED
      BY <3>2, <3>3
  <2>2. QED
    BY <1>4, <1>7, <2>1, SeqEqual
<1>10. QED
  BY <1>8, <1>9 DEF p, q, x, a, b, c

--------------------------------------------------------------------------------
(* Induction over the places of a function, from the well-foundedness of the   *)
(* natural numbers, and the functions it defines.                              *)

LEMMA LeastNumber ==
  ASSUME NEW T \in SUBSET Nat, T # {}
  PROVE  \E x \in T : \A y \in T : x <= y
<1> DEFINE R == OpToRel(<, Nat)
<1>1. IsWellFoundedOn(R, Nat) /\ R = {ss \in Nat \X Nat : ss[1] < ss[2]}
  BY NatLessThanWellFounded DEF OpToRel
<1> HIDE DEF R
<1>2. PICK x \in T : \A y \in T : <<y, x>> \notin R
  BY <1>1, WFMin
<1>3. ASSUME NEW y \in T
      PROVE  x <= y
  <2>1. <<y, x>> \in Nat \X Nat /\ <<y, x>> \notin R
    BY <1>2
  <2>2. ~(y < x)
    BY <1>1, <2>1
  <2>3. QED
    BY <2>2
<1>4. QED
  BY <1>3

\* Induction over the places of a function: what holds at 0 and is handed on from
\* each place to the next holds at all of them.
LEMMA EveryPlace ==
  ASSUME NEW N \in Nat, NEW Good \in SUBSET (0..N), 0 \in Good,
         \A i \in 1..N : i - 1 \in Good => i \in Good
  PROVE  Good = 0..N
<1> DEFINE T == (0..N) \ Good
<1>1. SUFFICES ASSUME T # {}
               PROVE  FALSE
  OBVIOUS
<1>2. T \in SUBSET Nat /\ \A i \in T : i \in 0..N /\ i \notin Good
  OBVIOUS
<1>3. \A i \in 0..N : i \in T \/ i \in Good
  OBVIOUS
<1> HIDE DEF T
<1>4. PICK m \in T : \A y \in T : m <= y
  BY <1>1, <1>2, LeastNumber
<1>5. m \in 1..N /\ m - 1 \in 0..N /\ ~(m <= m - 1)
  BY <1>2
<1>6. m - 1 \notin T
  BY <1>4, <1>5
<1>7. m - 1 \in Good
  BY <1>5, <1>6, <1>3
<1>8. QED
  BY <1>2, <1>5, <1>7

\* f is defined from each place to the next.
Running(f, n, a, step) == f[0] = a /\ \A i \in 1..n : f[i] = step[i][f[i - 1]]

\* Such a function exists.
LEMMA RecursionDefined ==
  ASSUME NEW N \in Nat, NEW V, NEW a \in V, NEW step \in [1..N -> [V -> V]]
  PROVE  \E f \in [0..N -> V] : Running(f, N, a, step)
<1> DEFINE Good == {n \in 0..N : \E f \in [0..n -> V] : Running(f, n, a, step)}
<1>1. 0 \in Good
  <2>1. [i \in 0..0 |-> a] \in [0..0 -> V] /\ Running([i \in 0..0 |-> a], 0, a, step)
    BY DEF Running
  <2>2. QED
    BY <2>1
<1>2. ASSUME NEW n \in 1..N, n - 1 \in Good
      PROVE  n \in Good
  <2>1. PICK g \in [0..n - 1 -> V] : Running(g, n - 1, a, step)
    BY <1>2
  <2> DEFINE f == [i \in 0..n |-> IF i = n THEN step[n][g[n - 1]] ELSE g[i]]
  <2>2. g[n - 1] \in V /\ step[n][g[n - 1]] \in V
    <3>1. n - 1 \in 0..n - 1
      OBVIOUS
    <3>2. g[n - 1] \in V
      BY <3>1
    <3>3. QED
      BY <3>2
  <2>3. f \in [0..n -> V]
    BY <2>2
  <2>4. \A i \in 0..n - 1 : f[i] = g[i]
    OBVIOUS
  <2>5. f[n] = step[n][g[n - 1]]
    OBVIOUS
  <2> HIDE DEF f
  <2>6. \A i \in 1..n - 1 : f[i] = step[i][f[i - 1]]
    <3> TAKE i \in 1..n - 1
    <3>1. i \in 0..n - 1 /\ i - 1 \in 0..n - 1
      OBVIOUS
    <3>2. f[i] = g[i] /\ f[i - 1] = g[i - 1]
      BY <2>4, <3>1
    <3>3. QED
      BY <2>1, <3>2 DEF Running
  <2>7. f[0] = a
    BY <2>1, <2>4 DEF Running
  <2>8. f[n] = step[n][f[n - 1]]
    BY <2>4, <2>5
  <2>9. Running(f, n, a, step)
    <3>1. \A i \in 1..n : i = n \/ i \in 1..n - 1
      OBVIOUS
    <3>2. QED
      BY <2>6, <2>7, <2>8, <3>1 DEF Running
  <2>10. QED
    BY <2>3, <2>9
<1>3. Good = 0..N
  <2>1. Good \in SUBSET (0..N)
    OBVIOUS
  <2> HIDE DEF Good
  <2>2. QED
    BY <1>1, <1>2, <2>1, EveryPlace
<1>4. N \in Good
  <2> HIDE DEF Good
  <2>1. QED
    BY <1>3
<1>5. QED
  BY <1>4

--------------------------------------------------------------------------------
(* Division with a remainder. *)

LEMMA Quotient ==
  ASSUME NEW b \in Nat \ {0}, NEW q \in Nat, NEW r \in 0..b - 1
  PROVE  (q * b + r) \div b = q /\ (q * b + r) % b = r
OBVIOUS

LEMMA Divided ==
  ASSUME NEW b \in Nat \ {0}, NEW x \in Nat
  PROVE  \E q \in Nat, r \in 0..b - 1 : x = q * b + r /\ q = x \div b /\ r = x % b
<1>1. x \div b \in Nat /\ x % b \in 0..b - 1
  OBVIOUS
<1>2. PICK q \in Nat, r \in 0..b - 1 : q = x \div b /\ r = x % b
  BY <1>1
<1>3. x = q * b + r
  BY <1>2
<1>4. QED
  BY <1>2, <1>3

LEMMA RemainderOfSum ==
  ASSUME NEW b \in Nat \ {0}, NEW x \in Nat, NEW y \in Nat
  PROVE  ((x % b) + y) % b = (x + y) % b
<1>1. PICK q \in Nat, r \in 0..b - 1 : x = q * b + r /\ r = x % b
  BY Divided
<1>2. PICK p \in Nat, s \in 0..b - 1 : r + y = p * b + s
  <2>1. PICK n \in Nat : n = r + y
    OBVIOUS
  <2>2. \E p \in Nat, s \in 0..b - 1 : n = p * b + s
    BY Divided
  <2>3. QED
    BY <2>1, <2>2
<1>3. (r + y) % b = s
  BY <1>2, Quotient
<1>4. x + y = (q + p) * b + s /\ q + p \in Nat
  <2>1. (q + p) * b = q * b + p * b
    OBVIOUS
  <2>2. x + y = q * b + (r + y)
    BY <1>1
  <2>3. q * b \in Nat /\ p * b \in Nat
    OBVIOUS
  <2>4. QED
    BY <1>2, <2>1, <2>2, <2>3
<1>5. (x + y) % b = s
  <2>1. PICK k \in Nat : k = q + p
    BY <1>4
  <2>2. (k * b + s) % b = s
    BY Quotient
  <2>3. QED
    BY <1>4, <2>1, <2>2
<1>6. QED
  BY <1>1, <1>3, <1>5

LEMMA TwoDigits ==
  ASSUME NEW b \in Nat \ {0}, NEW t \in Nat
  PROVE  \E h, l \in 0..b - 1 : h = (t \div b) % b /\ l = t % b /\ t % (b * b) = h * b + l
<1>1. PICK q \in Nat, r \in 0..b - 1 : t = q * b + r /\ q = t \div b /\ r = t % b
  BY Divided
<1>2. PICK p \in Nat, s \in 0..b - 1 : q = p * b + s /\ s = q % b
  BY Divided
<1>3. t = p * (b * b) + (s * b + r)
  <2>1. t = (p * b + s) * b + r
    BY <1>1, <1>2
  <2>2. (p * b + s) * b = p * (b * b) + s * b
    OBVIOUS
  <2>3. QED
    BY <2>1, <2>2
<1>4. s * b + r \in 0..b * b - 1
  <2>1. s * b \in Nat /\ s * b <= (b - 1) * b /\ (b - 1) * b = b * b - b
    OBVIOUS
  <2>2. b * b \in Nat
    OBVIOUS
  <2>3. QED
    BY <2>1, <2>2
<1>5. b * b \in Nat \ {0}
  OBVIOUS
<1>6. t % (b * b) = s * b + r
  <2>1. PICK k \in Nat \ {0}, l \in Nat : k = b * b /\ l = s * b + r /\ l \in 0..k - 1
    BY <1>4, <1>5
  <2>2. (p * k + l) % k = l
    BY <2>1, Quotient
  <2>3. QED
    BY <1>3, <2>1, <2>2
<1>7. (t \div b) % b = s /\ t % b = r
  BY <1>1, <1>2
<1>8. QED
  BY <1>6, <1>7, Zenon
--------------------------------------------------------------------------------
(* The check code: the two running sums. *)

LEMMA Squares ==
  /\ Base * Base \in Nat \ {0}
  /\ \A x \in Nat : x % (Base * Base) \in 0..Base * Base - 1
  /\ \A x \in Nat : x % Base \in Byte
<1>1. Base \in Nat /\ Base > 1
  BY FrameAssumption DEF FrameAssumption
<1>2. Base * Base \in Nat \ {0}
  BY <1>1
<1>3. \A M \in Nat \ {0} : \A x \in Nat : x % M \in 0..M - 1
  OBVIOUS
<1>4. \A x \in Nat : x % (Base * Base) \in 0..Base * Base - 1
  BY <1>2, <1>3, Zenon
<1>5. \A x \in Nat : x % Base \in Byte
  <2>1. Base \in Nat \ {0}
    BY <1>1
  <2>2. QED
    BY <1>3, <2>1, Zenon DEF Byte
<1>6. QED
  BY <1>2, <1>4, <1>5

LEMMA TotalUnfolds ==
  ASSUME NEW content \in [1..FrameSize - 4 -> Byte]
  PROVE  \E f \in [0..FrameSize - 4 -> Nat] :
           /\ f[0] = Start1 + Start2
           /\ \A i \in 1..FrameSize - 4 : f[i] = f[i - 1] + content[i]
           /\ Total(content) = f[FrameSize - 4]
<1> DEFINE N       == FrameSize - 4
           sum     == CHOOSE sum : sum = [i \in 0..N |-> IF i = 0 THEN Start1 + Start2
                                                           ELSE sum[i - 1] + content[i]]
           step    == [i \in 1..N |-> [x \in Nat |-> x + content[i]]]
<1>1. N \in Nat /\ Start1 + Start2 \in Nat /\ \A i \in 1..N : content[i] \in Nat
  BY FrameAssumption DEF FrameAssumption, Byte
<1>2. step \in [1..N -> [Nat -> Nat]]
  BY <1>1
<1>3. \A x \in Nat, i \in 1..N : step[i][x] = x + content[i]
  OBVIOUS
<1>4. Total(content) = sum[N]
  BY DEF Total
<1> HIDE DEF N, step, sum
<1>5. PICK f \in [0..N -> Nat] : Running(f, N, Start1 + Start2, step)
  BY <1>1, <1>2, RecursionDefined, Zenon
<1>6. \A i \in 1..N : f[i] = f[i - 1] + content[i]
  <2> TAKE i \in 1..N
  <2>1. i - 1 \in 0..N
    BY <1>1
  <2>2. f[i - 1] \in Nat
    BY <2>1
  <2>3. QED
    BY <1>3, <1>5, <2>2 DEF Running
<1>7. f = [i \in 0..N |-> IF i = 0 THEN Start1 + Start2 ELSE f[i - 1] + content[i]]
  <2>1. \A i \in 0..N : f[i] = IF i = 0 THEN Start1 + Start2 ELSE f[i - 1] + content[i]
    BY <1>1, <1>5, <1>6 DEF Running
  <2>2. QED
    BY <2>1
<1>8. sum = [i \in 0..N |-> IF i = 0 THEN Start1 + Start2 ELSE sum[i - 1] + content[i]]
  BY <1>7, Zenon DEF sum
<1>9. sum[0] = Start1 + Start2 /\ \A i \in 1..N : sum[i] = sum[i - 1] + content[i]
  <2> DEFINE h == [i \in 0..N |-> IF i = 0 THEN Start1 + Start2 ELSE sum[i - 1] + content[i]]
  <2>1. h[0] = Start1 + Start2 /\ \A i \in 1..N : h[i] = sum[i - 1] + content[i]
    BY <1>1
  <2>2. sum = h
    BY <1>8
  <2> HIDE DEF h
  <2>3. QED
    BY <2>1, <2>2, Zenon
<1>10. sum[N] = f[N]
  <2> DEFINE Good == {i \in 0..N : sum[i] = f[i]}
  <2>1. Good \in SUBSET (0..N) /\ 0 \in Good
    BY <1>1, <1>5, <1>9 DEF Running
  <2>2. \A i \in 1..N : i - 1 \in Good => i \in Good
    BY <1>6, <1>9
  <2>3. Good = 0..N
    <3> HIDE DEF Good
    <3>1. QED
      BY <1>1, <2>1, <2>2, EveryPlace
  <2>4. N \in 0..N
    BY <1>1
  <2>5. QED
    BY <2>3, <2>4
<1>11. QED
  BY <1>4, <1>5, <1>6, <1>10 DEF N, Running

LEMMA CheckSumUnfolds ==
  ASSUME NEW bytes \in [1..FrameSize -> Byte]
  PROVE  \E f \in [0..FrameSize - 2 -> Nat] :
           /\ f[0] = 0
           /\ \A i \in 1..FrameSize - 2 : f[i] = (f[i - 1] + bytes[i]) % (Base * Base)
           /\ CheckSum(bytes) = f[FrameSize - 2]
<1> DEFINE N       == FrameSize - 2
           M       == Base * Base
           sum     == CHOOSE sum : sum = [i \in 0..N |-> IF i = 0 THEN 0
                                                           ELSE (sum[i - 1] + bytes[i]) % M]
           step    == [i \in 1..N |-> [x \in Nat |-> (x + bytes[i]) % M]]
<1>1. N \in Nat /\ \A i \in 1..N : bytes[i] \in Nat
  BY FrameAssumption DEF FrameAssumption, Byte
<1>2. M \in Nat \ {0} /\ \A x \in Nat : x % M \in Nat
  <2>1. M \in Nat \ {0}
    BY Squares
  <2> HIDE DEF M
  <2>2. QED
    BY <2>1
<1>3. M = Base * Base
  OBVIOUS
<1>4. CheckSum(bytes) = sum[N]
  BY DEF CheckSum
<1> HIDE DEF M
<1>5. step \in [1..N -> [Nat -> Nat]]
  <2>1. \A i \in 1..N, x \in Nat : x + bytes[i] \in Nat
    BY <1>1
  <2>2. \A i \in 1..N, x \in Nat : (x + bytes[i]) % M \in Nat
    BY <1>2, <2>1
  <2>3. QED
    BY <2>2
<1>6. \A x \in Nat, i \in 1..N : step[i][x] = (x + bytes[i]) % M
  OBVIOUS
<1> HIDE DEF N, step, sum
<1>7. PICK f \in [0..N -> Nat] : Running(f, N, 0, step)
  BY <1>1, <1>5, RecursionDefined, Zenon
<1>8. \A i \in 1..N : f[i] = (f[i - 1] + bytes[i]) % M
  <2> TAKE i \in 1..N
  <2>1. i - 1 \in 0..N
    BY <1>1
  <2>2. f[i - 1] \in Nat
    BY <2>1
  <2>3. QED
    BY <1>6, <1>7, <2>2 DEF Running
<1>9. f = [i \in 0..N |-> IF i = 0 THEN 0 ELSE (f[i - 1] + bytes[i]) % M]
  <2>1. \A i \in 0..N : f[i] = IF i = 0 THEN 0 ELSE (f[i - 1] + bytes[i]) % M
    BY <1>1, <1>7, <1>8 DEF Running
  <2>2. QED
    BY <2>1
<1>10. sum = [i \in 0..N |-> IF i = 0 THEN 0 ELSE (sum[i - 1] + bytes[i]) % M]
  BY <1>9, Zenon DEF sum
<1>11. sum[0] = 0 /\ \A i \in 1..N : sum[i] = (sum[i - 1] + bytes[i]) % M
  <2> DEFINE h == [i \in 0..N |-> IF i = 0 THEN 0 ELSE (sum[i - 1] + bytes[i]) % M]
  <2>1. h[0] = 0 /\ \A i \in 1..N : h[i] = (sum[i - 1] + bytes[i]) % M
    BY <1>1
  <2>2. sum = h
    BY <1>10
  <2> HIDE DEF h
  <2>3. QED
    BY <2>1, <2>2, Zenon
<1>12. sum[N] = f[N]
  <2> DEFINE Good == {i \in 0..N : sum[i] = f[i]}
  <2>1. Good \in SUBSET (0..N) /\ 0 \in Good
    BY <1>1, <1>7, <1>11 DEF Running
  <2>2. \A i \in 1..N : i - 1 \in Good => i \in Good
    BY <1>8, <1>11
  <2>3. Good = 0..N
    <3> HIDE DEF Good
    <3>1. QED
      BY <1>1, <2>1, <2>2, EveryPlace
  <2>4. N \in 0..N
    BY <1>1
  <2>5. QED
    BY <2>3, <2>4
<1>13. QED
  BY <1>3, <1>4, <1>7, <1>8, <1>12 DEF N, Running

LEMMA TotalIsNatural ==
  ASSUME NEW content \in [1..FrameSize - 4 -> Byte]
  PROVE  Total(content) \in Nat
<1>1. FrameSize - 4 \in Nat
  BY FrameAssumption DEF FrameAssumption
<1>2. FrameSize - 4 \in 0..FrameSize - 4
  BY <1>1
<1>3. QED
  BY <1>2, TotalUnfolds

\* The sum that pms7003_frame_receive makes of a frame, cut to 16 bits at each byte, is
\* the sensor's, cut once.
LEMMA SumsAgree ==
  ASSUME NEW bytes \in [1..FrameSize -> Byte], NEW content \in [1..FrameSize - 4 -> Byte],
         bytes[1] = Start1, bytes[2] = Start2,
         \A i \in 1..FrameSize - 4 : bytes[i + 2] = content[i]
  PROVE  CheckSum(bytes) = Total(content) % (Base * Base)
<1>1. PICK f \in [0..FrameSize - 4 -> Nat] :
        /\ f[0] = Start1 + Start2
        /\ \A i \in 1..FrameSize - 4 : f[i] = f[i - 1] + content[i]
        /\ Total(content) = f[FrameSize - 4]
  BY TotalUnfolds
<1>2. PICK g \in [0..FrameSize - 2 -> Nat] :
        /\ g[0] = 0
        /\ \A i \in 1..FrameSize - 2 : g[i] = (g[i - 1] + bytes[i]) % (Base * Base)
        /\ CheckSum(bytes) = g[FrameSize - 2]
  BY CheckSumUnfolds
<1>3. PICK M \in Nat \ {0} : M = Base * Base
  BY Squares
<1>4. /\ FrameSize \in Nat /\ FrameSize > 4 /\ Start1 \in Nat /\ Start2 \in Nat
      /\ \A i \in 1..FrameSize - 4 : content[i] \in Nat
  <2>1. FrameSize \in Nat /\ FrameSize > 4 /\ Start1 \in Byte /\ Start2 \in Byte
    BY FrameAssumption DEF FrameAssumption, Byte
  <2>2. Byte \subseteq Nat
    BY FrameAssumption DEF FrameAssumption, Byte
  <2>3. \A i \in 1..FrameSize - 4 : content[i] \in Byte
    OBVIOUS
  <2>4. QED
    BY <2>1, <2>2, <2>3
<1>5. PICK N \in Nat : N = FrameSize - 4 /\ N + 2 = FrameSize - 2
  BY <1>4
<1> DEFINE Good == {i \in 0..N : g[i + 2] = f[i] % M}
<1>6. 0 \in Good
  <2>1. g[1] = Start1 % M
    <3>1. 1 \in 1..FrameSize - 2 /\ 1 - 1 = 0 /\ 0 + Start1 = Start1
      BY <1>4
    <3>2. g[1] = (g[1 - 1] + bytes[1]) % M
      BY <1>2, <1>3, <3>1, Zenon
    <3>3. QED
      BY <1>2, <3>1, <3>2
  <2>2. g[2] = ((Start1 % M) + Start2) % M
    <3>1. 2 \in 1..FrameSize - 2 /\ 2 - 1 = 1
      BY <1>4
    <3>2. g[2] = (g[2 - 1] + bytes[2]) % M
      BY <1>2, <1>3, <3>1, Zenon
    <3>3. QED
      BY <2>1, <3>1, <3>2
  <2>3. g[2] = (Start1 + Start2) % M
    BY <1>4, <2>2, RemainderOfSum
  <2>4. QED
    BY <1>1, <2>3
<1>7. ASSUME NEW i \in 1..N, i - 1 \in Good
      PROVE  i \in Good
  <2>1. i - 1 \in 0..N /\ i \in 0..N /\ (i - 1) + 2 = i + 1
    OBVIOUS
  <2>2. g[i + 1] = f[i - 1] % M
    BY <1>7, <2>1
  <2>3. /\ i \in 1..FrameSize - 4 /\ i + 2 \in 1..FrameSize - 2 /\ (i + 2) - 1 = i + 1
    BY <1>4, <1>5
  <2>4. g[i + 2] = (g[(i + 2) - 1] + bytes[i + 2]) % M
    BY <1>2, <1>3, <2>3, Zenon
  <2>5. g[i + 2] = ((f[i - 1] % M) + content[i]) % M
    BY <2>2, <2>3, <2>4
  <2>6. f[i - 1] \in Nat /\ content[i] \in Nat /\ f[i] = f[i - 1] + content[i]
    BY <1>1, <1>4, <1>5, <2>1, <2>3
  <2>7. g[i + 2] = (f[i - 1] + content[i]) % M
    BY <2>5, <2>6, RemainderOfSum
  <2>8. QED
    BY <2>1, <2>6, <2>7
<1>8. Good = 0..N
  <2>1. Good \in SUBSET (0..N)
    OBVIOUS
  <2> HIDE DEF Good
  <2>2. QED
    BY <1>6, <1>7, <2>1, EveryPlace
<1>9. g[N + 2] = f[N] % M
  <2>1. N \in 0..N
    OBVIOUS
  <2>2. N \in Good
    <3> HIDE DEF Good
    <3>1. QED
      BY <1>8, <2>1
  <2>3. QED
    BY <2>2
<1>10. QED
  BY <1>1, <1>2, <1>3, <1>5, <1>9, Zenon

\* Read with its bytes in the order of the line, a field is their number in Base.
LEMMA LineOrder ==
  ASSUME NEW bytes, NEW i, bytes[i] \in Byte, bytes[i + 1] \in Byte
  PROVE  convert_to_little_endian(Field(bytes, i)) = bytes[i] * Base + bytes[i + 1]
<1>1. Base \in Nat \ {0} /\ Byte = 0..Base - 1
  BY FrameAssumption DEF FrameAssumption, Byte
<1>2. PICK h, l \in 0..Base - 1 : h = bytes[i] /\ l = bytes[i + 1]
  BY <1>1
<1>3. l \in Nat /\ h \in Nat
  BY <1>1
<1>4. (l * Base + h) \div Base = l /\ (l * Base + h) % Base = h
  BY <1>1, <1>3, Quotient
<1>5. Field(bytes, i) = l * Base + h
  BY <1>1, <1>2, <1>3 DEF Field
<1>6. QED
  BY <1>2, <1>4, <1>5 DEF convert_to_little_endian

\* A sound sum: the last two bytes are the sum of the others, high byte first.
LEMMA SoundMeans ==
  ASSUME NEW bytes \in [1..FrameSize -> Byte], NEW content \in [1..FrameSize - 4 -> Byte],
         bytes[1] = Start1, bytes[2] = Start2,
         \A i \in 1..FrameSize - 4 : bytes[i + 2] = content[i]
  PROVE  Sound(bytes) <=> /\ bytes[FrameSize - 1] = (Total(content) \div Base) % Base
                          /\ bytes[FrameSize] = Total(content) % Base
<1>1. Base \in Nat \ {0} /\ Byte = 0..Base - 1 /\ FrameSize \in Nat /\ FrameSize > 4
  BY FrameAssumption DEF FrameAssumption, Byte
<1>2. PICK t \in Nat : t = Total(content)
  BY TotalIsNatural
<1>3. PICK h, l \in 0..Base - 1 :
        h = (t \div Base) % Base /\ l = t % Base /\ t % (Base * Base) = h * Base + l
  BY <1>1, TwoDigits
<1>4. CheckSum(bytes) = h * Base + l
  BY <1>2, <1>3, SumsAgree
<1>5. PICK m \in 1..FrameSize : m = FrameSize - 1 /\ m + 1 = FrameSize /\ m + 1 \in 1..FrameSize
  BY <1>1
<1>6. PICK u, v \in 0..Base - 1 : u = bytes[m] /\ v = bytes[m + 1]
  BY <1>1, <1>5
<1>7. convert_to_little_endian(check_code(bytes)) = u * Base + v
  <2>1. bytes[m] \in Byte /\ bytes[m + 1] \in Byte
    BY <1>5
  <2>2. convert_to_little_endian(Field(bytes, m)) = bytes[m] * Base + bytes[m + 1]
    BY <2>1, LineOrder
  <2>3. QED
    BY <1>5, <1>6, <2>2 DEF check_code
<1>8. h * Base + l = u * Base + v <=> h = u /\ l = v
  <2>1. h \in Nat /\ u \in Nat
    BY <1>1
  <2>2. /\ (h * Base + l) \div Base = h /\ (h * Base + l) % Base = l
        /\ (u * Base + v) \div Base = u /\ (u * Base + v) % Base = v
    BY <1>1, <2>1, Quotient
  <2>3. QED
    BY <2>2, Zenon
<1>9. Sound(bytes) <=> h = u /\ l = v
  BY <1>4, <1>7, <1>8, Zenon DEF Sound
<1>10. u = bytes[FrameSize - 1] /\ v = bytes[FrameSize]
  BY <1>5, <1>6, Zenon
<1>11. QED
  BY <1>2, <1>3, <1>9, <1>10, Zenon

LEMMA HeaderIsASequence == Header \in Seq(Byte) /\ Len(Header) = 2
<1>1. Start1 \in Byte /\ Start2 \in Byte
  BY FrameAssumption DEF FrameAssumption, Byte
<1>2. QED
  BY <1>1 DEF Header

\* The bytes of a frame.
LEMMA FrameBytes ==
  ASSUME NEW content \in [1..FrameSize - 4 -> Byte]
  PROVE  /\ FrameOf(content) \in Seq(Byte) /\ Len(FrameOf(content)) = FrameSize
         /\ FrameOf(content)[1] = Start1 /\ FrameOf(content)[2] = Start2
         /\ \A i \in 1..FrameSize - 4 : FrameOf(content)[i + 2] = content[i]
         /\ FrameOf(content)[FrameSize - 1] = (Total(content) \div Base) % Base
         /\ FrameOf(content)[FrameSize] = Total(content) % Base
<1> DEFINE high == (Total(content) \div Base) % Base
           low  == Total(content) % Base
           code == <<high, low>>
           hc   == Header \o content
           f    == hc \o code
<1>1. PICK n \in Nat : n = FrameSize - 4 /\ FrameSize = n + 4
  BY FrameAssumption DEF FrameAssumption
<1>2. high \in Byte /\ low \in Byte
  <2>1. Base \in Nat \ {0} /\ Byte = 0..Base - 1
    BY FrameAssumption DEF FrameAssumption, Byte
  <2>2. PICK t \in Nat : t = Total(content)
    BY TotalIsNatural
  <2>3. (t \div Base) % Base \in 0..Base - 1 /\ t % Base \in 0..Base - 1
    BY <2>1, TwoDigits
  <2>4. QED
    BY <2>1, <2>2, <2>3
<1>3. FrameOf(content) = f
  BY DEF FrameOf
<1> HIDE DEF high, low
<1>4. code \in Seq(Byte) /\ Len(code) = 2 /\ code[1] = high /\ code[2] = low
  BY <1>2
<1>5. content \in Seq(Byte) /\ Len(content) = n
  BY <1>1
<1> HIDE DEF code
<1>6. /\ hc \in Seq(Byte) /\ Len(hc) = n + 2
      /\ \A i \in 1..n + 2 : hc[i] = IF i <= 2 THEN Header[i] ELSE content[i - 2]
  <2>1. /\ hc \in Seq(Byte) /\ Len(hc) = Len(Header) + Len(content)
        /\ \A i \in 1..Len(Header) + Len(content) :
             hc[i] = IF i <= Len(Header) THEN Header[i] ELSE content[i - Len(Header)]
    BY <1>5, HeaderIsASequence, ConcatProperties, Zenon
  <2>2. Len(Header) + Len(content) = n + 2 /\ Len(Header) = 2
    BY <1>5, HeaderIsASequence
  <2>3. QED
    BY <2>1, <2>2, Zenon
<1> HIDE DEF hc
<1>7. /\ f \in Seq(Byte) /\ Len(f) = n + 4
      /\ \A i \in 1..n + 4 : f[i] = IF i <= n + 2 THEN hc[i] ELSE code[i - (n + 2)]
  <2>1. /\ f \in Seq(Byte) /\ Len(f) = Len(hc) + Len(code)
        /\ \A i \in 1..Len(hc) + Len(code) :
             f[i] = IF i <= Len(hc) THEN hc[i] ELSE code[i - Len(hc)]
    BY <1>4, <1>6, ConcatProperties, Zenon
  <2>2. Len(hc) + Len(code) = n + 4 /\ Len(hc) = n + 2
    BY <1>4, <1>6
  <2>3. QED
    BY <2>1, <2>2, Zenon
<1> HIDE DEF f
<1>8. f[1] = Start1 /\ f[2] = Start2
  <2>1. Header[1] = Start1 /\ Header[2] = Start2
    BY DEF Header
  <2>2. f[1] = hc[1] /\ f[2] = hc[2]
    BY <1>7
  <2>3. hc[1] = Header[1] /\ hc[2] = Header[2]
    BY <1>6
  <2>4. QED
    BY <2>1, <2>2, <2>3
<1>9. \A i \in 1..n : f[i + 2] = content[i]
  <2> TAKE i \in 1..n
  <2>1. i + 2 \in 1..n + 4 /\ i + 2 \in 1..n + 2 /\ i + 2 <= n + 2 /\ ~(i + 2 <= 2) /\ (i + 2) - 2 = i
    OBVIOUS
  <2>2. f[i + 2] = hc[i + 2]
    BY <1>7, <2>1
  <2>3. hc[i + 2] = content[(i + 2) - 2]
    BY <1>6, <2>1, Zenon
  <2>4. QED
    BY <2>1, <2>2, <2>3
<1>10. f[n + 3] = high /\ f[n + 4] = low
  <2>1. f[n + 3] = code[n + 3 - (n + 2)] /\ f[n + 4] = code[n + 4 - (n + 2)]
    BY <1>7
  <2>2. n + 3 - (n + 2) = 1 /\ n + 4 - (n + 2) = 2
    OBVIOUS
  <2>3. QED
    BY <1>4, <2>1, <2>2
<1>11. FrameSize - 1 = n + 3 /\ FrameSize = n + 4 /\ FrameSize - 4 = n
  BY <1>1
<1>12. QED
  BY <1>3, <1>7, <1>8, <1>9, <1>10, <1>11 DEF high, low

LEMMA ContentForm ==
  ASSUME NEW content \in Contents
  PROVE  content \in [1..FrameSize - 4 -> Byte] /\ content # <<>>
<1>1. content \in [1..FrameSize - 4 -> Byte]
  BY FrameAssumption DEF FrameAssumption, Byte
<1>2. 1 \in 1..FrameSize - 4
  BY FrameAssumption DEF FrameAssumption
<1>3. DOMAIN content # {}
  BY <1>1, <1>2
<1>4. DOMAIN <<>> = {}
  OBVIOUS
<1>5. QED
  BY <1>1, <1>3, <1>4, Zenon

\* Bytes that are those of a frame are the frame.
LEMMA FrameOfBytes ==
  ASSUME NEW bytes \in Seq(Byte), Len(bytes) = FrameSize,
         NEW content \in [1..FrameSize - 4 -> Byte],
         \A i \in 1..FrameSize : bytes[i] = FrameOf(content)[i]
  PROVE  bytes = FrameOf(content)
<1>1. FrameOf(content) \in Seq(Byte) /\ Len(FrameOf(content)) = FrameSize
  BY FrameBytes
<1>2. QED
  BY <1>1, SeqEqual

--------------------------------------------------------------------------------
(* What a call has read fits the answer, and what has arrived the receive buffer. *)

AnswerFits ==
  /\ readPc \in {"idle", "pair"} => buffer = <<>>
  /\ readPc = "rest" => buffer = Header
  /\ readPc = "returned" =>
       Len(buffer) >= 2 /\ buffer[1] = Start1 /\ buffer[2] = Start2
  /\ buffer \in Seq(Byte) /\ Len(buffer) <= FrameSize

ReaderInv ==
  /\ readPc \in {"idle", "pair", "rest", "returned"}
  /\ rx \in Seq(Byte) /\ wire \in Seq(Byte)
  /\ Len(rx) <= RxBytes
  /\ AnswerFits

LEMMA ReaderInitially == FrameInit => ReaderInv
  BY FrameAssumption DEF FrameAssumption, FrameInit, ReaderInv, AnswerFits

LEMMA ReaderStep ==
  ASSUME ReaderInv, [FrameNext]_frameVars
  PROVE  ReaderInv'
<1>0. /\ readPc \in {"idle", "pair", "rest", "returned"} /\ AnswerFits
      /\ rx \in Seq(Byte) /\ wire \in Seq(Byte) /\ Len(rx) <= RxBytes
  BY DEF ReaderInv
<1>1. /\ Len(rx) \in Nat /\ FrameSize \in Nat /\ FrameSize > 4 /\ RxBytes \in Nat
      /\ Header \in Seq(Byte) /\ Len(Header) = 2
  BY <1>0, HeaderIsASequence, LenProperties, FrameAssumption DEF FrameAssumption
<1>2. CASE Request \/ ReadAgain
  <2>1. readPc' = "pair" /\ buffer' = <<>> /\ wire' = wire /\ (rx' = <<>> \/ rx' = rx)
    BY <1>2 DEF Request, ReadAgain
  <2>2. buffer' \in Seq(Byte) /\ Len(buffer') = 0
    BY <2>1, EmptySeq
  <2>3. AnswerFits'
    <3>1. Len(buffer') <= FrameSize
      BY <1>1, <2>2
    <3>2. QED
      BY <2>1, <2>2, <3>1 DEF AnswerFits
  <2>4. rx' \in Seq(Byte) /\ Len(rx') <= RxBytes
    <3>1. CASE rx' = <<>>
      <4>1. <<>> \in Seq(Byte) /\ Len(<<>>) = 0
        BY EmptySeq
      <4>2. QED
        BY <1>1, <3>1, <4>1
    <3>2. CASE rx' = rx
      BY <1>0, <3>2
    <3>3. QED
      BY <2>1, <3>1, <3>2
  <2>5. QED
    BY <1>0, <2>1, <2>3, <2>4 DEF ReaderInv
<1>3. CASE ReadPair \/ PairTimesOut
  <2>1. PICK n \in 1..2 : n <= Len(rx) /\ Take(n)
    <3>1. CASE ReadPair
      BY <1>1, <3>1 DEF ReadPair
    <3>2. CASE PairTimesOut
      BY <1>1, <3>2 DEF PairTimesOut
    <3>3. QED
      BY <1>3, <3>1, <3>2
  <2>2. rx' \in Seq(Byte) /\ Len(rx') <= RxBytes
    <3>1. SubSeq(rx, n + 1, Len(rx)) \in Seq(Byte) /\ Len(SubSeq(rx, n + 1, Len(rx))) = Len(rx) - n
      <4>1. n \in 0..Len(rx)
        BY <1>1, <2>1
      <4>2. QED
        BY <1>0, <4>1, RestOf
    <3>2. QED
      BY <1>0, <1>1, <2>1, <3>1 DEF Take
  <2>3. /\ wire' = wire /\ readPc = "pair"
        /\ \/ readPc' = "rest" /\ buffer' = Header
           \/ UNCHANGED <<readPc, buffer>>
    BY <1>3 DEF ReadPair, PairTimesOut
  <2>4. AnswerFits'
    <3>1. CASE readPc' = "rest" /\ buffer' = Header
      <4>1. buffer' \in Seq(Byte) /\ Len(buffer') <= FrameSize
        <5>1. buffer' = Header /\ 2 <= FrameSize
          BY <1>1, <3>1
        <5>2. QED
          BY <1>1, <5>1, Zenon
      <4>2. QED
        BY <3>1, <4>1 DEF AnswerFits
    <3>2. CASE UNCHANGED <<readPc, buffer>>
      BY <1>0, <3>2 DEF AnswerFits
    <3>3. QED
      BY <2>3, <3>1, <3>2
  <2>5. readPc' \in {"idle", "pair", "rest", "returned"}
    BY <2>3
  <2>6. QED
    BY <1>0, <2>2, <2>3, <2>4, <2>5 DEF ReaderInv
<1>4. CASE ReadRest \/ RestTimesOut
  <2>1. PICK n \in Nat : /\ n <= Len(rx) /\ n <= FrameSize - 2
                         /\ rx' = SubSeq(rx, n + 1, Len(rx))
                         /\ buffer' = Header \o SubSeq(rx, 1, n)
    <3>1. buffer = Header
      BY <1>0, <1>4 DEF ReadRest, RestTimesOut, AnswerFits
    <3>2. CASE ReadRest
      <4>1. /\ Remaining \in Nat /\ Remaining <= Len(rx) /\ Remaining <= FrameSize - 2
            /\ rx' = SubSeq(rx, Remaining + 1, Len(rx))
            /\ buffer' = Header \o SubSeq(rx, 1, Remaining)
        BY <1>1, <3>1, <3>2 DEF ReadRest, Remaining, Take
      <4>2. QED
        BY <4>1
    <3>3. CASE RestTimesOut
      <4>1. SubSeq(rx, 1, Len(rx)) = rx
        BY <1>0, SubSeqFull
      <4>2. SubSeq(rx, Len(rx) + 1, Len(rx)) = <<>>
        BY <1>1, SubSeqEmpty
      <4>3. rx' = <<>> /\ buffer' = Header \o rx /\ Len(rx) < FrameSize - 2
        BY <3>1, <3>3 DEF RestTimesOut, Remaining
      <4>4. /\ Len(rx) \in Nat /\ Len(rx) <= Len(rx) /\ Len(rx) <= FrameSize - 2
            /\ rx' = SubSeq(rx, Len(rx) + 1, Len(rx))
            /\ buffer' = Header \o SubSeq(rx, 1, Len(rx))
        BY <1>1, <4>1, <4>2, <4>3
      <4>5. QED
        BY <4>4
    <3>4. QED
      BY <1>4, <3>2, <3>3
  <2>2. /\ SubSeq(rx, 1, n) \in Seq(Byte) /\ Len(SubSeq(rx, 1, n)) = n
    <3>1. 1 \in Nat \ {0} /\ 1 <= n + 1 /\ n - 1 + 1 = n
      BY <2>1
    <3>2. QED
      BY <1>0, <2>1, <3>1, PartOf
  <2>3. rx' \in Seq(Byte) /\ Len(rx') = Len(rx) - n
    <3>1. n \in 0..Len(rx)
      BY <1>1, <2>1
    <3>2. QED
      BY <1>0, <2>1, <3>1, RestOf
  <2>4. buffer' \in Seq(Byte) /\ Len(buffer') = 2 + n
    <3>1. /\ Header \o SubSeq(rx, 1, n) \in Seq(Byte)
          /\ Len(Header \o SubSeq(rx, 1, n)) = Len(Header) + Len(SubSeq(rx, 1, n))
      BY <1>1, <2>2, ConcatProperties
    <3>2. QED
      BY <1>1, <2>1, <2>2, <3>1
  <2>5. readPc' = "returned" /\ wire' = wire
    BY <1>4 DEF ReadRest, RestTimesOut
  <2>6. AnswerFits'
    <3>1. buffer'[1] = Start1 /\ buffer'[2] = Start2
      <4>1. /\ \A i \in 1..Len(Header) + Len(SubSeq(rx, 1, n)) :
                 (Header \o SubSeq(rx, 1, n))[i]
                   = IF i <= Len(Header) THEN Header[i] ELSE SubSeq(rx, 1, n)[i - Len(Header)]
        BY <1>1, <2>2, ConcatProperties, Zenon
      <4>2. /\ 1 \in 1..Len(Header) + Len(SubSeq(rx, 1, n)) /\ 1 <= Len(Header)
            /\ 2 \in 1..Len(Header) + Len(SubSeq(rx, 1, n)) /\ 2 <= Len(Header)
        BY <1>1, <2>1, <2>2
      <4>3. buffer'[1] = Header[1] /\ buffer'[2] = Header[2]
        BY <2>1, <4>1, <4>2, Zenon
      <4>4. QED
        BY <4>3 DEF Header
    <3>2. QED
      BY <1>1, <2>1, <2>4, <2>5, <3>1 DEF AnswerFits
  <2>7. QED
    BY <1>0, <1>1, <2>1, <2>3, <2>5, <2>6 DEF ReaderInv
<1>5. CASE SensorSends
  <2>1. UNCHANGED <<readPc, buffer, rx>> /\ wire' \in Seq(Byte)
    BY <1>5, ContentForm, FrameBytes DEF SensorSends
  <2>2. QED
    BY <1>0, <2>1 DEF AnswerFits, ReaderInv
<1>6. CASE ByteArrives \/ LineFails
  <2>1. Head(wire) \in Byte /\ Tail(wire) \in Seq(Byte)
    BY <1>0, <1>6, HeadTailProperties DEF ByteArrives, LineFails
  <2>2. \A b \in Byte : Append(rx, b) \in Seq(Byte) /\ Len(Append(rx, b)) = Len(rx) + 1
    BY <1>0, AppendProperties
  <2>3. \/ rx' = rx
        \/ \E b \in Byte : Len(rx) < RxBytes /\ rx' = Append(rx, b)
    BY <1>6, <2>1 DEF ByteArrives, LineFails
  <2>4. rx' \in Seq(Byte) /\ Len(rx') <= RxBytes
    BY <1>0, <1>1, <2>2, <2>3, SMTT(30)
  <2>5. UNCHANGED <<readPc, buffer>> /\ wire' \in Seq(Byte)
    BY <1>6, <2>1 DEF ByteArrives, LineFails
  <2>6. QED
    BY <1>0, <2>4, <2>5 DEF AnswerFits, ReaderInv
<1>7. CASE UNCHANGED frameVars
  BY <1>0, <1>7 DEF frameVars, AnswerFits, ReaderInv
<1>8. QED
  BY <1>2, <1>3, <1>4, <1>5, <1>6, <1>7 DEF FrameNext, pms7003_read

\* Whatever arrives and whenever it stops, a read leaves no more than a frame in the
\* answer, and a frame's beginning in it while it waits for the rest (pms7003.c:91-109).
THEOREM AnswerAlwaysFits == FrameSpec => []AnswerFits
<1>1. FrameInit => ReaderInv
  BY ReaderInitially
<1>2. ReaderInv /\ [FrameNext]_frameVars => ReaderInv'
  BY ReaderStep
<1>3. ReaderInv => AnswerFits
  BY DEF ReaderInv
<1>4. QED
  BY <1>1, <1>2, <1>3, PTL DEF FrameSpec

\* Every variable of the frame layer has its type: what is on the wire, in the receive
\* buffer and in the answer are bytes, whatever content was summed up.
THEOREM FrameTypeCorrect == FrameSpec => []FrameTypeOK
<1>1. FrameInit => ReaderInv /\ FrameTypeOK
  BY ReaderInitially, FrameAssumption DEF FrameInit, FrameTypeOK, FrameAssumption
<1>2. ReaderInv /\ FrameTypeOK /\ [FrameNext]_frameVars => ReaderInv' /\ FrameTypeOK'
  <2> SUFFICES ASSUME ReaderInv, FrameTypeOK, [FrameNext]_frameVars
               PROVE  ReaderInv' /\ FrameTypeOK'
    OBVIOUS
  <2>1. ReaderInv'
    BY ReaderStep
  <2>2. faults' \in 0..Faults
    <3>1. faults' = faults \/ (faults < Faults /\ faults' = faults + 1)
      <4>1. Request \/ ReadAgain \/ SensorSends \/ ByteArrives \/ UNCHANGED frameVars
              => faults' = faults
        BY DEF Request, ReadAgain, SensorSends, ByteArrives, frameVars
      <4>2. pms7003_read => faults' = faults
        BY DEF pms7003_read, ReadPair, PairTimesOut, ReadRest, RestTimesOut
      <4>3. LineFails => faults < Faults /\ faults' = faults + 1
        BY DEF LineFails
      <4>4. QED
        BY <4>1, <4>2, <4>3 DEF FrameNext
    <3>2. faults \in 0..Faults /\ Faults \in Nat
      BY FrameAssumption DEF FrameAssumption, FrameTypeOK
    <3>3. QED
      BY <3>1, <3>2
  <2>3. expected' \in Contents \cup {<<>>}
    <3>1. \/ expected' \in {expected, <<>>}
          \/ SensorSends
      BY DEF FrameNext, Request, ReadAgain, pms7003_read, ReadPair, PairTimesOut, ReadRest,
             RestTimesOut, ByteArrives, LineFails, frameVars
    <3>2. SensorSends => expected' \in Contents \cup {expected}
      BY DEF SensorSends
    <3>3. QED
      BY <3>1, <3>2 DEF FrameTypeOK
  <2>4. QED
    BY <2>1, <2>2, <2>3 DEF ReaderInv, AnswerFits, FrameTypeOK
<1>3. QED
  BY <1>1, <1>2, PTL DEF FrameSpec

--------------------------------------------------------------------------------
(* The refinement.  While a read waits for the rest of a frame, the header that *)
(* it has taken from the receive buffer still belongs to the stream.            *)

StreamOf == IF readPc = "rest" THEN Header \o rx ELSE rx
TakenOf  == IF readPc = "returned" THEN buffer ELSE <<>>

LEMMA StreamIsASequence == ReaderInv => StreamOf \in Seq(Byte)
  BY HeaderIsASequence, ConcatProperties DEF ReaderInv, StreamOf

LEMMA ArriveStep ==
  ASSUME ReaderInv, NEW b \in Byte, rx' = Append(rx, b), UNCHANGED <<readPc, buffer>>
  PROVE  Reader!Arrive
<1>1. StreamOf' = Append(StreamOf, b)
  <2>1. CASE readPc = "rest"
    <3>1. rx \in Seq(Byte) /\ <<b>> \in Seq(Byte) /\ Header \in Seq(Byte)
          /\ StreamOf \in Seq(Byte)
      BY StreamIsASequence, HeaderIsASequence DEF ReaderInv
    <3>2. rx' = rx \o <<b>> /\ Append(StreamOf, b) = StreamOf \o <<b>>
      BY <3>1, AppendIsConcat
    <3>3. (Header \o rx) \o <<b>> = Header \o (rx \o <<b>>)
      BY <3>1, ConcatAssociative
    <3>4. StreamOf = Header \o rx /\ StreamOf' = Header \o rx'
      BY <2>1 DEF StreamOf
    <3>5. QED
      BY <3>2, <3>3, <3>4, Zenon
  <2>2. CASE readPc # "rest"
    BY <2>2 DEF StreamOf
  <2>3. QED
    BY <2>1, <2>2
<1>2. /\ StreamOf' # <<>> /\ StreamOf = SubSeq(StreamOf', 1, Len(StreamOf') - 1)
  <2>1. StreamOf \in Seq(Byte)
    BY StreamIsASequence
  <2>2. QED
    BY <1>1, <2>1, FrontOfAppend
<1>3. TakenOf' = TakenOf
  BY DEF TakenOf
<1>4. QED
  BY <1>2, <1>3 DEF Reader!Arrive, StreamOf, TakenOf

LEMMA PairStep ==
  ASSUME ReaderInv, ReadPair
  PROVE  Reader!Skip \/ UNCHANGED <<StreamOf, TakenOf>>
<1>1. /\ rx \in Seq(Byte) /\ Len(rx) \in Nat /\ Len(rx) >= 2 /\ readPc = "pair"
      /\ rx' = SubSeq(rx, 3, Len(rx))
  BY LenProperties DEF ReaderInv, ReadPair, Take
<1>2. CASE SubSeq(rx, 1, 2) = Header
  <2>1. readPc' = "rest"
    BY <1>2 DEF ReadPair
  <2>2. SubSeq(rx, 1, 2) \o SubSeq(rx, 2 + 1, Len(rx)) = SubSeq(rx, 1, Len(rx))
    <3>1. 1 \in 1..Len(rx) + 1 /\ 2 \in 1 - 1..Len(rx) /\ Len(rx) \in 2..Len(rx)
      BY <1>1
    <3>2. QED
      BY <1>1, <3>1, ConcatAdjacentSubSeq
  <2>3. Header \o rx' = rx
    <3>1. SubSeq(rx, 1, Len(rx)) = rx
      BY <1>1, SubSeqFull
    <3>2. 2 + 1 = 3
      OBVIOUS
    <3>3. QED
      BY <1>1, <1>2, <2>2, <3>1, <3>2, Zenon
  <2>4. QED
    BY <1>1, <2>1, <2>3 DEF StreamOf, TakenOf
<1>3. CASE SubSeq(rx, 1, 2) # Header
  <2>1. readPc' = readPc
    BY <1>3 DEF ReadPair
  <2>2. QED
    BY <1>1, <1>3, <2>1 DEF Reader!Skip
<1>4. QED
  BY <1>2, <1>3

\* A read's second call takes n bytes behind the header: all that it waits for, or all
\* that there are.
LEMMA TakeStep ==
  ASSUME ReaderInv, readPc = "rest", readPc' = "returned", NEW n \in 0..Len(rx),
         n + 2 = (IF Len(rx) + 2 < FrameSize THEN Len(rx) + 2 ELSE FrameSize),
         buffer' = Header \o SubSeq(rx, 1, n), rx' = SubSeq(rx, n + 1, Len(rx))
  PROVE  Reader!Take
<1>1. rx \in Seq(Byte) /\ Header \in Seq(Byte) /\ Len(Header) = 2 /\ Len(rx) \in Nat
  BY HeaderIsASequence, LenProperties DEF ReaderInv
<1> DEFINE stream == Header \o rx
<1>2. Len(stream) = Len(rx) + 2
  <2>1. Len(stream) = Len(Header) + Len(rx)
    BY <1>1, ConcatProperties
  <2>2. QED
    BY <1>1, <2>1
<1>3. /\ SubSeq(stream, 1, Len(Header) + n) = Header \o SubSeq(rx, 1, n)
      /\ SubSeq(stream, Len(Header) + n + 1, Len(stream)) = SubSeq(rx, n + 1, Len(rx))
  BY <1>1, CutBehind
<1>4. SubSeq(stream, 1, 2) = Header
  <2>1. 0 \in 0..Len(rx)
    BY <1>1
  <2>2. SubSeq(stream, 1, Len(Header) + 0) = Header \o SubSeq(rx, 1, 0)
    BY <1>1, <2>1, CutBehind
  <2>3. SubSeq(rx, 1, 0) = <<>>
    BY SubSeqEmpty
  <2>4. Header \o <<>> = Header
    BY <1>1, ConcatEmptySeq
  <2>5. Len(Header) + 0 = 2
    BY <1>1
  <2>6. QED
    BY <2>2, <2>3, <2>4, <2>5
<1> HIDE DEF stream
<1>5. PICK k \in Nat : k = n + 2 /\ k + 1 = n + 3
  BY <1>1
<1>6. k = IF Len(stream) < FrameSize THEN Len(stream) ELSE FrameSize
  BY <1>1, <1>2, <1>5
<1>7. Len(Header) + n = k /\ Len(Header) + n + 1 = k + 1
  BY <1>1, <1>5
<1>8. buffer' = SubSeq(stream, 1, k) /\ rx' = SubSeq(stream, k + 1, Len(stream))
  BY <1>3, <1>7, Zenon
<1>9. Len(stream) >= 2
  BY <1>1, <1>2
<1>10. QED
  BY <1>4, <1>6, <1>8, <1>9 DEF Reader!Take, stream

\* Reading in two calls of uart_read_bytes takes frames from the stream as if in one
\* step (pms7003.c:91-109), for every size of a frame and of the receive buffer.
THEOREM ReaderImplemented == FrameSpec => ImplementsReader
<1>1. FrameInit => Reader!Init
  BY DEF FrameInit, Reader!Init
<1>2. ReaderInv /\ [FrameNext]_frameVars => [Reader!Next]_(Reader!readerVars)
  <2> SUFFICES ASSUME ReaderInv, [FrameNext]_frameVars
               PROVE  Reader!Next \/ UNCHANGED <<StreamOf, TakenOf>>
    BY DEF Reader!readerVars, StreamOf, TakenOf
  <2>1. CASE Request
    BY <2>1 DEF Request, Reader!Next, Reader!Flush
  <2>2. CASE ReadAgain
    BY <2>2 DEF ReadAgain, Reader!Next, Reader!Again
  <2>3. CASE ReadPair
    BY <2>3, PairStep DEF Reader!Next
  <2>4. CASE PairTimesOut
    <3>1. readPc = "pair" /\ readPc' = "pair" /\ Len(rx) = 1 /\ rx' = SubSeq(rx, 2, Len(rx))
      BY <2>4 DEF PairTimesOut, Take
    <3>2. rx' = <<>>
      BY <3>1, SubSeqEmpty
    <3>3. Reader!Skip
      BY <3>1, <3>2 DEF Reader!Skip
    <3>4. QED
      BY <3>3 DEF Reader!Next
  <2>5. CASE ReadRest
    <3>1. /\ readPc = "rest" /\ readPc' = "returned" /\ buffer = Header
          /\ Len(rx) \in Nat /\ FrameSize \in Nat /\ FrameSize > 4 /\ Len(rx) >= FrameSize - 2
          /\ buffer' = buffer \o SubSeq(rx, 1, FrameSize - 2)
          /\ rx' = SubSeq(rx, FrameSize - 2 + 1, Len(rx))
      BY <2>5, LenProperties, FrameAssumption
         DEF ReadRest, Take, Remaining, ReaderInv, AnswerFits, FrameAssumption
    <3>2. PICK n \in 0..Len(rx) : n = FrameSize - 2
      BY <3>1
    <3>3. n + 2 = (IF Len(rx) + 2 < FrameSize THEN Len(rx) + 2 ELSE FrameSize)
      BY <3>1, <3>2
    <3>4. buffer' = Header \o SubSeq(rx, 1, n) /\ rx' = SubSeq(rx, n + 1, Len(rx))
      BY <3>1, <3>2
    <3>5. Reader!Take
      BY <3>1, <3>3, <3>4, TakeStep
    <3>6. QED
      BY <3>5 DEF Reader!Next
  <2>6. CASE RestTimesOut
    <3>1. /\ readPc = "rest" /\ readPc' = "returned" /\ buffer = Header /\ rx \in Seq(Byte)
          /\ Len(rx) \in Nat /\ FrameSize \in Nat /\ Len(rx) < FrameSize - 2
          /\ buffer' = buffer \o rx /\ rx' = <<>>
      BY <2>6, LenProperties, FrameAssumption
         DEF RestTimesOut, Remaining, ReaderInv, AnswerFits, FrameAssumption
    <3>2. PICK n \in 0..Len(rx) : n = Len(rx)
      BY <3>1
    <3>3. n + 2 = (IF Len(rx) + 2 < FrameSize THEN Len(rx) + 2 ELSE FrameSize)
      BY <3>1, <3>2
    <3>4. SubSeq(rx, 1, n) = rx /\ SubSeq(rx, n + 1, Len(rx)) = <<>>
      BY <3>1, <3>2, SubSeqFull, SubSeqEmpty
    <3>5. buffer' = Header \o SubSeq(rx, 1, n) /\ rx' = SubSeq(rx, n + 1, Len(rx))
      BY <3>1, <3>4
    <3>6. Reader!Take
      BY <3>1, <3>3, <3>5, TakeStep
    <3>7. QED
      BY <3>6 DEF Reader!Next
  <2>7. CASE SensorSends
    BY <2>7 DEF SensorSends, StreamOf, TakenOf
  <2>8. CASE ByteArrives \/ LineFails
    <3>1. UNCHANGED <<readPc, buffer>>
      BY <2>8 DEF ByteArrives, LineFails
    <3>2. Head(wire) \in Byte
      BY <2>8, HeadTailProperties DEF ByteArrives, LineFails, ReaderInv
    <3>3. rx' = rx \/ \E b \in Byte : rx' = Append(rx, b)
      BY <2>8, <3>2 DEF ByteArrives, LineFails
    <3>4. CASE rx' = rx
      BY <3>1, <3>4 DEF StreamOf, TakenOf
    <3>5. CASE \E b \in Byte : rx' = Append(rx, b)
      BY <3>1, <3>5, ArriveStep DEF Reader!Next
    <3>6. QED
      BY <3>3, <3>4, <3>5
  <2>9. CASE UNCHANGED frameVars
    BY <2>9 DEF frameVars, StreamOf, TakenOf
  <2>10. QED
    BY <2>1, <2>2, <2>3, <2>4, <2>5, <2>6, <2>7, <2>8, <2>9 DEF FrameNext, pms7003_read
<1>3. FrameInit => ReaderInv
  BY ReaderInitially
<1>4. ReaderInv /\ [FrameNext]_frameVars => ReaderInv'
  BY ReaderStep
<1>5. QED
  BY <1>1, <1>2, <1>3, <1>4, PTL DEF FrameSpec, ImplementsReader, Reader!Spec

--------------------------------------------------------------------------------
(* What is accepted. *)

\* Whatever the line did, what pms7003_frame_receive accepts has the form of a frame
\* (pms7003.c:44-54, :100-103), for every size of a frame and number of values of a byte.
THEOREM AcceptedIsWhole == FrameSpec => []AcceptedIsAFrame
<1>1. ReaderInv => AcceptedIsAFrame
  <2> SUFFICES ASSUME ReaderInv, Accepted
               PROVE  buffer = FrameOf(SubSeq(buffer, 3, FrameSize - 2))
    BY DEF AcceptedIsAFrame
  <2> DEFINE content == SubSeq(buffer, 3, FrameSize - 2)
  <2>1. /\ buffer \in Seq(Byte) /\ Len(buffer) = FrameSize /\ Sound(buffer)
        /\ buffer[1] = Start1 /\ buffer[2] = Start2
    BY DEF ReaderInv, AnswerFits, Accepted, pms7003_frame_receive
  <2>2. PICK n \in Nat : n = FrameSize - 4 /\ FrameSize = n + 4 /\ FrameSize - 2 = n + 2
                         /\ (n + 2) - 3 + 1 = n
    BY FrameAssumption DEF FrameAssumption
  <2>3. /\ content \in Seq(Byte) /\ Len(content) = n
        /\ \A i \in 1..n : content[i] = buffer[i + 2]
    <3>1. 3 \in Nat \ {0} /\ n + 2 \in Nat /\ 3 <= (n + 2) + 1 /\ n + 2 <= Len(buffer)
      BY <2>1, <2>2
    <3>2. /\ SubSeq(buffer, 3, n + 2) \in Seq(Byte) /\ Len(SubSeq(buffer, 3, n + 2)) = (n + 2) - 3 + 1
          /\ \A i \in 1..(n + 2) - 3 + 1 : SubSeq(buffer, 3, n + 2)[i] = buffer[3 + i - 1]
      BY <2>1, <3>1, PartOf
    <3>3. \A i \in 1..n : 3 + i - 1 = i + 2
      OBVIOUS
    <3>4. QED
      BY <2>2, <3>2, <3>3
  <2> HIDE DEF content
  <2>4. content \in [1..FrameSize - 4 -> Byte] /\ buffer \in [1..FrameSize -> Byte]
    <3>1. content \in [1..n -> Byte]
      BY <2>3
    <3>2. buffer \in [1..FrameSize -> Byte]
      BY <2>1
    <3>3. QED
      BY <2>2, <3>1, <3>2
  <2>5. /\ buffer[FrameSize - 1] = (Total(content) \div Base) % Base
        /\ buffer[FrameSize] = Total(content) % Base
    BY <2>1, <2>2, <2>3, <2>4, SoundMeans
  <2>6. ASSUME NEW i \in 1..FrameSize
        PROVE  buffer[i] = FrameOf(content)[i]
    <3>1. CASE i \in {1, 2}
      BY <2>1, <2>4, <3>1, FrameBytes
    <3>2. CASE i \in {FrameSize - 1, FrameSize}
      BY <2>4, <2>5, <3>2, FrameBytes
    <3>3. CASE i \in 3..FrameSize - 2
      <4>1. PICK j \in 1..n : i = j + 2
        <5>1. i - 2 \in 1..n /\ i = (i - 2) + 2
          BY <2>2, <3>3
        <5>2. QED
          BY <5>1
      <4>2. buffer[j + 2] = content[j]
        BY <2>3
      <4>3. FrameOf(content)[j + 2] = content[j]
        BY <2>2, <2>4, FrameBytes
      <4>4. QED
        BY <4>1, <4>2, <4>3
    <3>4. QED
      BY <2>2, <3>1, <3>2, <3>3
  <2>7. buffer = FrameOf(content)
    BY <2>1, <2>4, <2>6, FrameOfBytes
  <2>8. QED
    BY <2>7 DEF content
<1>2. FrameInit => ReaderInv
  BY ReaderInitially
<1>3. ReaderInv /\ [FrameNext]_frameVars => ReaderInv'
  BY ReaderStep
<1>4. QED
  BY <1>1, <1>2, <1>3, PTL DEF FrameSpec

--------------------------------------------------------------------------------
(* The undisturbed answer.  While it comes, what has arrived and what is still  *)
(* on the wire begins with its frame, or with the part of the frame that the    *)
(* read has not taken yet.                                                      *)

Behind == IF readPc = "rest" THEN 2 ELSE 0

\* Byte j of those that have arrived and those that are under way.
Pending(j) == IF j <= Len(rx) THEN rx[j] ELSE wire[j - Len(rx)]

Coming ==
  expected # <<>> =>
    /\ expected \in Contents
    /\ readPc \in {"pair", "rest", "returned"}
    /\ readPc = "returned" => buffer = FrameOf(expected)
    /\ readPc # "returned" =>
         /\ FrameSize <= Behind + Len(rx) + Len(wire)
         /\ \A i \in Behind + 1..FrameSize : Pending(i - Behind) = FrameOf(expected)[i]

LEMMA ComingInitially == FrameInit => Coming
  BY DEF FrameInit, Coming

\* A new frame goes on the wire behind what has arrived.
LEMMA ComingSend ==
  ASSUME ReaderInv, Coming, SensorSends
  PROVE  Coming'
<1>1. PICK content \in Contents :
        /\ wire' = FrameOf(content)
        /\ expected' = IF expected = <<>> /\ rx = <<>> /\ readPc = "pair"
                       THEN content ELSE expected
  BY DEF SensorSends
<1>2. /\ wire = <<>> /\ UNCHANGED <<readPc, buffer, rx, faults>>
      /\ rx \in Seq(Byte) /\ Len(rx) \in Nat
  BY LenProperties DEF SensorSends, ReaderInv
<1>3. wire' \in Seq(Byte) /\ Len(wire') = FrameSize /\ FrameSize \in Nat
  BY <1>1, ContentForm, FrameBytes, FrameAssumption DEF FrameAssumption
<1>4. CASE expected = <<>> /\ rx = <<>> /\ readPc = "pair"
  <2>1. expected' = content /\ Behind' = 0 /\ Len(rx') = 0
    BY <1>1, <1>2, <1>4 DEF Behind
  <2>2. \A i \in 1..FrameSize : Pending(i - 0)' = FrameOf(content)[i]
    <3> TAKE i \in 1..FrameSize
    <3>1. i - 0 = i /\ ~(i <= 0) /\ i \in Nat
      OBVIOUS
    <3>2. Pending(i)' = wire'[i]
      BY <2>1, <3>1 DEF Pending
    <3>3. QED
      BY <1>1, <3>1, <3>2
  <2>3. FrameSize <= Behind' + Len(rx') + Len(wire')
    BY <1>3, <2>1
  <2>4. QED
    BY <1>2, <1>4, <2>1, <2>2, <2>3 DEF Coming
<1>5. CASE ~(expected = <<>> /\ rx = <<>> /\ readPc = "pair")
  <2>1. expected' = expected /\ Behind' = Behind /\ Behind \in {0, 2} /\ Len(wire) = 0
    BY <1>1, <1>2, <1>5 DEF Behind
  <2>2. SUFFICES ASSUME expected # <<>>, readPc # "returned"
                 PROVE  /\ FrameSize <= Behind + Len(rx) + Len(wire')
                        /\ \A i \in Behind + 1..FrameSize :
                             Pending(i - Behind)' = FrameOf(expected)[i]
    BY <1>2, <2>1 DEF Coming
  <2>3. FrameSize <= Behind + Len(rx)
    BY <1>2, <1>3, <2>1, <2>2 DEF Coming
  <2>4. \A i \in Behind + 1..FrameSize : Pending(i - Behind)' = FrameOf(expected)[i]
    <3> TAKE i \in Behind + 1..FrameSize
    <3>1. i - Behind <= Len(rx)
      BY <1>2, <1>3, <2>1, <2>3
    <3>2. Pending(i - Behind)' = rx[i - Behind] /\ Pending(i - Behind) = rx[i - Behind]
      BY <1>2, <2>1, <3>1 DEF Pending
    <3>3. QED
      BY <2>2, <3>2 DEF Coming
  <2>5. QED
    BY <1>2, <1>3, <2>1, <2>3, <2>4
<1>6. QED
  BY <1>4, <1>5

\* A byte that arrives moves from the wire to the receive buffer; where it is lost, the
\* receive buffer holds the whole frame.
LEMMA ComingArrive ==
  ASSUME ReaderInv, Coming, ByteArrives
  PROVE  Coming'
<1>1. /\ wire # <<>> /\ wire' = Tail(wire) /\ UNCHANGED <<readPc, buffer, expected>>
      /\ rx' = IF Len(rx) < RxBytes THEN Append(rx, Head(wire)) ELSE rx
      /\ rx \in Seq(Byte) /\ wire \in Seq(Byte) /\ Len(rx) \in Nat /\ Len(wire) \in Nat
  BY LenProperties DEF ByteArrives, ReaderInv
<1>2. Behind' = Behind /\ Behind \in {0, 2}
  BY <1>1 DEF Behind
<1>3. SUFFICES ASSUME expected # <<>>, readPc # "returned"
               PROVE  /\ FrameSize <= Behind + Len(rx') + Len(wire')
                      /\ \A i \in Behind + 1..FrameSize :
                           Pending(i - Behind)' = FrameOf(expected)[i]
  BY <1>1, <1>2 DEF Coming
<1>4. /\ FrameSize <= Behind + Len(rx) + Len(wire)
      /\ \A i \in Behind + 1..FrameSize : Pending(i - Behind) = FrameOf(expected)[i]
  BY <1>3 DEF Coming
<1>5. /\ Len(wire') = Len(wire) - 1 /\ Len(wire) > 0
      /\ \A i \in 1..Len(wire) - 1 : wire'[i] = wire[i + 1]
      /\ Head(wire) = wire[1] /\ Head(wire) \in Byte
  BY <1>1, HeadTailProperties
<1>6. FrameSize \in Nat /\ RxBytes \in Nat /\ FrameSize <= RxBytes
  BY FrameAssumption DEF FrameAssumption
<1>7. CASE Len(rx) < RxBytes
  <2>1. /\ rx' = Append(rx, Head(wire)) /\ Len(rx') = Len(rx) + 1
        /\ \A i \in 1..Len(rx) : rx'[i] = rx[i]
        /\ rx'[Len(rx) + 1] = wire[1]
    BY <1>1, <1>5, <1>7, AppendProperties
  <2>2. ASSUME NEW j \in 1..Len(rx) + Len(wire)
        PROVE  Pending(j)' = Pending(j)
    <3>1. CASE j <= Len(rx)
      <4>1. Pending(j)' = rx'[j] /\ Pending(j) = rx[j] /\ j \in 1..Len(rx)
        BY <1>1, <2>1, <3>1 DEF Pending
      <4>2. QED
        BY <2>1, <4>1
    <3>2. CASE j = Len(rx) + 1
      <4>1. j <= Len(rx') /\ ~(j <= Len(rx)) /\ j - Len(rx) = 1
        BY <1>1, <2>1, <3>2
      <4>2. Pending(j)' = rx'[Len(rx) + 1] /\ Pending(j) = wire[1]
        BY <3>2, <4>1 DEF Pending
      <4>3. QED
        BY <2>1, <4>2
    <3>3. CASE j > Len(rx) + 1
      <4>1. PICK k \in 1..Len(wire) - 1 :
              k = j - (Len(rx) + 1) /\ k + 1 = j - Len(rx)
        <5>1. /\ j - (Len(rx) + 1) \in 1..Len(wire) - 1
              /\ (j - (Len(rx) + 1)) + 1 = j - Len(rx)
          BY <1>1, <3>3
        <5>2. QED
          BY <5>1
      <4>2. Pending(j)' = wire'[k] /\ Pending(j) = wire[k + 1]
        BY <1>1, <2>1, <3>3, <4>1 DEF Pending
      <4>3. QED
        BY <1>5, <4>1, <4>2
    <3>4. QED
      BY <1>1, <3>1, <3>2, <3>3
  <2>3. \A i \in Behind + 1..FrameSize : i - Behind \in 1..Len(rx) + Len(wire)
    BY <1>1, <1>2, <1>4, <1>6
  <2>4. \A i \in Behind + 1..FrameSize : Pending(i - Behind)' = FrameOf(expected)[i]
    <3> TAKE i \in Behind + 1..FrameSize
    <3>1. PICK j \in 1..Len(rx) + Len(wire) : j = i - Behind
      BY <2>3
    <3>2. Pending(i - Behind)' = Pending(j)' /\ Pending(i - Behind) = Pending(j)
      BY <1>2, <3>1 DEF Pending
    <3>3. Pending(j)' = Pending(j)
      BY <2>2
    <3>4. QED
      BY <1>4, <3>2, <3>3
  <2>5. FrameSize <= Behind + Len(rx') + Len(wire')
    BY <1>1, <1>2, <1>4, <1>5, <1>6, <2>1
  <2>6. QED
    BY <2>4, <2>5
<1>8. CASE ~(Len(rx) < RxBytes)
  <2>1. rx' = rx /\ FrameSize <= Len(rx)
    BY <1>1, <1>6, <1>8
  <2>2. \A i \in Behind + 1..FrameSize : Pending(i - Behind)' = FrameOf(expected)[i]
    <3> TAKE i \in Behind + 1..FrameSize
    <3>1. i - Behind <= Len(rx)
      BY <1>1, <1>2, <1>6, <2>1
    <3>2. Pending(i - Behind)' = rx[i - Behind] /\ Pending(i - Behind) = rx[i - Behind]
      BY <1>2, <2>1, <3>1 DEF Pending
    <3>3. QED
      BY <1>4, <3>2
  <2>3. FrameSize <= Behind + Len(rx') + Len(wire')
    BY <1>1, <1>2, <1>5, <1>6, <2>1
  <2>4. QED
    BY <2>2, <2>3
<1>9. QED
  BY <1>7, <1>8

\* The undisturbed answer comes first, so that the search finds its start characters at
\* once.
LEMMA ComingPair ==
  ASSUME ReaderInv, Coming, ReadPair
  PROVE  Coming'
<1>1. /\ readPc = "pair" /\ rx \in Seq(Byte) /\ Len(rx) \in Nat /\ Len(rx) >= 2
      /\ rx' = SubSeq(rx, 3, Len(rx)) /\ UNCHANGED <<wire, expected>>
      /\ Len(wire) \in Nat /\ FrameSize \in Nat /\ FrameSize > 4
  BY LenProperties, FrameAssumption DEF ReadPair, Take, ReaderInv, FrameAssumption
<1>2. SUFFICES ASSUME expected # <<>>
               PROVE  /\ readPc' = "rest"
                      /\ FrameSize <= 2 + Len(rx') + Len(wire)
                      /\ \A i \in 3..FrameSize : Pending(i - 2)' = FrameOf(expected)[i]
  <2>1. Behind' = 2 <=> readPc' = "rest"
    BY DEF Behind
  <2>2. ASSUME Behind' = 2, \A i \in 3..FrameSize : Pending(i - 2)' = FrameOf(expected)[i]
        PROVE  \A i \in Behind' + 1..FrameSize : Pending(i - Behind)' = FrameOf(expected)[i]
    <3> TAKE i \in Behind' + 1..FrameSize
    <3>1. i \in 3..FrameSize
      BY <1>1, <2>2
    <3>2. Pending(i - Behind)' = Pending(i - 2)'
      BY <2>2, Zenon DEF Pending
    <3>3. QED
      BY <2>2, <3>1, <3>2
  <2>3. expected = <<>> => Coming'
    BY <1>1 DEF Coming
  <2>4. expected # <<>> => expected \in Contents
    BY DEF Coming
  <2>5. QED
    BY <1>1, <1>2, <2>1, <2>2, <2>3, <2>4 DEF Coming
<1>3. /\ expected \in Contents /\ FrameSize <= Len(rx) + Len(wire)
      /\ \A i \in 1..FrameSize : Pending(i) = FrameOf(expected)[i]
  <2>1. Behind = 0 /\ \A i \in 1..FrameSize : i - 0 = i
    BY <1>1 DEF Behind
  <2>2. /\ expected \in Contents /\ FrameSize <= 0 + Len(rx) + Len(wire)
        /\ \A i \in 0 + 1..FrameSize : Pending(i - 0) = FrameOf(expected)[i]
    BY <1>1, <1>2, <2>1 DEF Coming
  <2>3. QED
    BY <1>1, <2>1, <2>2
<1>4. SubSeq(rx, 1, 2) = Header
  <2>1. /\ SubSeq(rx, 1, 2) \in Seq(Byte) /\ Len(SubSeq(rx, 1, 2)) = 2
        /\ SubSeq(rx, 1, 2)[1] = rx[1] /\ SubSeq(rx, 1, 2)[2] = rx[2]
    <3>1. 1 \in Nat \ {0} /\ 2 \in Nat /\ 1 <= 2 + 1 /\ 2 <= Len(rx)
      BY <1>1
    <3>2. /\ SubSeq(rx, 1, 2) \in Seq(Byte) /\ Len(SubSeq(rx, 1, 2)) = 2 - 1 + 1
          /\ \A i \in 1..2 - 1 + 1 : SubSeq(rx, 1, 2)[i] = rx[1 + i - 1]
      BY <1>1, <3>1, PartOf
    <3>3. QED
      BY <3>2
  <2>2. rx[1] = Start1 /\ rx[2] = Start2
    <3>1. Pending(1) = rx[1] /\ Pending(2) = rx[2]
      BY <1>1 DEF Pending
    <3>2. Pending(1) = FrameOf(expected)[1] /\ Pending(2) = FrameOf(expected)[2]
      BY <1>1, <1>3
    <3>3. QED
      BY <1>3, <3>1, <3>2, ContentForm, FrameBytes
  <2>3. Header[1] = Start1 /\ Header[2] = Start2
    BY DEF Header
  <2>4. \A i \in 1..2 : SubSeq(rx, 1, 2)[i] = Header[i]
    BY <2>1, <2>2, <2>3
  <2>5. QED
    BY <2>1, <2>4, HeaderIsASequence, SeqEqual
<1>5. readPc' = "rest"
  BY <1>4 DEF ReadPair
<1>6. Len(rx') = Len(rx) - 2 /\ \A j \in 1..Len(rx) - 2 : rx'[j] = rx[j + 2]
  <2>1. PICK l \in Nat : l = Len(rx) /\ 3 <= l + 1 /\ l - 3 + 1 = l - 2
    BY <1>1
  <2>2. /\ Len(SubSeq(rx, 3, l)) = l - 3 + 1
        /\ \A i \in 1..l - 3 + 1 : SubSeq(rx, 3, l)[i] = rx[3 + i - 1]
    BY <1>1, <2>1, PartOf
  <2>3. \A i \in 1..l - 2 : 3 + i - 1 = i + 2
    OBVIOUS
  <2>4. QED
    BY <1>1, <2>1, <2>2, <2>3
<1>7. \A i \in 3..FrameSize : Pending(i - 2)' = FrameOf(expected)[i]
  <2> TAKE i \in 3..FrameSize
  <2>1. i \in 1..FrameSize /\ i \in Nat
    BY <1>1
  <2>2. CASE i <= Len(rx)
    <3>1. i - 2 \in 1..Len(rx) - 2 /\ (i - 2) + 2 = i /\ i - 2 <= Len(rx')
      BY <1>1, <1>6, <2>1, <2>2
    <3>2. Pending(i - 2)' = rx'[i - 2] /\ Pending(i) = rx[i]
      BY <2>2, <3>1 DEF Pending
    <3>3. rx'[i - 2] = rx[i]
      BY <1>6, <3>1
    <3>4. QED
      BY <1>3, <2>1, <3>2, <3>3
  <2>3. CASE ~(i <= Len(rx))
    <3>1. ~(i - 2 <= Len(rx')) /\ (i - 2) - Len(rx') = i - Len(rx)
      BY <1>1, <1>6, <2>1, <2>3
    <3>2. Pending(i - 2)' = wire'[(i - 2) - Len(rx')] /\ Pending(i) = wire[i - Len(rx)]
      BY <2>3, <3>1 DEF Pending
    <3>3. QED
      BY <1>1, <1>3, <2>1, <3>1, <3>2
  <2>4. QED
    BY <2>2, <2>3
<1>8. QED
  BY <1>1, <1>3, <1>5, <1>6, <1>7

\* The second call of uart_read_bytes takes the remaining bytes of the frame.
LEMMA ComingRest ==
  ASSUME ReaderInv, Coming, ReadRest
  PROVE  Coming'
<1>1. /\ readPc = "rest" /\ readPc' = "returned" /\ rx \in Seq(Byte) /\ Len(rx) \in Nat
      /\ buffer' = Header \o SubSeq(rx, 1, Remaining) /\ UNCHANGED expected
  BY LenProperties DEF ReadRest, ReaderInv, AnswerFits
<1>2. PICK n \in Nat : n = Remaining /\ n <= Len(rx) /\ FrameSize = n + 2
  BY FrameAssumption DEF ReadRest, Remaining, FrameAssumption
<1>3. SUFFICES ASSUME expected # <<>>
               PROVE  expected \in Contents /\ buffer' = FrameOf(expected)
  BY <1>1 DEF Coming
<1>4. /\ expected \in Contents
      /\ \A i \in 3..FrameSize : Pending(i - 2) = FrameOf(expected)[i]
  <2>1. Behind = 2 /\ 2 + 1 = 3
    BY <1>1 DEF Behind
  <2>2. /\ expected \in Contents
        /\ \A i \in 2 + 1..FrameSize : Pending(i - 2) = FrameOf(expected)[i]
    BY <1>1, <1>3, <2>1, Zenon DEF Coming
  <2>3. QED
    BY <2>1, <2>2
<1> DEFINE r == SubSeq(rx, 1, n)
<1>5. r \in Seq(Byte) /\ Len(r) = n /\ \A i \in 1..n : r[i] = rx[i]
  <2>1. 1 \in Nat \ {0} /\ 1 <= n + 1 /\ n <= Len(rx) /\ n - 1 + 1 = n
    BY <1>2
  <2>2. /\ r \in Seq(Byte) /\ Len(r) = n - 1 + 1
        /\ \A i \in 1..n - 1 + 1 : r[i] = rx[1 + i - 1]
    BY <1>1, <2>1, PartOf
  <2>3. \A i \in 1..n : 1 + i - 1 = i
    OBVIOUS
  <2>4. QED
    BY <2>1, <2>2, <2>3
<1>6. buffer' = Header \o r
  BY <1>1, <1>2
<1> HIDE DEF r
<1>7. /\ buffer' \in Seq(Byte) /\ Len(buffer') = FrameSize
      /\ \A i \in 1..FrameSize : buffer'[i] = IF i <= 2 THEN Header[i] ELSE r[i - 2]
  <2>1. /\ Header \o r \in Seq(Byte) /\ Len(Header \o r) = Len(Header) + Len(r)
        /\ \A i \in 1..Len(Header) + Len(r) :
             (Header \o r)[i] = IF i <= Len(Header) THEN Header[i] ELSE r[i - Len(Header)]
    BY <1>5, HeaderIsASequence, ConcatProperties, Zenon
  <2>2. Len(Header) = 2 /\ Len(Header) + Len(r) = FrameSize
    BY <1>2, <1>5, HeaderIsASequence
  <2>3. QED
    BY <1>6, <2>1, <2>2, Zenon
<1>8. ASSUME NEW i \in 1..FrameSize
      PROVE  buffer'[i] = FrameOf(expected)[i]
  <2>1. CASE i \in {1, 2}
    <3>1. buffer'[i] = Header[i]
      BY <1>7, <2>1
    <3>2. Header[1] = Start1 /\ Header[2] = Start2
      BY DEF Header
    <3>3. FrameOf(expected)[1] = Start1 /\ FrameOf(expected)[2] = Start2
      BY <1>4, ContentForm, FrameBytes
    <3>4. QED
      BY <2>1, <3>1, <3>2, <3>3
  <2>2. CASE i \in 3..FrameSize
    <3>1. ~(i <= 2) /\ i - 2 \in 1..n /\ i - 2 <= Len(rx)
      BY <1>1, <1>2, <2>2
    <3>2. buffer'[i] = r[i - 2] /\ r[i - 2] = rx[i - 2]
      BY <1>5, <1>7, <3>1
    <3>3. Pending(i - 2) = rx[i - 2]
      BY <3>1 DEF Pending
    <3>4. QED
      BY <1>4, <2>2, <3>2, <3>3
  <2>3. QED
    BY <1>2, <2>1, <2>2
<1>9. buffer' = FrameOf(expected)
  BY <1>4, <1>7, <1>8, ContentForm, FrameOfBytes
<1>10. QED
  BY <1>4, <1>9

LEMMA ComingStep ==
  ASSUME ReaderInv, Coming, [FrameNext]_frameVars
  PROVE  Coming'
<1>1. CASE Request \/ ReadAgain \/ PairTimesOut \/ RestTimesOut \/ LineFails
  <2>1. expected' = <<>>
    BY <1>1 DEF Request, ReadAgain, PairTimesOut, RestTimesOut, LineFails
  <2>2. QED
    BY <2>1 DEF Coming
<1>2. CASE UNCHANGED frameVars
  BY <1>2 DEF frameVars, Coming, Behind, Pending
<1>3. QED
  BY <1>1, <1>2, ComingSend, ComingArrive, ComingPair, ComingRest DEF FrameNext, pms7003_read

\* When the answer to a request comes undisturbed, the read returns that frame and no
\* other, it is accepted, and the sensor's number is the one measured (pms7003.c:91-109,
\* ether_main.c:379), for every size of a frame, of the receive buffer and of a byte.
THEOREM UndisturbedIsMeasured == FrameSpec => []UndisturbedIsExact
<1>1. ReaderInv /\ Coming => UndisturbedIsExact
  <2> SUFFICES ASSUME ReaderInv, Coming, expected # <<>>, readPc = "returned"
               PROVE  /\ Accepted
                      /\ buffer = FrameOf(expected)
                      /\ Measured = Base * expected[1] + expected[2]
    BY DEF UndisturbedIsExact
  <2>1. buffer = FrameOf(expected) /\ expected \in [1..FrameSize - 4 -> Byte]
    BY ContentForm DEF Coming
  <2>2. /\ buffer \in Seq(Byte) /\ Len(buffer) = FrameSize
        /\ buffer[1] = Start1 /\ buffer[2] = Start2
        /\ \A i \in 1..FrameSize - 4 : buffer[i + 2] = expected[i]
        /\ buffer[FrameSize - 1] = (Total(expected) \div Base) % Base
        /\ buffer[FrameSize] = Total(expected) % Base
    BY <2>1, FrameBytes
  <2>3. buffer \in [1..FrameSize -> Byte]
    BY <2>2
  <2>4. Sound(buffer)
    BY <2>1, <2>2, <2>3, SoundMeans
  <2>5. Accepted
    BY <2>2, <2>4 DEF Accepted, pms7003_frame_receive
  <2>6. 1 \in 1..FrameSize - 4 /\ 2 \in 1..FrameSize - 4
    BY FrameAssumption DEF FrameAssumption
  <2>7. buffer[3] = expected[1] /\ buffer[3 + 1] = expected[2]
    BY <2>2, <2>6
  <2>8. expected[1] \in Byte /\ expected[2] \in Byte
    BY <2>1, <2>6
  <2>9. convert_to_little_endian(Field(buffer, 3)) = buffer[3] * Base + buffer[3 + 1]
    BY <2>7, <2>8, LineOrder
  <2>10. expected[1] * Base = Base * expected[1]
    BY <2>8, FrameAssumption DEF FrameAssumption, Byte
  <2>11. QED
    BY <2>1, <2>5, <2>7, <2>9, <2>10, Zenon DEF Measured
<1>2. FrameInit => ReaderInv /\ Coming
  BY ReaderInitially, ComingInitially
<1>3. ReaderInv /\ Coming /\ [FrameNext]_frameVars => ReaderInv' /\ Coming'
  BY ReaderStep, ComingStep
<1>4. QED
  BY <1>1, <1>2, <1>3, PTL DEF FrameSpec
================================================================================
