---------------------------- MODULE PerplsProofs ----------------------------
(***************************************************************************)
(* Proofs about Perpls and Encodings: a status survives its packet and the *)
(* decimal digits, the tools agree on it, and the listing is in order.     *)
(***************************************************************************)
EXTENDS Perpls, SequenceTheorems, FiniteSetTheorems, WellFoundedInduction, TLAPS

(***************************************************************************)
(* Induction on natural numbers.                                           *)
(***************************************************************************)
\* A set of natural numbers has a least element: the intervals that end in it
\* are well-founded by inclusion.
LEMMA Least ==
  ASSUME NEW T \in SUBSET Nat, T # {}
  PROVE  \E m \in T : \A n \in T : m <= n
<1> DEFINE C == {0 .. n : n \in T}
           Inside == StrictSubsetOrdering(Nat)
<1>1. IsWellFoundedOn(Inside, FiniteSubsetsOf(Nat))
  BY FS_StrictSubsetOrderingWellFounded
<1>2. C \subseteq FiniteSubsetsOf(Nat) /\ C # {}
  <2>1. ASSUME NEW n \in T PROVE IsFiniteSet(0 .. n) /\ 0 .. n \in SUBSET Nat
    BY FS_Interval
  <2> QED BY <2>1 DEF FiniteSubsetsOf
<1> HIDE DEF Inside, C
<1>3. PICK x \in C : \A y \in C : ~ (<<y, x>> \in Inside)
  BY <1>1, <1>2, WFMin
<1>4. PICK m \in T : x = 0 .. m
  BY <1>3 DEF C
<1>5. ASSUME NEW n \in T, n < m PROVE FALSE
  <2>1. 0 .. n \in C /\ 0 .. n \subseteq x /\ m \in x /\ m \notin 0 .. n
    BY <1>4, <1>5 DEF C
  <2>2. x \in SUBSET Nat /\ 0 .. n \in SUBSET Nat
    BY <1>4
  <2>3. <<0 .. n, x>> \in Inside
    BY <2>1, <2>2 DEF Inside, StrictSubsetOrdering
  <2> QED BY <1>3, <2>1, <2>3
<1> QED BY <1>5

\* What holds of 0, and of n + 1 if it holds of n, holds of every number.
LEMMA Induct ==
  ASSUME NEW S \in SUBSET Nat, 0 \in S, \A n \in S : n + 1 \in S
  PROVE  S = Nat
<1> SUFFICES ASSUME Nat \ S # {} PROVE FALSE
  OBVIOUS
<1>1. PICK m \in Nat \ S : \A n \in Nat \ S : m <= n
  BY Least
<1>2. m # 0 /\ m - 1 \in Nat
  BY <1>1
<1> QED BY <1>1, <1>2

(***************************************************************************)
(* Repetition: a step done n times, the k-th with its number.              *)
(***************************************************************************)
\* f records the results of the first N steps of G, from x; s goes through the
\* same steps as long as it agrees with f; f and g agree up to N.
Runs(G, x, N, f) == f = [k \in 0 .. N |-> IF k = 0 THEN x ELSE G[<<k, f[k - 1]>>]]
Follows(G, x, N, f, s) ==
  s[0] = x /\ \A k \in 1 .. N : s[k - 1] = f[k - 1] => s[k] = G[<<k, s[k - 1]>>]
Same(N, f, g) == \A k \in 0 .. N : f[k] = g[k]

\* There is such an f, and its results are of the step's type.
LEMMA RunsExist ==
  ASSUME NEW S, NEW x \in S, NEW G \in [Nat \X S -> S], NEW N \in Nat
  PROVE  \E f \in [0 .. N -> S] : Runs(G, x, N, f)
<1> DEFINE P(m) == \E f \in [0 .. m -> S] : Runs(G, x, m, f)
           T == {m \in Nat : P(m)}
<1>1. P(0)
  <2> DEFINE h == [k \in 0 .. 0 |-> x]
  <2>1. h = [k \in 0 .. 0 |-> IF k = 0 THEN x ELSE G[<<k, h[k - 1]>>]] /\ h \in [0 .. 0 -> S]
    OBVIOUS
  <2> QED BY <2>1 DEF Runs
<1>2. ASSUME NEW m \in Nat, P(m) PROVE P(m + 1)
  <2>1. PICK h \in [0 .. m -> S] : h = [k \in 0 .. m |-> IF k = 0 THEN x ELSE G[<<k, h[k - 1]>>]]
    BY <1>2 DEF Runs
  <2> DEFINE new == G[<<m + 1, h[m]>>]
             g == [k \in 0 .. m + 1 |-> IF k = m + 1 THEN new ELSE h[k]]
  <2>2. new \in S
    <3>1. <<m + 1, h[m]>> \in Nat \X S
      BY <2>1
    <3> QED BY <3>1
  <2>3. g \in [0 .. m + 1 -> S]
    BY <2>1, <2>2
  <2>4. ASSUME NEW k \in 0 .. m + 1 PROVE g[k] = IF k = 0 THEN x ELSE G[<<k, g[k - 1]>>]
    <3>1. CASE k = m + 1
      <4>1. g[k] = new /\ k # 0 /\ g[k - 1] = h[m] /\ k - 1 = m
        BY <3>1
      <4> QED BY <4>1, <3>1
    <3>2. CASE k \in 0 .. m
      <4>1. g[k] = h[k] /\ (k # 0 => k - 1 \in 0 .. m /\ g[k - 1] = h[k - 1])
        BY <3>2
      <4>2. h[k] = IF k = 0 THEN x ELSE G[<<k, h[k - 1]>>]
        BY <2>1, <3>2
      <4> QED BY <4>1, <4>2
    <3> QED BY <3>1, <3>2
  <2>5. g = [k \in 0 .. m + 1 |-> g[k]]
    OBVIOUS
  <2> HIDE DEF g
  <2>6. g = [k \in 0 .. m + 1 |-> IF k = 0 THEN x ELSE G[<<k, g[k - 1]>>]]
    BY <2>4, <2>5
  <2> QED BY <2>3, <2>6 DEF Runs
<1>3. T = Nat
  <2> HIDE DEF P
  <2>1. 0 \in T /\ \A n \in T : n + 1 \in T
    BY <1>1, <1>2
  <2> QED BY <2>1, Induct
<1> QED BY <1>3

\* What is recorded does not depend on how long one records.
LEMMA RunsAgree ==
  ASSUME NEW G, NEW x, NEW N \in Nat, NEW M \in Nat, NEW f, NEW g,
         Runs(G, x, N, f), Runs(G, x, M, g), N <= M
  PROVE  Same(N, f, g)
<1> DEFINE T == {k \in Nat : k \in 0 .. N => f[k] = g[k]}
<1>0. /\ f[0] = x /\ \A k \in 1 .. N : f[k] = G[<<k, f[k - 1]>>]
      /\ g[0] = x /\ \A k \in 1 .. M : g[k] = G[<<k, g[k - 1]>>]
  BY DEF Runs
<1>1. 0 \in T
  BY <1>0
<1>2. ASSUME NEW n \in T PROVE n + 1 \in T
  <2>1. CASE n + 1 \in 0 .. N
    <3>1. n \in 0 .. N /\ n + 1 \in 1 .. N /\ n + 1 \in 1 .. M /\ (n + 1) - 1 = n
      BY <2>1
    <3>2. f[n] = g[n]
      BY <1>2, <3>1
    <3>3. f[n + 1] = G[<<n + 1, f[n]>>] /\ g[n + 1] = G[<<n + 1, g[n]>>]
      BY <1>0, <3>1
    <3> QED BY <3>2, <3>3
  <2> QED BY <2>1
<1>3. T = Nat
  <2> HIDE DEF T
  <2> QED BY <1>1, <1>2, Induct DEF T
<1> QED BY <1>3 DEF Same

\* What steps as G does, starting from x, is what is recorded.
LEMMA RunsOnly ==
  ASSUME NEW x, NEW G, NEW N \in Nat, NEW f, Runs(G, x, N, f),
         NEW s, Follows(G, x, N, f, s)
  PROVE  Same(N, s, f)
<1> DEFINE T == {k \in Nat : k \in 0 .. N => s[k] = f[k]}
<1>0. /\ f[0] = x /\ \A k \in 1 .. N : f[k] = G[<<k, f[k - 1]>>]
      /\ s[0] = x /\ \A k \in 1 .. N : s[k - 1] = f[k - 1] => s[k] = G[<<k, s[k - 1]>>]
  BY DEF Runs, Follows
<1>1. 0 \in T
  BY <1>0
<1>2. ASSUME NEW n \in T PROVE n + 1 \in T
  <2>1. CASE n + 1 \in 0 .. N
    <3>1. n \in 0 .. N /\ n + 1 \in 1 .. N /\ (n + 1) - 1 = n
      BY <2>1
    <3>2. s[n] = f[n]
      BY <1>2, <3>1
    <3>3. f[n + 1] = G[<<n + 1, f[n]>>] /\ s[n + 1] = G[<<n + 1, s[n]>>]
      BY <1>0, <3>1, <3>2
    <3> QED BY <3>2, <3>3
  <2> QED BY <2>1
<1>3. T = Nat
  <2> HIDE DEF T
  <2> QED BY <1>1, <1>2, Induct DEF T
<1> QED BY <1>3 DEF Same

(***************************************************************************)
(* Encodings: shifts, bytes and digits.                                    *)
(***************************************************************************)
ByteStep == [p \in Nat \X Nat |-> p[2] \div 256]

LEMMA ShiftedRuns ==
  ASSUME NEW u \in Nat, NEW n \in Nat
  PROVE  \E f \in [0 .. n -> Nat] : Runs(ByteStep, u, n, f) /\ Shifted(u, n) = f[n]
<1>1. ByteStep \in [Nat \X Nat -> Nat]
  <2>1. \A p \in Nat \X Nat : p[2] \div 256 \in Nat
    OBVIOUS
  <2> QED BY <2>1 DEF ByteStep
<1>2. PICK f \in [0 .. n -> Nat] : Runs(ByteStep, u, n, f)
  BY <1>1, RunsExist
<1>3. f = [k \in 0 .. n |-> IF k = 0 THEN u ELSE f[k - 1] \div 256]
  <2>1. ASSUME NEW k \in 0 .. n, k # 0 PROVE ByteStep[<<k, f[k - 1]>>] = f[k - 1] \div 256
    <3>1. <<k, f[k - 1]>> \in Nat \X Nat
      BY <2>1
    <3> QED BY <3>1 DEF ByteStep
  <2> QED BY <1>2, <2>1 DEF Runs
<1> DEFINE s == CHOOSE s : s = [k \in 0 .. n |-> IF k = 0 THEN u ELSE s[k - 1] \div 256]
<1>4. s = [k \in 0 .. n |-> IF k = 0 THEN u ELSE s[k - 1] \div 256]
  BY <1>3
<1>5. Shifted(u, n) = s[n]
  BY DEF Shifted
<1> HIDE DEF s
<1>6. ASSUME NEW k \in 1 .. n, s[k - 1] = f[k - 1] PROVE s[k] = ByteStep[<<k, s[k - 1]>>]
  <2>1. s[k] = s[k - 1] \div 256
    BY <1>4
  <2>2. <<k, s[k - 1]>> \in Nat \X Nat
    BY <1>6
  <2> QED BY <2>1, <2>2 DEF ByteStep
<1>7. s[0] = u
  BY <1>4
<1>8. \A k \in 0 .. n : s[k] = f[k]
  <2>1. Follows(ByteStep, u, n, f, s)
    BY <1>6, <1>7 DEF Follows
  <2>2. Same(n, s, f)
    BY <1>2, <2>1, RunsOnly
  <2> QED BY <2>2 DEF Same
<1>9. s[n] = f[n]
  BY <1>8
<1> QED BY <1>2, <1>5, <1>9

\* A shift by n + 1 bytes is one by n, and one more.
LEMMA ShiftedIs ==
  ASSUME NEW u \in Nat, NEW n \in Nat
  PROVE  /\ Shifted(u, n) \in Nat /\ Shifted(u, 0) = u
         /\ Shifted(u, n + 1) = Shifted(u, n) \div 256
<1>1. PICK f \in [0 .. n -> Nat] : Runs(ByteStep, u, n, f) /\ Shifted(u, n) = f[n]
  BY ShiftedRuns
<1>2. PICK g \in [0 .. n + 1 -> Nat] : Runs(ByteStep, u, n + 1, g) /\ Shifted(u, n + 1) = g[n + 1]
  <2>1. n + 1 \in Nat
    OBVIOUS
  <2> QED BY <2>1, ShiftedRuns
<1>3. PICK h \in [0 .. 0 -> Nat] : Runs(ByteStep, u, 0, h) /\ Shifted(u, 0) = h[0]
  BY ShiftedRuns
<1>4. h[0] = u
  BY <1>3 DEF Runs
<1>5. \A k \in 0 .. n : f[k] = g[k]
  <2>1. n + 1 \in Nat /\ n <= n + 1
    OBVIOUS
  <2>2. Runs(ByteStep, u, n, f) /\ Runs(ByteStep, u, n + 1, g)
    BY <1>1, <1>2
  <2>3. Same(n, f, g)
    BY <2>1, <2>2, RunsAgree
  <2> QED BY <2>3 DEF Same
<1>6. f[n] = g[n] /\ f[n] \in Nat
  BY <1>5
<1>7. \A k \in 1 .. n + 1 : g[k] = ByteStep[<<k, g[k - 1]>>]
  BY <1>2 DEF Runs
<1>8. g[n + 1] = ByteStep[<<n + 1, g[n]>>]
  <2>1. n + 1 \in 1 .. n + 1 /\ (n + 1) - 1 = n
    OBVIOUS
  <2> QED BY <1>7, <2>1
<1>9. ByteStep[<<n + 1, g[n]>>] = g[n] \div 256
  <2>1. <<n + 1, g[n]>> \in Nat \X Nat
    BY <1>6
  <2> QED BY <2>1 DEF ByteStep
<1> QED BY <1>1, <1>2, <1>3, <1>4, <1>6, <1>8, <1>9

(***************************************************************************)
(* Bytes.                                                                  *)
(***************************************************************************)
Byte == 0 .. 255

LEMMA BytesAre ==
  Byte \subseteq Nat
BY DEF Byte

LEMMA PackIs ==
  ASSUME NEW w \in Nat, NEW u \in Nat
  PROVE  /\ Upak_pack(w, u) \in Seq(Byte) /\ Len(Upak_pack(w, u)) = w
         /\ \A k \in 1 .. w : Upak_pack(w, u)[k] = Shifted(u, k - 1) % 256
<1>1. \A k \in 1 .. w : Shifted(u, k - 1) \in Nat
  <2>1. ASSUME NEW k \in 1 .. w PROVE Shifted(u, k - 1) \in Nat
    <3>1. k - 1 \in Nat
      OBVIOUS
    <3> QED BY <3>1, ShiftedIs
  <2> QED BY <2>1
<1>2. \A k \in 1 .. w : Shifted(u, k - 1) % 256 \in Byte
  BY <1>1 DEF Byte
<1>3. Upak_pack(w, u) = [k \in 1 .. w |-> Shifted(u, k - 1) % 256]
  BY DEF Upak_pack
<1>4. Upak_pack(w, u) \in [1 .. w -> Byte]
  BY <1>2, <1>3
<1> QED BY <1>3, <1>4

\* The value of the last k bytes is 256 times that of the last k - 1, and the
\* first of them.
Values(b, n, f) ==
  /\ f \in [0 .. n -> Nat]
  /\ f[0] = 0 /\ \A k \in 1 .. n : f[k] = f[k - 1] * 256 + b[n + 1 - k]
LEMMA UnpackRuns ==
  ASSUME NEW n \in Nat, NEW b \in Seq(Byte), Len(b) = n
  PROVE  \E f : Values(b, n, f) /\ Upak_unpack(b) = f[n]
<1> DEFINE digit == [k \in Nat |-> IF k \in 1 .. n THEN b[n + 1 - k] ELSE 0]
           G == [p \in Nat \X Nat |-> p[2] * 256 + digit[p[1]]]
<1>1. n \in Nat /\ b \in [1 .. n -> Byte]
  OBVIOUS
<1>2. digit \in [Nat -> Nat] /\ \A k \in 1 .. n : digit[k] = b[n + 1 - k]
  <2> HIDE DEF digit, G
  <2>1. ASSUME NEW k \in 1 .. n PROVE b[n + 1 - k] \in Nat
    <3>1. n + 1 - k \in 1 .. n
      BY <1>1
    <3>2. b[n + 1 - k] \in Byte
      BY <1>1, <3>1
    <3> QED BY <3>2, BytesAre
  <2> QED BY <1>1, <2>1 DEF digit
<1> HIDE DEF digit
<1>3. /\ G \in [Nat \X Nat -> Nat]
      /\ \A k, v \in Nat : G[<<k, v>>] = v * 256 + digit[k]
  <2>1. ASSUME NEW p \in Nat \X Nat PROVE p[2] * 256 + digit[p[1]] \in Nat
    <3>1. p[1] \in Nat /\ p[2] \in Nat
      OBVIOUS
    <3>2. digit[p[1]] \in Nat
      BY <1>2, <3>1
    <3> QED BY <3>1, <3>2
  <2>2. \A k, v \in Nat : <<k, v>> \in Nat \X Nat
    OBVIOUS
  <2> QED BY <2>1, <2>2
<1> HIDE DEF G
<1>4. PICK f \in [0 .. n -> Nat] : Runs(G, 0, n, f)
  BY <1>1, <1>3, RunsExist
<1>5. /\ f[0] = 0
      /\ \A k \in 1 .. n : f[k] = f[k - 1] * 256 + b[n + 1 - k]
  <2>1. f[0] = 0 /\ \A k \in 1 .. n : f[k] = G[<<k, f[k - 1]>>]
    BY <1>1, <1>4 DEF Runs
  <2>2. ASSUME NEW k \in 1 .. n PROVE f[k] = f[k - 1] * 256 + b[n + 1 - k]
    <3>1. k \in Nat /\ f[k - 1] \in Nat
      BY <1>1, <1>4
    <3>2. f[k] = G[<<k, f[k - 1]>>] /\ digit[k] = b[n + 1 - k]
      BY <2>1, <1>2
    <3>3. G[<<k, f[k - 1]>>] = f[k - 1] * 256 + digit[k]
      BY <3>1, <1>3
    <3> QED BY <3>2, <3>3
  <2> QED BY <2>1, <2>2
<1>6. f = [k \in 0 .. n |-> IF k = 0 THEN 0 ELSE f[k - 1] * 256 + b[n + 1 - k]]
  <2>1. f = [k \in 0 .. n |-> f[k]]
    BY <1>4
  <2>2. \A k \in 0 .. n : f[k] = IF k = 0 THEN 0 ELSE f[k - 1] * 256 + b[n + 1 - k]
    BY <1>1, <1>5
  <2> QED BY <2>1, <2>2
<1> DEFINE u == CHOOSE u : u = [k \in 0 .. n |-> IF k = 0 THEN 0 ELSE u[k - 1] * 256 + b[n + 1 - k]]
<1>7. u = [k \in 0 .. n |-> IF k = 0 THEN 0 ELSE u[k - 1] * 256 + b[n + 1 - k]]
  <2>1. \E h : h = [k \in 0 .. n |-> IF k = 0 THEN 0 ELSE h[k - 1] * 256 + b[n + 1 - k]]
    BY <1>6
  <2> QED BY <2>1
<1>8. Upak_unpack(b) = u[n]
  BY DEF Upak_unpack
<1> HIDE DEF u
<1>9. Follows(G, 0, n, f, u)
  <2>1. ASSUME NEW k \in 1 .. n, u[k - 1] = f[k - 1] PROVE u[k] = G[<<k, u[k - 1]>>]
    <3>1. u[k] = u[k - 1] * 256 + b[n + 1 - k]
      BY <1>1, <1>7
    <3>2. k \in Nat /\ u[k - 1] \in Nat
      BY <1>1, <1>4, <2>1
    <3>3. digit[k] = b[n + 1 - k]
      BY <1>2
    <3>4. G[<<k, u[k - 1]>>] = u[k - 1] * 256 + digit[k]
      BY <3>2, <1>3
    <3> QED BY <3>1, <3>3, <3>4
  <2>2. u[0] = 0
    BY <1>1, <1>7
  <2> QED BY <2>1, <2>2 DEF Follows
<1>10. Same(n, u, f)
  BY <1>1, <1>4, <1>9, RunsOnly
<1>11. Upak_unpack(b) = f[n]
  BY <1>1, <1>8, <1>10 DEF Same
<1> QED BY <1>4, <1>5, <1>11 DEF Values

LEMMA UnpackType ==
  ASSUME NEW b \in Seq(Byte)
  PROVE  Upak_unpack(b) \in Nat
<1>1. Len(b) \in Nat
  OBVIOUS
<1>2. PICK f : Values(b, Len(b), f) /\ Upak_unpack(b) = f[Len(b)]
  BY <1>1, UnpackRuns
<1> QED BY <1>1, <1>2 DEF Values

\* The low byte of what is left, and the rest of it.
LEMMA ShiftedStep ==
  ASSUME NEW u \in Nat, NEW r \in Nat
  PROVE  Shifted(u, r) = Shifted(u, r + 1) * 256 + (Shifted(u, r) % 256)
<1>1. Shifted(u, r) \in Nat /\ Shifted(u, 0) = u /\ Shifted(u, r + 1) = Shifted(u, r) \div 256
  BY ShiftedIs
<1>2. \A v \in Nat : v = (v \div 256) * 256 + (v % 256)
  OBVIOUS
<1> QED BY <1>1, <1>2

\* upak32, upak64: a number that fits is unpacked as it was packed.
LEMMA UnpackPacked ==
  ASSUME NEW w \in Nat, NEW u \in Nat, Shifted(u, w) = 0
  PROVE  Upak_unpack(Upak_pack(w, u)) = u
<1> DEFINE b == Upak_pack(w, u)
<1>1. b \in Seq(Byte) /\ Len(b) = w /\ \A k \in 1 .. w : b[k] = Shifted(u, k - 1) % 256
  BY PackIs
<1> HIDE DEF b
<1>2. PICK f : Values(b, w, f) /\ Upak_unpack(b) = f[w]
  BY <1>1, UnpackRuns
<1> DEFINE T == {k \in Nat : k \in 0 .. w => f[k] = Shifted(u, w - k)}
<1>3. 0 \in T
  BY <1>2 DEF Values
<1>4. ASSUME NEW n \in T PROVE n + 1 \in T
  <2>1. CASE n + 1 \in 0 .. w
    <3> DEFINE r == w - n - 1
    <3>1. n \in 0 .. w /\ n + 1 \in 1 .. w /\ r \in Nat /\ w - n = r + 1 /\ w - (n + 1) = r
          /\ (n + 1) - 1 = n /\ w + 1 - (n + 1) = r + 1 /\ r + 1 \in 1 .. w /\ (r + 1) - 1 = r
      BY <2>1
    <3> HIDE DEF r
    <3>2. f[n] = Shifted(u, r + 1)
      BY <1>4, <3>1
    <3>3. f[n + 1] = f[n] * 256 + b[r + 1] /\ b[r + 1] = Shifted(u, r) % 256
      BY <1>1, <1>2, <3>1 DEF Values
    <3>4. Shifted(u, r) = Shifted(u, r + 1) * 256 + (Shifted(u, r) % 256)
      BY <3>1, ShiftedStep
    <3>5. f[n + 1] = Shifted(u, r)
      BY <3>2, <3>3, <3>4
    <3> QED BY <3>1, <3>5
  <2> QED BY <2>1
<1>5. T = Nat
  <2> HIDE DEF T
  <2> QED BY <1>3, <1>4, Induct DEF T
<1>6. f[w] = Shifted(u, 0)
  BY <1>5
<1>7. Shifted(u, 0) = u
  BY ShiftedIs
<1> QED BY <1>2, <1>6, <1>7 DEF b

(***************************************************************************)
(* Times.                                                                  *)
(***************************************************************************)
\* 2^32: a number that fits in 4 bytes is below it, and what a little more needs.
Word == 65536 * 65536

LEMMA Fits4 ==
  ASSUME NEW u \in Nat
  PROVE  Shifted(u, 4) = 0 <=> u < Word
<1>1. /\ Shifted(u, 0) = u /\ Shifted(u, 0 + 1) = Shifted(u, 0) \div 256
  BY ShiftedIs
<1>2. Shifted(u, 1) \in Nat /\ Shifted(u, 1 + 1) = Shifted(u, 1) \div 256
  BY ShiftedIs
<1>3. Shifted(u, 2) \in Nat /\ Shifted(u, 2 + 1) = Shifted(u, 2) \div 256
  BY ShiftedIs
<1>4. Shifted(u, 3) \in Nat /\ Shifted(u, 3 + 1) = Shifted(u, 3) \div 256
  BY ShiftedIs
<1>5. Shifted(u, 1) = u \div 256
  BY <1>1
<1>6. Shifted(u, 2) = Shifted(u, 1) \div 256
  BY <1>2
<1>7. Shifted(u, 3) = Shifted(u, 2) \div 256
  BY <1>3
<1>8. Shifted(u, 4) = Shifted(u, 3) \div 256
  BY <1>4
<1> QED BY <1>2, <1>3, <1>4, <1>5, <1>6, <1>7, <1>8, SMT DEF Word

LEMMA ShiftedNext ==
  ASSUME NEW u \in Nat, NEW n \in Nat, NEW m \in Nat, m = n + 1
  PROVE  Shifted(u, n) \in Nat /\ Shifted(u, m) = Shifted(u, n) \div 256
<1>1. Shifted(u, n) \in Nat
  BY ShiftedIs
<1>2. Shifted(u, n + 1) = Shifted(u, n) \div 256
  BY ShiftedIs
<1> QED BY <1>1, <1>2

LEMMA EightShifts ==
  ASSUME NEW u \in Nat
  PROVE  /\ Shifted(u, 1) = u \div 256
         /\ \A n \in 1 .. 7 : Shifted(u, n) \in Nat /\ Shifted(u, n + 1) = Shifted(u, n) \div 256
<1>1. Shifted(u, 0) = u /\ 0 \in Nat /\ 1 \in Nat /\ 1 = 0 + 1
  BY ShiftedIs
<1>2. Shifted(u, 1) = Shifted(u, 0) \div 256
  BY <1>1, ShiftedNext
<1>3. ASSUME NEW n \in 1 .. 7
      PROVE  Shifted(u, n) \in Nat /\ Shifted(u, n + 1) = Shifted(u, n) \div 256
  <2>1. n \in Nat /\ n + 1 \in Nat
    OBVIOUS
  <2> QED BY <2>1, ShiftedNext
<1> QED BY <1>1, <1>2, <1>3

LEMMA Fits8 ==
  ASSUME NEW u \in Nat, u < 2 * Word
  PROVE  Shifted(u, 8) = 0
<1>1. Shifted(u, 1) = u \div 256
  BY EightShifts
<1>2. \A n \in 1 .. 7 : Shifted(u, n) \in Nat /\ Shifted(u, n + 1) = Shifted(u, n) \div 256
  BY EightShifts
<1>3. /\ Shifted(u, 1) \in Nat /\ Shifted(u, 2) = Shifted(u, 1) \div 256
      /\ Shifted(u, 2) \in Nat /\ Shifted(u, 3) = Shifted(u, 2) \div 256
      /\ Shifted(u, 3) \in Nat /\ Shifted(u, 4) = Shifted(u, 3) \div 256
      /\ Shifted(u, 4) \in Nat /\ Shifted(u, 5) = Shifted(u, 4) \div 256
      /\ Shifted(u, 5) \in Nat /\ Shifted(u, 6) = Shifted(u, 5) \div 256
      /\ Shifted(u, 6) \in Nat /\ Shifted(u, 7) = Shifted(u, 6) \div 256
      /\ Shifted(u, 7) \in Nat /\ Shifted(u, 8) = Shifted(u, 7) \div 256
  BY <1>2
<1>4. Shifted(u, 4) \in 0 .. 1
  BY <1>1, <1>3, SMT DEF Word
<1>5. Shifted(u, 5) = 0
  BY <1>3, <1>4
<1>6. Shifted(u, 6) = 0 /\ Shifted(u, 7) = 0
  BY <1>3, <1>5
<1> QED BY <1>3, <1>6

LEMMA TainFits ==
  ASSUME NEW t \in 0 .. Tmax
  PROVE  /\ Tain(t) = [sec |-> Tain(t).sec, nsec |-> Tain(t).nsec]
         /\ Tain(t).sec \in Nat /\ Tain(t).nsec \in Nat
         /\ Shifted(Tain(t).sec, 8) = 0 /\ Shifted(Tain(t).nsec, 4) = 0
<1>1. Tmax \in Nat /\ t \in Nat /\ t <= Tmax
  BY BoundAssumption
<1>2. Tmax \div 3 + 1 \in Nat
  BY <1>1
<1>3. Tmax \div 3 + 1 < Word
  BY <1>2, BoundAssumption, Fits4
<1>4. t \div 3 \in Nat /\ t \div 3 <= Tmax \div 3
  BY <1>1
<1>5. 1000000 + t \div 3 \in Nat /\ 1000000 + t \div 3 < 2 * Word
  BY <1>1, <1>3, <1>4, SMT DEF Word
<1>6. (t % 3) * 333333333 \in Nat /\ (t % 3) * 333333333 < Word
  <2>1. t % 3 \in 0 .. 2
    BY <1>1
  <2> QED BY <2>1, SMT DEF Word
<1> DEFINE sec == 1000000 + t \div 3
           nsec == (t % 3) * 333333333
<1>7. Tain(t) = [sec |-> sec, nsec |-> nsec]
  BY SMT DEF Tain
<1>11. sec \in Nat /\ sec < 2 * Word /\ nsec \in Nat /\ nsec < Word
  BY <1>5, <1>6, SMT
<1> HIDE DEF sec, nsec
<1>8. Tain(t).sec = sec /\ Tain(t).nsec = nsec
  BY <1>7
<1>9. Shifted(sec, 8) = 0
  BY <1>11, Fits8
<1>10. Shifted(nsec, 4) = 0
  BY <1>11, Fits4
<1> QED BY <1>11, <1>7, <1>8, <1>9, <1>10

\* The bytes from one offset to another.
LEMMA AtIs ==
  ASSUME NEW b \in Seq(Byte), NEW o \in Nat, NEW n \in Nat, o + n <= Len(b)
  PROVE  /\ At(b, o, n) \in Seq(Byte) /\ Len(At(b, o, n)) = n
         /\ \A k \in 1 .. n : At(b, o, n)[k] = b[o + k]
<1> DEFINE m == o + 1
           q == o + n
           s == SubSeq(b, m, q)
<1>1. m \in Int /\ q \in Int /\ q - m + 1 = n /\ (m <= q <=> n # 0) /\ (m > q => n = 0)
  OBVIOUS
<1>2. \A k \in m .. q : b[k] \in Byte
  OBVIOUS
<1>3. At(b, o, n) = s
  BY DEF At
<1> HIDE DEF m, q
<1>4. /\ s \in Seq(Byte) /\ Len(s) = IF m <= q THEN q - m + 1 ELSE 0
      /\ \A k \in 1 .. q - m + 1 : s[k] = b[m + k - 1]
  BY <1>1, <1>2, SubSeqProperties
<1> HIDE DEF s
<1>5. \A k \in 1 .. n : s[k] = b[m + k - 1]
  BY <1>1, <1>4
<1>6. \A k \in 1 .. n : m + k - 1 = o + k
  BY DEF m
<1> QED BY <1>1, <1>3, <1>4, <1>5, <1>6

\* Equal byte strings.
LEMMA BytesEqual ==
  ASSUME NEW n \in Nat, NEW s \in Seq(Byte), NEW t \in Seq(Byte), Len(s) = n, Len(t) = n,
         \A k \in 1 .. n : s[k] = t[k]
  PROVE  s = t
OBVIOUS

\* Strings put together.
LEMMA Joined ==
  ASSUME NEW s \in Seq(Byte), NEW t \in Seq(Byte)
  PROVE  /\ s \o t \in Seq(Byte) /\ Len(s) \in Nat /\ Len(t) \in Nat
         /\ Len(s \o t) = Len(s) + Len(t)
         /\ \A k \in 1 .. Len(s) + Len(t) : (s \o t)[k] = IF k <= Len(s) THEN s[k] ELSE t[k - Len(s)]
BY ConcatProperties

LEMMA Slice ==
  ASSUME NEW a \in Seq(Byte), NEW b \in Seq(Byte), NEW c \in Seq(Byte), NEW o \in Nat, NEW n \in Nat,
         Len(a) = o, Len(b) = n
  PROVE  At((a \o b) \o c, o, n) = b
<1> DEFINE ab == a \o b
           all == ab \o c
           piece == At(all, o, n)
<1>1. /\ ab \in Seq(Byte) /\ Len(ab) = o + n
      /\ \A k \in 1 .. o + n : ab[k] = IF k <= o THEN a[k] ELSE b[k - o]
  BY ConcatProperties
<1> HIDE DEF ab
<1>2. /\ all \in Seq(Byte) /\ Len(all) = o + n + Len(c) /\ Len(c) \in Nat
      /\ \A k \in 1 .. o + n : all[k] = ab[k]
  <2> HIDE DEF piece
  <2>0. Len(c) \in Nat
    OBVIOUS
  <2>1. /\ all \in Seq(Byte) /\ Len(all) = Len(ab) + Len(c)
        /\ \A k \in 1 .. Len(ab) + Len(c) : all[k] = IF k <= Len(ab) THEN ab[k] ELSE c[k - Len(ab)]
    <3>1. ab \in Seq(Byte)
      BY <1>1
    <3> QED BY <3>1, Joined
  <2> HIDE DEF all
  <2> QED BY <1>1, <2>0, <2>1
<1> HIDE DEF all
<1>3. piece \in Seq(Byte) /\ Len(piece) = n /\ \A k \in 1 .. n : piece[k] = all[o + k]
  <2>1. o + n <= Len(all)
    BY <1>2
  <2> QED BY <1>2, <2>1, AtIs
<1> HIDE DEF piece
<1>4. ASSUME NEW k \in 1 .. n PROVE piece[k] = b[k]
  <2>1. o + k \in 1 .. o + n /\ ~(o + k <= o) /\ (o + k) - o = k
    OBVIOUS
  <2>2. all[o + k] = b[k]
    BY <1>1, <1>2, <2>1
  <2> QED BY <1>3, <2>2
<1>5. piece = b
  BY <1>3, <1>4, BytesEqual
<1> QED BY <1>5 DEF piece, all, ab

\* The first and the last of two strings.
LEMMA Parts ==
  ASSUME NEW a \in Seq(Byte), NEW b \in Seq(Byte), NEW m \in Nat, NEW n \in Nat, Len(a) = m, Len(b) = n
  PROVE  At(a \o b, 0, m) = a /\ At(a \o b, m, n) = b
<1>1. a \o b \in Seq(Byte) /\ Len(a \o b) = m + n
      /\ \A k \in 1 .. m + n : (a \o b)[k] = IF k <= m THEN a[k] ELSE b[k - m]
  BY Joined
<1> DEFINE ab == a \o b
           first == At(ab, 0, m)
           last == At(ab, m, n)
<1>2. ab \in Seq(Byte) /\ Len(ab) = m + n
      /\ \A k \in 1 .. m + n : ab[k] = IF k <= m THEN a[k] ELSE b[k - m]
  BY <1>1
<1> HIDE DEF ab
<1>3. first \in Seq(Byte) /\ Len(first) = m /\ \A k \in 1 .. m : first[k] = ab[0 + k]
  <2>1. 0 \in Nat /\ 0 + m <= Len(ab)
    BY <1>2
  <2> QED BY <1>2, <2>1, AtIs
<1>4. last \in Seq(Byte) /\ Len(last) = n /\ \A k \in 1 .. n : last[k] = ab[m + k]
  <2>1. m + n <= Len(ab)
    BY <1>2
  <2> QED BY <1>2, <2>1, AtIs
<1> HIDE DEF first, last
<1>5. ASSUME NEW k \in 1 .. m PROVE first[k] = a[k]
  <2>1. first[k] = ab[0 + k] /\ 0 + k = k /\ k \in 1 .. m + n /\ k <= m
    BY <1>3
  <2>2. first[k] = ab[k]
    BY <2>1
  <2> QED BY <1>2, <2>1, <2>2
<1>6. ASSUME NEW k \in 1 .. n PROVE last[k] = b[k]
  <2>1. m + k \in 1 .. m + n /\ ~(m + k <= m) /\ (m + k) - m = k
    OBVIOUS
  <2> QED BY <1>2, <1>4, <2>1
<1>7. first = a
  BY <1>3, <1>5, BytesEqual
<1>8. last = b
  BY <1>4, <1>6, BytesEqual
<1> QED BY <1>7, <1>8 DEF first, last, ab

\* A part of a part.
LEMMA AtAt ==
  ASSUME NEW b \in Seq(Byte), NEW o \in Nat, NEW n \in Nat, o + n <= Len(b),
         NEW p \in Nat, NEW m \in Nat, p + m <= n
  PROVE  At(b, o + p, m) = At(At(b, o, n), p, m)
<1> DEFINE whole == At(b, o, n)
           one == At(b, o + p, m)
           two == At(whole, p, m)
<1>1. whole \in Seq(Byte) /\ Len(whole) = n /\ \A k \in 1 .. n : whole[k] = b[o + k]
  BY AtIs
<1>2. one \in Seq(Byte) /\ Len(one) = m /\ \A k \in 1 .. m : one[k] = b[(o + p) + k]
  <2> HIDE DEF whole
  <2>1. o + p \in Nat /\ (o + p) + m <= Len(b)
    OBVIOUS
  <2> QED BY <2>1, AtIs
<1> HIDE DEF whole, one
<1>3. two \in Seq(Byte) /\ Len(two) = m /\ \A k \in 1 .. m : two[k] = whole[p + k]
  <2>1. p + m <= Len(whole)
    BY <1>1
  <2> QED BY <1>1, <2>1, AtIs
<1> HIDE DEF two
<1>4. ASSUME NEW k \in 1 .. m PROVE one[k] = two[k]
  <2>1. p + k \in 1 .. n /\ o + (p + k) = (o + p) + k
    OBVIOUS
  <2>2. one[k] = b[(o + p) + k] /\ two[k] = whole[p + k] /\ whole[p + k] = b[o + (p + k)]
    BY <1>1, <1>2, <1>3, <2>1
  <2> QED BY <2>1, <2>2
<1>5. one = two
  BY <1>2, <1>3, <1>4, BytesEqual
<1> QED BY <1>5 DEF one, two, whole

LEMMA ReverseIs ==
  ASSUME NEW n \in Nat, NEW b \in Seq(Byte), Len(b) = n
  PROVE  Reverse(b) \in Seq(Byte) /\ Len(Reverse(b)) = n /\ Reverse(Reverse(b)) = b
<1>1. ASSUME NEW s \in Seq(Byte), Len(s) = n
      PROVE  /\ Reverse(s) \in Seq(Byte) /\ Len(Reverse(s)) = n
             /\ \A k \in 1 .. n : Reverse(s)[k] = s[(n - k) + 1]
  <2>1. Reverse(s) = [k \in 1 .. n |-> s[(n - k) + 1]]
    BY <1>1 DEF Reverse
  <2>2. \A k \in 1 .. n : s[(n - k) + 1] \in Byte
    <3>1. \A k \in 1 .. n : (n - k) + 1 \in 1 .. n
      OBVIOUS
    <3> QED BY <1>1, <3>1
  <2>3. Reverse(s) \in [1 .. n -> Byte]
    BY <2>1, <2>2
  <2> QED BY <2>1, <2>3
<1> DEFINE r == Reverse(b)
           rr == Reverse(r)
<1>2. r \in Seq(Byte) /\ Len(r) = n /\ \A k \in 1 .. n : r[k] = b[(n - k) + 1]
  BY <1>1
<1> HIDE DEF r
<1>3. rr \in Seq(Byte) /\ Len(rr) = n /\ \A k \in 1 .. n : rr[k] = r[(n - k) + 1]
  BY <1>1, <1>2
<1> HIDE DEF rr
<1>4. ASSUME NEW k \in 1 .. n PROVE rr[k] = b[k]
  <2>1. (n - k) + 1 \in 1 .. n /\ (n - ((n - k) + 1)) + 1 = k
    OBVIOUS
  <2>2. rr[k] = r[(n - k) + 1] /\ r[(n - k) + 1] = b[(n - ((n - k) + 1)) + 1]
    BY <1>2, <1>3, <2>1
  <2> QED BY <2>1, <2>2
<1>5. rr = b
  BY <1>3, <1>4, BytesEqual
<1> QED BY <1>2, <1>5 DEF rr, r

\* tain_unpack() gives the time that tain_pack() was given.
LEMMA TainUnpacked ==
  ASSUME NEW sec \in Nat, NEW nsec \in Nat, Shifted(sec, 8) = 0, Shifted(nsec, 4) = 0,
         NEW t, t = [sec |-> sec, nsec |-> nsec]
  PROVE  /\ Tain_pack(t) \in Seq(Byte) /\ Len(Tain_pack(t)) = 12
         /\ Tain_unpack(Tain_pack(t)) = t
<1> DEFINE high == Upak_pack(8, sec)
           low == Upak_pack(4, nsec)
<1>1. high \in Seq(Byte) /\ Len(high) = 8 /\ Upak_unpack(high) = sec
  <2>1. 8 \in Nat
    OBVIOUS
  <2> QED BY <2>1, PackIs, UnpackPacked
<1>2. low \in Seq(Byte) /\ Len(low) = 4 /\ Upak_unpack(low) = nsec
  <2>1. 4 \in Nat
    OBVIOUS
  <2> QED BY <2>1, PackIs, UnpackPacked
<1> HIDE DEF high, low
<1> DEFINE first == Reverse(high)
           last == Reverse(low)
           b == first \o last
<1>3. first \in Seq(Byte) /\ Len(first) = 8 /\ Reverse(first) = high
  BY <1>1, ReverseIs
<1>4. last \in Seq(Byte) /\ Len(last) = 4 /\ Reverse(last) = low
  BY <1>2, ReverseIs
<1>5. Tain_pack(t) = b
  BY DEF Tain_pack, Tain_tai_pack, high, low
<1> HIDE DEF first, last
<1>6. At(b, 0, 8) = first /\ At(b, 8, 4) = last
  <2>1. ASSUME NEW m \in Nat, NEW n \in Nat, Len(first) = m, Len(last) = n
        PROVE  At(b, 0, m) = first /\ At(b, m, n) = last
    BY <1>3, <1>4, <2>1, Parts
  <2> QED BY <1>3, <1>4, <2>1
<1>7. b \in Seq(Byte) /\ Len(b) = 12
  <2>1. b \in Seq(Byte) /\ Len(b) = Len(first) + Len(last)
    BY <1>3, <1>4, Joined
  <2> QED BY <1>3, <1>4, <2>1
<1> HIDE DEF b
<1>8. Tain_unpack(b) = [sec |-> Upak_unpack(high), nsec |-> Upak_unpack(low)]
  BY <1>3, <1>4, <1>6 DEF Tain_unpack, Tain_tai_unpack
<1> QED BY <1>1, <1>2, <1>5, <1>7, <1>8

\* A part of the first of two strings.
LEMMA PartOfFirst ==
  ASSUME NEW a \in Seq(Byte), NEW b \in Seq(Byte), NEW o \in Nat, NEW n \in Nat, o + n <= Len(a)
  PROVE  At(a \o b, o, n) = At(a, o, n)
<1> DEFINE ab == a \o b
           one == At(ab, o, n)
           two == At(a, o, n)
<1>1. ab \in Seq(Byte) /\ Len(a) \in Nat /\ Len(b) \in Nat /\ Len(ab) = Len(a) + Len(b)
      /\ \A k \in 1 .. Len(a) + Len(b) : ab[k] = IF k <= Len(a) THEN a[k] ELSE b[k - Len(a)]
  BY Joined
<1> HIDE DEF ab
<1>2. one \in Seq(Byte) /\ Len(one) = n /\ \A k \in 1 .. n : one[k] = ab[o + k]
  <2>1. o + n <= Len(ab)
    BY <1>1
  <2> QED BY <1>1, <2>1, AtIs
<1>3. two \in Seq(Byte) /\ Len(two) = n /\ \A k \in 1 .. n : two[k] = a[o + k]
  BY AtIs
<1> HIDE DEF one, two
<1>4. ASSUME NEW k \in 1 .. n PROVE one[k] = two[k]
  <2>1. o + k \in 1 .. Len(a) + Len(b) /\ o + k <= Len(a)
    BY <1>1
  <2> QED BY <1>1, <1>2, <1>3, <2>1
<1>5. one = two
  BY <1>2, <1>3, <1>4, BytesEqual
<1> QED BY <1>5 DEF one, two, ab

(***************************************************************************)
(* The status packet.                                                      *)
(***************************************************************************)
LEMMA SubIs ==
  ASSUME NEW sub \in Sub
  PROVE  /\ sub.pid \in Nat /\ Shifted(sub.pid, 4) = 0 /\ sub.when \in 0 .. Tmax
         /\ sub.isreset \in BOOLEAN /\ sub.isonce \in BOOLEAN /\ sub.ispaused \in BOOLEAN
         /\ sub.wantdown \in BOOLEAN
<1>1. sub.pid \in {0, Pid} /\ sub.when \in 0 .. Tmax
      /\ sub.isreset \in BOOLEAN /\ sub.isonce \in BOOLEAN /\ sub.ispaused \in BOOLEAN
      /\ sub.wantdown \in BOOLEAN
  BY DEF Sub
<1>2. 0 \in Nat /\ 0 < Word /\ Pid \in Nat /\ Pid < Word
  BY SMT DEF Pid, Word
<1>3. sub.pid \in Nat /\ sub.pid < Word
  BY <1>1, <1>2
<1> QED BY <1>1, <1>3, Fits4

\* Flags added up, and one of them taken out.
LEMMA Flags ==
  ASSUME NEW a \in {0, 1}, NEW b \in {0, 1}, NEW c \in {0, 1}, NEW d \in {0, 1}, NEW e \in {0, 1}
  PROVE  LET x == 2 * b + 4 * c + 8 * d + 16 * e + a
         IN /\ x \in Byte
            /\ (x \div 2) % 2 = b /\ (x \div 4) % 2 = c /\ (x \div 8) % 2 = d /\ (x \div 16) % 2 = e
BY SMT DEF Byte

LEMMA BitIs ==
  ASSUME NEW flag \in BOOLEAN, NEW value \in Nat
  PROVE  Bit(flag, value) = value * Bit(flag, 1) /\ Bit(flag, 1) \in {0, 1} /\ (Bit(flag, 1) = 1) = flag
<1>1. CASE flag = TRUE
  <2>1. Bit(flag, value) = value /\ Bit(flag, 1) = 1
    BY <1>1 DEF Bit
  <2>2. value * 1 = value
    OBVIOUS
  <2>3. (Bit(flag, 1) = 1) = flag
    BY <1>1, <2>1
  <2> QED BY <2>1, <2>2, <2>3
<1>2. CASE flag = FALSE
  <2>1. Bit(flag, value) = 0 /\ Bit(flag, 1) = 0
    BY <1>2 DEF Bit
  <2> QED BY <1>2, <2>1
<1> QED BY <1>1, <1>2

LEMMA SubsvFlags ==
  ASSUME NEW sub \in Sub, NEW islog \in BOOLEAN
  PROVE  LET x == Subsv_bitflags(sub) + Bit(islog, 1)
         IN /\ x \in Byte
            /\ ((x \div 2) % 2 = 1) = sub.isreset /\ ((x \div 4) % 2 = 1) = sub.isonce
            /\ ((x \div 8) % 2 = 1) = sub.ispaused /\ ((x \div 16) % 2 = 1) = sub.wantdown
<1> DEFINE a == Bit(islog, 1)
           b == Bit(sub.isreset, 1)
           c == Bit(sub.isonce, 1)
           d == Bit(sub.ispaused, 1)
           e == Bit(sub.wantdown, 1)
           x == Subsv_bitflags(sub) + Bit(islog, 1)
<1>1. a \in {0, 1}
  BY BitIs
<1>2. Bit(sub.isreset, 2) = 2 * b /\ b \in {0, 1} /\ (b = 1) = sub.isreset
  BY BitIs, SubIs
<1>3. Bit(sub.isonce, 4) = 4 * c /\ c \in {0, 1} /\ (c = 1) = sub.isonce
  BY BitIs, SubIs
<1>4. Bit(sub.ispaused, 8) = 8 * d /\ d \in {0, 1} /\ (d = 1) = sub.ispaused
  BY BitIs, SubIs
<1>5. Bit(sub.wantdown, 16) = 16 * e /\ e \in {0, 1} /\ (e = 1) = sub.wantdown
  BY BitIs, SubIs
<1>6. x = 2 * b + 4 * c + 8 * d + 16 * e + a
  BY <1>2, <1>3, <1>4, <1>5 DEF Subsv_bitflags
<1> HIDE DEF a, b, c, d, e, x
<1>7. /\ x \in Byte
      /\ (x \div 2) % 2 = b /\ (x \div 4) % 2 = c /\ (x \div 8) % 2 = d /\ (x \div 16) % 2 = e
  BY <1>1, <1>2, <1>3, <1>4, <1>5, <1>6, Flags
<1>8. /\ x \in Byte
      /\ ((x \div 2) % 2 = 1) = sub.isreset /\ ((x \div 4) % 2 = 1) = sub.isonce
      /\ ((x \div 8) % 2 = 1) = sub.ispaused /\ ((x \div 16) % 2 = 1) = sub.wantdown
  BY <1>2, <1>3, <1>4, <1>5, <1>7, Zenon
<1> QED BY <1>8 DEF x

LEMMA SubsvBytes ==
  ASSUME NEW sub \in Sub, NEW islog \in BOOLEAN, NEW m, m = Subsv_bytes(sub, islog)
  PROVE  /\ m \in Seq(Byte) /\ Len(m) = 18
         /\ At(m, 0, 4) = Upak_pack(4, sub.pid) /\ At(m, 4, 12) = Tain_pack(Tain(sub.when))
         /\ m[17] = Subsv_bitflags(sub) + Bit(islog, 1)
<1> DEFINE p == Upak_pack(4, sub.pid)
           w == Tain_pack(Tain(sub.when))
           x == Subsv_bitflags(sub) + Bit(islog, 1)
           f == <<x, 0>>
           pw == p \o w
<1>1. p \in Seq(Byte) /\ Len(p) = 4
  <2>1. 4 \in Nat /\ sub.pid \in Nat
    BY SubIs
  <2> QED BY <2>1, PackIs
<1>2. w \in Seq(Byte) /\ Len(w) = 12
  <2>1. sub.when \in 0 .. Tmax
    BY SubIs
  <2> QED BY <2>1, TainFits, TainUnpacked
<1>3. f \in Seq(Byte) /\ Len(f) = 2 /\ f[1] = x
  <2> HIDE DEF x
  <2>1. x \in Byte /\ 0 \in Byte
    BY SubsvFlags DEF x, Byte
  <2> QED BY <2>1
<1>4. m = pw \o f
  BY DEF Subsv_bytes
<1> HIDE DEF p, w, x, f
<1>5. pw \in Seq(Byte) /\ Len(pw) = 16
  <2>1. pw \in Seq(Byte) /\ Len(pw) = Len(p) + Len(w)
    BY <1>1, <1>2, Joined
  <2> QED BY <1>1, <1>2, <2>1
<1>6. At(pw, 0, 4) = p /\ At(pw, 4, 12) = w
  <2>1. ASSUME NEW k \in Nat, NEW n \in Nat, Len(p) = k, Len(w) = n
        PROVE  At(pw, 0, k) = p /\ At(pw, k, n) = w
    BY <1>1, <1>2, <2>1, Parts
  <2> QED BY <1>1, <1>2, <2>1
<1> HIDE DEF pw
<1>7. m \in Seq(Byte) /\ Len(m) = 18
  <2>1. m \in Seq(Byte) /\ Len(m) = Len(pw) + Len(f)
    BY <1>3, <1>4, <1>5, Joined
  <2> QED BY <1>3, <1>5, <2>1
<1>8. At(m, 0, 16) = pw /\ At(m, 16, 2) = f
  <2>1. ASSUME NEW k \in Nat, NEW n \in Nat, Len(pw) = k, Len(f) = n
        PROVE  At(pw \o f, 0, k) = pw /\ At(pw \o f, k, n) = f
    BY <1>3, <1>5, <2>1, Parts
  <2> QED BY <1>3, <1>4, <1>5, <2>1
<1>9. \A o, n \in Nat : o + n <= 16 => At(m, o, n) = At(pw, o, n)
  <2>1. ASSUME NEW o \in Nat, NEW n \in Nat, o + n <= Len(pw) PROVE At(pw \o f, o, n) = At(pw, o, n)
    BY <1>3, <1>5, <2>1, PartOfFirst
  <2> QED BY <1>4, <1>5, <2>1
<1>10. At(m, 0, 4) = p /\ At(m, 4, 12) = w
  BY <1>6, <1>9
<1>11. m[17] = x
  <2>1. 16 \in Nat /\ 2 \in Nat /\ 16 + 2 <= Len(m)
    BY <1>7
  <2>2. \A k \in 1 .. 2 : At(m, 16, 2)[k] = m[16 + k]
    BY <1>7, <2>1, AtIs
  <2>3. At(m, 16, 2)[1] = m[16 + 1]
    BY <2>2
  <2> QED BY <1>3, <1>8, <2>3
<1> QED BY <1>7, <1>10, <1>11 DEF p, w, x

\* A string with a piece added to it.
Piece(all, a, b, k, n) ==
  /\ all \in Seq(Byte) /\ Len(all) = k + n /\ At(all, k, n) = b
  /\ \A o, q \in Nat : o + q <= k => At(all, o, q) = At(a, o, q)
LEMMA Added ==
  ASSUME NEW a \in Seq(Byte), NEW b \in Seq(Byte), NEW k \in Nat, NEW n \in Nat, Len(a) = k, Len(b) = n
  PROVE  Piece(a \o b, a, b, k, n)
<1>1. a \o b \in Seq(Byte) /\ Len(a \o b) = k + n
  BY Joined
<1>2. At(a \o b, k, n) = b
  BY Parts
<1>3. ASSUME NEW o \in Nat, NEW q \in Nat, o + q <= k PROVE At(a \o b, o, q) = At(a, o, q)
  BY <1>3, PartOfFirst
<1> QED BY <1>1, <1>2, <1>3 DEF Piece

LEMMA FirstAt ==
  ASSUME NEW b \in Seq(Byte), NEW o \in Nat, NEW n \in Nat, o + n <= Len(b), n # 0
  PROVE  At(b, o, n)[1] = b[o + 1]
<1>1. \A k \in 1 .. n : At(b, o, n)[k] = b[o + k]
  BY AtIs
<1>2. 1 \in 1 .. n
  OBVIOUS
<1> QED BY <1>1, <1>2

\* perpd_conn_exec_query(): what is where in the packet.
LEMMA ExecIs ==
  ASSUME NEW st \in Status
  PROVE  LET b == Exec_query(st)
         IN /\ b \in Seq(Byte) /\ Len(b) = 66
            /\ b[29] = Svdef_bitflags(st)
            /\ At(b, 30, 18) = Subsv_bytes(st.main, FALSE)
            /\ st.haslog => At(b, 48, 18) = Subsv_bytes(st.log, TRUE)
<1> DEFINE v == Upak_pack(4, 1)
           t == Tain_pack(Tain(0))
           f == <<Svdef_bitflags(st), 0>>
           m == Subsv_bytes(st.main, FALSE)
           l == IF st.haslog THEN Subsv_bytes(st.log, TRUE) ELSE Upak_pack(18, 0)
           b == Exec_query(st)
<1>1. v \in Seq(Byte) /\ Len(v) = 4
  <2>1. 4 \in Nat /\ 1 \in Nat
    OBVIOUS
  <2> QED BY <2>1, PackIs
<1>2. t \in Seq(Byte) /\ Len(t) = 12
  <2>1. 0 \in 0 .. Tmax
    BY BoundAssumption
  <2> QED BY <2>1, TainFits, TainUnpacked
<1>3. f \in Seq(Byte) /\ Len(f) = 2 /\ f[1] = Svdef_bitflags(st)
  <2>1. st.haslog \in BOOLEAN /\ st.cull \in BOOLEAN /\ st.cycle \in BOOLEAN
    BY DEF Status
  <2>2. Svdef_bitflags(st) \in Byte /\ 0 \in Byte
    BY <2>1, SMT DEF Svdef_bitflags, Bit, Byte
  <2> QED BY <2>2
<1>4. m \in Seq(Byte) /\ Len(m) = 18
  <2>1. st.main \in Sub /\ FALSE \in BOOLEAN
    BY DEF Status
  <2> QED BY <2>1, SubsvBytes
<1>5. l \in Seq(Byte) /\ Len(l) = 18 /\ (st.haslog => l = Subsv_bytes(st.log, TRUE))
  <2>1. st.log \in Sub /\ TRUE \in BOOLEAN
    BY DEF Status
  <2>2. Subsv_bytes(st.log, TRUE) \in Seq(Byte) /\ Len(Subsv_bytes(st.log, TRUE)) = 18
    BY <2>1, SubsvBytes
  <2>3. Upak_pack(18, 0) \in Seq(Byte) /\ Len(Upak_pack(18, 0)) = 18
    <3>1. 18 \in Nat /\ 0 \in Nat
      OBVIOUS
    <3> QED BY <3>1, PackIs
  <2> QED BY <2>2, <2>3
<1> DEFINE b1 == v \o t
           b2 == b1 \o t
           b3 == b2 \o f
           b4 == b3 \o m
           b5 == b4 \o l
<1>6. b = b5
  BY DEF Exec_query
<1> HIDE DEF v, t, f, m, l, b
<1>7. ASSUME NEW x \in Seq(Byte), NEW y \in Seq(Byte), NEW k \in Nat, NEW n \in Nat, Len(x) = k, Len(y) = n
      PROVE  Piece(x \o y, x, y, k, n)
  BY <1>7, Added
<1>8. b1 \in Seq(Byte) /\ Len(b1) = 16
  <2>1. Piece(b1, v, t, 4, 12)
    BY <1>1, <1>2, <1>7
  <2> QED BY <2>1 DEF Piece
<1> HIDE DEF b1
<1>9. b2 \in Seq(Byte) /\ Len(b2) = 28
  <2>1. Piece(b2, b1, t, 16, 12)
    BY <1>2, <1>7, <1>8
  <2> QED BY <2>1 DEF Piece
<1> HIDE DEF b2
<1>10. b3 \in Seq(Byte) /\ Len(b3) = 30 /\ At(b3, 28, 2) = f
  <2>1. Piece(b3, b2, f, 28, 2)
    BY <1>3, <1>7, <1>9
  <2> QED BY <2>1 DEF Piece
<1> HIDE DEF b3
<1>11. /\ b4 \in Seq(Byte) /\ Len(b4) = 48 /\ At(b4, 30, 18) = m
       /\ At(b4, 28, 2) = At(b3, 28, 2)
  <2>1. Piece(b4, b3, m, 30, 18)
    BY <1>4, <1>7, <1>10
  <2> QED BY <2>1 DEF Piece
<1> HIDE DEF b4
<1>12. /\ b5 \in Seq(Byte) /\ Len(b5) = 66 /\ At(b5, 48, 18) = l
       /\ At(b5, 28, 2) = At(b4, 28, 2) /\ At(b5, 30, 18) = At(b4, 30, 18)
  <2>1. Piece(b5, b4, l, 48, 18)
    BY <1>5, <1>7, <1>11
  <2> QED BY <2>1 DEF Piece
<1> HIDE DEF b5
<1>13. At(b, 30, 18) = m /\ At(b, 48, 18) = l /\ At(b, 28, 2) = f
  BY <1>6, <1>10, <1>11, <1>12
<1>14. b \in Seq(Byte) /\ Len(b) = 66
  BY <1>6, <1>12
<1>15. b[29] = f[1]
  <2>1. 28 \in Nat /\ 2 \in Nat /\ 28 + 2 <= Len(b) /\ 2 # 0 /\ 28 + 1 = 29
    BY <1>14
  <2>2. At(b, 28, 2)[1] = b[28 + 1]
    BY <1>14, <2>1, FirstAt
  <2> QED BY <1>13, <2>1, <2>2
<1>16. /\ b \in Seq(Byte) /\ Len(b) = 66
       /\ b[29] = Svdef_bitflags(st)
       /\ At(b, 30, 18) = Subsv_bytes(st.main, FALSE)
       /\ st.haslog => At(b, 48, 18) = Subsv_bytes(st.log, TRUE)
  BY <1>3, <1>5, <1>13, <1>14, <1>15 DEF m
<1> QED BY <1>16 DEF b

\* The tools read what was sent.
Sent(sub) ==
  [pid |-> sub.pid, when |-> Tain(sub.when), isreset |-> sub.isreset, isonce |-> sub.isonce,
   ispaused |-> sub.ispaused, wantdown |-> sub.wantdown]

LEMMA SubsvRead ==
  ASSUME NEW sub \in Sub, NEW islog \in BOOLEAN, NEW b \in Seq(Byte), NEW o \in Nat, o + 18 <= Len(b),
         At(b, o, 18) = Subsv_bytes(sub, islog)
  PROVE  Subsv_at(b, o, o + 4, o + 16) = Sent(sub)
<1> DEFINE m == Subsv_bytes(sub, islog)
           x == Subsv_bitflags(sub) + Bit(islog, 1)
<1>1. /\ m \in Seq(Byte) /\ Len(m) = 18
      /\ At(m, 0, 4) = Upak_pack(4, sub.pid) /\ At(m, 4, 12) = Tain_pack(Tain(sub.when))
      /\ m[17] = x
  BY SubsvBytes
<1>2. /\ x \in Byte
      /\ ((x \div 2) % 2 = 1) = sub.isreset /\ ((x \div 4) % 2 = 1) = sub.isonce
      /\ ((x \div 8) % 2 = 1) = sub.ispaused /\ ((x \div 16) % 2 = 1) = sub.wantdown
  BY SubsvFlags
<1>3. At(b, o, 18) = m
  OBVIOUS
<1> HIDE DEF m, x
<1>4. ASSUME NEW k \in Nat, NEW n \in Nat, k + n <= 18 PROVE At(b, o + k, n) = At(m, k, n)
  <2>1. ASSUME NEW s \in Nat, o + s <= Len(b), k + n <= s PROVE At(b, o + k, n) = At(At(b, o, s), k, n)
    BY <1>4, <2>1, AtAt
  <2> QED BY <1>3, <1>4, <2>1
<1>5. At(b, o, 4) = Upak_pack(4, sub.pid) /\ At(b, o + 4, 12) = Tain_pack(Tain(sub.when))
  <2>1. At(b, o + 0, 4) = At(m, 0, 4) /\ o + 0 = o
    BY <1>4
  <2>2. At(b, o + 4, 12) = At(m, 4, 12)
    BY <1>4
  <2> QED BY <1>1, <2>1, <2>2
<1>6. b[o + 16 + 1] = x
  <2>1. ASSUME NEW n \in Nat, o + n <= Len(b) PROVE \A k \in 1 .. n : At(b, o, n)[k] = b[o + k]
    BY <2>1, AtIs
  <2>2. At(b, o, 18)[17] = b[o + 17] /\ o + 16 + 1 = o + 17
    BY <2>1
  <2> QED BY <1>1, <1>3, <2>2
<1>7. Upak_unpack(At(b, o, 4)) = sub.pid
  <2>1. 4 \in Nat /\ sub.pid \in Nat /\ Shifted(sub.pid, 4) = 0
    BY SubIs
  <2> QED BY <1>5, <2>1, UnpackPacked
<1>8. Tain_unpack(At(b, o + 4, 12)) = Tain(sub.when)
  <2>1. sub.when \in 0 .. Tmax
    BY SubIs
  <2> QED BY <1>5, <2>1, TainFits, TainUnpacked
<1>9. /\ Has(b, o + 16, 2) = sub.isreset /\ Has(b, o + 16, 4) = sub.isonce
      /\ Has(b, o + 16, 8) = sub.ispaused /\ Has(b, o + 16, 16) = sub.wantdown
  BY <1>2, <1>6, Zenon DEF Has
<1> QED BY <1>7, <1>8, <1>9, Zenon DEF Subsv_at, Sent

(***************************************************************************)
(* Decimal digits.                                                         *)
(***************************************************************************)
\* u without its last n digits
Tens(u, n) == LET s[k \in 0 .. n] == IF k = 0 THEN u ELSE s[k - 1] \div 10 IN s[n]

TenStep == [p \in Nat \X Nat |-> p[2] \div 10]

LEMMA TensRuns ==
  ASSUME NEW u \in Nat, NEW n \in Nat
  PROVE  \E f \in [0 .. n -> Nat] : Runs(TenStep, u, n, f) /\ Tens(u, n) = f[n]
<1>1. TenStep \in [Nat \X Nat -> Nat]
  <2>1. \A p \in Nat \X Nat : p[2] \div 10 \in Nat
    OBVIOUS
  <2> QED BY <2>1 DEF TenStep
<1>2. PICK f \in [0 .. n -> Nat] : Runs(TenStep, u, n, f)
  BY <1>1, RunsExist
<1>3. f = [k \in 0 .. n |-> IF k = 0 THEN u ELSE f[k - 1] \div 10]
  <2>1. ASSUME NEW k \in 0 .. n, k # 0 PROVE TenStep[<<k, f[k - 1]>>] = f[k - 1] \div 10
    <3>1. <<k, f[k - 1]>> \in Nat \X Nat
      BY <2>1
    <3> QED BY <3>1 DEF TenStep
  <2> QED BY <1>2, <2>1 DEF Runs
<1> DEFINE s == CHOOSE s : s = [k \in 0 .. n |-> IF k = 0 THEN u ELSE s[k - 1] \div 10]
<1>4. s = [k \in 0 .. n |-> IF k = 0 THEN u ELSE s[k - 1] \div 10]
  BY <1>3
<1>5. Tens(u, n) = s[n]
  BY DEF Tens
<1> HIDE DEF s
<1>6. ASSUME NEW k \in 1 .. n, s[k - 1] = f[k - 1] PROVE s[k] = TenStep[<<k, s[k - 1]>>]
  <2>1. s[k] = s[k - 1] \div 10
    BY <1>4
  <2>2. <<k, s[k - 1]>> \in Nat \X Nat
    BY <1>6
  <2> QED BY <2>1, <2>2 DEF TenStep
<1>7. s[0] = u
  BY <1>4
<1>8. \A k \in 0 .. n : s[k] = f[k]
  <2>1. Follows(TenStep, u, n, f, s)
    BY <1>6, <1>7 DEF Follows
  <2>2. Same(n, s, f)
    BY <1>2, <2>1, RunsOnly
  <2> QED BY <2>2 DEF Same
<1>9. s[n] = f[n]
  BY <1>8
<1> QED BY <1>2, <1>5, <1>9

\* A number without its last n + 1 digits.
LEMMA TensAre ==
  ASSUME NEW u \in Nat, NEW n \in Nat
  PROVE  /\ Tens(u, n) \in Nat /\ Tens(u, 0) = u
         /\ Tens(u, n + 1) = Tens(u, n) \div 10
<1>1. PICK f \in [0 .. n -> Nat] : Runs(TenStep, u, n, f) /\ Tens(u, n) = f[n]
  BY TensRuns
<1>2. PICK g \in [0 .. n + 1 -> Nat] : Runs(TenStep, u, n + 1, g) /\ Tens(u, n + 1) = g[n + 1]
  <2>1. n + 1 \in Nat
    OBVIOUS
  <2> QED BY <2>1, TensRuns
<1>3. PICK h \in [0 .. 0 -> Nat] : Runs(TenStep, u, 0, h) /\ Tens(u, 0) = h[0]
  BY TensRuns
<1>4. h[0] = u
  BY <1>3 DEF Runs
<1>5. \A k \in 0 .. n : f[k] = g[k]
  <2>1. n + 1 \in Nat /\ n <= n + 1
    OBVIOUS
  <2>2. Runs(TenStep, u, n, f) /\ Runs(TenStep, u, n + 1, g)
    BY <1>1, <1>2
  <2>3. Same(n, f, g)
    BY <2>1, <2>2, RunsAgree
  <2> QED BY <2>3 DEF Same
<1>6. f[n] = g[n] /\ f[n] \in Nat
  BY <1>5
<1>7. \A k \in 1 .. n + 1 : g[k] = TenStep[<<k, g[k - 1]>>]
  BY <1>2 DEF Runs
<1>8. g[n + 1] = TenStep[<<n + 1, g[n]>>]
  <2>1. n + 1 \in 1 .. n + 1 /\ (n + 1) - 1 = n
    OBVIOUS
  <2> QED BY <1>7, <2>1
<1>9. TenStep[<<n + 1, g[n]>>] = g[n] \div 10
  <2>1. <<n + 1, g[n]>> \in Nat \X Nat
    BY <1>6
  <2> QED BY <2>1 DEF TenStep
<1> QED BY <1>1, <1>2, <1>3, <1>4, <1>6, <1>8, <1>9

LEMMA TensStep ==
  ASSUME NEW u \in Nat, NEW n \in Nat
  PROVE  /\ Tens(u, n + 1) = Tens(u, n) \div 10
         /\ Tens(u, n) = 10 * Tens(u, n + 1) + (Tens(u, n) % 10)
<1>1. Tens(u, n) \in Nat /\ Tens(u, 0) = u /\ Tens(u, n + 1) = Tens(u, n) \div 10
  BY TensAre
<1>2. \A v \in Nat : v = 10 * (v \div 10) + (v % 10)
  OBVIOUS
<1> QED BY <1>1, <1>2

\* To drop the last digit first comes to the same.
LEMMA TensFirst ==
  ASSUME NEW u \in Nat, NEW n \in Nat
  PROVE  Tens(u, n + 1) = Tens(u \div 10, n)
<1> DEFINE T == {k \in Nat : Tens(u, k + 1) = Tens(u \div 10, k)}
<1>1. u \div 10 \in Nat
  OBVIOUS
<1>2. 0 \in T
  <2>1. Tens(u, 0) = u /\ Tens(u, 0 + 1) = Tens(u, 0) \div 10
    <3>1. 0 \in Nat
      OBVIOUS
    <3> QED BY <3>1, TensAre, TensStep
  <2>2. Tens(u \div 10, 0) = u \div 10
    BY <1>1, TensAre
  <2> QED BY <2>1, <2>2
<1>3. ASSUME NEW k \in T PROVE k + 1 \in T
  <2>1. k \in Nat /\ k + 1 \in Nat /\ Tens(u, k + 1) = Tens(u \div 10, k)
    BY <1>3
  <2>2. Tens(u, (k + 1) + 1) = Tens(u, k + 1) \div 10
    BY <2>1, TensStep
  <2>3. Tens(u \div 10, k + 1) = Tens(u \div 10, k) \div 10
    BY <1>1, <2>1, TensStep
  <2> QED BY <2>1, <2>2, <2>3
<1>4. T = Nat
  <2> HIDE DEF T
  <2> QED BY <1>2, <1>3, Induct DEF T
<1> QED BY <1>4

\* nfmt_uint32_(): the digits counted are all there are.
LEMMA LenRuns ==
  ASSUME NEW n \in Nat
  PROVE  \E h : h = [q \in 0 .. n |-> IF q > 9 THEN 1 + h[q \div 10] ELSE 1]
<1> DEFINE P(m) == \E h : h = [q \in 0 .. m |-> IF q > 9 THEN 1 + h[q \div 10] ELSE 1]
           T == {m \in Nat : P(m)}
<1>1. P(0)
  <2> DEFINE h == [q \in 0 .. 0 |-> 1]
  <2>1. h = [q \in 0 .. 0 |-> IF q > 9 THEN 1 + h[q \div 10] ELSE 1]
    OBVIOUS
  <2> QED BY <2>1
<1>2. ASSUME NEW m \in Nat, P(m) PROVE P(m + 1)
  <2>1. PICK h : h = [q \in 0 .. m |-> IF q > 9 THEN 1 + h[q \div 10] ELSE 1]
    BY <1>2
  <2> DEFINE new == IF m + 1 > 9 THEN 1 + h[(m + 1) \div 10] ELSE 1
             g == [q \in 0 .. m + 1 |-> IF q = m + 1 THEN new ELSE h[q]]
  <2>2. ASSUME NEW q \in 0 .. m + 1 PROVE g[q] = IF q > 9 THEN 1 + g[q \div 10] ELSE 1
    <3>1. q > 9 => q \div 10 \in 0 .. m /\ g[q \div 10] = h[q \div 10]
      OBVIOUS
    <3>2. CASE q = m + 1
      <4>1. g[q] = new
        BY <3>2
      <4> QED BY <3>1, <3>2, <4>1
    <3>3. CASE q \in 0 .. m
      <4>1. g[q] = h[q]
        BY <3>3
      <4>2. h[q] = IF q > 9 THEN 1 + h[q \div 10] ELSE 1
        BY <2>1, <3>3
      <4> QED BY <3>1, <4>1, <4>2
    <3> QED BY <3>2, <3>3
  <2>3. g = [q \in 0 .. m + 1 |-> g[q]]
    OBVIOUS
  <2> HIDE DEF g
  <2>4. g = [q \in 0 .. m + 1 |-> IF q > 9 THEN 1 + g[q \div 10] ELSE 1]
    BY <2>2, <2>3
  <2> QED BY <2>4
<1>3. T = Nat
  <2> HIDE DEF P
  <2>1. 0 \in T /\ \A m \in T : m + 1 \in T
    BY <1>1, <1>2
  <2> QED BY <2>1, Induct
<1> QED BY <1>3

LEMMA LenIs ==
  ASSUME NEW n \in Nat
  PROVE  /\ Nfmt_len(n) \in Nat \ {0}
         /\ Tens(n, Nfmt_len(n)) = 0
<1> DEFINE len == CHOOSE len : len = [q \in 0 .. n |-> IF q > 9 THEN 1 + len[q \div 10] ELSE 1]
<1>1. len = [q \in 0 .. n |-> IF q > 9 THEN 1 + len[q \div 10] ELSE 1]
  BY LenRuns
<1>2. Nfmt_len(n) = len[n]
  BY DEF Nfmt_len
<1> HIDE DEF len
<1>3. \A q \in 0 .. n : len[q] = IF q > 9 THEN 1 + len[q \div 10] ELSE 1
  BY <1>1
<1> DEFINE Good(q) == len[q] \in Nat \ {0} /\ Tens(q, len[q]) = 0
           T == {m \in Nat : \A q \in 0 .. m : q <= n => Good(q)}
<1>4. ASSUME NEW q \in 0 .. n, \A p \in 0 .. n : p < q => Good(p) PROVE Good(q)
  <2>1. CASE q > 9
    <3> DEFINE p == q \div 10
    <3>1. p \in 0 .. n /\ p < q /\ q \in Nat
      BY <2>1
    <3>2. len[q] = 1 + len[p]
      BY <1>3, <2>1
    <3>3. len[p] \in Nat \ {0} /\ Tens(p, len[p]) = 0
      BY <1>4, <3>1
    <3>4. len[q] = len[p] + 1
      BY <3>2, <3>3
    <3>5. Tens(q, len[p] + 1) = Tens(p, len[p])
      BY <3>1, <3>3, TensFirst
    <3> QED BY <3>3, <3>4, <3>5
  <2>2. CASE ~(q > 9)
    <3>1. len[q] = 1
      BY <1>3, <2>2
    <3>2. Tens(q, 0) = q /\ Tens(q, 0 + 1) = Tens(q, 0) \div 10
      <4>1. 0 \in Nat /\ q \in Nat
        OBVIOUS
      <4> QED BY <4>1, TensAre, TensStep
    <3>3. Tens(q, 1) = 0
      BY <2>2, <3>2
    <3> QED BY <3>1, <3>3
  <2> QED BY <2>1, <2>2
<1> HIDE DEF Good
<1>5. 0 \in T
  BY <1>4
<1>6. ASSUME NEW m \in T PROVE m + 1 \in T
  <2>1. m \in Nat /\ \A q \in 0 .. m : q <= n => Good(q)
    BY <1>6
  <2>2. ASSUME NEW q \in 0 .. m + 1, q <= n PROVE Good(q)
    <3>1. \A p \in 0 .. n : p < q => Good(p)
      BY <2>1
    <3>2. q \in 0 .. n
      BY <2>2
    <3> QED BY <1>4, <3>1, <3>2
  <2> QED BY <2>1, <2>2
<1>7. T = Nat
  <2> HIDE DEF T
  <2> QED BY <1>5, <1>6, Induct DEF T
<1>8. Good(n)
  BY <1>7
<1> QED BY <1>2, <1>8 DEF Good

\* A number is printed in digits that read back as that number.
LEMMA DigitsRead ==
  ASSUME NEW n \in Nat
  PROVE  Nfmt_uint32(n) # <<>> /\ Number(Nfmt_uint32(n)) = n
<1> DEFINE L == Nfmt_len(n)
           h == [k \in 0 .. L |-> Tens(n, k)]
           rest == CHOOSE rest : rest = [k \in 0 .. L |-> IF k = 0 THEN n ELSE rest[k - 1] \div 10]
           d == Nfmt_uint32(n)
<1>1. L \in Nat /\ L # 0 /\ Tens(n, L) = 0
  BY LenIs
<1>2. d = [k \in 1 .. L |-> rest[L - k] % 10]
  BY DEF Nfmt_uint32
<1> HIDE DEF L, d
<1>3. ASSUME NEW k \in Nat PROVE /\ Tens(n, k) \in Nat
                                 /\ Tens(n, k + 1) = Tens(n, k) \div 10
                                 /\ Tens(n, k) = 10 * Tens(n, k + 1) + (Tens(n, k) % 10)
  BY TensAre, TensStep
<1>4. Tens(n, 0) = n
  BY TensAre
<1>5. h = [k \in 0 .. L |-> IF k = 0 THEN n ELSE h[k - 1] \div 10]
  <2>1. ASSUME NEW k \in 0 .. L PROVE h[k] = IF k = 0 THEN n ELSE h[k - 1] \div 10
    <3>1. CASE k = 0
      BY <1>1, <1>4, <3>1
    <3>2. CASE k # 0
      <4>1. k - 1 \in 0 .. L /\ k - 1 \in Nat /\ (k - 1) + 1 = k
        BY <1>1, <3>2
      <4>2. Tens(n, (k - 1) + 1) = Tens(n, k - 1) \div 10
        BY <1>3, <4>1
      <4> QED BY <3>2, <4>1, <4>2
    <3> QED BY <3>1, <3>2
  <2>2. h = [k \in 0 .. L |-> h[k]]
    OBVIOUS
  <2> HIDE DEF h
  <2> QED BY <2>1, <2>2
<1>6. rest = [k \in 0 .. L |-> IF k = 0 THEN n ELSE rest[k - 1] \div 10]
  <2> HIDE DEF h
  <2>1. \E r : r = [k \in 0 .. L |-> IF k = 0 THEN n ELSE r[k - 1] \div 10]
    BY <1>5
  <2> QED BY <2>1
<1> HIDE DEF h, rest
<1>7. \A k \in 0 .. L : rest[k] = Tens(n, k)
  <2> DEFINE T == {k \in Nat : k \in 0 .. L => rest[k] = Tens(n, k)}
  <2>1. 0 \in T
    BY <1>1, <1>4, <1>6
  <2>2. ASSUME NEW k \in T PROVE k + 1 \in T
    <3>1. CASE k + 1 \in 0 .. L
      <4>1. k \in 0 .. L /\ k \in Nat /\ (k + 1) - 1 = k /\ k + 1 # 0
        BY <1>1, <3>1
      <4>2. rest[k] = Tens(n, k)
        BY <2>2, <4>1
      <4>3. rest[k + 1] = rest[k] \div 10
        BY <1>6, <3>1, <4>1
      <4>4. Tens(n, k + 1) = Tens(n, k) \div 10
        BY <1>3, <4>1
      <4> QED BY <4>2, <4>3, <4>4
    <3> QED BY <3>1
  <2>3. T = Nat
    <3> HIDE DEF T
    <3> QED BY <2>1, <2>2, Induct DEF T
  <2> QED BY <1>1, <2>3
<1>8. \A k \in 1 .. L : d[k] = Tens(n, L - k) % 10
  <2>1. \A k \in 1 .. L : L - k \in 0 .. L
    BY <1>1
  <2> QED BY <1>2, <1>7, <2>1
<1>9. Len(d) = L /\ d # <<>>
  BY <1>1, <1>2
<1> DEFINE w == [k \in 0 .. L |-> Tens(n, L - k)]
           v == CHOOSE v : v = [k \in 0 .. L |-> IF k = 0 THEN 0 ELSE 10 * v[k - 1] + d[k]]
<1>10. w = [k \in 0 .. L |-> IF k = 0 THEN 0 ELSE 10 * w[k - 1] + d[k]]
  <2>1. ASSUME NEW k \in 0 .. L PROVE w[k] = IF k = 0 THEN 0 ELSE 10 * w[k - 1] + d[k]
    <3>1. CASE k = 0
      <4>1. w[0] = Tens(n, L)
        BY <1>1
      <4> QED BY <1>1, <3>1, <4>1
    <3>2. CASE k # 0
      <4> DEFINE r == L - k
      <4>1. k \in 1 .. L /\ r \in Nat /\ r + 1 = L - (k - 1) /\ k - 1 \in 0 .. L
        BY <1>1, <3>2
      <4>2. w[k] = Tens(n, r) /\ w[k - 1] = Tens(n, r + 1) /\ d[k] = Tens(n, r) % 10
        BY <1>8, <4>1
      <4> HIDE DEF r, w
      <4>3. Tens(n, r) = 10 * Tens(n, r + 1) + (Tens(n, r) % 10)
        BY <1>3, <4>1
      <4> QED BY <3>2, <4>2, <4>3
    <3> QED BY <3>1, <3>2
  <2>2. w = [k \in 0 .. L |-> w[k]]
    OBVIOUS
  <2> HIDE DEF w
  <2> QED BY <2>1, <2>2
<1>11. v = [k \in 0 .. L |-> IF k = 0 THEN 0 ELSE 10 * v[k - 1] + d[k]]
  <2> HIDE DEF w
  <2>1. \E r : r = [k \in 0 .. L |-> IF k = 0 THEN 0 ELSE 10 * r[k - 1] + d[k]]
    BY <1>10
  <2> QED BY <2>1
<1>12. Number(d) = v[L]
  BY <1>9 DEF Number
<1> HIDE DEF v
<1>13. \A k \in 0 .. L : v[k] = w[k]
  <2> HIDE DEF w
  <2> DEFINE T == {k \in Nat : k \in 0 .. L => v[k] = w[k]}
  <2>1. 0 \in T
    BY <1>1, <1>10, <1>11
  <2>2. ASSUME NEW k \in T PROVE k + 1 \in T
    <3>1. CASE k + 1 \in 0 .. L
      <4>1. k \in 0 .. L /\ k \in Nat /\ (k + 1) - 1 = k /\ k + 1 # 0
        BY <1>1, <3>1
      <4>2. v[k] = w[k]
        BY <2>2, <4>1
      <4>3. v[k + 1] = 10 * v[k] + d[k + 1]
        BY <1>11, <3>1, <4>1
      <4>4. w[k + 1] = 10 * w[k] + d[k + 1]
        BY <1>10, <3>1, <4>1
      <4> QED BY <4>2, <4>3, <4>4
    <3> QED BY <3>1
  <2>3. T = Nat
    <3> HIDE DEF T
    <3> QED BY <2>1, <2>2, Induct DEF T
  <2> QED BY <1>1, <2>3
<1>14. w[L] = n
  BY <1>1, <1>4
<1>15. v[L] = n
  BY <1>1, <1>13, <1>14
<1> QED BY <1>9, <1>12, <1>15 DEF d

(***************************************************************************)
(* Uptimes.                                                                *)
(***************************************************************************)
\* tain_uptime() of an earlier and a later third of a second: rounded.
LEMMA Rounded ==
  ASSUME NEW a \in Nat, NEW b \in Nat, NEW r \in 0 .. 2, NEW s \in 0 .. 2, NEW t1, NEW t2,
         t1 = [sec |-> 1000000 + a, nsec |-> r * 333333333],
         t2 = [sec |-> 1000000 + b, nsec |-> s * 333333333],
         3 * a + r <= 3 * b + s
  PROVE  LET d == Tain_minus(t2, t1)
             u == d.sec + IF d.nsec > 500000000 THEN 1 ELSE 0
         IN u \in Nat /\ 3 * u - ((3 * b + s) - (3 * a + r)) \in -1 .. 1
<1> DEFINE d == Tain_minus(t2, t1)
           u == d.sec + IF d.nsec > 500000000 THEN 1 ELSE 0
<1>1. t1.sec = 1000000 + a /\ t1.nsec = r * 333333333
  BY SMT
<1>2. t2.sec = 1000000 + b /\ t2.nsec = s * 333333333
  BY SMT
<1>3. CASE s >= r
  <2>1. t2.nsec >= t1.nsec
    BY <1>1, <1>2, <1>3, SMT
  <2>2. d = [sec |-> t2.sec - t1.sec, nsec |-> t2.nsec - t1.nsec]
    BY <2>1, SMT DEF Tain_minus
  <2>3. d.sec = b - a /\ d.nsec = (s - r) * 333333333
    BY <1>1, <1>2, <2>2, SMT
  <2>4. b >= a
    BY <1>3, SMT
  <2> HIDE DEF d
  <2>5. u \in Nat /\ 3 * u - ((3 * b + s) - (3 * a + r)) \in -1 .. 1
    BY <1>3, <2>3, <2>4, SMT
  <2> HIDE DEF u
  <2> QED BY <2>5 DEF u, d
<1>4. CASE s < r
  <2>1. ~(t2.nsec >= t1.nsec)
    BY <1>1, <1>2, <1>4, SMT
  <2>2. d = [sec |-> t2.sec - t1.sec - 1, nsec |-> (Billion + t2.nsec) - t1.nsec]
    BY <2>1, SMT DEF Tain_minus
  <2>3. d.sec = b - a - 1 /\ d.nsec = 1000000000 - (r - s) * 333333333
    BY <1>1, <1>2, <2>2, SMT DEF Billion
  <2>4. b >= a + 1
    BY <1>4, SMT
  <2> HIDE DEF d
  <2>5. u \in Nat /\ 3 * u - ((3 * b + s) - (3 * a + r)) \in -1 .. 1
    BY <1>4, <2>3, <2>4, SMT
  <2> HIDE DEF u
  <2> QED BY <2>5 DEF u, d
<1> QED BY <1>3, <1>4, SMT

Apart(t, when) == IF when < t THEN t - when ELSE when - t

LEMMA UptimeIs ==
  ASSUME NEW t \in Nat, NEW when \in Nat
  PROVE  LET u == Tain_uptime(Tain(t), Tain(when))
         IN u \in Nat /\ 3 * u - Apart(t, when) \in -1 .. 1
<1> DEFINE a == when \div 3
           r == when % 3
           b == t \div 3
           s == t % 3
           t1 == Tain(when)
           t2 == Tain(t)
           u == Tain_uptime(t2, t1)
<1>1. /\ a \in Nat /\ b \in Nat /\ r \in 0 .. 2 /\ s \in 0 .. 2
      /\ when = 3 * a + r /\ t = 3 * b + s
  BY SMT
<1>2. /\ t1 = [sec |-> 1000000 + a, nsec |-> r * 333333333]
      /\ t2 = [sec |-> 1000000 + b, nsec |-> s * 333333333]
  BY SMT DEF Tain
<1> HIDE DEF a, b, r, s, t1, t2
<1>3. t1.sec = 1000000 + a /\ t1.nsec = r * 333333333 /\ t2.sec = 1000000 + b /\ t2.nsec = s * 333333333
  BY <1>2, SMT
<1>4. Tain_less(t1, t2) <=> when < t
  BY <1>1, <1>3, SMT DEF Tain_less
<1> DEFINE d1 == Tain_minus(t2, t1)
           d2 == Tain_minus(t1, t2)
           u1 == d1.sec + IF d1.nsec > 500000000 THEN 1 ELSE 0
           u2 == d2.sec + IF d2.nsec > 500000000 THEN 1 ELSE 0
<1>5. CASE when < t
  <2>1. u1 \in Nat /\ 3 * u1 - ((3 * b + s) - (3 * a + r)) \in -1 .. 1
    BY <1>1, <1>2, <1>5, SMT, Rounded
  <2>2. u = u1
    BY <1>4, <1>5, SMT DEF Tain_uptime
  <2>3. Apart(t, when) = (3 * b + s) - (3 * a + r)
    BY <1>1, <1>5, SMT DEF Apart
  <2> HIDE DEF u, u1
  <2>4. u \in Nat /\ 3 * u - Apart(t, when) \in -1 .. 1
    BY <2>1, <2>2, <2>3
  <2> QED BY <2>4 DEF u, t1, t2
<1>6. CASE ~(when < t)
  <2>1. u2 \in Nat /\ 3 * u2 - ((3 * a + r) - (3 * b + s)) \in -1 .. 1
    BY <1>1, <1>2, <1>6, SMT, Rounded
  <2>2. u = u2
    BY <1>4, <1>6, SMT DEF Tain_uptime
  <2>3. Apart(t, when) = (3 * a + r) - (3 * b + s)
    BY <1>1, <1>6, SMT DEF Apart
  <2> HIDE DEF u, u2
  <2>4. u \in Nat /\ 3 * u - Apart(t, when) \in -1 .. 1
    BY <2>1, <2>2, <2>3
  <2> QED BY <2>4 DEF u, t1, t2
<1> QED BY <1>5, <1>6

(***************************************************************************)
(* What is read of a packet.                                               *)
(***************************************************************************)
LEMMA HeadFlags ==
  ASSUME NEW b \in {0, 1}, NEW c \in {0, 1}, NEW d \in {0, 1}
  PROVE  LET x == 1 + 2 * b + 4 * c + 8 * d
         IN (x \div 2) % 2 = b /\ (x \div 4) % 2 = c
BY SMT

\* The flags of the service and both of its processes are read as sent.
LEMMA StatusRead ==
  ASSUME NEW e, NEW st \in Status, e.binstat = Exec_query(st)
  PROVE  /\ Has(e.binstat, 28, 2) = st.haslog /\ Has(e.binstat, 28, 4) = st.cull
         /\ st.main \in Sub /\ Svstat_main(e) = Sent(st.main)
         /\ st.haslog => st.log \in Sub /\ Svstat_log(e) = Sent(st.log)
<1> DEFINE b == Exec_query(st)
           x == Svdef_bitflags(st)
           h == Bit(st.haslog, 1)
           c == Bit(st.cull, 1)
           y == Bit(st.cycle, 1)
<1>1. /\ b \in Seq(Byte) /\ Len(b) = 66 /\ b[29] = x
      /\ At(b, 30, 18) = Subsv_bytes(st.main, FALSE)
      /\ st.haslog => At(b, 48, 18) = Subsv_bytes(st.log, TRUE)
  BY ExecIs
<1>2. /\ st.haslog \in BOOLEAN /\ st.cull \in BOOLEAN /\ st.cycle \in BOOLEAN
      /\ st.main \in Sub /\ st.log \in Sub
  BY DEF Status
<1>3. /\ Bit(st.haslog, 2) = 2 * h /\ h \in {0, 1} /\ (h = 1) = st.haslog
      /\ Bit(st.cull, 4) = 4 * c /\ c \in {0, 1} /\ (c = 1) = st.cull
      /\ Bit(st.cycle, 8) = 8 * y /\ y \in {0, 1}
  <2>1. 2 \in Nat /\ 4 \in Nat /\ 8 \in Nat
    OBVIOUS
  <2> QED BY <1>2, <2>1, BitIs
<1>4. x = 1 + 2 * h + 4 * c + 8 * y
  BY <1>3 DEF Svdef_bitflags
<1> HIDE DEF b, x, h, c, y
<1>5. (x \div 2) % 2 = h /\ (x \div 4) % 2 = c
  BY <1>3, <1>4, HeadFlags
<1>6. 28 + 1 = 29
  OBVIOUS
<1>7. Has(b, 28, 2) = st.haslog /\ Has(b, 28, 4) = st.cull
  BY <1>1, <1>3, <1>5, <1>6, Zenon DEF Has
<1>8. ASSUME NEW sub \in Sub, NEW islog \in BOOLEAN, NEW o \in Nat, o + 18 <= Len(b),
             At(b, o, 18) = Subsv_bytes(sub, islog)
      PROVE  Subsv_at(b, o, o + 4, o + 16) = Sent(sub)
  BY <1>1, <1>8, SubsvRead
<1>9. Subsv_at(b, 30, 34, 46) = Sent(st.main)
  <2>1. FALSE \in BOOLEAN /\ 30 \in Nat /\ 30 + 18 <= Len(b) /\ 30 + 4 = 34 /\ 30 + 16 = 46
    BY <1>1
  <2>2. Subsv_at(b, 30, 30 + 4, 30 + 16) = Sent(st.main)
    BY <1>1, <1>2, <1>8, <2>1
  <2> QED BY <2>1, <2>2
<1>10. ASSUME st.haslog PROVE Subsv_at(b, 48, 52, 64) = Sent(st.log)
  <2>1. TRUE \in BOOLEAN /\ 48 \in Nat /\ 48 + 18 <= Len(b) /\ 48 + 4 = 52 /\ 48 + 16 = 64
    BY <1>1
  <2>2. Subsv_at(b, 48, 48 + 4, 48 + 16) = Sent(st.log)
    BY <1>1, <1>2, <1>8, <1>10, <2>1
  <2> QED BY <2>1, <2>2
<1>11. e.binstat = b
  BY DEF b
<1> QED BY <1>2, <1>7, <1>9, <1>10, <1>11 DEF Svstat_main, Svstat_log

\* What a process sent looks like, at the time perpls compares it to.
LEMMA SentIs ==
  ASSUME NEW sub \in Sub, NEW t \in Nat
  PROVE  /\ Sent(sub).pid = sub.pid /\ Sent(sub).when = Tain(sub.when)
         /\ Sent(sub).isreset = sub.isreset /\ Sent(sub).isonce = sub.isonce
         /\ Sent(sub).ispaused = sub.ispaused /\ Sent(sub).wantdown = sub.wantdown
         /\ sub.pid \in Nat /\ sub.isreset \in BOOLEAN /\ sub.isonce \in BOOLEAN
         /\ sub.ispaused \in BOOLEAN /\ sub.wantdown \in BOOLEAN
         /\ Tain_uptime(Tain(t), Tain(sub.when)) \in Nat
         /\ 3 * Tain_uptime(Tain(t), Tain(sub.when)) - Apart(t, sub.when) \in -1 .. 1
<1>1. sub.pid \in Nat /\ sub.when \in Nat
  BY SubIs, BoundAssumption
<1>2. /\ Tain_uptime(Tain(t), Tain(sub.when)) \in Nat
      /\ 3 * Tain_uptime(Tain(t), Tain(sub.when)) - Apart(t, sub.when) \in -1 .. 1
  BY <1>1, UptimeIs
<1> QED BY <1>1, <1>2, SubIs DEF Sent

(***************************************************************************)
(* The inductive invariant of perpls.                                      *)
(***************************************************************************)
Kinds == {"none", "file", "plain", "unknown", "active"}
EntryType == [name : Names, kind : Kinds, sent : Status, binstat : Seq(Byte), uptime_main : Nat]

\* What is known of an active service is the packet of the status sent.
TypeInv ==
  /\ clock \in 0 .. Tmax /\ now \in 0 .. Tmax /\ changes \in 0 .. Changes
  /\ svc \in [Names -> Dir]
  /\ opt \in Options /\ pc \in {"list", "now", "query", "show", "done"}
  /\ list \in Seq(EntryType) /\ i \in 1 .. Len(list) + 1
  /\ \A k \in 1 .. Len(list) : list[k].kind = "active" => list[k].binstat = Exec_query(list[k].sent)

\* A listing of the directory has each service once, and from the sort on in
\* order, but for -t; services named on the command line are all there and, if
\* not sorted, where they were named.  Uptimes are 0 until the list is printed.
OnceEach(s) == \A j, k \in 1 .. Len(s) : s[j].name = s[k].name => j = k
InOrder(s, reversed) ==
  \A j, k \in 1 .. Len(s) : j < k => IF reversed THEN s[k].name < s[j].name ELSE s[j].name < s[k].name
AllNamed(s) ==
  Len(s) = Len(opt.args) /\ \A k \in 1 .. Len(s) : \E j \in 1 .. Len(s) : s[j].name = opt.args[k]
AsNamed(s) == Len(s) = Len(opt.args) /\ \A k \in 1 .. Len(s) : s[k].name = opt.args[k]
ListInv ==
  /\ pc \in {"list", "now"} => i = 1
  /\ pc = "list" => list = <<>>
  /\ opt.args = <<>> => OnceEach(list)
  /\ opt.args = <<>> /\ ~opt.t /\ pc \in {"show", "done"} => InOrder(list, opt.r)
  /\ opt.args # <<>> /\ pc # "list" => AllNamed(list)
  /\ opt.args # <<>> /\ ~opt.t /\ ~opt.r /\ pc # "list" => AsNamed(list)
  /\ \A k \in 1 .. Len(list) :
       IF pc = "done" THEN list[k].kind = "active" => list[k].uptime_main = Uptime_main(list[k])
       ELSE list[k].uptime_main = 0

\* What is printed is what the entries say at the time that was read.
OutInv == IF pc = "done" THEN out = [k \in 1 .. Len(list) |-> Line(list[k])] ELSE out = <<>>

IInv == TypeInv /\ ListInv /\ OutInv

(***************************************************************************)
(* The order of the listing.                                               *)
(***************************************************************************)
\* While uptimes are all 0 the order is by name.
LEMMA BeforeIs ==
  ASSUME NEW e \in EntryType, NEW f \in EntryType, e.uptime_main = 0, f.uptime_main = 0
  PROVE  Before(e, f) <=> e.name < f.name
<1>1. e.name \in Nat /\ f.name \in Nat
  BY NamesAssumption DEF EntryType
<1>2. ByName(e, f) <=> e.name < f.name
  BY DEF ByName
<1>3. ByUptime(e, f) <=> ByName(e, f)
  BY <1>1 DEF ByUptime
<1> QED BY <1>2, <1>3 DEF Before

\* dynstuf_sort() puts every entry in one place, and none after a larger one.
Permutes(P, n) == P \in [1 .. n -> 1 .. n] /\ \A j, k \in 1 .. n : P[j] = P[k] => j = k
LEMMA SortedIs ==
  ASSUME NEW n \in Nat, NEW s \in Seq(EntryType), Len(s) = n, \A k \in 1 .. n : s[k].uptime_main = 0
  PROVE  \E P : /\ Permutes(P, n)
                /\ Sorted(s) = [k \in 1 .. n |-> s[P[k]]]
                /\ \A j, k \in 1 .. n : j < k => s[P[j]].name <= s[P[k]].name
<1> DEFINE D == 1 .. n
           Prec(j, k) == Before(s[j], s[k]) \/ (j < k /\ ~Before(s[k], s[j]))
           Below(k) == {j \in D : Prec(j, k)}
           rank(k) == 1 + Cardinality(Below(k))
           R == [k \in D |-> rank(k)]
           P == [k \in D |-> CHOOSE j \in D : rank(j) = k]
<1>1. \A k \in D : s[k] \in EntryType /\ s[k].name \in Nat /\ s[k].uptime_main = 0
  <2>1. ASSUME NEW k \in D PROVE s[k] \in EntryType
    OBVIOUS
  <2> QED BY <2>1, NamesAssumption DEF EntryType
<1>2. ASSUME NEW j \in D, NEW k \in D
      PROVE  Prec(j, k) <=> s[j].name < s[k].name \/ (s[j].name = s[k].name /\ j < k)
  <2>1. Before(s[j], s[k]) <=> s[j].name < s[k].name
    BY <1>1, BeforeIs
  <2>2. Before(s[k], s[j]) <=> s[k].name < s[j].name
    BY <1>1, BeforeIs
  <2>3. s[j].name \in Nat /\ s[k].name \in Nat
    BY <1>1
  <2> QED BY <2>1, <2>2, <2>3
<1> HIDE DEF Prec
<1>3. IsFiniteSet(D) /\ Cardinality(D) = n
  <2>1. 1 \in Int /\ n \in Int /\ (IF 1 > n THEN 0 ELSE n - 1 + 1) = n
    OBVIOUS
  <2> QED BY <2>1, FS_Interval
<1> HIDE DEF D
<1>4. \A j, k \in D : j \in Nat /\ k \in Nat
  BY DEF D
<1>5. ASSUME NEW k \in D PROVE /\ Below(k) \subseteq D /\ k \notin Below(k) /\ IsFiniteSet(Below(k))
                               /\ Cardinality(Below(k)) \in Nat /\ Cardinality(Below(k)) < n
  <2>1. Below(k) \subseteq D /\ k \notin Below(k)
    BY <1>1, <1>2, <1>4
  <2> HIDE DEF Below
  <2>2. IsFiniteSet(Below(k)) /\ Cardinality(Below(k)) <= n /\ (Cardinality(Below(k)) = n => Below(k) = D)
    BY <1>3, <2>1, FS_Subset
  <2>3. Cardinality(Below(k)) \in Nat
    BY <2>2, FS_CardinalityType
  <2>4. Cardinality(Below(k)) # n
    BY <2>1, <2>2
  <2> QED BY <2>1, <2>2, <2>3, <2>4
<1>6. ASSUME NEW j \in D, NEW k \in D, Prec(j, k) PROVE rank(j) < rank(k)
  <2>1. Below(j) \subseteq Below(k)
    <3>1. ASSUME NEW m \in D, Prec(m, j) PROVE Prec(m, k)
      BY <1>1, <1>2, <1>4, <1>6, <3>1
    <3> QED BY <3>1
  <2>2. j \in Below(k)
    BY <1>6
  <2>3. j \notin Below(j)
    BY <1>5
  <2> HIDE DEF Below
  <2>4. /\ Cardinality(Below(j)) <= Cardinality(Below(k))
        /\ Cardinality(Below(j)) = Cardinality(Below(k)) => Below(j) = Below(k)
    BY <1>5, <2>1, FS_Subset
  <2>5. Cardinality(Below(j)) # Cardinality(Below(k))
    BY <2>2, <2>3, <2>4
  <2>6. Cardinality(Below(j)) \in Nat /\ Cardinality(Below(k)) \in Nat
    BY <1>5
  <2> QED BY <2>4, <2>5, <2>6
<1>7. \A k \in D : rank(k) \in D
  <2> HIDE DEF Below
  <2>1. ASSUME NEW k \in D PROVE rank(k) \in 1 .. n
    <3>1. Cardinality(Below(k)) \in Nat /\ Cardinality(Below(k)) < n
      BY <1>5
    <3> QED BY <3>1
  <2> QED BY <2>1 DEF D
<1> HIDE DEF rank
<1>8. ASSUME NEW j \in D, NEW k \in D, rank(j) = rank(k) PROVE j = k
  <2>1. CASE Prec(j, k)
    <3>1. rank(j) < rank(k)
      BY <1>6, <2>1
    <3> QED BY <1>4, <1>7, <1>8, <3>1
  <2>2. CASE Prec(k, j)
    <3>1. rank(k) < rank(j)
      BY <1>6, <2>2
    <3> QED BY <1>4, <1>7, <1>8, <3>1
  <2>3. CASE ~Prec(j, k) /\ ~Prec(k, j)
    BY <1>1, <1>2, <1>4, <2>3
  <2> QED BY <2>1, <2>2, <2>3
<1>9. \A k \in D : \E j \in D : rank(j) = k
  <2>1. R \in [D -> D]
    BY <1>7
  <2>2. R \in Injection(D, D)
    <3>1. \A j, k \in D : R[j] = R[k] => j = k
      BY <1>8
    <3> HIDE DEF R
    <3> QED BY <2>1, <3>1 DEF Injection, IsInjective
  <2> HIDE DEF R
  <2>3. R \in Surjection(D, D)
    BY <1>3, <2>2, FS_Injection
  <2>4. \A k \in D : \E j \in D : R[j] = k
    BY <2>3 DEF Surjection
  <2> QED BY <2>4 DEF R
<1>10. \A k \in D : P[k] \in D /\ rank(P[k]) = k
  BY <1>9
<1>11. P \in [D -> D]
  <2>1. \A k \in D : (CHOOSE j \in D : rank(j) = k) \in D
    BY <1>9
  <2> QED BY <2>1
<1>12. Sorted(s) = [k \in D |-> s[P[k]]]
  <2>1. Sorted(s) = [k \in D |-> s[CHOOSE j \in D : rank(j) = k]]
    BY DEF Sorted, D, rank, Prec
  <2> QED BY <2>1
<1> HIDE DEF P
<1>13. \A j, k \in D : P[j] = P[k] => j = k
  BY <1>10
<1>14. ASSUME NEW j \in D, NEW k \in D, j < k PROVE s[P[j]].name <= s[P[k]].name
  <2>1. P[j] \in D /\ P[k] \in D /\ rank(P[j]) = j /\ rank(P[k]) = k
    BY <1>10
  <2>2. ~Prec(P[k], P[j])
    <3>1. SUFFICES ASSUME Prec(P[k], P[j]) PROVE FALSE
      OBVIOUS
    <3>2. rank(P[k]) < rank(P[j])
      BY <1>6, <2>1, <3>1
    <3> QED BY <1>4, <1>14, <2>1, <3>2
  <2>3. ~(s[P[k]].name < s[P[j]].name)
    BY <1>2, <2>1, <2>2
  <2>4. s[P[k]].name \in Nat /\ s[P[j]].name \in Nat
    BY <1>1, <2>1
  <2> QED BY <2>3, <2>4
<1> QED BY <1>11, <1>12, <1>13, <1>14 DEF D, Permutes

Backwards(s) == [k \in 1 .. Len(s) |-> s[Len(s) + 1 - k]]

\* The list as it is shown: sorted or not, reversed or not.
LEMMA ShownIs ==
  ASSUME TypeInv, ListInv, pc # "done"
  PROVE  LET t == Reversed(Sort)
         IN /\ t \in Seq(EntryType) /\ Len(t) = Len(list)
            /\ \A k \in 1 .. Len(list) : \E j \in 1 .. Len(list) : t[k] = list[j]
            /\ \A j \in 1 .. Len(list) : \E k \in 1 .. Len(list) : t[k] = list[j]
            /\ opt.args = <<>> => InOrder(t, opt.r)
            /\ opt.args # <<>> /\ ~opt.t /\ ~opt.r => t = list
<1> DEFINE n == Len(list)
           t == Reversed(Sort)
<1>1. /\ n \in Nat /\ list \in Seq(EntryType) /\ list \in [1 .. n -> EntryType]
      /\ \A k \in 1 .. n : list[k].name \in Nat /\ list[k].uptime_main = 0
      /\ opt.t \in BOOLEAN /\ opt.r \in BOOLEAN
  <2>1. list \in Seq(EntryType) /\ n \in Nat /\ list \in [1 .. n -> EntryType]
    BY DEF TypeInv
  <2>2. \A k \in 1 .. n : list[k] \in EntryType
    BY <2>1
  <2>4. \A k \in 1 .. n : list[k].uptime_main = 0
    BY DEF ListInv
  <2> HIDE DEF n
  <2>3. \A k \in 1 .. n : list[k].name \in Nat /\ list[k].uptime_main = 0
    BY <2>2, <2>4, NamesAssumption DEF EntryType
  <2> QED BY <2>1, <2>3, OptionsAssumption DEF TypeInv
<1>2. \E P : /\ Permutes(P, n) /\ Sort = [k \in 1 .. n |-> list[P[k]]]
             /\ opt.args = <<>> => \A j, k \in 1 .. n : j < k => list[P[j]].name < list[P[k]].name
             /\ opt.args # <<>> /\ ~opt.t => Sort = list
  <2>1. CASE opt.t \/ opt.args = <<>>
    <3>1. Sort = Sorted(list)
      BY <2>1 DEF Sort
    <3>2. PICK P : /\ Permutes(P, n) /\ Sorted(list) = [k \in 1 .. n |-> list[P[k]]]
                   /\ \A j, k \in 1 .. n : j < k => list[P[j]].name <= list[P[k]].name
      BY <1>1, SortedIs
    <3> HIDE DEF n
    <3>3. ASSUME opt.args = <<>>, NEW j \in 1 .. n, NEW k \in 1 .. n, j < k
          PROVE  list[P[j]].name < list[P[k]].name
      <4>1. P[j] \in 1 .. n /\ P[k] \in 1 .. n /\ P[j] # P[k]
        BY <3>2, <3>3 DEF Permutes
      <4>2. list[P[j]].name # list[P[k]].name
        BY <3>3, <4>1 DEF ListInv, OnceEach, n
      <4>3. list[P[j]].name <= list[P[k]].name
        BY <3>2, <3>3
      <4> QED BY <1>1, <4>1, <4>2, <4>3
    <3> QED BY <2>1, <3>1, <3>2, <3>3
  <2>2. CASE ~opt.t /\ opt.args # <<>>
    <3> DEFINE P == [k \in 1 .. n |-> k]
    <3>1. Sort = list
      BY <2>2 DEF Sort
    <3> HIDE DEF n
    <3>2. Permutes(P, n) /\ list = [k \in 1 .. n |-> list[P[k]]]
      BY <1>1 DEF Permutes
    <3> HIDE DEF P
    <3> QED BY <2>2, <3>1, <3>2
  <2> QED BY <2>1, <2>2
<1>3. PICK P : /\ Permutes(P, n) /\ Sort = [k \in 1 .. n |-> list[P[k]]]
               /\ opt.args = <<>> => \A j, k \in 1 .. n : j < k => list[P[j]].name < list[P[k]].name
               /\ opt.args # <<>> /\ ~opt.t => Sort = list
  BY <1>2
<1> HIDE DEF n
<1>4. P \in [1 .. n -> 1 .. n]
  BY <1>3 DEF Permutes
<1>5. Sort \in [1 .. n -> EntryType] /\ \A k \in 1 .. n : Sort[k] = list[P[k]]
  <2>1. \A k \in 1 .. n : P[k] \in 1 .. n /\ list[P[k]] \in EntryType
    BY <1>1, <1>4
  <2> QED BY <1>3, <2>1
<1>6. Sort \in Seq(EntryType) /\ Len(Sort) = n
  <2> QED BY <1>1, <1>5
<1> DEFINE place(k) == IF opt.r THEN n + 1 - k ELSE k
<1>7. \A k \in 1 .. n : place(k) \in 1 .. n
  BY <1>1
<1>8. t = [k \in 1 .. n |-> Sort[place(k)]]
  <2>1. CASE opt.r
    BY <1>6, <2>1 DEF Reversed
  <2>2. CASE ~opt.r
    <3>1. t = Sort
      BY <2>2 DEF Reversed
    <3>2. Sort = [k \in 1 .. n |-> Sort[k]]
      BY <1>5
    <3> QED BY <2>2, <3>1, <3>2
  <2> QED BY <2>1, <2>2
<1>9. \A k \in 1 .. n : t[k] = list[P[place(k)]] /\ P[place(k)] \in 1 .. n
  <2> HIDE DEF place, t
  <2>1. ASSUME NEW k \in 1 .. n PROVE t[k] = list[P[place(k)]] /\ P[place(k)] \in 1 .. n
    <3>1. place(k) \in 1 .. n /\ t[k] = Sort[place(k)]
      BY <1>7, <1>8
    <3> QED BY <1>4, <1>5, <3>1
  <2> QED BY <2>1
<1>10. t \in Seq(EntryType) /\ Len(t) = n
  <2> HIDE DEF place, t
  <2>1. t \in [1 .. n -> EntryType]
    BY <1>5, <1>7, <1>8
  <2> QED BY <1>1, <2>1
<1>11. ASSUME opt.args = <<>> PROVE InOrder(t, opt.r)
  <2>1. \A j, k \in 1 .. n : j < k => list[P[j]].name < list[P[k]].name
    BY <1>3, <1>11
  <2> HIDE DEF t
  <2>2. ASSUME NEW j \in 1 .. n, NEW k \in 1 .. n, j < k
        PROVE  IF opt.r THEN t[k].name < t[j].name ELSE t[j].name < t[k].name
    <3>1. t[j] = list[P[place(j)]] /\ t[k] = list[P[place(k)]]
      BY <1>9
    <3>2. CASE opt.r
      <4>1. place(k) \in 1 .. n /\ place(j) \in 1 .. n /\ place(k) < place(j)
        BY <1>1, <2>2, <3>2
      <4> HIDE DEF place
      <4> QED BY <2>1, <3>1, <3>2, <4>1
    <3>3. CASE ~opt.r
      <4>1. place(k) \in 1 .. n /\ place(j) \in 1 .. n /\ place(j) < place(k)
        BY <1>1, <2>2, <3>3
      <4> HIDE DEF place
      <4> QED BY <2>1, <3>1, <3>3, <4>1
    <3> QED BY <3>2, <3>3
  <2> QED BY <1>10, <2>2 DEF InOrder
<1>12. ASSUME opt.args # <<>>, ~opt.t, ~opt.r PROVE t = list
  BY <1>3, <1>12 DEF Reversed
<1>14. ASSUME NEW j \in 1 .. n PROVE \E k \in 1 .. n : t[k] = list[j]
  <2>1. PICK m \in 1 .. n : P[m] = j
    <3>1. IsFiniteSet(1 .. n)
      <4>1. 1 \in Int /\ n \in Int
        BY <1>1
      <4> QED BY <4>1, FS_Interval
    <3>2. P \in Injection(1 .. n, 1 .. n)
      BY <1>3, <1>4 DEF Permutes, Injection, IsInjective
    <3>3. P \in Surjection(1 .. n, 1 .. n)
      BY <3>1, <3>2, FS_Injection
    <3> QED BY <3>3 DEF Surjection
  <2>2. place(m) \in 1 .. n /\ place(place(m)) = m
    BY <1>1
  <2> HIDE DEF place, t
  <2>3. t[place(m)] = list[P[place(place(m))]]
    BY <1>9, <2>2
  <2> QED BY <2>1, <2>2, <2>3
<1>13. /\ t \in Seq(EntryType) /\ Len(t) = n
       /\ \A k \in 1 .. n : \E j \in 1 .. n : t[k] = list[j]
       /\ \A j \in 1 .. n : \E k \in 1 .. n : t[k] = list[j]
       /\ opt.args = <<>> => InOrder(t, opt.r)
       /\ opt.args # <<>> /\ ~opt.t /\ ~opt.r => t = list
  <2> HIDE DEF place, t
  <2> QED BY <1>9, <1>10, <1>11, <1>12, <1>14
<1> HIDE DEF t
<1> QED BY <1>13 DEF n, t

(***************************************************************************)
(* The invariant is one.                                                   *)
(***************************************************************************)
LEMMA InitInv ==
  ASSUME Init
  PROVE  IInv
<1>1. svc \in [Names -> Dir] /\ opt \in Options /\ list = <<>> /\ i = 1 /\ pc = "list" /\ out = <<>>
      /\ clock = Tmax - 2 /\ now = 0 /\ changes = Changes
  BY StartsAssumption DEF Init
<1>2. Tmax \in Nat /\ 2 <= Tmax /\ Changes \in Nat
  BY BoundAssumption
<1>3. TypeInv
  BY <1>1, <1>2 DEF TypeInv
<1>4. ListInv
  BY <1>1 DEF ListInv, OnceEach
<1>5. OutInv
  BY <1>1 DEF OutInv
<1> QED BY <1>3, <1>4, <1>5 DEF IInv

\* What there is of a service.
LEMMA DirIs ==
  ASSUME TypeInv, NEW n \in Names
  PROVE  svc[n].kind \in Kinds /\ svc[n].st \in Status
BY DEF TypeInv, Dir, Kinds

\* An entry the listing starts from.
LEMMA EntryIs ==
  ASSUME TypeInv, NEW n \in Names
  PROVE  Entry(n) \in EntryType /\ Entry(n).name = n /\ Entry(n).kind = "plain" /\ Entry(n).uptime_main = 0
<1>1. svc[n].st \in Status
  BY DirIs
<1>2. <<>> \in Seq(Byte) /\ "plain" \in Kinds
  BY DEF Kinds
<1> QED BY <1>1, <1>2 DEF Entry, EntryType

LEMMA ListStep ==
  ASSUME IInv, List
  PROVE  IInv'
<1>0. TypeInv /\ ListInv /\ OutInv
  BY DEF IInv
<1>1. /\ pc = "list" /\ pc' = "now" /\ UNCHANGED <<clock, svc, opt, now, i, out, changes>>
      /\ i = 1 /\ out = <<>>
  BY <1>0 DEF List, ListInv, OutInv
<1>2. \E n \in Nat : \E f \in [1 .. n -> Names] :
        /\ list' = [k \in 1 .. n |-> Entry(f[k])]
        /\ opt.args = <<>> => \A j, k \in 1 .. n : f[j] = f[k] => j = k
        /\ opt.args # <<>> => n = Len(opt.args) /\ \A k \in 1 .. n : f[k] = opt.args[k]
  <2>1. CASE opt.args # <<>>
    <3> DEFINE n == Len(opt.args)
    <3>1. opt.args \in Seq(Names)
      BY <1>0, OptionsAssumption DEF TypeInv
    <3>2. n \in Nat /\ opt.args \in [1 .. n -> Names]
      BY <3>1
    <3>3. list' = [k \in 1 .. n |-> Entry(opt.args[k])]
      BY <2>1 DEF List
    <3> HIDE DEF n
    <3>4. n = Len(opt.args)
      BY DEF n
    <3> QED BY <2>1, <3>2, <3>3, <3>4
  <2>2. CASE opt.args = <<>>
    <3> DEFINE S == {n \in Names : svc[n].kind \notin {"none", "file"}}
               n == Cardinality(S)
    <3>1. S \in SUBSET Names /\ n \in Nat
      <4>1. S \in SUBSET Names
        OBVIOUS
      <4> HIDE DEF S
      <4>2. IsFiniteSet(S)
        BY <4>1, NamesAssumption, FS_Subset
      <4> QED BY <4>1, <4>2, FS_CardinalityType
    <3>2. PICK f \in Orders(S) : list' = [k \in DOMAIN f |-> Entry(f[k])]
      BY <2>2 DEF List
    <3> HIDE DEF S
    <3>3. f \in [1 .. n -> S] /\ \A j, k \in 1 .. n : f[j] = f[k] => j = k
      BY <3>2 DEF Orders
    <3>4. DOMAIN f = 1 .. n
      BY <3>3
    <3>5. list' = [k \in 1 .. n |-> Entry(f[k])]
      BY <3>2, <3>4
    <3> HIDE DEF n
    <3>6. f \in [1 .. n -> Names]
      BY <3>1, <3>3
    <3> QED BY <2>2, <3>1, <3>3, <3>5, <3>6
  <2> QED BY <2>1, <2>2
<1>9. PICK n \in Nat : \E f \in [1 .. n -> Names] :
        /\ list' = [k \in 1 .. n |-> Entry(f[k])]
        /\ opt.args = <<>> => \A j, k \in 1 .. n : f[j] = f[k] => j = k
        /\ opt.args # <<>> => n = Len(opt.args) /\ \A k \in 1 .. n : f[k] = opt.args[k]
  BY <1>2
<1>3. PICK f \in [1 .. n -> Names] :
        /\ list' = [k \in 1 .. n |-> Entry(f[k])]
        /\ opt.args = <<>> => \A j, k \in 1 .. n : f[j] = f[k] => j = k
        /\ opt.args # <<>> => n = Len(opt.args) /\ \A k \in 1 .. n : f[k] = opt.args[k]
  BY <1>9
<1>4. \A k \in 1 .. n : /\ Entry(f[k]) \in EntryType /\ Entry(f[k]).name = f[k]
                        /\ Entry(f[k]).kind = "plain" /\ Entry(f[k]).uptime_main = 0
  <2>1. \A k \in 1 .. n : f[k] \in Names
    OBVIOUS
  <2> QED BY <1>0, <2>1, EntryIs
<1>5. /\ list' \in Seq(EntryType) /\ Len(list') = n
      /\ \A k \in 1 .. n : list'[k].name = f[k] /\ list'[k].kind = "plain" /\ list'[k].uptime_main = 0
  <2>1. list' \in [1 .. n -> EntryType]
    BY <1>3, <1>4
  <2>2. \A k \in 1 .. n : list'[k] = Entry(f[k])
    BY <1>3
  <2>3. list' \in Seq(EntryType) /\ Len(list') = n
    BY <2>1
  <2> QED BY <1>4, <2>2, <2>3
<1>6. TypeInv'
  <2>1. i' \in 1 .. Len(list') + 1
    BY <1>1, <1>5
  <2>2. \A k \in 1 .. Len(list') : list'[k].kind = "active" => list'[k].binstat = Exec_query(list'[k].sent)
    BY <1>5
  <2> QED BY <1>0, <1>1, <1>5, <2>1, <2>2 DEF TypeInv
<1>7. ListInv'
  <2>1. opt.args = <<>> => \A j, k \in 1 .. Len(list') : list'[j].name = list'[k].name => j = k
    BY <1>3, <1>5
  <2>2. opt.args # <<>> => Len(list') = Len(opt.args) /\ \A k \in 1 .. Len(list') : list'[k].name = opt.args[k]
    BY <1>3, <1>5
  <2>3. \A k \in 1 .. Len(list') : list'[k].uptime_main = 0
    BY <1>5
  <2> QED BY <1>1, <2>1, <2>2, <2>3 DEF ListInv, OnceEach, AsNamed, AllNamed
<1>8. OutInv'
  BY <1>1 DEF OutInv
<1> QED BY <1>6, <1>7, <1>8 DEF IInv

LEMMA NowStep ==
  ASSUME IInv, Now
  PROVE  IInv'
<1>1. /\ pc = "now" /\ pc' = "query" /\ now' = clock
      /\ UNCHANGED <<clock, svc, opt, list, i, out, changes>>
      /\ TypeInv /\ ListInv /\ OutInv /\ out = <<>>
  BY DEF Now, IInv, OutInv
<1>2. TypeInv'
  BY <1>1 DEF TypeInv
<1>3. ListInv'
  BY <1>1 DEF ListInv, OnceEach, AsNamed, AllNamed
<1>4. OutInv'
  BY <1>1 DEF OutInv
<1> QED BY <1>2, <1>3, <1>4 DEF IInv

LEMMA QueryStep ==
  ASSUME IInv, Query
  PROVE  IInv'
<1>0. TypeInv /\ ListInv /\ OutInv
  BY DEF IInv
<1> DEFINE e == list[i]
           dir == svc[e.name]
           binstat == IF dir.kind = "active" THEN Exec_query(dir.st) ELSE e.binstat
           new == [e EXCEPT !.kind = dir.kind, !.sent = dir.st, !.binstat = binstat]
<1>1. /\ pc = "query" /\ i <= Len(list) /\ i' = i + 1 /\ list' = [list EXCEPT ![i] = new]
      /\ UNCHANGED <<clock, svc, opt, pc, now, out, changes>> /\ out = <<>>
  BY <1>0 DEF Query, Following, OutInv
<1>2. /\ list \in Seq(EntryType) /\ Len(list) \in Nat /\ i \in 1 .. Len(list) /\ e \in EntryType
  BY <1>0, <1>1 DEF TypeInv
<1>3. e.name \in Names /\ dir.kind \in Kinds /\ dir.st \in Status
  <2>1. e.name \in Names
    BY <1>2 DEF EntryType
  <2> QED BY <1>0, <2>1, DirIs
<1>4. /\ new \in EntryType /\ new.name = e.name /\ new.kind = dir.kind /\ new.sent = dir.st
      /\ new.uptime_main = e.uptime_main
      /\ new.kind = "active" => new.binstat = Exec_query(new.sent)
  <2>1. Exec_query(dir.st) \in Seq(Byte)
    BY <1>3, ExecIs
  <2> HIDE DEF dir
  <2>2. new \in EntryType
    BY <1>2, <1>3, <2>1 DEF EntryType
  <2>3. new.name = e.name /\ new.kind = dir.kind /\ new.sent = dir.st
        /\ new.uptime_main = e.uptime_main
        /\ (dir.kind = "active" => new.binstat = Exec_query(dir.st))
    BY <1>2 DEF EntryType
  <2> HIDE DEF new
  <2> QED BY <2>2, <2>3
<1> HIDE DEF new
<1>5. /\ list' \in Seq(EntryType) /\ Len(list') = Len(list)
      /\ \A k \in 1 .. Len(list) : list'[k] = IF k = i THEN new ELSE list[k]
  BY <1>1, <1>2, <1>4
<1>6. \A k \in 1 .. Len(list) : list'[k].name = list[k].name /\ list'[k].uptime_main = list[k].uptime_main
  BY <1>4, <1>5
<1>7. TypeInv'
  <2>1. \A k \in 1 .. Len(list') : list'[k].kind = "active" => list'[k].binstat = Exec_query(list'[k].sent)
    BY <1>0, <1>4, <1>5 DEF TypeInv
  <2>2. i' \in 1 .. Len(list') + 1
    BY <1>1, <1>2, <1>5
  <2> QED BY <1>0, <1>1, <1>5, <2>1, <2>2 DEF TypeInv
<1>8. ListInv'
  <2>1. opt.args = <<>> => \A j, k \in 1 .. Len(list') : list'[j].name = list'[k].name => j = k
    BY <1>0, <1>5, <1>6 DEF ListInv, OnceEach
  <2>2. opt.args # <<>> /\ ~opt.t /\ ~opt.r =>
          Len(list') = Len(opt.args) /\ \A k \in 1 .. Len(list') : list'[k].name = opt.args[k]
    BY <1>0, <1>1, <1>5, <1>6 DEF ListInv, AsNamed
  <2>3. opt.args # <<>> => /\ Len(list') = Len(opt.args)
                           /\ \A k \in 1 .. Len(list') : \E j \in 1 .. Len(list') : list'[j].name = opt.args[k]
    BY <1>0, <1>1, <1>5, <1>6 DEF ListInv, AllNamed
  <2>4. \A k \in 1 .. Len(list') : list'[k].uptime_main = 0
    BY <1>0, <1>1, <1>5, <1>6 DEF ListInv
  <2> QED BY <1>1, <2>1, <2>2, <2>3, <2>4 DEF ListInv, OnceEach, AsNamed, AllNamed
<1>9. OutInv'
  BY <1>1 DEF OutInv
<1> QED BY <1>7, <1>8, <1>9 DEF IInv

LEMMA ShowStep ==
  ASSUME IInv, Show
  PROVE  IInv'
<1>0. TypeInv /\ ListInv /\ OutInv
  BY DEF IInv
<1> DEFINE t == Reversed(Sort)
<1>1. /\ pc = "query" /\ pc' = "show" /\ i' = 1 /\ list' = t
      /\ UNCHANGED <<clock, svc, opt, now, out, changes>> /\ out = <<>>
  BY <1>0 DEF Show, OutInv
<1>2. /\ t \in Seq(EntryType) /\ Len(t) = Len(list) /\ Len(list) \in Nat
      /\ \A k \in 1 .. Len(list) : \E j \in 1 .. Len(list) : t[k] = list[j]
      /\ \A j \in 1 .. Len(list) : \E k \in 1 .. Len(list) : t[k] = list[j]
      /\ opt.args = <<>> => InOrder(t, opt.r)
      /\ opt.args # <<>> /\ ~opt.t /\ ~opt.r => t = list
  <2>1. Len(list) \in Nat /\ pc # "done"
    BY <1>0, <1>1 DEF TypeInv
  <2> QED BY <1>0, <2>1, ShownIs
<1> HIDE DEF t
<1>3. TypeInv'
  <2>1. ASSUME NEW k \in 1 .. Len(t), t[k].kind = "active" PROVE t[k].binstat = Exec_query(t[k].sent)
    <3>1. PICK j \in 1 .. Len(list) : t[k] = list[j]
      BY <1>2
    <3> QED BY <1>0, <2>1, <3>1 DEF TypeInv
  <2>2. 1 \in 1 .. Len(t) + 1
    BY <1>2
  <2> QED BY <1>0, <1>1, <1>2, <2>1, <2>2 DEF TypeInv
<1>4. ListInv'
  <2>1. opt.args = <<>> => OnceEach(t)
    <3>1. ASSUME opt.args = <<>>, NEW j \in 1 .. Len(t), NEW k \in 1 .. Len(t), t[j].name = t[k].name
          PROVE  j = k
      <4>1. InOrder(t, opt.r)
        BY <1>2, <3>1
      <4>2. t[j].name \in Nat /\ t[k].name \in Nat
        <5>1. t[j] \in EntryType /\ t[k] \in EntryType
          <6>1. ASSUME NEW s \in Seq(EntryType), NEW m \in 1 .. Len(s) PROVE s[m] \in EntryType
            OBVIOUS
          <6>2. t \in Seq(EntryType)
            BY <1>2
          <6> QED BY <6>1, <6>2
        <5> QED BY <5>1, NamesAssumption DEF EntryType
      <4>3. ~(j < k)
        BY <3>1, <4>1, <4>2 DEF InOrder
      <4>4. ~(k < j)
        BY <3>1, <4>1, <4>2 DEF InOrder
      <4>5. j \in Int /\ k \in Int
        OBVIOUS
      <4> QED BY <4>3, <4>4, <4>5
    <3> QED BY <3>1 DEF OnceEach
  <2>2. opt.args # <<>> /\ ~opt.t /\ ~opt.r => AsNamed(t)
    BY <1>0, <1>1, <1>2 DEF ListInv
  <2>3. /\ OnceEach(list)' = OnceEach(t) /\ InOrder(list, opt.r)' = InOrder(t, opt.r)
        /\ AsNamed(list)' = AsNamed(t) /\ AllNamed(list)' = AllNamed(t)
    BY <1>1 DEF OnceEach, InOrder, AsNamed, AllNamed
  <2>4. ASSUME opt.args # <<>> PROVE AllNamed(t)
    <3>1. AllNamed(list)
      BY <1>0, <1>1, <2>4 DEF ListInv
    <3>2. ASSUME NEW k \in 1 .. Len(t) PROVE \E j \in 1 .. Len(t) : t[j].name = opt.args[k]
      <4>1. PICK m \in 1 .. Len(list) : list[m].name = opt.args[k]
        BY <1>2, <3>1 DEF AllNamed
      <4>2. PICK j \in 1 .. Len(list) : t[j] = list[m]
        BY <1>2
      <4> QED BY <1>2, <4>1, <4>2
    <3> QED BY <1>2, <3>1, <3>2 DEF AllNamed
  <2>5. \A k \in 1 .. Len(t) : t[k].uptime_main = 0
    <3>1. \A j \in 1 .. Len(list) : list[j].uptime_main = 0
      BY <1>0, <1>1 DEF ListInv
    <3> QED BY <1>2, <3>1
  <2> QED BY <1>1, <1>2, <2>1, <2>2, <2>3, <2>4, <2>5 DEF ListInv
<1>5. OutInv'
  BY <1>1 DEF OutInv
<1> QED BY <1>3, <1>4, <1>5 DEF IInv

\* svstat_unpack() fills in the uptime of an active service and nothing else.
LEMMA UnpackedIs ==
  ASSUME NEW e \in EntryType, now \in Nat, e.kind = "active" => e.binstat = Exec_query(e.sent)
  PROVE  /\ Unpacked(e) \in EntryType /\ Unpacked(e).name = e.name /\ Unpacked(e).kind = e.kind
         /\ Unpacked(e).sent = e.sent /\ Unpacked(e).binstat = e.binstat
         /\ e.kind = "active" => Unpacked(e).uptime_main = Uptime_main(Unpacked(e))
<1>1. e.sent \in Status
  BY DEF EntryType
<1>2. CASE e.kind = "active"
  <2> DEFINE u == Uptime_main(e)
  <2>1. e.sent.main \in Sub /\ Svstat_main(e) = Sent(e.sent.main)
    BY <1>1, <1>2, StatusRead
  <2>2. u \in Nat
    BY <2>1, SentIs DEF Uptime_main
  <2> HIDE DEF u
  <2>3. Unpacked(e) = [e EXCEPT !.uptime_main = u]
    BY <1>2 DEF Unpacked, u
  <2> DEFINE f == [e EXCEPT !.uptime_main = u]
  <2>4. /\ f \in EntryType /\ f.name = e.name /\ f.kind = e.kind /\ f.sent = e.sent /\ f.binstat = e.binstat
        /\ f.uptime_main = u
    BY <2>2 DEF EntryType
  <2> HIDE DEF f
  <2>5. Uptime_main(f) = u
    BY <2>4 DEF Uptime_main, Svstat_main, u
  <2> QED BY <2>3, <2>4, <2>5 DEF f
<1>3. CASE e.kind # "active"
  <2>1. Unpacked(e) = [e EXCEPT !.uptime_main = e.uptime_main]
    BY <1>3 DEF Unpacked
  <2>2. Unpacked(e) = e
    BY <2>1 DEF EntryType
  <2> QED BY <1>3, <2>2
<1> QED BY <1>2, <1>3

LEMMA OutputStep ==
  ASSUME IInv, Output
  PROVE  IInv'
<1> DEFINE entries == [k \in 1 .. Len(list) |-> Unpacked(list[k])]
<1>1. /\ pc = "show" /\ pc' = "done" /\ list' = entries /\ out' = [k \in 1 .. Len(list) |-> Line(entries[k])]
      /\ UNCHANGED <<clock, svc, opt, now, i, changes>>
      /\ TypeInv /\ ListInv
  BY DEF Output, IInv
<1>2. /\ list \in Seq(EntryType) /\ Len(list) \in Nat
      /\ \A k \in 1 .. Len(list) : /\ list[k] \in EntryType
                                   /\ list[k].kind = "active" => list[k].binstat = Exec_query(list[k].sent)
  <2>1. list \in Seq(EntryType)
    BY <1>1 DEF TypeInv
  <2>2. Len(list) \in Nat /\ \A k \in 1 .. Len(list) : list[k] \in EntryType
    BY <2>1
  <2> QED BY <1>1, <2>1, <2>2 DEF TypeInv
<1>3. \A k \in 1 .. Len(list) :
        /\ entries[k] \in EntryType /\ entries[k].name = list[k].name /\ entries[k].kind = list[k].kind
        /\ entries[k].sent = list[k].sent /\ entries[k].binstat = list[k].binstat
        /\ entries[k].kind = "active" => entries[k].uptime_main = Uptime_main(entries[k])
  <2>1. now \in Nat
    BY <1>1, BoundAssumption DEF TypeInv
  <2>2. ASSUME NEW e \in EntryType, e.kind = "active" => e.binstat = Exec_query(e.sent)
        PROVE  /\ Unpacked(e) \in EntryType /\ Unpacked(e).name = e.name /\ Unpacked(e).kind = e.kind
               /\ Unpacked(e).sent = e.sent /\ Unpacked(e).binstat = e.binstat
               /\ e.kind = "active" => Unpacked(e).uptime_main = Uptime_main(Unpacked(e))
    BY <2>1, <2>2, UnpackedIs
  <2> QED BY <1>2, <2>2
<1>4. entries \in Seq(EntryType) /\ Len(entries) = Len(list)
  <2>1. entries \in [1 .. Len(list) -> EntryType]
    BY <1>3
  <2> HIDE DEF entries
  <2> QED BY <1>2, <2>1
<1> HIDE DEF entries
<1>5. /\ list' \in Seq(EntryType) /\ Len(list') = Len(list) /\ Len(list) \in Nat
      /\ \A k \in 1 .. Len(list) :
           /\ list'[k].name = list[k].name /\ list'[k].kind = list[k].kind
           /\ list'[k].sent = list[k].sent /\ list'[k].binstat = list[k].binstat
           /\ list'[k].kind = "active" => list'[k].uptime_main = Uptime_main(list'[k])
  BY <1>1, <1>2, <1>3, <1>4
<1>6. TypeInv'
  <2>1. \A k \in 1 .. Len(list') : list'[k].kind = "active" => list'[k].binstat = Exec_query(list'[k].sent)
    BY <1>2, <1>5
  <2>2. i' \in 1 .. Len(list') + 1
    BY <1>1, <1>5 DEF TypeInv
  <2> QED BY <1>1, <1>5, <2>1, <2>2 DEF TypeInv
<1>7. ListInv'
  <2>1. opt.args = <<>> => OnceEach(list)'
    BY <1>1, <1>5 DEF ListInv, OnceEach
  <2>2. opt.args = <<>> /\ ~opt.t => InOrder(list, opt.r)'
    BY <1>1, <1>5 DEF ListInv, InOrder
  <2>3. opt.args # <<>> => AllNamed(list)'
    BY <1>1, <1>5 DEF ListInv, AllNamed
  <2>4. opt.args # <<>> /\ ~opt.t /\ ~opt.r => AsNamed(list)'
    BY <1>1, <1>5 DEF ListInv, AsNamed
  <2>5. \A k \in 1 .. Len(list') : list'[k].kind = "active" => list'[k].uptime_main = Uptime_main(list[k])'
    BY <1>1, <1>5 DEF Uptime_main
  <2> QED BY <1>1, <2>1, <2>2, <2>3, <2>4, <2>5 DEF ListInv
<1>8. OutInv'
  <2>1. Padded' <=> Padded
    BY <1>5 DEF Padded
  <2>2. \A e : Line(e)' = Line(e)
    BY <1>1, <2>1 DEF Line, UseColor
  <2>3. [k \in 1 .. Len(list) |-> Line(list[k])]' = [k \in 1 .. Len(list) |-> Line(entries[k])]
    BY <1>1, <1>4, <2>2
  <2> QED BY <1>1, <2>3 DEF OutInv
<1> QED BY <1>6, <1>7, <1>8 DEF IInv

LEMMA ChangeStep ==
  ASSUME IInv, NEW n \in Names, Change(n)
  PROVE  IInv'
<1>1. /\ UNCHANGED <<opt, pc, now, list, i, out>> /\ pc # "done"
      /\ changes > 0 /\ changes' = changes - 1
      /\ clock' = IF clock < Tmax THEN clock + 1 ELSE clock
      /\ TypeInv /\ ListInv /\ OutInv
  BY DEF Change, IInv
<1>2. clock' \in 0 .. Tmax /\ changes' \in 0 .. Changes
  BY <1>1, BoundAssumption DEF TypeInv
<1>3. svc' \in [Names -> Dir]
  <2> DEFINE main == svc[n].st.main
  <2>1. svc \in [Names -> Dir] /\ svc[n] \in Dir /\ svc[n].st \in Status /\ main \in Sub
    BY <1>1 DEF TypeInv, Dir, Status
  <2>2. CASE svc' = [svc EXCEPT ![n].st.main = [main EXCEPT !.pid = Pid - main.pid, !.when = clock', !.isreset = FALSE]]
    <3> DEFINE new == [main EXCEPT !.pid = Pid - main.pid, !.when = clock', !.isreset = FALSE]
    <3>1. Pid - main.pid \in {0, Pid}
      <4>1. main.pid \in {0, Pid}
        BY <2>1 DEF Sub
      <4> QED BY <4>1, SMT DEF Pid
    <3>2. new \in Sub
      BY <1>2, <2>1, <3>1 DEF Sub
    <3>3. svc' = [svc EXCEPT ![n].st.main = new]
      BY <2>2
    <3> HIDE DEF new, main
    <3> QED BY <2>1, <3>2, <3>3 DEF Dir, Status
  <2>3. CASE svc' = [svc EXCEPT ![n].st.main.wantdown = ~@]
    BY <2>1, <2>3 DEF Dir, Status, Sub
  <2>4. CASE svc' = [svc EXCEPT ![n].kind = "unknown"]
    BY <2>1, <2>4 DEF Dir
  <2> QED BY <2>2, <2>3, <2>4 DEF Change
<1>4. TypeInv'
  BY <1>1, <1>2, <1>3 DEF TypeInv
<1>5. ListInv'
  BY <1>1 DEF ListInv, OnceEach, InOrder, AsNamed, AllNamed
<1>6. OutInv'
  BY <1>1 DEF OutInv
<1> QED BY <1>4, <1>5, <1>6 DEF IInv

LEMMA Stutter ==
  ASSUME IInv, UNCHANGED vars
  PROVE  IInv'
<1>1. TypeInv'
  BY DEF IInv, TypeInv, vars
<1>2. ListInv'
  BY DEF IInv, ListInv, OnceEach, InOrder, AsNamed, AllNamed, Uptime_main, vars
<1>3. OutInv'
  <2>1. \A e : Line(e)' = Line(e)
    BY DEF Line, Padded, UseColor, vars
  <2>2. [k \in 1 .. Len(list) |-> Line(list[k])]' = [k \in 1 .. Len(list) |-> Line(list[k])]
    BY <2>1 DEF vars
  <2> QED BY <2>2 DEF IInv, OutInv, vars
<1> QED BY <1>1, <1>2, <1>3 DEF IInv

LEMMA Invariant ==
  Spec => []IInv
<1>1. Init => IInv
  BY InitInv
<1>2. IInv /\ [Next]_vars => IInv'
  BY ListStep, NowStep, QueryStep, ShowStep, OutputStep, ChangeStep, Stutter DEF Next
<1> QED BY <1>1, <1>2, PTL DEF Spec

(***************************************************************************)
(* What is printed.                                                        *)
(***************************************************************************)
\* A line printed is of an entry of the list.
LEMMA LinesAre ==
  ASSUME IInv, NEW line \in Lines
  PROVE  \E k \in 1 .. Len(list) : line = Line(list[k])
<1>1. CASE pc = "done"
  <2>1. out = [k \in 1 .. Len(list) |-> Line(list[k])] /\ Len(list) \in Nat
    BY <1>1 DEF IInv, OutInv, TypeInv
  <2>2. Len(out) = Len(list)
    BY <2>1
  <2> QED BY <2>1, <2>2 DEF Lines
<1>2. CASE pc # "done"
  <2>1. out = <<>>
    BY <1>2 DEF IInv, OutInv
  <2> QED BY <2>1 DEF Lines
<1> QED BY <1>1, <1>2

LEMMA LineIs ==
  ASSUME NEW e
  PROVE  /\ Line(e).entry = e /\ Line(e).panel = Panel(e, Tain(now))
         /\ Line(e).attr = IF UseColor THEN Attr(opt.db, Setcap(Panel(e, Tain(now)))) ELSE <<"none", 0>>
BY DEF Line

\* The type invariant of the model.
LEMMA TypeHolds ==
  ASSUME IInv
  PROVE  TypeOK
<1>1. /\ list \in Seq(EntryType) /\ Len(list) \in Nat
      /\ \A k \in 1 .. Len(list) : list[k].kind = "active" => list[k].binstat = Exec_query(list[k].sent)
  BY DEF IInv, TypeInv
<1>2. ASSUME NEW k \in 1 .. Len(list)
      PROVE  /\ list[k].name \in Names /\ list[k].sent \in Status /\ list[k].uptime_main \in Nat
             /\ list[k].kind \in Kinds
             /\ list[k].binstat \in Seq(Byte)
             /\ list[k].kind = "active" => Len(list[k].binstat) = 66
  <2>1. list[k] \in EntryType
    BY <1>1
  <2>2. /\ list[k].name \in Names /\ list[k].sent \in Status /\ list[k].uptime_main \in Nat
        /\ list[k].kind \in Kinds /\ list[k].binstat \in Seq(Byte)
    BY <2>1 DEF EntryType
  <2>3. Len(Exec_query(list[k].sent)) = 66
    BY <2>2, ExecIs
  <2> QED BY <1>1, <2>2, <2>3
<1> QED BY <1>2 DEF IInv, TypeInv, TypeOK, Kinds, Byte

\* The listing.
LEMMA ListingHolds ==
  ASSUME IInv
  PROVE  Listing
<1> SUFFICES ASSUME pc = "done" PROVE Listing
  BY DEF Listing
<1>1. out = [k \in 1 .. Len(list) |-> Line(list[k])] /\ Len(list) \in Nat
  BY DEF IInv, OutInv, TypeInv
<1>2. Len(out) = Len(list) /\ \A k \in 1 .. Len(list) : out[k].entry = list[k]
  BY <1>1, LineIs
<1>3. /\ opt.args = <<>> => OnceEach(list)
      /\ opt.args = <<>> /\ ~opt.t => InOrder(list, opt.r)
      /\ opt.args # <<>> => AllNamed(list)
      /\ opt.args # <<>> /\ ~opt.t /\ ~opt.r => AsNamed(list)
  BY DEF IInv, ListInv
<1>4. \A k \in 1 .. Len(out) : Shown(k) = list[k].name
  BY <1>2 DEF Shown
<1>5. opt.args = <<>> => \A j, k \in 1 .. Len(out) : Shown(j) = Shown(k) => j = k
  BY <1>2, <1>3, <1>4 DEF OnceEach
<1>6. opt.args = <<>> /\ ~opt.t =>
        \A j, k \in 1 .. Len(out) : j < k => IF opt.r THEN Shown(k) < Shown(j) ELSE Shown(j) < Shown(k)
  BY <1>2, <1>3, <1>4 DEF InOrder
<1>7. opt.args # <<>> => /\ Len(out) = Len(opt.args)
                         /\ \A k \in 1 .. Len(out) : \E j \in 1 .. Len(out) : Shown(j) = opt.args[k]
  BY <1>2, <1>3, <1>4 DEF AllNamed
<1>8. opt.args # <<>> /\ ~opt.t /\ ~opt.r => \A k \in 1 .. Len(out) : Shown(k) = opt.args[k]
  BY <1>2, <1>3, <1>4 DEF AsNamed
<1> QED BY <1>5, <1>6, <1>7, <1>8 DEF Listing

\* What a triple and the head of a panel may say.
LEMMA TripleIs ==
  ASSUME NEW sub, NEW t
  PROVE  /\ Triple(sub, t) \in {"!", "+", "."} \X {"o", "+", "."} \X {"r", "p", "+", "."}
         /\ Triple(sub, t)[1] \in {"!", "+", "."} /\ Triple(sub, t)[2] \in {"o", "+", "."}
         /\ Triple(sub, t)[3] \in {"r", "p", "+", "."}
<1> DEFINE all == IF sub.pid # 0 THEN "+" ELSE "."
           first == IF Attention(sub) THEN "!" ELSE all
           t1 == <<first, all, all>>
           t2 == <<"!", ".", ".">>
           t3 == <<first, IF sub.isonce THEN "o" ELSE all,
                   IF sub.isreset THEN "r" ELSE IF sub.ispaused THEN "p" ELSE all>>
           good(x) == x \in {"!", "+", "."} \X {"o", "+", "."} \X {"r", "p", "+", "."}
<1>1. good(t1) /\ good(t2) /\ good(t3)
  OBVIOUS
<1>2. Triple(sub, t) = IF sub.pid = 0 THEN t1 ELSE IF Young(sub, t) THEN t2 ELSE t3
  BY DEF Triple
<1> HIDE DEF t1, t2, t3
<1>3. good(Triple(sub, t))
  BY <1>1, <1>2
<1> QED BY <1>3

LEMMA PanelIs ==
  ASSUME NEW e, NEW t, e.kind \in Kinds
  PROVE  LET p == Panel(e, t)
         IN /\ p.head \in {"E", "-", "+", "R", "!"}
            /\ p.head \in {"E", "-"} => p.main = Blank /\ p.log = Blank
            /\ p.main[1] \in {"!", "+", ".", "-"} /\ p.log[1] \in {"!", "+", ".", "-"}
<1> DEFINE p == Panel(e, t)
           shown == e.kind = "active"
           main == IF shown THEN Triple(Svstat_main(e), t) ELSE Blank
           log == IF shown /\ Has(e.binstat, 28, 2) THEN Triple(Svstat_log(e), t) ELSE Blank
<1>1. p = [head |-> Head1(e), main |-> main, log |-> log]
  BY DEF Panel
<1>2. p.head = Head1(e) /\ p.main = main /\ p.log = log
  BY <1>1
<1>3. Head1(e) \in {"E", "-", "+", "R", "!"} /\ (~shown => Head1(e) \in {"E", "-"})
      /\ (shown => Head1(e) \in {"+", "R", "!"})
  <2>1. CASE e.kind \in {"none", "file", "unknown"}
    <3>1. Head1(e) = "E"
      BY <2>1 DEF Head1
    <3> QED BY <2>1, <3>1
  <2>2. CASE e.kind = "plain"
    <3>1. Head1(e) = "-"
      BY <2>2 DEF Head1
    <3> QED BY <2>2, <3>1
  <2>3. CASE e.kind = "active"
    <3>1. Head1(e) = IF ~Has(e.binstat, 28, 4) THEN "+" ELSE IF Has(e.binstat, 28, 8) THEN "R" ELSE "!"
      BY <2>3 DEF Head1
    <3> QED BY <2>3, <3>1
  <2> QED BY <2>1, <2>2, <2>3 DEF Kinds
<1>4. Blank[1] = "-"
  BY DEF Blank
<1>5. main[1] \in {"!", "+", ".", "-"} /\ log[1] \in {"!", "+", ".", "-"}
  BY <1>4, TripleIs
<1>6. ~shown => main = Blank /\ log = Blank
  OBVIOUS
<1> HIDE DEF p, main, log
<1>7. /\ p.head \in {"E", "-", "+", "R", "!"}
      /\ p.head \in {"E", "-"} => p.main = Blank /\ p.log = Blank
      /\ p.main[1] \in {"!", "+", ".", "-"} /\ p.log[1] \in {"!", "+", ".", "-"}
  BY <1>2, <1>3, <1>5, <1>6
<1> QED BY <1>7 DEF p

\* A colour for trouble is chosen when, and only when, the panel shows some.
LEMMA SetcapIs ==
  ASSUME NEW p, p.head \in {"E", "-", "+", "R", "!"},
         p.head \in {"E", "-"} => p.main = Blank /\ p.log = Blank
  PROVE  /\ Setcap(p) \in Caps
         /\ Setcap(p) \in TroubleCaps <=> p.head \in {"E", "!", "R"} \/ p.main[1] = "!" \/ p.log[1] = "!"
<1>1. CASE p.head = "E"
  <2>1. Setcap(p) = "er"
    BY <1>1 DEF Setcap
  <2> QED BY <1>1, <2>1 DEF Caps, TroubleCaps
<1>2. CASE p.head \in {"!", "R"}
  <2>1. Setcap(p) = "ex"
    BY <1>2 DEF Setcap
  <2> QED BY <1>2, <2>1 DEF Caps, TroubleCaps
<1>3. CASE p.head = "-"
  <2>1. Setcap(p) = "na" /\ p.main[1] = "-" /\ p.log[1] = "-"
    BY <1>3 DEF Setcap, Blank
  <2> QED BY <1>3, <2>1 DEF Caps, TroubleCaps
<1>4. CASE p.head = "+"
  <2>1. Setcap(p) = IF p.main[1] = "!" THEN IF p.main[2] = "." THEN "wu" ELSE "wd"
                    ELSE IF p.log[1] = "!" THEN IF p.log[2] = "." THEN "wu" ELSE "wd"
                    ELSE IF p.main[2] = "." THEN "ad"
                    ELSE IF p.main[3] = "p" THEN "ap"
                    ELSE IF p.main[3] = "r" THEN "ar" ELSE "an"
    BY <1>4 DEF Setcap
  <2> QED BY <1>4, <2>1 DEF Caps, TroubleCaps
<1> QED BY <1>1, <1>2, <1>3, <1>4

LEMMA TroubleHolds ==
  ASSUME IInv
  PROVE  TroubleShows
<1> SUFFICES ASSUME NEW line \in Lines, Coloured
             PROVE  (line.attr[1] \in TroubleCaps) <=>
                    (line.panel.head \in {"E", "!", "R"} \/ line.panel.main[1] = "!" \/ line.panel.log[1] = "!")
  BY DEF TroubleShows
<1>1. PICK k \in 1 .. Len(list) : line = Line(list[k])
  BY LinesAre
<1> DEFINE p == Panel(list[k], Tain(now))
<1>2. list[k].kind \in Kinds
  <2>1. list[k] \in EntryType
    BY DEF IInv, TypeInv
  <2> QED BY <2>1 DEF EntryType
<1>3. /\ p.head \in {"E", "-", "+", "R", "!"}
      /\ p.head \in {"E", "-"} => p.main = Blank /\ p.log = Blank
  BY <1>2, PanelIs
<1>4. line.panel = p /\ line.attr = Attr(opt.db, Setcap(p))
  BY <1>1, LineIs DEF Coloured
<1> HIDE DEF p
<1>5. /\ Setcap(p) \in Caps
      /\ Setcap(p) \in TroubleCaps <=> p.head \in {"E", "!", "R"} \/ p.main[1] = "!" \/ p.log[1] = "!"
  BY <1>3, SetcapIs
<1>6. Attr(opt.db, Setcap(p))[1] = Setcap(p)
  BY <1>5 DEF Coloured, Attr
<1> QED BY <1>4, <1>5, <1>6

\* The listing is complete, each service once, and in order but for -t, of which
\* no order is claimed; it is coloured for trouble exactly where its panel shows
\* trouble (perpls main(), svstat_setcap()); the entries are what was read.
THEOREM ListingComplete == Spec => []ListingInv
<1>1. IInv => ListingInv
  BY TypeHolds, ListingHolds, TroubleHolds DEF ListingInv
<1> QED BY <1>1, Invariant, PTL

(***************************************************************************)
(* What the tools make of a packet.                                        *)
(***************************************************************************)
\* A process is up in the panel when there is one that is not a second young;
\* what each place of its triple then says.
UpIn(sub, t) == sub.pid # 0 /\ ~Young(sub, t)
Says(m, sub, t) ==
  /\ m[2] = "." <=> ~UpIn(sub, t)
  /\ m[2] \in {"+", "o"} <=> UpIn(sub, t)
  /\ m = <<"!", ".", ".">> <=> IF sub.pid = 0 THEN ~sub.wantdown ELSE ~UpIn(sub, t)
  /\ m[3] = "r" <=> UpIn(sub, t) /\ sub.isreset
  /\ m[3] = "p" <=> UpIn(sub, t) /\ sub.ispaused /\ ~sub.isreset
  /\ m[2] = "o" <=> UpIn(sub, t) /\ sub.isonce
  /\ UpIn(sub, t) /\ ~sub.wantdown => m[1] = "+"

LEMMA TripleSays ==
  ASSUME NEW sub, NEW t, sub.pid \in Nat, sub.wantdown \in BOOLEAN
  PROVE  Says(Triple(sub, t), sub, t)
<1> DEFINE m == Triple(sub, t)
           first(all) == IF Attention(sub) THEN "!" ELSE all
<1>1. CASE sub.pid = 0
  <2>1. m = <<first("."), ".", ".">>
    BY <1>1 DEF Triple
  <2>2. m[1] = first(".") /\ m[2] = "." /\ m[3] = "."
    BY <2>1
  <2>3. first(".") = "!" <=> ~sub.wantdown
    <3>1. CASE sub.wantdown = TRUE
      <4>1. ~Attention(sub)
        BY <1>1, <3>1 DEF Attention
      <4> QED BY <3>1, <4>1
    <3>2. CASE sub.wantdown = FALSE
      <4>1. Attention(sub)
        BY <1>1, <3>2 DEF Attention
      <4> QED BY <3>2, <4>1
    <3> QED BY <3>1, <3>2
  <2>4. m = <<"!", ".", ".">> <=> ~sub.wantdown
    BY <2>1, <2>3
  <2>5. ~UpIn(sub, t)
    BY <1>1 DEF UpIn
  <2> HIDE DEF m
  <2>6. Says(m, sub, t)
    BY <1>1, <2>2, <2>4, <2>5 DEF Says
  <2> QED BY <2>6 DEF m
<1>2. CASE sub.pid # 0 /\ Young(sub, t)
  <2>1. m = <<"!", ".", ".">>
    BY <1>2 DEF Triple
  <2>2. ~UpIn(sub, t)
    BY <1>2 DEF UpIn
  <2> HIDE DEF m
  <2>3. Says(m, sub, t)
    BY <1>2, <2>1, <2>2 DEF Says
  <2> QED BY <2>3 DEF m
<1>3. CASE sub.pid # 0 /\ ~Young(sub, t)
  <2>1. m = <<first("+"), IF sub.isonce THEN "o" ELSE "+",
              IF sub.isreset THEN "r" ELSE IF sub.ispaused THEN "p" ELSE "+">>
    BY <1>3 DEF Triple
  <2>2. /\ m[1] = first("+") /\ m[2] = IF sub.isonce THEN "o" ELSE "+"
        /\ m[3] = IF sub.isreset THEN "r" ELSE IF sub.ispaused THEN "p" ELSE "+"
    BY <2>1
  <2>3. ~sub.wantdown => m[1] = "+"
    <3>1. ASSUME sub.wantdown = FALSE PROVE ~Attention(sub)
      BY <1>3, <3>1 DEF Attention
    <3> QED BY <2>2, <3>1
  <2>4. UpIn(sub, t)
    BY <1>3 DEF UpIn
  <2> HIDE DEF m
  <2>5. m # <<"!", ".", ".">>
    BY <2>2
  <2>6. Says(m, sub, t)
    BY <1>3, <2>2, <2>3, <2>4, <2>5 DEF Says
  <2> QED BY <2>6 DEF m
<1> QED BY <1>1, <1>2, <1>3

\* perpstat reads the packet as perpls does.
LEMMA ReportIs ==
  ASSUME NEW b, NEW t, NEW sub, sub = Subsv_at(b, 30, 34, 46)
  PROVE  LET rep == Report(b, t)
         IN /\ rep.state = IF ~UpIn(sub, t) THEN "down" ELSE IF sub.isreset THEN "resetting" ELSE "up"
            /\ rep.secs = Tain_uptime(t, sub.when)
            /\ rep.wantup = IF sub.pid = 0 THEN ~sub.wantdown ELSE ~UpIn(sub, t)
BY DEF Report, UpIn

\* perpok reads some of the same fields.
LEMMA PerpokIs ==
  ASSUME NEW e, NEW t, NEW secs \in Nat, secs > 0, Perpok(e, t, secs),
         NEW sub, sub = Subsv_at(e.binstat, 30, 34, 46)
  PROVE  /\ sub.pid > 0 /\ ~sub.isreset /\ ~sub.wantdown /\ Tain_uptime(t, sub.when) >= secs
BY DEF Perpok, Subsv_at

LEMMA AgreeHolds ==
  ASSUME IInv
  PROVE  ToolsAgree
<1> SUFFICES ASSUME NEW line \in Lines, line.entry.kind = "active"
             PROVE  LET rep == Report(line.entry.binstat, Tain(now))
                        main == line.panel.main
                    IN /\ rep.state = "down" <=> main[2] = "."
                       /\ rep.wantup <=> main = <<"!", ".", ".">>
                       /\ rep.state = "resetting" <=> main[3] = "r"
                       /\ \A secs \in 1 .. Tmax : Perpok(line.entry, Tain(now), secs) =>
                            rep.state = "up" /\ rep.secs >= secs /\ main[1] = "+" /\ main[3] # "r"
  BY DEF ToolsAgree
<1>1. PICK k \in 1 .. Len(list) : line = Line(list[k])
  BY LinesAre
<1> DEFINE e == list[k]
           t == Tain(now)
           rep == Report(e.binstat, t)
           main == line.panel.main
           sub == Subsv_at(e.binstat, 30, 34, 46)
<1>2. line.entry = e /\ line.panel = Panel(e, t)
  BY <1>1, LineIs
<1>3. e.kind = "active" /\ e.binstat = Exec_query(e.sent) /\ e.sent \in Status
  <2>1. e \in EntryType /\ (e.kind = "active" => e.binstat = Exec_query(e.sent))
    BY DEF IInv, TypeInv
  <2> QED BY <1>2, <2>1 DEF EntryType
<1>4. e.sent.main \in Sub /\ sub = Sent(e.sent.main)
  BY <1>3, StatusRead DEF Svstat_main
<1>5. now \in Nat
  BY BoundAssumption DEF IInv, TypeInv
<1>6. /\ sub.pid \in Nat /\ sub.wantdown \in BOOLEAN /\ sub.isreset \in BOOLEAN
      /\ Tain_uptime(t, sub.when) \in Nat
  BY <1>4, <1>5, SentIs
<1>7. main = Triple(sub, t)
  BY <1>2, <1>3 DEF Panel, Svstat_main
<1> HIDE DEF e, t, sub, main
<1>8. Says(main, sub, t)
  BY <1>6, <1>7, TripleSays
<1>9. /\ rep.state = IF ~UpIn(sub, t) THEN "down" ELSE IF sub.isreset THEN "resetting" ELSE "up"
      /\ rep.secs = Tain_uptime(t, sub.when)
      /\ rep.wantup = IF sub.pid = 0 THEN ~sub.wantdown ELSE ~UpIn(sub, t)
  BY ReportIs DEF sub
<1> HIDE DEF rep
<1>10. rep.state = "down" <=> main[2] = "."
  BY <1>8, <1>9 DEF Says
<1>11. rep.wantup <=> main = <<"!", ".", ".">>
  BY <1>8, <1>9, Zenon DEF Says
<1>12. rep.state = "resetting" <=> main[3] = "r"
  BY <1>8, <1>9 DEF Says
<1>13. ASSUME NEW secs \in 1 .. Tmax, Perpok(e, t, secs)
       PROVE  rep.state = "up" /\ rep.secs >= secs /\ main[1] = "+" /\ main[3] # "r"
  <2>1. secs \in Nat /\ secs > 0
    BY BoundAssumption
  <2>2. /\ sub.pid > 0 /\ ~sub.isreset /\ ~sub.wantdown /\ Tain_uptime(t, sub.when) >= secs
    BY <1>13, <2>1, PerpokIs DEF sub
  <2>3. UpIn(sub, t)
    BY <1>6, <2>1, <2>2 DEF UpIn, Young
  <2> QED BY <1>8, <1>9, <2>2, <2>3 DEF Says
<1> QED BY <1>2, <1>10, <1>11, <1>12, <1>13 DEF rep, e, t, main

\* perpls, perpstat and perpok make the same of a status: what is down, what
\* wants attention, what resets, and how long a service has been up
\* (svstat_unpack(), report(), perpok's main()).
THEOREM ToolsTellTheSame == Spec => []ToolsAgree
<1>1. IInv => ToolsAgree
  BY AgreeHolds
<1> QED BY <1>1, Invariant, PTL

\* The numbers printed beside a triple, if it is up and the service is not
\* being deactivated.
Numbers(triple, sub) ==
  IF triple[2] \in {"+", "o"}
  THEN [pid |-> Nfmt_uint32(sub.pid), uptime |-> Nfmt_uint32(Tain_uptime(Tain(now), sub.when))]
  ELSE [pid |-> <<>>, uptime |-> <<>>]

LEMMA NumbersShow ==
  ASSUME NEW sub \in Sub, now \in Nat
  PROVE  LET m == Triple(Sent(sub), Tain(now)) IN Shows(Numbers(m, Sent(sub)), m, sub)
<1> DEFINE p == Sent(sub)
           t == Tain(now)
           m == Triple(p, t)
           numbers == Numbers(m, p)
           u == Tain_uptime(t, Tain(sub.when))
<1>1. /\ p.pid = sub.pid /\ p.when = Tain(sub.when)
      /\ p.isreset = sub.isreset /\ p.isonce = sub.isonce
      /\ p.ispaused = sub.ispaused /\ p.wantdown = sub.wantdown
      /\ sub.pid \in Nat /\ sub.isreset \in BOOLEAN /\ sub.isonce \in BOOLEAN
      /\ sub.ispaused \in BOOLEAN /\ sub.wantdown \in BOOLEAN
      /\ u \in Nat /\ 3 * u - Apart(now, sub.when) \in -1 .. 1
  BY SentIs
<1> HIDE DEF p, t
<1>2. Says(m, p, t)
  BY <1>1, TripleSays
<1>3. m[2] \in {"+", "o"} <=> UpIn(p, t)
  BY <1>2 DEF Says
<1> HIDE DEF m
<1>4. /\ m[2] \in {"+", "o"} => numbers.pid = Nfmt_uint32(sub.pid) /\ numbers.uptime = Nfmt_uint32(u)
      /\ m[2] \notin {"+", "o"} => numbers.pid = <<>>
  BY <1>1 DEF Numbers, t
<1> HIDE DEF numbers, u
<1>5. /\ Nfmt_uint32(sub.pid) # <<>> /\ Number(Nfmt_uint32(sub.pid)) = sub.pid
      /\ Number(Nfmt_uint32(u)) = u
  BY <1>1, DigitsRead
<1>6. numbers.pid # <<>> <=> UpIn(p, t)
  BY <1>3, <1>4, <1>5
<1>7. Thirds(sub.when) = Apart(now, sub.when)
  BY DEF Thirds, Apart
<1>8. numbers.pid # <<>> => /\ Number(numbers.pid) = sub.pid
                            /\ 3 * Number(numbers.uptime) - Thirds(sub.when) \in -1 .. 1
  <2>1. ASSUME numbers.pid # <<>> PROVE numbers.pid = Nfmt_uint32(sub.pid) /\ numbers.uptime = Nfmt_uint32(u)
    BY <1>4, <2>1
  <2>2. 3 * u - Thirds(sub.when) \in -1 .. 1
    BY <1>1, <1>7
  <2> QED BY <1>5, <2>1, <2>2
<1>9. m[2] = "o" <=> sub.isonce /\ numbers.pid # <<>>
  BY <1>1, <1>2, <1>6 DEF Says
<1>10. m[3] = "p" <=> sub.ispaused /\ ~sub.isreset /\ numbers.pid # <<>>
  BY <1>1, <1>2, <1>6 DEF Says
<1>11. Shows(numbers, m, sub)
  BY <1>8, <1>9, <1>10 DEF Shows
<1> QED BY <1>11 DEF numbers, m, p, t

LEMMA LineNumbers ==
  ASSUME NEW e, Panel(e, Tain(now)).head = "+", e.uptime_main = Uptime_main(e)
  PROVE  /\ Line(e).main = Numbers(Panel(e, Tain(now)).main, Svstat_main(e))
         /\ Line(e).log = Numbers(Panel(e, Tain(now)).log, Svstat_log(e))
BY DEF Line, Numbers, Uptime_main

LEMMA ShownHolds ==
  ASSUME IInv
  PROVE  ShownIsSent
<1> SUFFICES ASSUME NEW line \in Lines, line.entry.kind = "active", ~line.entry.sent.cull
             PROVE  /\ line.panel.head = "+"
                    /\ Shows(line.main, line.panel.main, line.entry.sent.main)
                    /\ line.entry.sent.haslog => Shows(line.log, line.panel.log, line.entry.sent.log)
  BY DEF ShownIsSent
<1>1. PICK k \in 1 .. Len(list) : line = Line(list[k])
  BY LinesAre
<1> DEFINE e == list[k]
           t == Tain(now)
           p == Panel(e, t)
<1>2. line.entry = e /\ line.panel = p
  BY <1>1, LineIs
<1>3. e.kind = "active" /\ ~e.sent.cull /\ e.binstat = Exec_query(e.sent) /\ e.sent \in Status
  <2>1. e \in EntryType /\ (e.kind = "active" => e.binstat = Exec_query(e.sent))
    BY DEF IInv, TypeInv
  <2> QED BY <1>2, <2>1 DEF EntryType
<1>4. now \in Nat
  BY BoundAssumption DEF IInv, TypeInv
<1>10. pc = "done"
  BY DEF IInv, OutInv, Lines
<1>5. /\ Has(e.binstat, 28, 2) = e.sent.haslog /\ ~Has(e.binstat, 28, 4)
      /\ e.sent.main \in Sub /\ Svstat_main(e) = Sent(e.sent.main)
      /\ e.sent.haslog => e.sent.log \in Sub /\ Svstat_log(e) = Sent(e.sent.log)
  BY <1>3, StatusRead
<1> HIDE DEF e
<1>6. p.head = "+" /\ p.main = Triple(Svstat_main(e), t)
      /\ (e.sent.haslog => p.log = Triple(Svstat_log(e), t))
  BY <1>3, <1>5 DEF Panel, Head1
<1>7. line.main = Numbers(p.main, Svstat_main(e)) /\ line.log = Numbers(p.log, Svstat_log(e))
  <2>1. e.uptime_main = Uptime_main(e)
    BY <1>3, <1>10 DEF IInv, ListInv, e
  <2> QED BY <1>1, <1>6, <2>1, LineNumbers DEF e
<1>8. Shows(line.main, p.main, e.sent.main)
  BY <1>4, <1>5, <1>6, <1>7, NumbersShow
<1>9. ASSUME e.sent.haslog PROVE Shows(line.log, p.log, e.sent.log)
  BY <1>4, <1>5, <1>6, <1>7, <1>9, NumbersShow
<1> QED BY <1>2, <1>6, <1>8, <1>9

\* What perpls prints is what perpd sent: pids and uptimes come through the
\* packet, the time arithmetic and the decimal digits unharmed, and are those
\* of the process they stand beside (perpd_conn_exec_query(), svstat_unpack(),
\* tain_uptime(), nfmt_uint32()).
THEOREM ShownAsSent == Spec => []ShownIsSent
<1>1. IInv => ShownIsSent
  BY ShownHolds
<1> QED BY <1>1, Invariant, PTL
=============================================================================
